--------------------------- MODULE ServicesProofs ---------------------------
(***************************************************************************)
(* Theorems about two services of the process: the operation log (OperLog) *)
(* for any channel and batch size, number of attempts, overflow strategy,  *)
(* requests and faults, and the database sessions (DBPool) for every set   *)
(* of sessions, every pool size and every number of faults.                *)
(***************************************************************************)
EXTENDS OperLog, DBPool, FiniteSetTheorems, TLAPS

-----------------------------------------------------------------------------
(* The elements of sequences. *)

\* What a sequence contains: nothing when it is empty,
LEMMA RangeEmpty == Range(<<>>) = {}
  BY DEF Range

\* one element more after an append,
LEMMA RangeAppend ==
  ASSUME NEW S, NEW s \in Seq(S), NEW x \in S
  PROVE  Range(Append(s, x)) = Range(s) \cup {x}
<1>1. Append(s, x) \in Seq(S) /\ Len(Append(s, x)) = Len(s) + 1
  OBVIOUS
<1>2. \A i \in 1..Len(s) : Append(s, x)[i] = s[i]
  OBVIOUS
<1>3. Append(s, x)[Len(s) + 1] = x
  OBVIOUS
<1>4. DOMAIN s = 1..Len(s) /\ DOMAIN Append(s, x) = 1..(Len(s) + 1) /\ Len(s) \in Nat
  BY <1>1
<1>5. 1..(Len(s) + 1) = 1..Len(s) \cup {Len(s) + 1}
  BY <1>4
<1> DEFINE u == Append(s, x)  n == Len(s) + 1
<1>6. DOMAIN u = DOMAIN s \cup {n} /\ u[n] = x /\ \A i \in DOMAIN s : u[i] = s[i]
  BY <1>2, <1>3, <1>4, <1>5, Zenon
<1> HIDE DEF u, n
<1>7. Range(u) \subseteq Range(s) \cup {x} /\ Range(s) \cup {x} \subseteq Range(u)
  BY <1>6 DEF Range
<1> QED
  BY <1>7, Zenon DEF u

\* its head and what its tail contains,
LEMMA RangeTail ==
  ASSUME NEW S, NEW s \in Seq(S), s # <<>>
  PROVE  Range(s) = {Head(s)} \cup Range(Tail(s))
<1>1. Len(s) \in Nat \ {0} /\ DOMAIN s = 1..Len(s) /\ DOMAIN Tail(s) = 1..(Len(s) - 1)
  OBVIOUS
<1>2. \A i \in 1..(Len(s) - 1) : Tail(s)[i] = s[i + 1]
  OBVIOUS
<1>3. Head(s) = s[1]
  OBVIOUS
<1>4. ASSUME NEW x \in Range(s), x # Head(s)
      PROVE  x \in Range(Tail(s))
  <2>1. PICK i \in 1..Len(s) : x = s[i]
    BY <1>1 DEF Range
  <2>2. i - 1 \in 1..(Len(s) - 1) /\ (i - 1) + 1 = i
    BY <1>1, <1>3, <1>4, <2>1
  <2>3. x = Tail(s)[i - 1]
    BY <1>2, <2>1, <2>2
  <2> QED
    BY <1>1, <2>2, <2>3, Zenon DEF Range
<1>5. Head(s) \in Range(s)
  BY <1>1, <1>3 DEF Range
<1>6. \A i \in 1..(Len(s) - 1) : i + 1 \in 1..Len(s)
  BY <1>1
<1>7. Range(Tail(s)) \subseteq Range(s)
  BY <1>1, <1>2, <1>6, Zenon DEF Range
<1> QED
  BY <1>4, <1>5, <1>7

\* and at least what its two parts contain.
LEMMA RangeConcat ==
  ASSUME NEW S, NEW s \in Seq(S), NEW t \in Seq(S)
  PROVE  Range(s) \cup Range(t) \subseteq Range(s \o t)
<1>1. /\ Len(s) \in Nat /\ Len(t) \in Nat
      /\ DOMAIN s = 1..Len(s) /\ DOMAIN t = 1..Len(t)
      /\ DOMAIN (s \o t) = 1..(Len(s) + Len(t))
  OBVIOUS
<1>2. \A i \in 1..Len(s) : i \in 1..(Len(s) + Len(t)) /\ (s \o t)[i] = s[i]
  BY <1>1
<1>3. \A i \in 1..Len(t) : Len(s) + i \in 1..(Len(s) + Len(t)) /\ (s \o t)[Len(s) + i] = t[i]
  BY <1>1
<1>4. Range(s) \subseteq Range(s \o t)
  BY <1>1, <1>2, Zenon DEF Range
<1>5. Range(t) \subseteq Range(s \o t)
  BY <1>1, <1>3, Zenon DEF Range
<1> QED
  BY <1>4, <1>5

-----------------------------------------------------------------------------
(* The inductive invariant. *)

\* A worker that waits for entries has room in its batch.
BatchRoom == worker.pc \in {"select", "drain"} => Len(worker.batch) < BatchSize

\* What is about to be invalidated is in the table.
Inserted ==
  /\ worker.pc = "invalidate" => Range(worker.batch) \subseteq Range(table)
  /\ \A e \in Entries : writer[e] = "invalidate" => e \in Range(table)

LogInv == TypeOK /\ BatchRoom /\ Inserted /\ Accounted

\* The invariant holds when the service starts.
LEMMA LogInit == Init => LogInv
<1> SUFFICES ASSUME Init PROVE LogInv
  OBVIOUS
<1> USE ConstantsAssumption
<1>1. TypeOK
  BY DEF Init, TypeOK, IdleReader, WorkerStates, ReaderStates
<1>2. BatchRoom
  BY DEF Init, BatchRoom
<1>3. Inserted /\ Accounted
  BY DEF Init, Inserted, Accounted
<1> QED
  BY <1>1, <1>2, <1>3 DEF LogInv

\* The generation counter and the cached totals stay in range when a write
\* invalidates them.
LEMMA InvalidateTyped ==
  ASSUME TypeOK, Invalidate
  PROVE  gen' \in Nat /\ gen <= gen' /\ cache' \in [0..gen' -> Nat] /\ faults' \in 0..MaxFaults
<1>1. gen \in Nat /\ cache \in [0..gen -> Nat] /\ faults \in 0..MaxFaults
  BY DEF TypeOK
<1>2. CASE UNCHANGED <<gen, cache>> /\ Fault("redis_fail")
  BY <1>1, <1>2, ConstantsAssumption DEF Fault
<1>3. CASE /\ gen' = gen + 1 /\ UNCHANGED faults
           /\ cache' = [g \in 0..(gen + 1) |-> IF g \in DOMAIN cache THEN cache[g] ELSE 0]
  BY <1>1, <1>3
<1> QED
  BY <1>2, <1>3 DEF Invalidate

\* Record, and the insert of one entry by its request.
LEMMA WriterNext ==
  ASSUME LogInv, NEW e \in Entries, WriterStep(e) \/ SyncInsertFail(e)
  PROVE  LogInv'
<1> USE ConstantsAssumption DEF LogInv
<1>1. CASE Enqueue(e)
  <2>1. Range(buffer') = Range(buffer) \cup {e}
    BY <1>1, RangeAppend DEF Enqueue, TypeOK
  <2>2. TypeOK'
    BY <1>1 DEF Enqueue, TypeOK, ReaderStates, cacheVars
  <2>3. BatchRoom' /\ Inserted'
    BY <1>1 DEF Enqueue, BatchRoom, Inserted, TypeOK
  <2>4. Accounted'
    BY <1>1, <2>1 DEF Enqueue, Accounted, TypeOK
  <2> QED
    BY <2>2, <2>3, <2>4
<1>2. CASE RecordSync(e)
  <2>2. TypeOK'
    BY <1>2 DEF RecordSync, TypeOK, ReaderStates, cacheVars
  <2>3. BatchRoom' /\ Inserted' /\ Accounted'
    BY <1>2 DEF RecordSync, BatchRoom, Inserted, Accounted, TypeOK
  <2> QED
    BY <2>2, <2>3
<1>3. CASE Discard(e)
  <2>2. TypeOK'
    BY <1>3 DEF Discard, TypeOK, ReaderStates, cacheVars
  <2>3. BatchRoom' /\ Inserted' /\ Accounted'
    BY <1>3 DEF Discard, BatchRoom, Inserted, Accounted, TypeOK
  <2> QED
    BY <2>2, <2>3
<1>4. CASE SyncInsert(e)
  <2>1. Range(table') = Range(table) \cup {e}
    BY <1>4, RangeAppend DEF SyncInsert, TypeOK
  <2>2. TypeOK'
    BY <1>4 DEF SyncInsert, TypeOK, ReaderStates, cacheVars
  <2>3. BatchRoom' /\ Inserted' /\ Accounted'
    BY <1>4, <2>1 DEF SyncInsert, BatchRoom, Inserted, Accounted, TypeOK
  <2> QED
    BY <2>2, <2>3
<1>5. CASE SyncInsertFail(e)
  <2>2. TypeOK'
    BY <1>5 DEF SyncInsertFail, Fault, TypeOK, ReaderStates, cacheVars
  <2>3. BatchRoom' /\ Inserted' /\ Accounted'
    BY <1>5 DEF SyncInsertFail, BatchRoom, Inserted, Accounted, TypeOK
  <2> QED
    BY <2>2, <2>3
<1>6. CASE SyncInvalidate(e)
  <2>1. gen' \in Nat /\ gen <= gen' /\ cache' \in [0..gen' -> Nat] /\ faults' \in 0..MaxFaults
    BY <1>6, InvalidateTyped DEF SyncInvalidate
  <2>4. reader' \in [Readers -> ReaderStates']
    BY <1>6, <2>1 DEF SyncInvalidate, TypeOK, ReaderStates
  <2>5. writer' \in [Entries -> {"new", "insert", "invalidate", "done"}]
    BY <1>6 DEF SyncInvalidate, TypeOK
  <2>2. TypeOK'
    BY <1>6, <2>1, <2>4, <2>5 DEF SyncInvalidate, TypeOK, WorkerStates
  <2>3. BatchRoom' /\ Inserted' /\ Accounted'
    BY <1>6 DEF SyncInvalidate, BatchRoom, Inserted, Accounted, TypeOK
  <2> QED
    BY <2>2, <2>3
<1> QED
  BY <1>1, <1>2, <1>3, <1>4, <1>5, <1>6 DEF WriterStep

\* List requests and the expiry of totals touch the cache only.
LEMMA ReaderNext ==
  ASSUME LogInv,
         \/ \E r \in Readers : ReaderStep(r) \/ GetFail(r) \/ SetFail(r)
         \/ \E g \in 0..gen : CacheExpire(g)
  PROVE  LogInv'
<1> USE DEF LogInv
<1>1. UNCHANGED <<buffer, closed, worker, writer, table, gen, dropped, acks>>
  BY Zenon DEF ReaderStep, GetGeneration, GetTotal, LiveCount, SetGeneration, SetTotal, Serve,
         GetFail, SetFail, CacheExpire
<1>2. BatchRoom' /\ Inserted' /\ Accounted'
  BY <1>1 DEF BatchRoom, Inserted, Accounted
<1>3. ASSUME reader' \in [Readers -> ReaderStates], cache' \in [0..gen -> Nat], faults' \in 0..MaxFaults
      PROVE  TypeOK'
  BY <1>1, <1>3, Zenon DEF TypeOK, WorkerStates, ReaderStates
<1>4. ASSUME NEW r \in Readers, ReaderStep(r)
      PROVE  TypeOK'
  <2>1. reader[r] \in ReaderStates /\ gen \in Nat /\ Len(table) \in Nat /\ cache \in [0..gen -> Nat]
    BY DEF TypeOK
  <2>8. ASSUME NEW s \in ReaderStates, reader' = [reader EXCEPT ![r] = s], UNCHANGED <<cache, faults>>
        PROVE  TypeOK'
    <3>1. reader' \in [Readers -> ReaderStates]
      BY <2>8 DEF TypeOK
    <3> QED
      BY <1>3, <2>8, <3>1 DEF TypeOK
  <2>2. CASE GetGeneration(r)
    <3>1. [reader[r] EXCEPT !.pc = "get", !.gen = gen] \in ReaderStates
      BY <2>1 DEF ReaderStates
    <3>2. reader' = [reader EXCEPT ![r] = [reader[r] EXCEPT !.pc = "get", !.gen = gen]]
      BY <2>2, Zenon DEF GetGeneration, TypeOK
    <3> QED
      BY <2>2, <2>8, <3>1, <3>2, Zenon DEF GetGeneration
  <2>3. CASE GetTotal(r)
    <3> DEFINE stored == cache[reader[r].gen]
    <3>1. stored \in Nat
      BY <2>1 DEF ReaderStates
    <3> HIDE DEF stored
    <3>2. CASE stored > 0
      <4>1. [reader[r] EXCEPT !.pc = "served", !.total = stored - 1] \in ReaderStates
        <5>1. stored - 1 \in Nat
          BY <3>1, <3>2
        <5> QED
          BY <2>1, <5>1, Zenon DEF ReaderStates
      <4>2. reader' = [reader EXCEPT ![r] = [reader[r] EXCEPT !.pc = "served", !.total = stored - 1]]
        BY <2>3, <3>2, Zenon DEF GetTotal, TypeOK, stored
      <4> QED
        BY <2>3, <2>8, <4>1, <4>2, Zenon DEF GetTotal
    <3>3. CASE ~(stored > 0)
      <4>1. [reader[r] EXCEPT !.pc = "count"] \in ReaderStates
        BY <2>1 DEF ReaderStates
      <4>2. reader' = [reader EXCEPT ![r] = [reader[r] EXCEPT !.pc = "count"]]
        BY <2>3, <3>3 DEF GetTotal, TypeOK, stored
      <4> QED
        BY <2>3, <2>8, <4>1, <4>2, Zenon DEF GetTotal
    <3> QED
      BY <3>2, <3>3
  <2>4. CASE LiveCount(r)
    <3>1. [reader[r] EXCEPT !.pc = "setgen", !.total = Len(table)] \in ReaderStates
      BY <2>1 DEF ReaderStates
    <3>2. reader' = [reader EXCEPT ![r] = [reader[r] EXCEPT !.pc = "setgen", !.total = Len(table)]]
      BY <2>4, Zenon DEF LiveCount, TypeOK
    <3> QED
      BY <2>4, <2>8, <3>1, <3>2, Zenon DEF LiveCount
  <2>5. CASE SetGeneration(r)
    <3>1. [reader[r] EXCEPT !.pc = "set", !.gen = gen] \in ReaderStates
      BY <2>1 DEF ReaderStates
    <3>2. reader' = [reader EXCEPT ![r] = [reader[r] EXCEPT !.pc = "set", !.gen = gen]]
      BY <2>5, Zenon DEF SetGeneration, TypeOK
    <3> QED
      BY <2>5, <2>8, <3>1, <3>2, Zenon DEF SetGeneration
  <2>6. CASE SetTotal(r)
    <3>1. [reader[r] EXCEPT !.pc = "served"] \in ReaderStates /\ reader[r].total + 1 \in Nat
      BY <2>1 DEF ReaderStates
    <3>2. reader' = [reader EXCEPT ![r] = [reader[r] EXCEPT !.pc = "served"]]
      BY <2>6 DEF SetTotal, TypeOK
    <3>3. cache' \in [0..gen -> Nat]
      BY <2>1, <2>6, <3>1, Zenon DEF SetTotal
    <3>4. reader' \in [Readers -> ReaderStates]
      BY <3>1, <3>2, Zenon DEF TypeOK
    <3>5. faults' \in 0..MaxFaults
      BY <2>6, Zenon DEF SetTotal, TypeOK
    <3> QED
      BY <1>3, <3>3, <3>4, <3>5
  <2>7. CASE Serve(r)
    <3>1. 0 \in Nat /\ 0 \in 0..gen
      BY <2>1
    <3>2. IdleReader \in ReaderStates
      BY <3>1, Zenon DEF IdleReader, ReaderStates
    <3> QED
      BY <2>7, <2>8, <3>2, Zenon DEF Serve
  <2> QED
    BY <1>4, <2>2, <2>3, <2>4, <2>5, <2>6, <2>7 DEF ReaderStep
<1>5. ASSUME NEW r \in Readers, GetFail(r) \/ SetFail(r)
      PROVE  TypeOK'
  <2>1. faults' \in 0..MaxFaults /\ cache' = cache
    <3>1. faults \in 0..MaxFaults /\ MaxFaults \in Nat
      BY ConstantsAssumption, Zenon DEF TypeOK
    <3>2. faults > 0 /\ faults' = faults - 1 /\ cache' = cache
      BY <1>5, Zenon DEF GetFail, SetFail, Fault
    <3> QED
      BY <3>1, <3>2
  <2>2. reader' \in [Readers -> ReaderStates]
    <3>1. PICK s \in {"count", "served"} : reader' = [reader EXCEPT ![r].pc = s]
      BY <1>5, Zenon DEF GetFail, SetFail
    <3>2. reader \in [Readers -> ReaderStates]
      BY DEF TypeOK
    <3>3. [reader[r] EXCEPT !.pc = s] \in ReaderStates
      BY <3>2 DEF ReaderStates
    <3> QED
      BY <3>1, <3>2, <3>3
  <2> QED
    BY <1>3, <2>1, <2>2 DEF TypeOK
<1>6. ASSUME NEW g \in 0..gen, CacheExpire(g)
      PROVE  TypeOK'
  BY <1>3, <1>6 DEF CacheExpire, TypeOK
<1> QED
  BY <1>2, <1>4, <1>5, <1>6

\* The worker and Close.
LEMMA WorkerNext ==
  ASSUME LogInv, WorkerStep \/ InsertFail \/ InsertAckLost \/ Close
  PROVE  LogInv'
<1> USE DEF LogInv
<1>0. /\ worker \in WorkerStates /\ worker.batch \in Seq(Entries) /\ Len(worker.batch) \in Nat
      /\ buffer \in Seq(Entries) /\ table \in Seq(Entries)
      /\ <<>> \in Seq(Entries) /\ Len(<<>>) = 0
      /\ 0 \in 0..(RetryTimes - 1) /\ RetryTimes \in Nat /\ BatchSize \in Nat \ {0}
  BY ConstantsAssumption DEF TypeOK, WorkerStates
<1>1. CASE Receive
  <2>1. Head(buffer) \in Entries /\ Tail(buffer) \in Seq(Entries) /\ Len(Tail(buffer)) <= Len(buffer)
    BY <1>1 DEF Receive, TypeOK
  <2>2. Range(worker'.batch) = Range(worker.batch) \cup {Head(buffer)}
    BY <1>1, <2>1, RangeAppend DEF Receive, TypeOK, WorkerStates
  <2>3. Range(buffer) = {Head(buffer)} \cup Range(buffer')
    BY <1>1, RangeTail DEF Receive, TypeOK
  <2>4. TypeOK' /\ BatchRoom'
    <3> DEFINE batch == Append(worker.batch, Head(buffer))
    <3>1. batch \in Seq(Entries) /\ Len(batch) = Len(worker.batch) + 1
      BY <1>0, <2>1
    <3>2. worker' = [worker EXCEPT
                       !.batch = batch, !.quiet = FALSE, !.then = worker.pc,
                       !.pc = IF Len(batch) >= BatchSize THEN "flush" ELSE worker.pc]
      BY <1>1 DEF Receive
    <3>3. worker.pc \in {"select", "drain"}
      BY <1>1 DEF Receive
    <3> HIDE DEF batch
    <3>4. worker' \in WorkerStates /\ worker'.batch = batch
      BY <1>0, <3>1, <3>2, <3>3, Zenon DEF WorkerStates
    <3>5. worker'.pc = IF Len(batch) >= BatchSize THEN "flush" ELSE worker.pc
      BY <1>0, <3>2 DEF WorkerStates
    <3>6. Len(batch) <= BatchSize /\ BatchRoom'
      BY <1>0, <3>1, <3>3, <3>4, <3>5 DEF BatchRoom
    <3>7. buffer' \in Seq(Entries) /\ Len(buffer') <= BufferSize
      BY <1>1, <2>1, ConstantsAssumption DEF Receive, TypeOK
    <3>8. UNCHANGED <<closed, writer, table, gen, cache, reader, dropped, acks, faults>>
      BY <1>1 DEF Receive, cacheVars
    <3> QED
      BY <3>4, <3>6, <3>7, <3>8 DEF TypeOK, ReaderStates, WorkerStates
  <2>5. Inserted'
    BY <1>1 DEF Receive, Inserted, TypeOK, WorkerStates
  <2>6. Accounted'
    BY <1>1, <2>2, <2>3 DEF Receive, Accounted
  <2> QED
    BY <2>4, <2>5, <2>6
<1>2. CASE Tick \/ StartDrain \/ DrainTimer \/ DrainEnd
  <2>1. TypeOK' /\ BatchRoom'
    <3>1. CASE Tick
      BY <1>0, <3>1, Zenon DEF Tick, BatchRoom, TypeOK, WorkerStates, ReaderStates, cacheVars
    <3>2. CASE StartDrain
      BY <1>0, <3>2, Zenon DEF StartDrain, BatchRoom, TypeOK, WorkerStates, ReaderStates, cacheVars
    <3>3. CASE DrainTimer
      BY <1>0, <3>3, Zenon DEF DrainTimer, BatchRoom, TypeOK, WorkerStates, ReaderStates, cacheVars
    <3>4. CASE DrainEnd
      BY <1>0, <3>4, Zenon DEF DrainEnd, BatchRoom, TypeOK, WorkerStates, ReaderStates, cacheVars
    <3> QED
      BY <1>2, <3>1, <3>2, <3>3, <3>4
  <2>2. worker'.batch = worker.batch /\ worker'.pc # "invalidate"
    BY <1>0, <1>2, Zenon DEF Tick, StartDrain, DrainTimer, DrainEnd, WorkerStates
  <2>3. UNCHANGED <<buffer, writer, table, dropped>>
    BY <1>2 DEF Tick, StartDrain, DrainTimer, DrainEnd
  <2>4. Inserted' /\ Accounted'
    BY <2>2, <2>3 DEF Inserted, Accounted
  <2> QED
    BY <2>1, <2>4
<1>3. CASE Insert
  <2>1. Range(table) \cup Range(worker.batch) \subseteq Range(table')
    BY <1>3, RangeConcat DEF Insert, TypeOK, WorkerStates
  <2>2. TypeOK' /\ BatchRoom'
    <3>1. worker' \in WorkerStates /\ worker'.batch = worker.batch /\ worker'.pc = "invalidate"
      BY <1>0, <1>3, Zenon DEF Insert, WorkerStates
    <3>2. table' \in Seq(Entries)
      BY <1>0, <1>3 DEF Insert
    <3> QED
      BY <1>3, <3>1, <3>2 DEF Insert, BatchRoom, TypeOK, ReaderStates, cacheVars
  <2>3. Inserted' /\ Accounted'
    BY <1>3, <2>1 DEF Insert, Inserted, Accounted, TypeOK, WorkerStates
  <2> QED
    BY <2>2, <2>3
<1>4. CASE InsertDone
  <2>1. TypeOK' /\ BatchRoom'
    <3>1. worker' \in WorkerStates /\ worker'.batch = <<>>
      BY <1>0, <1>4, Zenon DEF InsertDone, WorkerStates
    <3>2. gen' \in Nat /\ gen <= gen' /\ cache' \in [0..gen' -> Nat] /\ faults' \in 0..MaxFaults
      BY <1>4, InvalidateTyped DEF InsertDone
    <3>3. reader' \in [Readers -> ReaderStates']
      BY <1>4, <3>2 DEF InsertDone, TypeOK, ReaderStates
    <3>4. UNCHANGED <<buffer, closed, writer, table, dropped, acks>>
      BY <1>4, Zenon DEF InsertDone
    <3>5. Len(worker'.batch) = 0 /\ BatchSize \in Nat \ {0}
      <4>1. Len(<<>>) = 0
        OBVIOUS
      <4>2. BatchSize \in Nat \ {0}
        BY ConstantsAssumption, Zenon
      <4> QED
        BY <3>1, <4>1, <4>2, Zenon
    <3>6. Len(worker'.batch) <= BatchSize /\ Len(worker'.batch) < BatchSize
      BY <3>5
    <3>7. worker' \in WorkerStates'
      BY <3>1, Zenon DEF WorkerStates
    <3>8. TypeOK'
      BY <3>2, <3>3, <3>4, <3>6, <3>7, Zenon DEF TypeOK
    <3> QED
      BY <3>6, <3>8, Zenon DEF BatchRoom
  <2>2. worker'.pc # "invalidate" /\ Range(worker.batch) \subseteq Range(table)
    BY <1>4 DEF InsertDone, Inserted, TypeOK, WorkerStates
  <2>3. UNCHANGED <<buffer, writer, table, dropped>>
    BY <1>4 DEF InsertDone
  <2>4. Inserted' /\ Accounted'
    BY <2>2, <2>3 DEF Inserted, Accounted
  <2> QED
    BY <2>1, <2>4
<1>5. CASE InsertFail \/ InsertAckLost
  <2>1. Range(worker.batch) \subseteq Entries
    BY DEF TypeOK, WorkerStates, Range
  <2>2. Range(table) \subseteq Range(table')
    BY <1>5, RangeConcat, Zenon DEF InsertFail, InsertAckLost, TypeOK, WorkerStates
  <2>3. \/ worker' = [worker EXCEPT !.tries = @ + 1] /\ worker.tries + 1 < RetryTimes /\ dropped' = dropped
        \/ /\ worker' = [worker EXCEPT !.pc = worker.then, !.batch = <<>>, !.tries = 0]
           /\ dropped' = dropped \cup Range(worker.batch)
    BY <1>5 DEF InsertFail, InsertAckLost, Retry
  <2>4. TypeOK' /\ BatchRoom'
    <3>1. worker.pc = "flush" /\ UNCHANGED <<buffer, closed, writer, gen, cache, reader>>
      BY <1>5 DEF InsertFail, InsertAckLost, cacheVars
    <3>2. worker' \in WorkerStates /\ Len(worker'.batch) <= BatchSize /\ BatchRoom'
      <4>0. Len(worker.batch) <= BatchSize
        BY DEF TypeOK
      <4>1. CASE worker' = [worker EXCEPT !.tries = @ + 1] /\ worker.tries + 1 < RetryTimes
        <5>1. worker.tries + 1 \in 0..(RetryTimes - 1)
          BY <1>0, <4>1 DEF WorkerStates
        <5> QED
          BY <1>0, <3>1, <4>0, <4>1, <5>1 DEF WorkerStates, BatchRoom
      <4>2. CASE worker' = [worker EXCEPT !.pc = worker.then, !.batch = <<>>, !.tries = 0]
        <5>1. worker' \in WorkerStates /\ worker'.batch = <<>>
          BY <1>0, <4>2, Zenon DEF WorkerStates
        <5> QED
          BY <1>0, <5>1 DEF BatchRoom
      <4> QED
        BY <2>3, <4>1, <4>2
    <3>3. faults' \in 0..MaxFaults
      BY <1>5, ConstantsAssumption DEF InsertFail, InsertAckLost, Fault, TypeOK
    <3>4. acks' \in Nat
      BY <1>5 DEF InsertFail, InsertAckLost, TypeOK
    <3>5. dropped' \subseteq Entries
      BY <2>1, <2>3 DEF TypeOK
    <3>6. table' \in Seq(Entries)
      <4>1. table' = table \/ table' = table \o worker.batch
        BY <1>5 DEF InsertFail, InsertAckLost
      <4>2. table \o worker.batch \in Seq(Entries)
        BY <1>0
      <4> QED
        BY <1>0, <4>1, <4>2, Zenon
    <3> QED
      BY <3>1, <3>2, <3>3, <3>4, <3>5, <3>6 DEF TypeOK, ReaderStates, WorkerStates
  <2>5. worker'.pc # "invalidate" /\ UNCHANGED <<buffer, writer>>
    BY <1>5, <2>3, Zenon DEF InsertFail, InsertAckLost, TypeOK, WorkerStates
  <2>6. Range(worker.batch) \subseteq Range(worker'.batch) \cup dropped' /\ dropped \subseteq dropped'
    BY <2>3, Zenon DEF TypeOK, WorkerStates
  <2>7. Inserted' /\ Accounted'
    BY <2>2, <2>5, <2>6 DEF Inserted, Accounted
  <2> QED
    BY <2>4, <2>7
<1>6. CASE Close
  BY <1>6 DEF Close, TypeOK, ReaderStates, BatchRoom, Inserted, Accounted, cacheVars
<1> QED
  BY <1>1, <1>2, <1>3, <1>4, <1>5, <1>6 DEF WorkerStep

\* The invariant is kept by every step of Next.
LEMMA LogNext == LogInv /\ [Next]_vars => LogInv'
<1>1. LogInv /\ UNCHANGED vars => LogInv'
  BY DEF LogInv, TypeOK, ReaderStates, BatchRoom, Inserted, Accounted, vars
<1> QED
  BY <1>1, WriterNext, ReaderNext, WorkerNext DEF Next

\* The channel and the batch stay within their capacities and every counter
\* in its range, for any sizes (Record, batchWorker, flushBatch, countCache).
THEOREM TypeCorrect == Spec => []TypeOK
<1>1. LogInv => TypeOK
  BY DEF LogInv
<1> QED
  BY <1>1, LogInit, LogNext, PTL DEF Spec

\* No entry disappears without a warning: an entry whose Record returned is
\* in the channel, the batch or the table, or was given up, for any sizes,
\* retries and faults, and whenever Close is called.
THEOREM NothingVanishes == Spec => []Accounted
<1>1. LogInv => Accounted
  BY DEF LogInv
<1> QED
  BY <1>1, LogInit, LogNext, PTL DEF Spec

-----------------------------------------------------------------------------
(* How often an element occurs in a sequence. *)

Indices(s, e) == {i \in DOMAIN s : s[i] = e}
Occurs(s, e) == Cardinality(Indices(s, e))

\* An element occurs a number of times in a sequence,
LEMMA IndicesFinite ==
  ASSUME NEW S, NEW s \in Seq(S), NEW e
  PROVE  IsFiniteSet(Indices(s, e)) /\ Occurs(s, e) \in Nat
<1>1. IsFiniteSet(1..Len(s)) /\ Indices(s, e) \in SUBSET (1..Len(s))
  BY FS_Interval DEF Indices
<1>2. IsFiniteSet(Indices(s, e))
  BY <1>1, FS_Subset, Zenon
<1> QED
  BY <1>2, FS_CardinalityType, Zenon DEF Occurs

\* never in the empty one.
LEMMA OccursEmpty ==
  ASSUME NEW e
  PROVE  Occurs(<<>>, e) = 0
<1>1. Indices(<<>>, e) = {}
  BY DEF Indices
<1> QED
  BY <1>1, FS_EmptySet, Zenon DEF Occurs

\* The places in a concatenation are those in the one sequence and, moved by
\* its length, those in the other.
LEMMA OccursConcat ==
  ASSUME NEW S, NEW s \in Seq(S), NEW t \in Seq(S), NEW e
  PROVE  Occurs(s \o t, e) = Occurs(s, e) + Occurs(t, e)
<1> DEFINE m == Len(s)
           moved == {m + i : i \in Indices(t, e)}
           f == [i \in Indices(t, e) |-> m + i]
<1>1. /\ m \in Nat /\ Len(t) \in Nat
      /\ DOMAIN s = 1..m /\ DOMAIN t = 1..Len(t) /\ DOMAIN (s \o t) = 1..(m + Len(t))
  OBVIOUS
<1>2. /\ \A i \in 1..m : (s \o t)[i] = s[i]
      /\ \A i \in 1..Len(t) : (s \o t)[m + i] = t[i]
  BY <1>1
<1>3. Indices(s, e) \in SUBSET (1..m) /\ Indices(t, e) \in SUBSET (1..Len(t))
  BY <1>1 DEF Indices
<1>4. Indices(s \o t, e) = Indices(s, e) \cup moved
  <2>1. ASSUME NEW i \in Indices(s \o t, e), i \notin Indices(s, e)
        PROVE  i \in moved
    <3>1. i \in 1..(m + Len(t)) /\ (s \o t)[i] = e
      BY <1>1, <2>1 DEF Indices
    <3>2. i \notin 1..m
      BY <1>1, <1>2, <2>1, <3>1 DEF Indices
    <3>3. i - m \in 1..Len(t) /\ m + (i - m) = i
      BY <1>1, <3>1, <3>2
    <3>4. t[i - m] = e
      BY <1>2, <3>1, <3>3
    <3>5. i - m \in Indices(t, e)
      BY <1>1, <3>3, <3>4 DEF Indices
    <3> QED
      BY <3>3, <3>5
  <2>2. Indices(s, e) \subseteq Indices(s \o t, e)
    BY <1>1, <1>2 DEF Indices
  <2>3. moved \subseteq Indices(s \o t, e)
    <3> SUFFICES ASSUME NEW i \in Indices(t, e)
                 PROVE  m + i \in Indices(s \o t, e)
      OBVIOUS
    <3>1. i \in 1..Len(t) /\ t[i] = e
      BY <1>1 DEF Indices
    <3>2. m + i \in 1..(m + Len(t)) /\ (s \o t)[m + i] = e
      BY <1>1, <1>2, <3>1
    <3> QED
      BY <1>1, <3>2 DEF Indices
  <2> QED
    BY <2>1, <2>2, <2>3
<1>5. Indices(s, e) \cap moved = {}
  BY <1>1, <1>3
<1>6. IsFiniteSet(moved) /\ Cardinality(moved) = Occurs(t, e)
  <2>1. f \in [Indices(t, e) -> moved]
    OBVIOUS
  <2>2. f \in Bijection(Indices(t, e), moved)
    <3>1. \A i, j \in Indices(t, e) : f[i] = f[j] => i = j
      BY <1>1, <1>3
    <3>2. \A k \in moved : \E i \in Indices(t, e) : f[i] = k
      OBVIOUS
    <3> HIDE DEF f, moved
    <3> QED
      BY <2>1, <3>1, <3>2, Zenon DEF Bijection, Injection, Surjection, IsInjective
  <2>3. ExistsBijection(Indices(t, e), moved)
    BY <2>2, Zenon DEF ExistsBijection
  <2> QED
    BY <2>3, IndicesFinite, FS_Bijection, Zenon DEF Occurs
<1>7. IsFiniteSet(Indices(s, e)) /\ Occurs(s, e) \in Nat /\ Occurs(t, e) \in Nat
  BY IndicesFinite
<1> HIDE DEF moved
<1>8. Cardinality(Indices(s, e) \cup moved)
        = Cardinality(Indices(s, e)) + Cardinality(moved) - Cardinality(Indices(s, e) \cap moved)
  BY <1>6, <1>7, FS_Union, Zenon
<1>9. Cardinality(Indices(s, e) \cap moved) = 0
  BY <1>5, FS_EmptySet, Zenon
<1>10. Occurs(s \o t, e) = Cardinality(Indices(s, e) \cup moved)
  BY <1>4, Zenon DEF Occurs
<1>11. Occurs(s, e) = Cardinality(Indices(s, e))
  BY DEF Occurs
<1> QED
  BY <1>6, <1>7, <1>8, <1>9, <1>10, <1>11

\* An element alone.
LEMMA OccursOne ==
  ASSUME NEW x, NEW e
  PROVE  Occurs(<<x>>, e) = IF x = e THEN 1 ELSE 0
<1>1. CASE x = e
  <2>1. Indices(<<x>>, e) = {1}
    BY <1>1 DEF Indices
  <2> QED
    BY <1>1, <2>1, FS_Singleton, Zenon DEF Occurs
<1>2. CASE x # e
  <2>1. Indices(<<x>>, e) = {}
    BY <1>2 DEF Indices
  <2> QED
    BY <1>2, <2>1, FS_EmptySet, Zenon DEF Occurs
<1> QED
  BY <1>1, <1>2

\* An append adds one occurrence, of its element,
LEMMA OccursAppend ==
  ASSUME NEW S, NEW s \in Seq(S), NEW x \in S, NEW e
  PROVE  Occurs(Append(s, x), e) = Occurs(s, e) + Occurs(<<x>>, e)
<1>1. Append(s, x) = s \o <<x>> /\ <<x>> \in Seq(S)
  OBVIOUS
<1> DEFINE t == <<x>>
<1> HIDE DEF t
<1>2. Occurs(s \o t, e) = Occurs(s, e) + Occurs(t, e)
  BY <1>1, OccursConcat, Zenon DEF t
<1> QED
  BY <1>1, <1>2, Zenon DEF t

\* and taking the head removes one.
LEMMA OccursHead ==
  ASSUME NEW S, NEW s \in Seq(S), s # <<>>, NEW e
  PROVE  Occurs(s, e) = Occurs(<<Head(s)>>, e) + Occurs(Tail(s), e)
<1> DEFINE h == <<Head(s)>>
           t == Tail(s)
<1>1. s = h \o t /\ h \in Seq(S) /\ t \in Seq(S)
  OBVIOUS
<1> HIDE DEF h, t
<1>2. Occurs(h \o t, e) = Occurs(h, e) + Occurs(t, e)
  BY <1>1, OccursConcat, Zenon
<1>3. Occurs(s, e) = Occurs(h, e) + Occurs(t, e)
  BY <1>1, <1>2
<1> QED
  BY <1>3, Zenon DEF h, t

-----------------------------------------------------------------------------
(* Entries in the table. *)

\* An entry that is still to be inserted: by its request, from the channel, or
\* from a batch that is not in the table yet.
ToRecord(e) == IF writer[e] \in {"new", "insert"} THEN 1 ELSE 0
InBatch(e) == IF worker.pc = "invalidate" THEN 0 ELSE Occurs(worker.batch, e)

\* An entry is in one place only; its rows, and the one it may still get, are at
\* most one and one more for every lost answer.
OnceInv ==
  \A e \in Entries :
    /\ ToRecord(e) + Occurs(buffer, e) + Occurs(worker.batch, e) <= 1
    /\ Occurs(table, e) + ToRecord(e) + Occurs(buffer, e) + InBatch(e) <= 1 + acks

\* The counts are numbers.
LEMMA OccursTyped ==
  ASSUME TypeOK, NEW e \in Entries
  PROVE  /\ Occurs(buffer, e) \in Nat /\ Occurs(table, e) \in Nat
         /\ Occurs(worker.batch, e) \in Nat /\ ToRecord(e) \in 0..1 /\ acks \in Nat
         /\ InBatch(e) \in Nat /\ InBatch(e) <= Occurs(worker.batch, e)
<1>1. /\ buffer \in Seq(Entries) /\ table \in Seq(Entries) /\ worker.batch \in Seq(Entries)
      /\ acks \in Nat
  BY DEF TypeOK, WorkerStates
<1>2. Occurs(buffer, e) \in Nat /\ Occurs(table, e) \in Nat /\ Occurs(worker.batch, e) \in Nat
  BY <1>1, IndicesFinite, Zenon
<1> QED
  BY <1>1, <1>2 DEF ToRecord, InBatch

\* Nothing is recorded when the service starts.
LEMMA OnceInit == Init => OnceInv
<1> SUFFICES ASSUME Init, NEW e \in Entries
             PROVE  /\ ToRecord(e) + Occurs(buffer, e) + Occurs(worker.batch, e) <= 1
                    /\ Occurs(table, e) + ToRecord(e) + Occurs(buffer, e) + InBatch(e) <= 1 + acks
  BY DEF OnceInv
<1>1. /\ buffer = <<>> /\ table = <<>> /\ worker.batch = <<>> /\ worker.pc = "select" /\ acks = 0
      /\ writer[e] = "new"
  BY DEF Init
<1>2. Occurs(buffer, e) = 0 /\ Occurs(table, e) = 0 /\ Occurs(worker.batch, e) = 0
  BY <1>1, OccursEmpty
<1> QED
  BY <1>1, <1>2 DEF ToRecord, InBatch

\* What OnceInv says of one entry, in the numbers of its occurrences: still to record,
\* in the channel, in the batch, in the table, about to be inserted, and lost answers.
Once(r, b, q, t, i, a) == r + b + q <= 1 /\ t + r + b + i <= 1 + a

\* Requests: an entry moves from its request into the channel or the table.
LEMMA OnceWriter ==
  ASSUME TypeOK, OnceInv, NEW w \in Entries, WriterStep(w) \/ SyncInsertFail(w)
  PROVE  OnceInv'
<1> SUFFICES ASSUME NEW e \in Entries
             PROVE  Once(ToRecord(e)', Occurs(buffer', e), Occurs(worker'.batch, e), Occurs(table', e),
                         InBatch(e)', acks')
  BY DEF OnceInv, Once
<1> DEFINE r == ToRecord(e)  b == Occurs(buffer, e)  q == Occurs(worker.batch, e)
           t == Occurs(table, e)  i == InBatch(e)  n == Occurs(<<w>>, e)
<1>0. Once(r, b, q, t, i, acks)
  BY DEF OnceInv, Once
<1>1. /\ b \in Nat /\ t \in Nat /\ q \in Nat /\ r \in 0..1 /\ acks \in Nat /\ i \in Nat
  BY OccursTyped
<1>2. /\ UNCHANGED <<worker, acks>> /\ InBatch(e)' = i /\ Occurs(worker'.batch, e) = q
  BY DEF WriterStep, Enqueue, RecordSync, Discard, SyncInsert, SyncInsertFail, SyncInvalidate, InBatch
<1>3. /\ writer \in [Entries -> {"new", "insert", "invalidate", "done"}]
      /\ buffer \in Seq(Entries) /\ table \in Seq(Entries)
  BY DEF TypeOK
<1>4. n = IF w = e THEN 1 ELSE 0
  BY OccursOne
<1>5. CASE Enqueue(w)
  <2>1. Occurs(buffer', e) = b + n /\ Occurs(table', e) = t
    BY <1>3, <1>5, OccursAppend, Zenon DEF Enqueue
  <2>2. ToRecord(e)' = (IF w = e THEN 0 ELSE r) /\ (w = e => r = 1)
    BY <1>3, <1>5 DEF Enqueue, ToRecord
  <2> HIDE DEF r, b, q, t, i, n
  <2>3. ToRecord(e)' = r - n /\ n <= r /\ n \in Nat /\ r \in Nat
    BY <1>1, <1>4, <2>2
  <2>4. Once(r - n, b + n, q, t, i, acks)
    BY <1>0, <1>1, <2>3 DEF Once
  <2> QED
    BY <1>2, <2>1, <2>3, <2>4, Zenon
<1>6. CASE SyncInsert(w)
  <2>1. Occurs(table', e) = t + n /\ Occurs(buffer', e) = b
    BY <1>3, <1>6, OccursAppend, Zenon DEF SyncInsert
  <2>2. ToRecord(e)' = (IF w = e THEN 0 ELSE r) /\ (w = e => r = 1)
    BY <1>3, <1>6 DEF SyncInsert, ToRecord
  <2> HIDE DEF r, b, q, t, i, n
  <2>3. ToRecord(e)' = r - n /\ n <= r /\ n \in Nat /\ r \in Nat
    BY <1>1, <1>4, <2>2
  <2>4. Once(r - n, b, q, t + n, i, acks)
    BY <1>0, <1>1, <2>3 DEF Once
  <2> QED
    BY <1>2, <2>1, <2>3, <2>4, Zenon
<1>7. CASE RecordSync(w) \/ Discard(w) \/ SyncInsertFail(w) \/ SyncInvalidate(w)
  <2>1. Occurs(table', e) = t /\ Occurs(buffer', e) = b
    BY <1>7, Zenon DEF RecordSync, Discard, SyncInsertFail, SyncInvalidate
  <2>2. ToRecord(e)' \in 0..1 /\ ToRecord(e)' <= r
    <3>1. writer'[e] = writer[e] \/ writer'[e] = "done" \/ (writer[e] = "new" /\ writer'[e] = "insert")
      BY <1>3, <1>7, Zenon DEF RecordSync, Discard, SyncInsertFail, SyncInvalidate
    <3> QED
      BY <3>1 DEF ToRecord
  <2> DEFINE d == ToRecord(e)'
  <2> HIDE DEF r, b, q, t, i, d
  <2>3. Once(d, b, q, t, i, acks)
    <3>1. d \in Nat /\ d <= r
      BY <1>1, <2>2 DEF d
    <3> QED
      BY <1>0, <1>1, <3>1 DEF Once
  <2> QED
    BY <1>2, <2>1, <2>3, Zenon DEF d
<1> QED
  BY <1>5, <1>6, <1>7 DEF WriterStep

\* The worker: entries move from the channel into the batch and into the table; an
\* insert whose answer is lost may be repeated.
LEMMA OnceWorker ==
  ASSUME TypeOK, OnceInv, WorkerStep \/ InsertFail \/ InsertAckLost \/ Close
  PROVE  OnceInv'
<1> SUFFICES ASSUME NEW e \in Entries
             PROVE  Once(ToRecord(e)', Occurs(buffer', e), Occurs(worker'.batch, e), Occurs(table', e),
                         InBatch(e)', acks')
  BY DEF OnceInv, Once
<1> DEFINE r == ToRecord(e)  b == Occurs(buffer, e)  q == Occurs(worker.batch, e)
           t == Occurs(table, e)  i == InBatch(e)
<1>0. Once(r, b, q, t, i, acks)
  BY DEF OnceInv, Once
<1>1. /\ b \in Nat /\ t \in Nat /\ q \in Nat /\ r \in Nat /\ acks \in Nat /\ i \in Nat
  <2>1. r \in 0..1
    BY OccursTyped, Zenon
  <2>2. r \in Nat
    BY <2>1
  <2> QED
    BY <2>2, OccursTyped, Zenon
<1>2. ToRecord(e)' = r
  BY DEF WorkerStep, Receive, Tick, StartDrain, DrainTimer, DrainEnd, Insert, InsertDone, InsertFail,
         InsertAckLost, Close, ToRecord
<1>3. /\ worker \in WorkerStates /\ worker.batch \in Seq(Entries)
      /\ buffer \in Seq(Entries) /\ table \in Seq(Entries)
  BY DEF TypeOK, WorkerStates
<1>4. Occurs(<<>>, e) = 0
  BY OccursEmpty
<1>5. CASE Receive
  <2> DEFINE h == Head(buffer)  n == Occurs(<<h>>, e)
  <2>1. h \in Entries /\ buffer # <<>> /\ buffer' = Tail(buffer)
    BY <1>3, <1>5 DEF Receive
  <2>2. b = n + Occurs(buffer', e)
    BY <1>3, <2>1, OccursHead
  <2>3. worker'.batch = Append(worker.batch, h) /\ worker'.pc # "invalidate" /\ worker.pc # "invalidate"
    BY <1>3, <1>5, Zenon DEF Receive, WorkerStates
  <2> HIDE DEF h
  <2>4. Occurs(worker'.batch, e) = q + n
    BY <1>3, <2>1, <2>3, OccursAppend
  <2>5. InBatch(e)' = Occurs(worker'.batch, e) /\ i = q
    BY <2>3 DEF InBatch
  <2>6. acks' = acks /\ Occurs(table', e) = t
    BY <1>5, Zenon DEF Receive
  <2>7. n \in Nat /\ Occurs(buffer', e) \in Nat
    <3>1. <<h>> \in Seq(Entries) /\ Tail(buffer) \in Seq(Entries)
      BY <1>3, <2>1
    <3> QED
      BY <2>1, <3>1, IndicesFinite, Zenon
  <2> HIDE DEF r, b, q, t, i, n
  <2> DEFINE c == Occurs(buffer', e)
  <2> HIDE DEF c
  <2>8. Once(r, c, q + n, t, q + n, acks)
    <3>1. b = n + c /\ c \in Nat
      BY <2>2, <2>7, Zenon DEF c
    <3>2. Once(r, n + c, q, t, q, acks)
      BY <1>0, <2>5, <3>1, Zenon
    <3> QED
      BY <1>1, <2>7, <3>1, <3>2 DEF Once
  <2> QED
    BY <1>2, <2>4, <2>5, <2>6, <2>8, Zenon DEF c
<1>6. CASE Tick \/ StartDrain \/ DrainTimer \/ DrainEnd \/ Close
  <2>1. UNCHANGED <<buffer, table, acks>> /\ worker'.batch = worker.batch
        /\ (worker.pc = "invalidate" <=> worker'.pc = "invalidate")
    BY <1>3, <1>6, Zenon DEF Tick, StartDrain, DrainTimer, DrainEnd, Close, WorkerStates
  <2>2. InBatch(e)' = i /\ Occurs(worker'.batch, e) = q
    BY <2>1 DEF InBatch
  <2>3. Occurs(buffer', e) = b /\ Occurs(table', e) = t /\ acks' = acks
    BY <2>1, Zenon
  <2> HIDE DEF r, b, q, t, i
  <2> QED
    BY <1>0, <1>2, <2>2, <2>3, Zenon
<1>7. CASE Insert
  <2>1. /\ UNCHANGED <<buffer, acks>> /\ worker'.batch = worker.batch
        /\ worker.pc = "flush" /\ worker'.pc = "invalidate" /\ table' = table \o worker.batch
    BY <1>3, <1>7, Zenon DEF Insert, WorkerStates
  <2>2. Occurs(table', e) = t + q
    BY <1>3, <2>1, OccursConcat
  <2>3. i = q /\ InBatch(e)' = 0 /\ Occurs(worker'.batch, e) = q /\ Occurs(buffer', e) = b
    BY <2>1 DEF InBatch
  <2> HIDE DEF r, b, q, t, i
  <2>4. Once(r, b, q, t + q, 0, acks)
    BY <1>0, <1>1, <2>3 DEF Once
  <2> QED
    BY <1>2, <2>1, <2>2, <2>3, <2>4, Zenon
<1>8. CASE InsertDone
  <2>1. UNCHANGED <<buffer, table, acks>> /\ worker'.batch = <<>>
    BY <1>3, <1>8, Zenon DEF InsertDone, WorkerStates
  <2>2. InBatch(e)' = 0 /\ Occurs(worker'.batch, e) = 0 /\ Occurs(buffer', e) = b /\ Occurs(table', e) = t
    BY <1>4, <2>1 DEF InBatch
  <2> HIDE DEF r, b, q, t, i
  <2>3. Once(r, b, 0, t, 0, acks)
    BY <1>0, <1>1 DEF Once
  <2> QED
    BY <1>2, <2>1, <2>2, <2>3, Zenon
<1>9. CASE InsertFail \/ InsertAckLost
  <2>1. /\ worker.pc = "flush" /\ UNCHANGED buffer
        /\ \/ table' = table /\ acks' = acks
           \/ table' = table \o worker.batch /\ acks' = acks + 1
    BY <1>9 DEF InsertFail, InsertAckLost
  <2>2. worker'.batch = worker.batch \/ worker'.batch = <<>>
    BY <1>3, <1>9, Zenon DEF InsertFail, InsertAckLost, Retry, WorkerStates
  <2>3. i = q
    BY <2>1 DEF InBatch
  <2>4. \/ Occurs(worker'.batch, e) = q /\ InBatch(e)' \in {q, 0}
        \/ Occurs(worker'.batch, e) = 0 /\ InBatch(e)' = 0
    BY <1>4, <2>2 DEF InBatch
  <2>5. Occurs(buffer', e) = b
    BY <2>1, Zenon
  <2>6. \/ Occurs(table', e) = t /\ acks' = acks
        \/ Occurs(table', e) = t + q /\ acks' = acks + 1
    <3>1. Occurs(table \o worker.batch, e) = t + q
      BY <1>3, OccursConcat
    <3> QED
      BY <2>1, <3>1
  <2> HIDE DEF r, b, q, t, i
  <2>7. Once(r, b, q, t, q, acks)
    BY <1>0, <2>3, Zenon
  <2>8. CASE Occurs(table', e) = t /\ acks' = acks
    <3>1. Once(r, b, q, t, 0, acks) /\ Once(r, b, 0, t, 0, acks)
      BY <1>1, <2>7 DEF Once
    <3> QED
      BY <1>2, <2>4, <2>5, <2>7, <2>8, <3>1, Zenon
  <2>9. CASE Occurs(table', e) = t + q /\ acks' = acks + 1
    <3>1. q <= 1
      BY <1>1, <2>7 DEF Once
    <3>2. Once(r, b, q, t + q, q, acks + 1)
      BY <1>1, <2>7, <3>1 DEF Once
    <3>3. Once(r, b, q, t + q, 0, acks + 1) /\ Once(r, b, 0, t + q, 0, acks + 1)
      BY <1>1, <3>2 DEF Once
    <3> QED
      BY <1>2, <2>4, <2>5, <2>9, <3>2, <3>3, Zenon
  <2> QED
    BY <2>6, <2>8, <2>9
<1> QED
  BY <1>5, <1>6, <1>7, <1>8, <1>9 DEF WorkerStep

\* Every step keeps OnceInv: list requests and the cache touch no entry.
LEMMA OnceNext == ASSUME TypeOK, OnceInv, [Next]_vars PROVE OnceInv'
<1>1. ASSUME UNCHANGED <<buffer, worker, writer, table, acks>> PROVE OnceInv'
  BY <1>1 DEF OnceInv, ToRecord, InBatch
<1>2. CASE UNCHANGED vars
  BY <1>1, <1>2 DEF vars
<1>3. CASE \/ \E r \in Readers : ReaderStep(r) \/ GetFail(r) \/ SetFail(r)
           \/ \E g \in 0..gen : CacheExpire(g)
  <2>1. UNCHANGED <<buffer, worker, writer, table, acks>>
    BY <1>3, Zenon DEF ReaderStep, GetGeneration, GetTotal, LiveCount, SetGeneration, SetTotal, Serve,
           GetFail, SetFail, CacheExpire
  <2> QED
    BY <1>1, <2>1
<1> QED
  BY <1>2, <1>3, OnceWriter, OnceWorker DEF Next

\* An entry has one row, and at most one more for every insert that committed but
\* was reported as failed, for any sizes, attempts and faults: batches are emptied
\* before they are used again and a retry repeats the same batch (flushBatch).
THEOREM RecordedOnce == Spec => []AtMostOnce
<1>1. Init => LogInv /\ OnceInv
  BY LogInit, OnceInit
<1>2. LogInv /\ OnceInv /\ [Next]_vars => (LogInv /\ OnceInv)'
  BY LogNext, OnceNext DEF LogInv
<1>3. LogInv /\ OnceInv => AtMostOnce
  <2> SUFFICES ASSUME TypeOK, OnceInv, NEW e \in Entries
               PROVE  Cardinality({i \in DOMAIN table : table[i] = e}) <= 1 + acks
    BY DEF AtMostOnce, LogInv
  <2>1. Occurs(table, e) + ToRecord(e) + Occurs(buffer, e) + InBatch(e) <= 1 + acks
    BY DEF OnceInv
  <2>2. Occurs(table, e) <= 1 + acks
    BY <2>1, OccursTyped
  <2> QED
    BY <2>2 DEF Occurs, Indices
<1> QED
  BY <1>1, <1>2, <1>3, PTL DEF Spec

-----------------------------------------------------------------------------
(* Totals. *)

\* No list request and no key of the cache has a total that exceeds the rows of
\* the table; keys hold totals plus one.
TotalInv ==
  /\ \A r \in Readers : reader[r].total <= Len(table)
  /\ \A g \in 0..gen : cache[g] <= Len(table) + 1

\* Rows are only added.
LEMMA TableGrows ==
  ASSUME TypeOK, [Next]_vars
  PROVE  Len(table) \in Nat /\ Len(table') \in Nat /\ Len(table) <= Len(table')
<1>0. table \in Seq(Entries) /\ worker.batch \in Seq(Entries)
  BY Zenon DEF TypeOK, WorkerStates
<1>1. CASE table' = table
  BY <1>0, <1>1
<1>2. CASE \E e \in Entries : table' = Append(table, e)
  BY <1>0, <1>2
<1>3. CASE table' = table \o worker.batch
  BY <1>0, <1>3
<1>4. ASSUME NEW e \in Entries, WriterStep(e) \/ SyncInsertFail(e)
      PROVE  table' = table \/ \E x \in Entries : table' = Append(table, x)
  BY <1>4, Zenon DEF WriterStep, Enqueue, RecordSync, Discard, SyncInsert, SyncInvalidate,
                     SyncInsertFail
<1>5. ASSUME WorkerStep \/ InsertFail \/ InsertAckLost \/ Close
      PROVE  table' = table \/ table' = table \o worker.batch
  BY <1>5, Zenon DEF WorkerStep, Receive, Tick, StartDrain, DrainTimer, DrainEnd, Insert,
                     InsertDone, InsertFail, InsertAckLost, Close
<1>6. ASSUME \/ \E r \in Readers : ReaderStep(r) \/ GetFail(r) \/ SetFail(r)
             \/ \E g \in 0..gen : CacheExpire(g)
      PROVE  table' = table
  BY <1>6, Zenon DEF ReaderStep, GetGeneration, GetTotal, LiveCount, SetGeneration, SetTotal,
                     Serve, GetFail, SetFail, CacheExpire
<1>7. CASE UNCHANGED vars
  BY <1>1, <1>7, Zenon DEF vars
<1> QED
  BY <1>1, <1>2, <1>3, <1>4, <1>5, <1>6, <1>7, Zenon DEF Next

\* A step that is not a list request's keeps the totals it does not remove; a new
\* generation begins with no total.
LEMMA CacheKept ==
  ASSUME TypeOK,
         \/ \E e \in Entries : WriterStep(e) \/ SyncInsertFail(e)
         \/ WorkerStep \/ InsertFail \/ InsertAckLost \/ Close
         \/ \E g \in 0..gen : CacheExpire(g)
         \/ UNCHANGED vars
  PROVE  /\ reader' = reader
         /\ \A g \in 0..gen' : cache'[g] = 0 \/ (g \in 0..gen /\ cache'[g] = cache[g])
<1>0. gen \in Nat /\ cache \in [0..gen -> Nat]
  BY Zenon DEF TypeOK
<1>1. CASE Invalidate /\ reader' = reader
  <2>1. CASE UNCHANGED <<gen, cache>>
    BY <1>1, <2>1, Zenon
  <2>2. CASE /\ gen' = gen + 1
             /\ cache' = [g \in 0..(gen + 1) |-> IF g \in DOMAIN cache THEN cache[g] ELSE 0]
    BY <1>0, <1>1, <2>2, Zenon
  <2> QED
    BY <1>1, <2>1, <2>2, Zenon DEF Invalidate
<1>2. CASE UNCHANGED cacheVars
  BY <1>2, Zenon DEF cacheVars
<1>3. ASSUME NEW h \in 0..gen, CacheExpire(h)
      PROVE  /\ reader' = reader /\ gen' = gen
             /\ \A g \in 0..gen : cache'[g] = 0 \/ cache'[g] = cache[g]
  BY <1>0, <1>3, Zenon DEF CacheExpire
<1>4. ASSUME NEW e \in Entries, WriterStep(e) \/ SyncInsertFail(e)
      PROVE  (Invalidate /\ reader' = reader) \/ UNCHANGED cacheVars
  BY <1>4, Zenon DEF WriterStep, Enqueue, RecordSync, Discard, SyncInsert, SyncInvalidate,
                     SyncInsertFail
<1>5. ASSUME WorkerStep \/ InsertFail \/ InsertAckLost \/ Close
      PROVE  (Invalidate /\ reader' = reader) \/ UNCHANGED cacheVars
  BY <1>5, Zenon DEF WorkerStep, Receive, Tick, StartDrain, DrainTimer, DrainEnd, Insert,
                     InsertDone, InsertFail, InsertAckLost, Close
<1>6. UNCHANGED vars => UNCHANGED cacheVars
  BY Zenon DEF vars, cacheVars
<1> QED
  BY <1>1, <1>2, <1>3, <1>4, <1>5, <1>6, Zenon

\* What a list request does: its own total is a stored one, the live count or
\* unchanged, and what it stores is its own total.
LEMMA ReaderTotals ==
  ASSUME TypeOK, TotalInv, NEW r \in Readers, ReaderStep(r) \/ GetFail(r) \/ SetFail(r)
  PROVE  /\ UNCHANGED <<gen, table>>
         /\ \A q \in Readers : q # r => reader'[q] = reader[q]
         /\ reader'[r].total <= Len(table)
         /\ \A g \in 0..gen : cache'[g] = cache[g] \/ cache'[g] = reader[r].total + 1
<1>0. /\ reader \in [Readers -> ReaderStates] /\ reader[r] \in ReaderStates
      /\ gen \in Nat /\ cache \in [0..gen -> Nat]
  BY Zenon DEF TypeOK
<1>1. Len(table) \in Nat /\ reader[r].total \in Nat /\ reader[r].gen \in 0..gen
  <2>1. table \in Seq(Entries)
    BY Zenon DEF TypeOK
  <2>2. Len(table) \in Nat
    BY <2>1
  <2> QED
    BY <1>0, <2>2, Zenon DEF ReaderStates
<1>2. reader[r].total <= Len(table) /\ cache[reader[r].gen] <= Len(table) + 1
  BY <1>1, Zenon DEF TotalInv
<1>3. UNCHANGED <<gen, table>>
  BY Zenon DEF ReaderStep, GetGeneration, GetTotal, LiveCount, SetGeneration, SetTotal,
               Serve, GetFail, SetFail
<1>4. \A g \in 0..gen : cache'[g] = cache[g] \/ cache'[g] = reader[r].total + 1
  <2>1. cache' = cache \/ cache' = [cache EXCEPT ![reader[r].gen] = reader[r].total + 1]
    BY Zenon DEF ReaderStep, GetGeneration, GetTotal, LiveCount, SetGeneration, SetTotal,
                 Serve, GetFail, SetFail
  <2> QED
    BY <1>0, <2>1, Zenon
<1>5. ASSUME NEW s, s.total <= Len(table), reader' = [reader EXCEPT ![r] = s]
      PROVE  /\ \A q \in Readers : q # r => reader'[q] = reader[q]
             /\ reader'[r].total <= Len(table)
  BY <1>0, <1>5, Zenon
<1>6. \E s : s.total <= Len(table) /\ reader' = [reader EXCEPT ![r] = s]
  <2> DEFINE o == reader[r]  P == {"get", "count", "set", "served"}
  <2>1. ASSUME NEW l \in P
        PROVE  [o EXCEPT !.pc = l].total = o.total /\ [o EXCEPT !.pc = l, !.gen = gen].total = o.total
    BY <1>0, Zenon DEF ReaderStates
  <2>2. CASE \E l \in P : \/ reader' = [reader EXCEPT ![r] = [o EXCEPT !.pc = l]]
                               \/ reader' = [reader EXCEPT ![r] = [o EXCEPT !.pc = l, !.gen = gen]]
    BY <1>2, <2>1, <2>2, Zenon
  <2>3. CASE GetTotal(r) /\ cache[o.gen] > 0
    <3> DEFINE n == cache[o.gen] - 1
    <3>1. n <= Len(table)
      <4> DEFINE c == cache[o.gen]  l == Len(table)
      <4>1. c \in Nat /\ l \in Nat /\ c <= l + 1
        BY <1>0, <1>1, <1>2, Zenon
      <4> HIDE DEF c, l
      <4>2. c - 1 <= l
        BY <4>1
      <4> QED
        BY <4>2, Zenon DEF c, l
    <3>2. [o EXCEPT !.pc = "served", !.total = n].total = n
      BY <1>0, Zenon DEF ReaderStates
    <3>3. reader' = [reader EXCEPT ![r] = [o EXCEPT !.pc = "served", !.total = n]]
      BY <1>0, <2>3, Zenon DEF GetTotal
    <3> HIDE DEF n
    <3> QED
      BY <3>1, <3>2, <3>3, Zenon
  <2>4. CASE LiveCount(r)
    <3> DEFINE n == Len(table)
    <3>1. [o EXCEPT !.pc = "setgen", !.total = n].total = n
      BY <1>0, Zenon DEF ReaderStates
    <3>2. reader' = [reader EXCEPT ![r] = [o EXCEPT !.pc = "setgen", !.total = n]]
      BY <1>0, <2>4, Zenon DEF LiveCount
    <3>3. n <= Len(table)
      BY <1>1
    <3> HIDE DEF n
    <3> QED
      BY <3>1, <3>2, <3>3, Zenon
  <2>5. CASE Serve(r)
    <3>1. IdleReader.total = 0
      BY Zenon DEF IdleReader
    <3>2. 0 <= Len(table)
      BY <1>1
    <3> QED
      BY <2>5, <3>1, <3>2, Zenon DEF Serve
  <2>6. CASE GetGeneration(r) \/ SetGeneration(r)
    <3>1. \/ reader' = [reader EXCEPT ![r] = [o EXCEPT !.pc = "get", !.gen = gen]]
          \/ reader' = [reader EXCEPT ![r] = [o EXCEPT !.pc = "set", !.gen = gen]]
      BY <1>0, <2>6, Zenon DEF GetGeneration, SetGeneration
    <3> HIDE DEF o
    <3>2. "get" \in P /\ "set" \in P
      OBVIOUS
    <3> QED
      BY <2>2, <3>1, <3>2, Zenon
  <2>7. CASE SetTotal(r) \/ GetFail(r) \/ SetFail(r) \/ (GetTotal(r) /\ ~(cache[o.gen] > 0))
    <3>1. \/ reader' = [reader EXCEPT ![r] = [o EXCEPT !.pc = "count"]]
          \/ reader' = [reader EXCEPT ![r] = [o EXCEPT !.pc = "served"]]
      BY <1>0, <2>7, Zenon DEF SetTotal, GetFail, SetFail, GetTotal
    <3> HIDE DEF o
    <3>2. "count" \in P /\ "served" \in P
      OBVIOUS
    <3> QED
      BY <2>2, <3>1, <3>2, Zenon
  <2> QED
    BY <2>3, <2>4, <2>5, <2>6, <2>7, Zenon DEF ReaderStep
<1> QED
  BY <1>3, <1>4, <1>5, <1>6, Zenon

\* Every step keeps TotalInv.
LEMMA TotalNext == ASSUME TypeOK, TypeOK', TotalInv, [Next]_vars PROVE TotalInv'
<1>0. Len(table) \in Nat /\ Len(table') \in Nat /\ Len(table) <= Len(table')
  BY TableGrows
<1>1. ASSUME NEW r \in Readers PROVE reader[r].total \in Nat /\ reader'[r].total \in Nat
  BY Zenon DEF TypeOK, ReaderStates
<1>2. /\ \A g \in 0..gen : cache[g] \in Nat
      /\ \A g \in 0..gen' : cache'[g] \in Nat
  BY Zenon DEF TypeOK
<1>3. CASE /\ reader' = reader
           /\ \A g \in 0..gen' : cache'[g] = 0 \/ (g \in 0..gen /\ cache'[g] = cache[g])
  <2>1. ASSUME NEW r \in Readers PROVE reader'[r].total <= Len(table')
    <3>1. reader[r].total <= Len(table)
      BY Zenon DEF TotalInv
    <3> QED
      BY <1>0, <1>1, <1>3, <3>1
  <2>2. ASSUME NEW g \in 0..gen' PROVE cache'[g] <= Len(table') + 1
    <3>1. CASE cache'[g] = 0
      BY <1>0, <3>1
    <3>2. CASE g \in 0..gen /\ cache'[g] = cache[g]
      <4>1. cache[g] <= Len(table) + 1 /\ cache[g] \in Nat
        BY <1>2, <3>2, Zenon DEF TotalInv
      <4> QED
        BY <1>0, <3>2, <4>1
    <3> QED
      BY <1>3, <3>1, <3>2, Zenon
  <2> QED
    BY <2>1, <2>2, Zenon DEF TotalInv
<1>4. ASSUME NEW r \in Readers, ReaderStep(r) \/ GetFail(r) \/ SetFail(r)
      PROVE  TotalInv'
  <2>1. /\ UNCHANGED <<gen, table>>
        /\ \A q \in Readers : q # r => reader'[q] = reader[q]
        /\ reader'[r].total <= Len(table)
        /\ \A g \in 0..gen : cache'[g] = cache[g] \/ cache'[g] = reader[r].total + 1
    BY <1>4, ReaderTotals, Zenon
  <2>2. ASSUME NEW q \in Readers PROVE reader'[q].total <= Len(table')
    BY <2>1, Zenon DEF TotalInv
  <2>3. reader[r].total \in Nat /\ reader[r].total <= Len(table)
    BY <1>1, Zenon DEF TotalInv
  <2>4. reader[r].total + 1 <= Len(table) + 1
    BY <1>0, <2>3
  <2>5. ASSUME NEW g \in 0..gen' PROVE cache'[g] <= Len(table') + 1
    BY <2>1, <2>4, Zenon DEF TotalInv
  <2> QED
    BY <2>2, <2>5, Zenon DEF TotalInv
<1> QED
  BY <1>3, <1>4, CacheKept, Zenon DEF Next

\* A total that is served never exceeds the rows of the table, whatever order the
\* reads of the generation, the count, the SETEX, the inserts and their
\* invalidations happen in, for any number of requests and faults (countCache).
THEOREM TotalsWithinTable == Spec => []TotalWithinTable
<1>1. Init => LogInv /\ TotalInv
  <2> SUFFICES ASSUME Init PROVE TotalInv
    BY LogInit
  <2>1. Len(table) = 0 /\ gen = 0 /\ \A r \in Readers : reader[r].total = 0
    BY DEF Init, IdleReader
  <2>2. \A g \in 0..0 : cache[g] = 0
    BY DEF Init
  <2> QED
    BY <2>1, <2>2 DEF TotalInv
<1>2. LogInv /\ TotalInv /\ [Next]_vars => (LogInv /\ TotalInv)'
  BY LogNext, TotalNext DEF LogInv
<1>3. TotalInv => TotalWithinTable
  BY Zenon DEF TotalInv, TotalWithinTable
<1> QED
  BY <1>1, <1>2, <1>3, PTL DEF Spec

-----------------------------------------------------------------------------
(* The database sessions.  None of the invariants of DBPool is inductive     *)
(* alone: what a session has committed follows from what it buffered and     *)
(* what is left to write, and that ids differ from where each of them        *)
(* stands against next_seq.                                                  *)

\* What a session holds follows from where it is.
HeldBy(s) ==
    /\ at[s] \in Waiting => <<s, "tx">> \notin held /\ <<s, "seq">> \notin held
    /\ at[s] \in {"seqwrite", "seqcommit"} => <<s, "tx">> \notin held
    /\ at[s] = "stmts" => <<s, "tx">> \in held /\ <<s, "seq">> \notin held

\* What it has written: nothing is committed before it is done, and a handler
\* without an error has each of its rows either written or left.
WrittenBy(s) ==
    /\ at[s] # "done" => applied[s] = {} /\ outcome[s] = "open"
    /\ at[s] = "done" => outcome[s] # "open"
    /\ at[s] # "stmts" => tx[s] = {}
    /\ at[s] \notin {"stmts", "done"} => left[s] = RowsOf[s] /\ failed[s] = "none"
    /\ at[s] = "stmts" /\ failed[s] = "none" => tx[s] \cup left[s] = RowsOf[s]
    /\ applied[s] \in {{}, RowsOf[s]}
    /\ outcome[s] = "ok" => applied[s] = RowsOf[s]
    /\ outcome[s] \in {"open", "refused"} => applied[s] = {}

\* An id in an open allocation is next_seq, and there is one of those; the others
\* are below it.
NumberOf(s) ==
    /\ at[s] = "seqcommit" => idOf[s] = nextSeq
    /\ at[s] # "seqcommit" => idOf[s] < nextSeq
    /\ \A r \in Sessions \ {s} :
          /\ ~(at[s] = "seqcommit" /\ at[r] = "seqcommit")
          /\ idOf[s] = idOf[r] => idOf[s] = 0

\* The job calls the database only while duties are left.
DutyInv == job = "stmt" => duty < Duties

PoolInv ==
    /\ PoolTypeOK /\ DutyInv
    /\ \A s \in Sessions : HeldBy(s) /\ WrittenBy(s) /\ NumberOf(s)

\* The order of the calls of a request, place by place.
LEMMA Order ==
    ASSUME NEW s
    PROVE  /\ After(s, "start") \in {"allocget", "get"}
           /\ After(s, "seq") = "get"
           /\ After(s, "begun") = "stmts"
  BY DEF After

\* The rows of a session are rows.
LEMMA RowsAreRows == \A s \in Sessions : RowsOf[s] \subseteq AllRows
  BY DEF AllRows

\* PoolInv holds initially.
LEMMA PoolInitially == PoolInit => PoolInv
  <1> SUFFICES ASSUME PoolInit PROVE PoolInv
      OBVIOUS
  <1>1. \A s \in Sessions : at[s] \in {"allocget", "get"}
    BY Order DEF PoolInit
  <1>2. PoolTypeOK
    <2>1. at \in [Sessions -> Places]
      BY <1>1 DEF PoolInit, Places, Waiting
    <2>2. left \in [Sessions -> SUBSET AllRows]
      BY RowsAreRows DEF PoolInit
    <2>3. 1 \in Nat \ {0} /\ 0 \in 0..Duties /\ 0 \in 0..MaxPoolFaults
      BY PoolConstants
    <2>4. QED
      BY <2>1, <2>2, <2>3, Zenon DEF PoolInit, PoolTypeOK
  <1>3. ASSUME NEW s \in Sessions PROVE HeldBy(s) /\ WrittenBy(s) /\ NumberOf(s)
    <2>1. HeldBy(s)
      BY <1>1 DEF PoolInit, HeldBy, Waiting
    <2>2. WrittenBy(s)
      BY <1>1 DEF PoolInit, WrittenBy
    <2>3. NumberOf(s)
      BY <1>1 DEF PoolInit, NumberOf
    <2> QED
      BY <2>1, <2>2, <2>3
  <1>4. QED
    BY <1>2, <1>3 DEF PoolInv, PoolInit, DutyInv

\* Faults are counted up to their bound.
LEMMA FaultCount ==
    ASSUME poolFaults \in 0..MaxPoolFaults, NEW f, PoolFault(f)
    PROVE  poolFaults' \in 0..MaxPoolFaults
  <1>1. MaxPoolFaults \in Nat
    BY PoolConstants
  <1>2. QED
    BY <1>1 DEF PoolFault

\* A request that goes on to its next place, or is refused, outside of AtomExecute
\* writes nothing.
LEMMA MoveWritten ==
    ASSUME PoolInv, NEW q \in Sessions, at[q] \notin {"stmts", "done"},
           UNCHANGED <<left, tx, failed, applied>>,
           NEW to \in Places \ {"done"},
           \/ Move(q, to) /\ outcome' = outcome
           \/ Reply(q, "refused")
    PROVE  \A s \in Sessions : WrittenBy(s)'
  <1>0. /\ at \in [Sessions -> Places]
        /\ outcome \in [Sessions -> {"open", "ok", "refused", "unknown"}]
    BY Zenon DEF PoolInv, PoolTypeOK
  <1>1. ASSUME NEW s \in Sessions \ {q} PROVE WrittenBy(s)'
    <2>1. at'[s] = at[s] /\ outcome'[s] = outcome[s]
      BY <1>0, Zenon DEF Move, Reply
    <2>2. WrittenBy(s)
      BY Zenon DEF PoolInv
    <2> QED
      BY <2>1, <2>2, Zenon DEF WrittenBy
  <1>2. WrittenBy(q)'
    <2>1. /\ applied[q] = {} /\ outcome[q] = "open" /\ tx[q] = {}
          /\ left[q] = RowsOf[q] /\ failed[q] = "none"
      BY Zenon DEF PoolInv, WrittenBy
    <2>2. /\ applied'[q] = {} /\ tx'[q] = {}
          /\ left'[q] = RowsOf[q] /\ failed'[q] = "none"
      BY <2>1, Zenon
    <2>3. tx'[q] \cup left'[q] = RowsOf[q]
      BY <2>2
    <2>4. \/ at'[q] # "done" /\ outcome'[q] = "open"
          \/ at'[q] = "done" /\ outcome'[q] = "refused"
      BY <1>0, <2>1, Zenon DEF Move, Reply
    <2>5. CASE at'[q] # "done" /\ outcome'[q] = "open"
      BY <2>2, <2>3, <2>5 DEF WrittenBy
    <2>6. CASE at'[q] = "done" /\ outcome'[q] = "refused"
      BY <2>2, <2>6 DEF WrittenBy
    <2> QED
      BY <2>4, <2>5, <2>6, Zenon
  <1> QED
    BY <1>1, <1>2, Zenon

\* The step of a request: it moves, and takes or gives back no more than one
\* connection of its own.
OwnConn(q, p) ==
    /\ \E l : at' = [at EXCEPT ![q] = l]
    /\ held' \in {held, held \cup {<<q, p>>}, held \ {<<q, p>>}}

\* A step of q leaves the other requests the connections they have.
LEMMA OthersHold ==
    ASSUME PoolInv, NEW q \in Sessions, NEW s \in Sessions \ {q},
           NEW p, OwnConn(q, p)
    PROVE  HeldBy(s)'
  <1>1. at'[s] = at[s]
    BY Zenon DEF PoolInv, PoolTypeOK, OwnConn
  <1>2. <<s, "tx">> # <<q, p>> /\ <<s, "seq">> # <<q, p>>
    OBVIOUS
  <1>3. /\ <<s, "tx">> \in held' <=> <<s, "tx">> \in held
        /\ <<s, "seq">> \in held' <=> <<s, "seq">> \in held
    BY <1>2, Zenon DEF OwnConn
  <1>4. HeldBy(s)
    BY Zenon DEF PoolInv
  <1> QED
    BY <1>1, <1>3, <1>4, Zenon DEF HeldBy

\* Ids and next_seq stay, and nobody is in an open allocation who was not.
LEMMA NumbersStay ==
    ASSUME PoolInv, UNCHANGED <<nextSeq, idOf>>,
           \A s \in Sessions : at'[s] = "seqcommit" <=> at[s] = "seqcommit"
    PROVE  \A s \in Sessions : NumberOf(s)'
  BY Zenon DEF PoolInv, NumberOf

\* A step of a session keeps PoolInv.
LEMMA SessionKeepsInv ==
    ASSUME PoolInv, NEW q \in Sessions, SessionStep(q)
    PROVE  PoolInv'
  <1> USE DEF Move, Reply
  <1> PoolTypeOK
    BY DEF PoolInv
  <1>a. /\ at \in [Sessions -> Places]
        /\ outcome \in [Sessions -> {"open", "ok", "refused", "unknown"}]
    BY Zenon DEF PoolTypeOK
  <1>b. /\ left \in [Sessions -> SUBSET AllRows] /\ tx \in [Sessions -> SUBSET AllRows]
        /\ failed \in [Sessions -> {"none", "error", "invalid connection"}]
        /\ applied \in [Sessions -> SUBSET AllRows]
    BY Zenon DEF PoolTypeOK
  <1>c. idOf \in [Sessions -> Nat] /\ nextSeq \in Nat \ {0}
    BY Zenon DEF PoolTypeOK
  <1>d. \A s \in Sessions : HeldBy(s)
    BY DEF PoolInv
  <1>e. \A s \in Sessions : WrittenBy(s)
    BY DEF PoolInv
  <1>f. \A s \in Sessions : NumberOf(s)
    BY DEF PoolInv
  <1> After(q, "seq") = "get" /\ After(q, "begun") = "stmts"
    BY Order
  <1>1. ASSUME NEW from \in {"allocget", "get"}, NEW to \in {"allocbegin", "begin"},
               DbGet(q, from, to)
        PROVE PoolInv'
    <2>1. PoolTypeOK'
      <3>1. poolFaults' \in 0..MaxPoolFaults
        BY <1>1, FaultCount, Zenon DEF DbGet, PoolTypeOK
      <3>2. at' \in [Sessions -> Places] /\ outcome' \in [Sessions -> {"open", "ok", "refused", "unknown"}]
        BY <1>1, Zenon DEF DbGet, PoolTypeOK, Places, Waiting
      <3>3. held' \in SUBSET Conns
        BY <1>1, Zenon DEF DbGet, PoolTypeOK, Conns, Purposes
      <3>4. nextSeq' \in Nat \ {0} /\ idOf' \in [Sessions -> Nat]
        BY <1>1, Zenon DEF DbGet, PoolTypeOK
      <3>5. QED
        BY <1>1, <3>1, <3>2, <3>3, <3>4, Zenon DEF DbGet, PoolTypeOK
    <2>2. ASSUME NEW s \in Sessions PROVE HeldBy(s)'
      <3>1. OwnConn(q, "tx")
        BY <1>1, Zenon DEF OwnConn, DbGet
      <3>2. CASE s # q
        <4>1. s \in Sessions \ {q}
          BY <3>2, Zenon
        <4> QED
          BY <3>1, <4>1, OthersHold, Zenon
      <3>3. HeldBy(q)'
        BY <1>1, <1>a, <1>d, Zenon DEF DbGet, HeldBy, Waiting
      <3> QED
        BY <3>2, <3>3, Zenon
    <2>3. ASSUME NEW s \in Sessions PROVE WrittenBy(s)'
      <3>1. /\ at[q] \notin {"stmts", "done"} /\ UNCHANGED <<left, tx, failed, applied>>
            /\ (Move(q, to) /\ outcome' = outcome) \/ Reply(q, "refused")
        BY <1>1, Zenon DEF DbGet
      <3>2. to \in Places \ {"done"}
        BY <1>1, Zenon DEF Places, Waiting
      <3> QED
        BY <3>1, <3>2, MoveWritten, Zenon
    <2>4. ASSUME NEW s \in Sessions PROVE NumberOf(s)'
      <3>1. /\ UNCHANGED <<nextSeq, idOf>>
            /\ \A r \in Sessions : at'[r] = "seqcommit" <=> at[r] = "seqcommit"
        BY <1>1, <1>a, Zenon DEF DbGet
      <3> QED
        BY <3>1, NumbersStay, Zenon
    <2>5. QED
      BY <2>1, <2>2, <2>3, <2>4, <1>1 DEF PoolInv, DbGet, DutyInv
  <1>2. CASE AllocBegin(q)
    <2>1. PoolTypeOK'
      <3>1. poolFaults' \in 0..MaxPoolFaults
        BY <1>2, FaultCount, Zenon DEF AllocBegin, PoolTypeOK
      <3>2. at' \in [Sessions -> Places] /\ outcome' \in [Sessions -> {"open", "ok", "refused", "unknown"}]
        BY <1>2, Zenon DEF AllocBegin, PoolTypeOK, Places, Waiting
      <3>3. held' \in SUBSET Conns
        <4>1. <<q, "seq">> \in Conns
          BY DEF Conns, Purposes
        <4>2. QED
          BY <1>2, <4>1, Zenon DEF AllocBegin, PoolTypeOK
      <3>4. nextSeq' \in Nat \ {0} /\ idOf' \in [Sessions -> Nat]
        BY <1>2, Zenon DEF AllocBegin, PoolTypeOK
      <3>5. QED
        BY <1>2, <3>1, <3>2, <3>3, <3>4, Zenon DEF AllocBegin, PoolTypeOK
    <2>2. ASSUME NEW s \in Sessions PROVE HeldBy(s)'
      <3>1. OwnConn(q, "seq")
        BY <1>2, Zenon DEF OwnConn, AllocBegin
      <3>2. CASE s # q
        <4>1. s \in Sessions \ {q}
          BY <3>2, Zenon
        <4> QED
          BY <3>1, <4>1, OthersHold, Zenon
      <3>3. HeldBy(q)'
        BY <1>2, <1>a, <1>d, Zenon DEF AllocBegin, HeldBy, Waiting
      <3> QED
        BY <3>2, <3>3, Zenon
    <2>3. ASSUME NEW s \in Sessions PROVE WrittenBy(s)'
      <3>1. /\ at[q] \notin {"stmts", "done"} /\ UNCHANGED <<left, tx, failed, applied>>
            /\ (Move(q, "seqwrite") /\ outcome' = outcome) \/ Reply(q, "refused")
        BY <1>2, Zenon DEF AllocBegin
      <3>2. "seqwrite" \in Places \ {"done"}
        BY <1>2, Zenon DEF Places, Waiting
      <3> QED
        BY <3>1, <3>2, MoveWritten, Zenon
    <2>4. ASSUME NEW s \in Sessions PROVE NumberOf(s)'
      <3>1. /\ UNCHANGED <<nextSeq, idOf>>
            /\ \A r \in Sessions : at'[r] = "seqcommit" <=> at[r] = "seqcommit"
        BY <1>2, <1>a, Zenon DEF AllocBegin
      <3> QED
        BY <3>1, NumbersStay, Zenon
    <2>5. QED
      BY <2>1, <2>2, <2>3, <2>4, <1>2 DEF PoolInv, AllocBegin, DutyInv
  <1>3. CASE allocateSeq(q)
    <2>1. PoolTypeOK'
      <3>1. poolFaults' \in 0..MaxPoolFaults
        BY <1>3, FaultCount, Zenon DEF allocateSeq, PoolTypeOK
      <3>2. at' \in [Sessions -> Places] /\ outcome' \in [Sessions -> {"open", "ok", "refused", "unknown"}]
        BY <1>3, Zenon DEF allocateSeq, PoolTypeOK, Places, Waiting
      <3>3. held' \in SUBSET Conns
        BY <1>3, Zenon DEF allocateSeq, PoolTypeOK, Conns, Purposes
      <3>4. nextSeq' \in Nat \ {0} /\ idOf' \in [Sessions -> Nat]
        <4>1. nextSeq' = nextSeq /\ idOf' \in {idOf, [idOf EXCEPT ![q] = nextSeq]}
          BY <1>3, Zenon DEF allocateSeq
        <4>2. nextSeq \in Nat
          BY <1>c
        <4> QED
          BY <1>c, <4>1, <4>2, Zenon
      <3>5. QED
        BY <1>3, <3>1, <3>2, <3>3, <3>4, Zenon DEF allocateSeq, PoolTypeOK
    <2>2. ASSUME NEW s \in Sessions PROVE HeldBy(s)'
      <3>1. OwnConn(q, "seq")
        BY <1>3, Zenon DEF OwnConn, allocateSeq
      <3>2. CASE s # q
        <4>1. s \in Sessions \ {q}
          BY <3>2, Zenon
        <4> QED
          BY <3>1, <4>1, OthersHold, Zenon
      <3>3. HeldBy(q)'
        BY <1>3, <1>a, <1>d, Zenon DEF allocateSeq, HeldBy, Waiting
      <3> QED
        BY <3>2, <3>3, Zenon
    <2>3. ASSUME NEW s \in Sessions PROVE WrittenBy(s)'
      <3>1. /\ at[q] \notin {"stmts", "done"} /\ UNCHANGED <<left, tx, failed, applied>>
            /\ (Move(q, "seqcommit") /\ outcome' = outcome) \/ Reply(q, "refused")
        BY <1>3, Zenon DEF allocateSeq
      <3>2. "seqcommit" \in Places \ {"done"}
        BY <1>3, Zenon DEF Places, Waiting
      <3> QED
        BY <3>1, <3>2, MoveWritten, Zenon
    <2>4. ASSUME NEW s \in Sessions PROVE NumberOf(s)'
      <3>1. nextSeq \in Nat \ {0} /\ \A r \in Sessions : idOf[r] \in Nat
        BY <1>a, <1>c, Zenon
      <3>2. at \in [Sessions -> Places] /\ idOf \in [Sessions -> Nat]
        BY <1>a, <1>c, Zenon
      <3>3. nextSeq' = nextSeq /\ at[q] = "seqwrite"
        BY <1>3, Zenon DEF allocateSeq
      <3>4. CASE /\ SeqLockFree(q) /\ idOf' = [idOf EXCEPT ![q] = nextSeq]
                 /\ at' = [at EXCEPT ![q] = "seqcommit"]
        <4>1. at'[q] = "seqcommit" /\ idOf'[q] = nextSeq
          BY <3>2, <3>4, Zenon
        <4>2. \A r \in Sessions : r # q => /\ at'[r] = at[r] /\ idOf'[r] = idOf[r]
                                           /\ at[r] # "seqcommit" /\ idOf[r] < nextSeq
          <5>1. ASSUME NEW r \in Sessions, r # q PROVE at[r] # "seqcommit" /\ idOf[r] < nextSeq
            BY <1>f, <3>4, <5>1, Zenon DEF SeqLockFree, NumberOf
          <5> QED
            BY <3>2, <3>4, <5>1, Zenon
        <4>3. \A r \in Sessions : r # q => idOf[r] # nextSeq
          <5>1. ASSUME NEW r \in Sessions, idOf[r] < nextSeq PROVE idOf[r] # nextSeq
            BY <3>1, <5>1
          <5> QED
            BY <4>2, <5>1, Zenon
        <4> QED
          BY <1>f, <3>3, <4>1, <4>2, <4>3, Zenon DEF NumberOf
      <3>5. CASE at' = [at EXCEPT ![q] = "done"] /\ idOf' = idOf
        <4>1. \A r \in Sessions : at'[r] = at[r] \/ (r = q /\ at'[r] = "done" /\ at[r] = "seqwrite")
          BY <3>2, <3>3, <3>5, Zenon
        <4> QED
          BY <1>f, <3>3, <3>5, <4>1, Zenon DEF NumberOf
      <3>6. QED
        BY <1>3, <3>4, <3>5, Zenon DEF allocateSeq, Move, Reply
    <2>5. QED
      BY <2>1, <2>2, <2>3, <2>4, <1>3 DEF PoolInv, allocateSeq, DutyInv
  <1>4. CASE AllocCommit(q)
    <2>1. PoolTypeOK'
      <3>1. poolFaults' \in 0..MaxPoolFaults
        BY <1>4, FaultCount, Zenon DEF AllocCommit, PoolTypeOK
      <3>2. at' \in [Sessions -> Places] /\ outcome' \in [Sessions -> {"open", "ok", "refused", "unknown"}]
        BY <1>4, Zenon DEF AllocCommit, PoolTypeOK, Places, Waiting
      <3>3. held' \in SUBSET Conns
        BY <1>4, Zenon DEF AllocCommit, PoolTypeOK, Conns, Purposes
      <3>4. nextSeq' \in Nat \ {0} /\ idOf' \in [Sessions -> Nat]
        <4>1. nextSeq \in Nat \ {0} /\ idOf \in [Sessions -> Nat]
          BY Zenon DEF PoolTypeOK
        <4>2. nextSeq' \in {nextSeq, idOf[q] + 1} /\ idOf' \in {idOf, [idOf EXCEPT ![q] = 0]}
          BY <1>4 DEF AllocCommit
        <4>3. idOf[q] \in Nat
          BY <4>1
        <4>4. nextSeq' \in Nat \ {0}
          BY <4>1, <4>2, <4>3
        <4>5. QED
          BY <4>1, <4>2, <4>4
      <3>5. QED
        BY <1>4, <3>1, <3>2, <3>3, <3>4, Zenon DEF AllocCommit, PoolTypeOK
    <2>2. ASSUME NEW s \in Sessions PROVE HeldBy(s)'
      <3>1. OwnConn(q, "seq")
        BY <1>4, Zenon DEF OwnConn, AllocCommit
      <3>2. CASE s # q
        <4>1. s \in Sessions \ {q}
          BY <3>2, Zenon
        <4> QED
          BY <3>1, <4>1, OthersHold, Zenon
      <3>3. HeldBy(q)'
        BY <1>4, <1>a, <1>d, Zenon DEF AllocCommit, HeldBy, Waiting
      <3> QED
        BY <3>2, <3>3, Zenon
    <2>3. ASSUME NEW s \in Sessions PROVE WrittenBy(s)'
      <3>1. /\ at[q] \notin {"stmts", "done"} /\ UNCHANGED <<left, tx, failed, applied>>
            /\ (Move(q, "get") /\ outcome' = outcome) \/ Reply(q, "refused")
        BY <1>4, Zenon DEF AllocCommit
      <3>2. "get" \in Places \ {"done"}
        BY <1>4, Zenon DEF Places, Waiting
      <3> QED
        BY <3>1, <3>2, MoveWritten, Zenon
    <2>4. ASSUME NEW s \in Sessions PROVE NumberOf(s)'
      <3>1. nextSeq \in Nat \ {0} /\ \A r \in Sessions : idOf[r] \in Nat
        BY <1>a, <1>c, Zenon
      <3>2. at \in [Sessions -> Places] /\ idOf \in [Sessions -> Nat]
        BY <1>a, <1>c, Zenon
      <3>3. at[q] = "seqcommit" /\ idOf[q] = nextSeq
        BY <1>4, <1>f, Zenon DEF AllocCommit, NumberOf
      <3>4. \A r \in Sessions : r # q => at[r] # "seqcommit" /\ idOf[r] < nextSeq
        BY <1>f, <3>3, Zenon DEF NumberOf
      <3>5. \A r \in Sessions : r # q => idOf[r] < nextSeq + 1
        BY <3>1, <3>4
      <3>6. 0 < nextSeq /\ 0 < nextSeq + 1 /\ nextSeq < nextSeq + 1
        BY <3>1
      <3>7. CASE nextSeq' = nextSeq + 1 /\ idOf' = idOf /\ at' = [at EXCEPT ![q] = "get"]
        <4>1. \A r \in Sessions : at'[r] # "seqcommit" /\ idOf'[r] < nextSeq'
          BY <3>2, <3>3, <3>4, <3>5, <3>6, <3>7, Zenon
        <4> QED
          BY <1>f, <3>7, <4>1, Zenon DEF NumberOf
      <3>8. CASE /\ nextSeq' \in {nextSeq, nextSeq + 1} /\ idOf' = [idOf EXCEPT ![q] = 0]
                 /\ at' = [at EXCEPT ![q] = "done"]
        <4>1. \A r \in Sessions : at'[r] # "seqcommit" /\ idOf'[r] < nextSeq'
          BY <3>2, <3>3, <3>4, <3>5, <3>6, <3>8, Zenon
        <4>2. idOf'[q] = 0 /\ \A r \in Sessions : r # q => idOf'[r] = idOf[r]
          BY <3>2, <3>8, Zenon
        <4> QED
          BY <1>f, <4>1, <4>2, Zenon DEF NumberOf
      <3>9. QED
        BY <1>4, <3>3, <3>7, <3>8, Zenon DEF AllocCommit, Move, Reply
    <2>5. QED
      BY <2>1, <2>2, <2>3, <2>4, <1>4 DEF PoolInv, AllocCommit, DutyInv
  <1>5. CASE BeginTrans(q)
    <2>1. PoolTypeOK'
      <3>1. poolFaults' \in 0..MaxPoolFaults
        BY <1>5, FaultCount, Zenon DEF BeginTrans, PoolTypeOK
      <3>2. at' \in [Sessions -> Places] /\ outcome' \in [Sessions -> {"open", "ok", "refused", "unknown"}]
        BY <1>5, Zenon DEF BeginTrans, PoolTypeOK, Places, Waiting
      <3>3. held' \in SUBSET Conns
        <4>1. <<q, "tx">> \in Conns
          BY DEF Conns, Purposes
        <4>2. QED
          BY <1>5, <4>1, Zenon DEF BeginTrans, PoolTypeOK
      <3>4. nextSeq' \in Nat \ {0} /\ idOf' \in [Sessions -> Nat]
        BY <1>5, Zenon DEF BeginTrans, PoolTypeOK
      <3>5. QED
        BY <1>5, <3>1, <3>2, <3>3, <3>4, Zenon DEF BeginTrans, PoolTypeOK
    <2>2. ASSUME NEW s \in Sessions PROVE HeldBy(s)'
      <3>1. OwnConn(q, "tx")
        BY <1>5, Zenon DEF OwnConn, BeginTrans
      <3>2. CASE s # q
        <4>1. s \in Sessions \ {q}
          BY <3>2, Zenon
        <4> QED
          BY <3>1, <4>1, OthersHold, Zenon
      <3>3. HeldBy(q)'
        BY <1>5, <1>a, <1>d, Zenon DEF BeginTrans, HeldBy, Waiting
      <3> QED
        BY <3>2, <3>3, Zenon
    <2>3. ASSUME NEW s \in Sessions PROVE WrittenBy(s)'
      <3>1. /\ at[q] \notin {"stmts", "done"} /\ UNCHANGED <<left, tx, failed, applied>>
            /\ (Move(q, "stmts") /\ outcome' = outcome) \/ Reply(q, "refused")
        BY <1>5, Zenon DEF BeginTrans
      <3>2. "stmts" \in Places \ {"done"}
        BY <1>5, Zenon DEF Places, Waiting
      <3> QED
        BY <3>1, <3>2, MoveWritten, Zenon
    <2>4. ASSUME NEW s \in Sessions PROVE NumberOf(s)'
      <3>1. /\ UNCHANGED <<nextSeq, idOf>>
            /\ \A r \in Sessions : at'[r] = "seqcommit" <=> at[r] = "seqcommit"
        BY <1>5, <1>a, Zenon DEF BeginTrans
      <3> QED
        BY <3>1, NumbersStay, Zenon
    <2>5. QED
      BY <2>1, <2>2, <2>3, <2>4, <1>5 DEF PoolInv, BeginTrans, DutyInv
  <1>6. ASSUME NEW k \in left[q], Statement(q, k) PROVE PoolInv'
    <2>1. PoolTypeOK'
      <3>1. poolFaults' \in 0..MaxPoolFaults
        BY <1>6, FaultCount, Zenon DEF Statement, PoolTypeOK
      <3>2. at' \in [Sessions -> Places] /\ outcome' \in [Sessions -> {"open", "ok", "refused", "unknown"}]
        BY <1>6, Zenon DEF Statement, PoolTypeOK, Places, Waiting
      <3>3. held' \in SUBSET Conns
        BY <1>6, Zenon DEF Statement, PoolTypeOK, Conns, Purposes
      <3>4. nextSeq' \in Nat \ {0} /\ idOf' \in [Sessions -> Nat]
        BY <1>6, Zenon DEF Statement, PoolTypeOK
      <3>5. QED
        <4>1. k \in AllRows
          BY <1>6, Zenon DEF PoolTypeOK
        <4>2. tx' \in [Sessions -> SUBSET AllRows] /\ applied' \in [Sessions -> SUBSET AllRows]
          <5>1. tx \in [Sessions -> SUBSET AllRows] /\ applied \in [Sessions -> SUBSET AllRows]
            BY Zenon DEF PoolTypeOK
          <5>2. tx[q] \cup {k} \in SUBSET AllRows /\ applied[q] \cup {k} \in SUBSET AllRows
            BY <4>1, <5>1
          <5>3. /\ tx' \in {tx, [tx EXCEPT ![q] = tx[q] \cup {k}]}
                /\ applied' \in {applied, [applied EXCEPT ![q] = applied[q] \cup {k}]}
            BY <1>6 DEF Statement
          <5>4. QED
            BY <5>1, <5>2, <5>3
        <4>3. QED
          BY <1>6, <3>1, <3>2, <3>3, <3>4, <4>2, Zenon DEF Statement, PoolTypeOK
    <2>2. ASSUME NEW s \in Sessions PROVE HeldBy(s)'
      BY <1>6, <1>a, <1>d, Zenon DEF Statement, HeldBy, Waiting
    <2>3. ASSUME NEW s \in Sessions PROVE WrittenBy(s)'
      <3>1. <<q, "tx">> \in held
        BY <1>6, <1>d, Zenon DEF Statement, HeldBy
      <3>2. /\ at' = at /\ failed' = failed /\ applied' = applied /\ outcome' = outcome
            /\ left' = [left EXCEPT ![q] = left[q] \ {k}]
            /\ tx' = [tx EXCEPT ![q] = tx[q] \cup {k}]
        BY <1>6, <3>1, Zenon DEF Statement, Execer
      <3>3. WrittenBy(s)
        BY <1>e, Zenon
      <3>4. CASE s # q
        <4>1. left'[s] = left[s] /\ tx'[s] = tx[s]
          BY <1>b, <3>2, <3>4, Zenon
        <4> QED
          BY <3>2, <3>3, <4>1, Zenon DEF WrittenBy
      <3>5. CASE s = q
        <4>1. at[q] = "stmts" /\ failed[q] = "none" /\ k \in left[q]
          BY <1>6, Zenon DEF Statement
        <4>2. left'[q] = left[q] \ {k} /\ tx'[q] = tx[q] \cup {k}
          BY <1>b, <3>2, Zenon
        <4>3. tx[q] \cup left[q] = RowsOf[q]
          BY <3>3, <3>5, <4>1, Zenon DEF WrittenBy
        <4>4. tx'[q] \cup left'[q] = RowsOf[q]
          BY <4>1, <4>2, <4>3
        <4> QED
          BY <3>2, <3>3, <3>5, <4>1, <4>4, Zenon DEF WrittenBy
      <3> QED
        BY <3>4, <3>5, Zenon
    <2>4. ASSUME NEW s \in Sessions PROVE NumberOf(s)'
      BY <1>6, <1>a, <1>c, <1>f, Zenon DEF Statement, NumberOf
    <2>5. QED
      BY <2>1, <2>2, <2>3, <2>4, <1>6 DEF PoolInv, Statement, DutyInv
  <1>7. CASE StatementFails(q)
    <2>1. PoolTypeOK'
      <3>1. poolFaults' \in 0..MaxPoolFaults
        BY <1>7, FaultCount, Zenon DEF StatementFails, PoolTypeOK
      <3>2. at' \in [Sessions -> Places] /\ outcome' \in [Sessions -> {"open", "ok", "refused", "unknown"}]
        BY <1>7, Zenon DEF StatementFails, PoolTypeOK, Places, Waiting
      <3>3. held' \in SUBSET Conns
        BY <1>7, Zenon DEF StatementFails, PoolTypeOK, Conns, Purposes
      <3>4. nextSeq' \in Nat \ {0} /\ idOf' \in [Sessions -> Nat]
        BY <1>7, Zenon DEF StatementFails, PoolTypeOK
      <3>5. QED
        BY <1>7, <3>1, <3>2, <3>3, <3>4, Zenon DEF StatementFails, PoolTypeOK
    <2>2. ASSUME NEW s \in Sessions PROVE HeldBy(s)'
      BY <1>7, <1>a, <1>d, Zenon DEF StatementFails, HeldBy, Waiting
    <2>3. ASSUME NEW s \in Sessions PROVE WrittenBy(s)'
      <3>1. /\ UNCHANGED <<at, left, applied, outcome>> /\ at[q] = "stmts"
            /\ \E e \in {"error", "invalid connection"} : failed' = [failed EXCEPT ![q] = e]
            /\ tx' \in {tx, [tx EXCEPT ![q] = {}]}
        BY <1>7, Zenon DEF StatementFails
      <3>2. WrittenBy(s)
        BY <1>e, Zenon
      <3>3. CASE s # q
        <4>1. failed'[s] = failed[s] /\ tx'[s] = tx[s]
          BY <1>b, <3>1, <3>3, Zenon
        <4> QED
          BY <3>1, <3>2, <4>1, Zenon DEF WrittenBy
      <3>4. CASE s = q
        <4>1. failed'[q] # "none"
          BY <1>b, <3>1, Zenon
        <4> QED
          BY <3>1, <3>2, <3>4, <4>1, Zenon DEF WrittenBy
      <3> QED
        BY <3>3, <3>4, Zenon
    <2>4. ASSUME NEW s \in Sessions PROVE NumberOf(s)'
      BY <1>7, <1>a, <1>c, <1>f, Zenon DEF StatementFails, NumberOf
    <2>5. QED
      BY <2>1, <2>2, <2>3, <2>4, <1>7, Zenon DEF PoolInv, StatementFails, DutyInv
  <1>8. CASE RDBTxnExecuteEnds(q)
    <2>1. PoolTypeOK'
      <3>1. poolFaults' \in 0..MaxPoolFaults
        BY <1>8, FaultCount, Zenon DEF RDBTxnExecuteEnds, commitOrRollback, PoolTypeOK
      <3>2. at' \in [Sessions -> Places] /\ outcome' \in [Sessions -> {"open", "ok", "refused", "unknown"}]
        BY <1>8, Zenon DEF RDBTxnExecuteEnds, commitOrRollback, PoolTypeOK, Places, Waiting
      <3>3. held' \in SUBSET Conns
        BY <1>8, Zenon DEF RDBTxnExecuteEnds, commitOrRollback, PoolTypeOK, Conns, Purposes
      <3>4. nextSeq' \in Nat \ {0} /\ idOf' \in [Sessions -> Nat]
        BY <1>8, Zenon DEF RDBTxnExecuteEnds, commitOrRollback, PoolTypeOK
      <3>5. QED
        <4>1. tx' \in [Sessions -> SUBSET AllRows] /\ applied' \in [Sessions -> SUBSET AllRows]
          <5>1. tx \in [Sessions -> SUBSET AllRows] /\ applied \in [Sessions -> SUBSET AllRows]
            BY Zenon DEF PoolTypeOK
          <5>2. applied[q] \cup tx[q] \in SUBSET AllRows
            BY <5>1
          <5>3. /\ tx' = [tx EXCEPT ![q] = {}]
                /\ applied' \in {applied, [applied EXCEPT ![q] = applied[q] \cup tx[q]]}
            BY <1>8, Zenon DEF RDBTxnExecuteEnds, commitOrRollback
          <5>4. QED
            BY <5>1, <5>2, <5>3
        <4>2. QED
          BY <1>8, <3>1, <3>2, <3>3, <3>4, <4>1, Zenon DEF RDBTxnExecuteEnds, PoolTypeOK
    <2>2. ASSUME NEW s \in Sessions PROVE HeldBy(s)'
      <3>1. OwnConn(q, "tx")
        BY <1>8, Zenon DEF OwnConn, RDBTxnExecuteEnds, commitOrRollback
      <3>2. CASE s # q
        <4>1. s \in Sessions \ {q}
          BY <3>2, Zenon
        <4> QED
          BY <3>1, <4>1, OthersHold, Zenon
      <3>3. HeldBy(q)'
        BY <1>8, <1>a, <1>d, Zenon DEF RDBTxnExecuteEnds, commitOrRollback, HeldBy, Waiting
      <3> QED
        BY <3>2, <3>3, Zenon
    <2>3. ASSUME NEW s \in Sessions PROVE WrittenBy(s)'
      <3>1. CASE s # q
        <4>1. /\ at'[s] = at[s] /\ left'[s] = left[s] /\ tx'[s] = tx[s]
              /\ failed'[s] = failed[s] /\ outcome'[s] = outcome[s]
          BY <1>8, <3>1, Zenon DEF RDBTxnExecuteEnds, commitOrRollback, PoolTypeOK
        <4>2. applied'[s] = applied[s]
          <5>1. applied' \in {applied, [applied EXCEPT ![q] = applied[q] \cup tx[q]]}
            BY <1>8, Zenon DEF RDBTxnExecuteEnds, commitOrRollback
          <5>2. QED
            BY <3>1, <5>1, Zenon DEF PoolTypeOK
        <4>3. QED
          BY <1>e, <4>1, <4>2, Zenon DEF WrittenBy
      <3>2. at[q] = "stmts" /\ applied[q] = {}
        BY <1>8, <1>e, Zenon DEF RDBTxnExecuteEnds, WrittenBy
      <3>3. at'[q] = "done" /\ tx'[q] = {} /\ outcome'[q] \in {"ok", "refused", "unknown"}
        BY <1>8, Zenon DEF RDBTxnExecuteEnds, commitOrRollback, PoolTypeOK
      <3>4. CASE failed[q] = "none"
        <4>1. tx[q] = RowsOf[q]
          <5>1. left[q] = {}
            BY <1>8, <3>4, Zenon DEF RDBTxnExecuteEnds, commitOrRollback
          <5>2. tx[q] \cup left[q] = RowsOf[q]
            BY <1>e, <3>2, <3>4, Zenon DEF WrittenBy
          <5> QED
            BY <5>1, <5>2
        <4>2. /\ applied'[q] \in {{}, RowsOf[q]}
              /\ outcome'[q] = "ok" => applied'[q] = RowsOf[q]
              /\ outcome'[q] # "refused"
          <5>1. /\ applied' \in {applied, [applied EXCEPT ![q] = applied[q] \cup tx[q]]}
                /\ outcome' \in {[outcome EXCEPT ![q] = "ok"], [outcome EXCEPT ![q] = "unknown"]}
                /\ outcome' = [outcome EXCEPT ![q] = "ok"] =>
                      applied' = [applied EXCEPT ![q] = applied[q] \cup tx[q]]
            BY <1>8, <3>4, Zenon DEF RDBTxnExecuteEnds, commitOrRollback, PoolTypeOK
          <5>2. applied[q] \cup tx[q] = RowsOf[q]
            BY <3>2, <4>1
          <5>3. QED
            BY <3>2, <5>1, <5>2, Zenon DEF PoolTypeOK
        <4>3. QED
          BY <3>1, <3>3, <4>2 DEF WrittenBy
      <3>5. CASE failed[q] # "none"
        <4>1. applied'[q] = {} /\ outcome'[q] = "refused"
          BY <1>8, <3>2, <3>5, Zenon DEF RDBTxnExecuteEnds, commitOrRollback, PoolTypeOK
        <4>2. QED
          BY <3>1, <3>3, <4>1 DEF WrittenBy
      <3>6. QED
        BY <3>4, <3>5
    <2>4. ASSUME NEW s \in Sessions PROVE NumberOf(s)'
      <3>1. /\ UNCHANGED <<nextSeq, idOf>>
            /\ \A r \in Sessions : at'[r] = "seqcommit" <=> at[r] = "seqcommit"
        BY <1>8, <1>a, Zenon DEF RDBTxnExecuteEnds, commitOrRollback
      <3> QED
        BY <3>1, NumbersStay, Zenon
    <2>5. QED
      BY <2>1, <2>2, <2>3, <2>4, <1>8 DEF PoolInv, RDBTxnExecuteEnds, DutyInv
  <1>9. QED
    BY <1>1, <1>2, <1>3, <1>4, <1>5, <1>6, <1>7, <1>8 DEF SessionStep

\* A step of the job keeps PoolInv: it touches no session.
LEMMA JobKeepsInv ==
    ASSUME PoolInv, JobStep
    PROVE  PoolInv'
  <1>1. UNCHANGED <<sessionVars, nextSeq, poolFaults>>
    BY DEF JobStep, JobConn, JobGetLock, DutyGet, DutyStatement, JobUnlock, JobMove
  <1>2. held' \in {held, held \cup {JobLock}, held \ {JobLock}}
    BY DEF JobStep, JobConn, JobGetLock, DutyGet, DutyStatement, JobUnlock
  <1>3. \A s \in Sessions, p \in Purposes : <<s, p>> \in held' <=> <<s, p>> \in held
    BY <1>2 DEF JobLock, Purposes
  <1>4. job' \in {"rest", "lock", "get", "stmt", "unlock"}
    BY DEF JobStep, JobConn, JobGetLock, DutyGet, DutyStatement, JobUnlock, JobMove
  <1>5. duty' \in 0..Duties
    <2>1. Duties \in Nat /\ duty \in 0..Duties
      BY PoolConstants, Zenon DEF PoolInv, PoolTypeOK
    <2>2. job = "stmt" => duty < Duties
      BY DEF PoolInv, DutyInv
    <2>3. QED
      BY <2>1, <2>2 DEF JobStep, JobConn, JobGetLock, DutyGet, DutyStatement, JobUnlock
  <1>6. DutyInv'
    BY DEF JobStep, JobConn, JobGetLock, DutyGet, DutyStatement, JobUnlock, JobMove, DutyInv
  <1>7. PoolTypeOK'
    BY <1>1, <1>2, <1>4, <1>5, Zenon DEF PoolInv, PoolTypeOK, Conns, sessionVars
  <1>8. ASSUME NEW s \in Sessions PROVE HeldBy(s)' /\ WrittenBy(s)' /\ NumberOf(s)'
    BY <1>1, <1>3 DEF PoolInv, HeldBy, WrittenBy, NumberOf, sessionVars, Purposes
  <1>9. QED
    BY <1>6, <1>7, <1>8 DEF PoolInv

\* PoolInv is an invariant.
THEOREM PoolInvariant == PoolSpec => []PoolInv
  <1>1. ASSUME PoolInv, [PoolNext]_poolVars PROVE PoolInv'
    <2>1. CASE UNCHANGED poolVars
      <3>1. /\ UNCHANGED <<at, left, tx, failed, applied, outcome, idOf>>
            /\ UNCHANGED <<held, nextSeq, job, duty, poolFaults>>
        BY <2>1, Zenon DEF poolVars, sessionVars
      <3>2. PoolTypeOK' /\ DutyInv'
        BY <1>1, <3>1 DEF PoolInv, PoolTypeOK, DutyInv, Conns
      <3>3. ASSUME NEW s \in Sessions PROVE HeldBy(s)'
        BY <1>1, <3>1, Zenon DEF PoolInv, HeldBy
      <3>4. ASSUME NEW s \in Sessions PROVE WrittenBy(s)'
        <4>1. WrittenBy(s)
          BY <1>1, Zenon DEF PoolInv
        <4> QED
          BY <3>1, <4>1, Zenon DEF WrittenBy
      <3>5. \A s \in Sessions : NumberOf(s)'
        BY <1>1, <3>1, NumbersStay, Zenon
      <3> QED
        BY <3>2, <3>3, <3>4, <3>5, Zenon DEF PoolInv
    <2>2. CASE PoolNext
      BY <1>1, <2>2, SessionKeepsInv, JobKeepsInv DEF PoolNext
    <2>3. QED
      BY <1>1, <2>1, <2>2
  <1>2. QED
    BY PoolInitially, <1>1, PTL DEF PoolSpec

\* The variables keep their types, and the job its count of duties.
THEOREM PoolTypes == PoolSpec => []PoolTypeOK
  BY PoolInvariant, PTL DEF PoolInv

\* AtomExecute is atomic, for any number of requests, rows and faults (RDBTxnExecute).
THEOREM TransactionsAreAtomic == PoolSpec => []AllOrNothing
  <1>1. PoolInv => AllOrNothing
    BY DEF PoolInv, WrittenBy, AllOrNothing
  <1>2. QED
    BY <1>1, PoolInvariant, PTL

\* Ids are never given twice (TAPIKeyIDSeqAllocate, TEntityIDSeqAllocate).
THEOREM IdsNeverRepeat == PoolSpec => []DistinctIds
  <1>1. PoolInv => DistinctIds
    BY DEF PoolInv, NumberOf, DistinctIds
  <1>2. QED
    BY <1>1, PoolInvariant, PTL

\* Requests never wait for a connection while they hold one, whatever the size of
\* the pool (NewBFEDBContext, TAPIKeyIDSeqAllocate).
THEOREM RequestsNeverHoldAndWait == PoolSpec => []NoHoldAndWait
  <1>1. PoolInv => NoHoldAndWait
    BY Zenon DEF PoolInv, HeldBy, NoHoldAndWait, Purposes
  <1>2. QED
    BY <1>1, PoolInvariant, PTL
=============================================================================
