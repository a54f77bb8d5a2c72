----------------------------- MODULE BatchTasks -----------------------------
(***************************************************************************)
(* Batch tasks of the control plane (model/ibatch): the reconcile job's    *)
(* duties (sync from Redis, advance status, backfill, settle), the cancel  *)
(* endpoint, the batch_tasks rows, and the Redis keys BATCH_TASK,          *)
(* BATCH_SETTLED, BATCH_RESERVE_BATCH and BATCH_RESERVE they share with    *)
(* the data plane.  Every database statement, Redis command and provider   *)
(* request is a step of its own; a process keeps between two steps exactly *)
(* what its Go locals keep.                                                *)
(*                                                                         *)
(* Data abstraction.  validating/queued/in_progress/finalizing are one     *)
(* status "in_progress": the code only distinguishes terminal, cancelling  *)
(* and the rest.  A row keeps whether output_file_id (out) and terminal_at *)
(* (tat) are set, not their values.  Times are the two comparisons the     *)
(* code makes: a row is "ripe" when the settle grace has passed since      *)
(* terminal_at (since updated_at when terminal_at is not set), a batch is  *)
(* "aged" when it was created more than 24h ago.                           *)
(***************************************************************************)
EXTENDS Naturals, FiniteSets

CONSTANTS
    Batches,      \* batch ids
    Plans,        \* quota plans, each with a BATCH_RESERVE mirror counter
    Jobs,         \* replicas running the reconcile job
    Callers,      \* requests to the cancel endpoint
    Reserve,      \* units the data plane reserves: [Batches -> [Plans -> Nat]]
    Fetched,      \* batches a client polls and downloads through the data plane
    Keyless,      \* batches whose provider has no API keys configured
    Faults,       \* which of AllFaults may happen
    MaxCrashes,   \* bound on process crashes
    EarlyCancel,  \* may a batch be cancelled before its first sync
    None          \* no lock holder, no current batch

AllFaults == {"provider_fail", "db_fail", "redis_fail", "decr_fail",
              "lock_lost", "expire", "forget"}

Procs == Jobs \cup Callers

ASSUME ConstantsOK ==
    /\ Reserve \in [Batches -> [Plans -> Nat]]
    /\ EarlyCancel \in BOOLEAN
    /\ Keyless \subseteq Batches
    /\ Fetched \subseteq Batches
    /\ Faults \subseteq AllFaults
    /\ MaxCrashes \in Nat
    /\ Jobs \cap Callers = {}
    /\ None \notin Procs \cup Batches

TerminalStatuses == {"completed", "expired", "failed", "cancelled"}
IsTerminal(s) == s \in TerminalStatuses
noSettleReleaseStatuses == {"expired", "failed", "cancelled"}
Statuses == TerminalStatuses \cup {"in_progress", "cancelling"}
SettleStatuses == {"reserved", "settled", "released"}

\* A batch_tasks row; status "" is "no row".
Rows == [status : Statuses \cup {""}, settle : SettleStatuses \cup {""},
         out : BOOLEAN, tat : BOOLEAN, ripe : BOOLEAN]
NoRow == [status |-> "", settle |-> "", out |-> FALSE, tat |-> FALSE, ripe |-> FALSE]

\* The fields of a BATCH_TASK hash, "" for a field it does not carry; the hash
\* with no field is the absent key.  A provider response has the same shape.
Views == [status : Statuses \cup {"", "gone"},
          settle : {"", "settled", "released"}, out : BOOLEAN]
NoView == [status |-> "", settle |-> "", out |-> FALSE]

NoUnits == [q \in Plans |-> 0]

JobLoops == {"sync", "advance", "backfill", "settle", "release"}
ReleasePcs == {"relread", "reldecr", "reldel"}
JobPcs == JobLoops \cup ReleasePcs \cup
          {"idle", "syncfetch", "syncwrite", "advreissue", "advwrite", "relist",
           "claimed", "hset", "dbsettle", "abort", "dbrelease"}
CallerPcs == ReleasePcs \cup
             {"idle", "fallback", "preempt", "upsert", "preempt2", "recheck", "post", "done"}
Pcs == JobPcs \cup CallerPcs

VARIABLES
    db,       \* batch_tasks
    hash,     \* BATCH_TASK:<b>
    claim,    \* does BATCH_SETTLED:<b> exist
    book,     \* BATCH_RESERVE_BATCH:<b>, NoUnits when absent
    mirror,   \* BATCH_RESERVE:<plan>
    prov,     \* the provider's view of the batch; "" before it is submitted
    aged,     \* batches created more than 24h ago
    lock,     \* holder of the named lock
    crashes,
    pc, cur,  \* control state of a process and the batch it works on
    todo,     \* batches left in the duty's list
    snap,     \* rows as the process read them
    seen,     \* the hash or the provider response it read last
    bk,       \* its copy of the reserve book
    ret       \* where releaseReserve returns to

redis   == <<hash, claim, book, mirror>>
world   == <<prov, aged, lock, crashes>>
local   == <<pc, cur, todo, snap, seen, bk, ret>>
vars    == <<db, redis, world, local>>

NoRows == [b \in Batches |-> NoRow]

\* Process p is between the SET NX of BATCH_SETTLED:<b> and the end of
\* settleOneTask.
Settling(p, b) ==
    /\ cur[p] = b
    /\ \/ pc[p] \in {"claimed", "hset", "dbsettle", "abort"}
       \/ pc[p] \in ReleasePcs /\ ret[p] = "dbsettle"

TypeOK ==
    /\ db \in [Batches -> Rows]
    /\ hash \in [Batches -> Views]
    /\ claim \in [Batches -> BOOLEAN]
    /\ book \in [Batches -> [Plans -> Nat]]
    /\ mirror \in [Plans -> Nat]
    /\ prov \in [Batches -> Views]
    /\ aged \subseteq Batches
    /\ lock \in Jobs \cup {None}
    /\ crashes \in 0..MaxCrashes
    /\ pc \in [Procs -> Pcs]
    /\ cur \in [Procs -> Batches \cup {None}]
    /\ todo \in [Procs -> SUBSET Batches]
    /\ snap \in [Procs -> [Batches -> Rows]]
    /\ seen \in [Procs -> Views]
    /\ bk \in [Procs -> [Plans -> Nat]]
    /\ ret \in [Procs -> {"dbsettle", "dbrelease", "done"}]

Init ==
    /\ db = NoRows
    /\ hash = [b \in Batches |-> NoView]
    /\ claim = [b \in Batches |-> FALSE]
    /\ book = [b \in Batches |-> NoUnits]
    /\ mirror = NoUnits
    /\ prov = [b \in Batches |-> NoView]
    /\ aged = {}
    /\ lock = None
    /\ crashes = 0
    /\ pc = [p \in Procs |-> "idle"]
    /\ cur = [p \in Procs |-> None]
    /\ todo = [p \in Procs |-> {}]
    /\ snap = [p \in Procs |-> NoRows]
    /\ seen = [p \in Procs |-> NoView]
    /\ bk = [p \in Procs |-> NoUnits]
    /\ ret = [p \in Procs |-> "done"]

-----------------------------------------------------------------------------
(* Rows assembled from a BATCH_TASK hash (redis_view.go).                  *)

applyTaskView(v) ==
    [status |-> v.status,
     settle |-> IF v.settle = "" THEN "reserved" ELSE v.settle,
     out |-> v.out, tat |-> FALSE, ripe |-> FALSE]

\* updated_at := now, which restarts the grace of a row without terminal_at.
Touch(row) == [row EXCEPT !.ripe = @ /\ row.tat]

\* Mutants: the terminal guard is dropped; a hash without settle_status resets
\* the row's; terminal_at is set to now whenever the merged row is terminal.
mergeTaskForSync_NoTerminalGuard(existing, v) ==
    IF existing.status = ""
    THEN [applyTaskView(v) EXCEPT !.tat = IsTerminal(v.status)]
    ELSE [status |-> v.status,
          settle |-> IF v.settle = "" THEN existing.settle ELSE v.settle,
          out |-> v.out \/ existing.out,
          tat |-> IsTerminal(v.status), ripe |-> FALSE]

mergeTaskForSync_Restamp(existing, v) ==
    LET final == IsTerminal(existing.status) IN
    IF existing.status = ""
    THEN [applyTaskView(v) EXCEPT !.tat = IsTerminal(v.status)]
    ELSE [status |-> IF final THEN existing.status ELSE v.status,
          settle |-> IF v.settle = "" THEN existing.settle ELSE v.settle,
          out |-> v.out \/ existing.out,
          tat |-> final \/ IsTerminal(v.status), ripe |-> FALSE]

\* ripe: the merge keeps terminal_at, so the grace goes on as it was.
mergeTaskForSync(existing, v) ==
    LET final == IsTerminal(existing.status) IN
    IF existing.status = ""
    THEN [applyTaskView(v) EXCEPT !.tat = IsTerminal(v.status)]
    ELSE [status |-> IF final THEN existing.status ELSE v.status,
          settle |-> IF v.settle = "" THEN existing.settle ELSE v.settle,
          out |-> v.out \/ existing.out,
          tat |-> IF final THEN existing.tat ELSE IsTerminal(v.status),
          ripe |-> final /\ existing.tat]

-----------------------------------------------------------------------------
(* Control flow shared by the duties.                                      *)

Goto(p, l) == pc' = [pc EXCEPT ![p] = l]

\* Process p is done with its batch and goes on at l.
Resume(p, l) ==
    /\ Goto(p, l)
    /\ cur' = [cur EXCEPT ![p] = None]
    /\ seen' = [seen EXCEPT ![p] = NoView]
    /\ snap' = IF l \in {"sync", "idle", "done"} THEN [snap EXCEPT ![p] = NoRows] ELSE snap
    /\ bk' = [bk EXCEPT ![p] = NoUnits]
    /\ ret' = [ret EXCEPT ![p] = "done"]

\* Take b off the list of the duty in loop l.
Pick(j, l, b) ==
    /\ pc[j] = l
    /\ b \in todo[j]
    /\ todo' = [todo EXCEPT ![j] = @ \ {b}]

\* The duty at from is through its list; list the candidates S of the next.
\* A failed query ends that duty with nothing done (runDuty logs the error).
List(j, from, to, rows, S) ==
    /\ pc[j] = from
    /\ Goto(j, to)
    /\ \/ /\ todo' = [todo EXCEPT ![j] = S]
          /\ snap' = [snap EXCEPT ![j] = rows]
       \/ /\ "db_fail" \in Faults
          /\ todo' = [todo EXCEPT ![j] = {}]
          /\ snap' = [snap EXCEPT ![j] = NoRows]
    /\ UNCHANGED <<db, redis, world, cur, seen, bk, ret>>

-----------------------------------------------------------------------------
(* RunOnce: the named lock, then the duties in order (job.go).             *)

JobStart(j) ==
    /\ pc[j] = "idle"
    /\ lock = None
    /\ lock' = j
    /\ Goto(j, "sync")
    /\ \/ todo' = [todo EXCEPT ![j] = {b \in Batches : hash[b] # NoView}]
       \/ "redis_fail" \in Faults /\ UNCHANGED todo
    /\ UNCHANGED <<db, redis, prov, aged, crashes, cur, snap, seen, bk, ret>>

JobEnd(j) ==
    /\ pc[j] = "release"
    /\ todo[j] = {}
    /\ Resume(j, "idle")
    /\ lock' = IF lock = j THEN None ELSE lock
    /\ UNCHANGED <<db, redis, prov, aged, crashes, todo>>

\* The process dies; with it its locals and, for a job, the database session
\* that holds the named lock.
Crash(p) ==
    /\ pc[p] \notin {"idle", "done"}
    /\ crashes < MaxCrashes
    /\ crashes' = crashes + 1
    /\ Resume(p, IF p \in Jobs THEN "idle" ELSE "done")
    /\ todo' = [todo EXCEPT ![p] = {}]
    /\ lock' = IF lock = p THEN None ELSE lock
    /\ UNCHANGED <<db, redis, prov, aged>>

\* The session that holds the named lock drops while the duties go on.
LockLost ==
    /\ "lock_lost" \in Faults
    /\ lock # None
    /\ lock' = None
    /\ UNCHANGED <<db, redis, prov, aged, crashes, local>>

-----------------------------------------------------------------------------
(* Duty 1, SyncFromRedis: HGETALL, fetch the row, upsert the merge.        *)

\* A hash that has expired, or does not parse, is skipped.
SyncHash(j, b) ==
    /\ Pick(j, "sync", b)
    /\ \/ /\ hash[b].status # ""
          /\ Goto(j, "syncfetch")
          /\ cur' = [cur EXCEPT ![j] = b]
          /\ seen' = [seen EXCEPT ![j] = hash[b]]
       \/ /\ hash[b].status = "" \/ "redis_fail" \in Faults
          /\ UNCHANGED <<pc, cur, seen>>
    /\ UNCHANGED <<db, redis, world, snap, bk, ret>>

SyncFetch(j) ==
    /\ pc[j] = "syncfetch"
    /\ Goto(j, "syncwrite")
    /\ snap' = [snap EXCEPT ![j][cur[j]] = db[cur[j]]]
    /\ UNCHANGED <<db, redis, world, cur, todo, seen, bk, ret>>

SyncUpsert(j) ==
    /\ pc[j] = "syncwrite"
    /\ LET merged == mergeTaskForSync(snap[j][cur[j]], seen[j])
       IN db' = [db EXCEPT ![cur[j]] = [merged EXCEPT !.ripe = @ /\ db[cur[j]].ripe]]
    /\ Resume(j, "sync")
    /\ UNCHANGED <<redis, world, todo>>

-----------------------------------------------------------------------------
(* Duty 2, AdvanceStatus: GET the batch from the provider, patch the row   *)
(* by id.                                                                  *)

AdvanceList(j) ==
    /\ todo[j] = {}
    /\ List(j, "sync", "advance", db,
            {b \in Batches : db[b].status # "" /\ ~IsTerminal(db[b].status)})

\* Mutant: the provider's status is always written back.
StatusHeld_Never(row, v) == FALSE

\* The cancel intent is held while the provider lags behind.
StatusHeld(row, v) == row.status = "cancelling" /\ v.status = "in_progress"

AdvanceGet(j, b) ==
    /\ Pick(j, "advance", b)
    /\ \/ /\ prov[b].status # "gone" \/ b \in aged
          /\ Goto(j, IF StatusHeld(snap[j][b], prov[b]) THEN "advreissue" ELSE "advwrite")
          /\ cur' = [cur EXCEPT ![j] = b]
          /\ seen' = [seen EXCEPT ![j] = prov[b]]
       \/ /\ \/ prov[b].status = "gone" /\ b \notin aged
             \/ "provider_fail" \in Faults
          /\ UNCHANGED <<pc, cur, seen>>
    /\ UNCHANGED <<db, redis, world, snap, bk, ret>>

\* POST .../cancel: accepted while the batch is in progress or cancelling.
\* A failure may be a lost response to a request the provider has acted on.
PostCancel(b, ok) ==
    LET live == prov[b].status \in {"in_progress", "cancelling"}
        accepted == prov' = [prov EXCEPT ![b].status = "cancelling"]
    IN \/ ok /\ live /\ accepted
       \/ ~ok /\ ~live /\ UNCHANGED prov
       \/ ~ok /\ live /\ "provider_fail" \in Faults /\ (accepted \/ UNCHANGED prov)

AdvanceReissue(j) ==
    /\ pc[j] = "advreissue"
    /\ \E ok \in BOOLEAN : PostCancel(cur[j], ok)
    /\ Goto(j, "advwrite")
    /\ UNCHANGED <<db, redis, aged, lock, crashes, cur, todo, snap, seen, bk, ret>>

\* What UpdateBatchTaskProgress makes of the current row.
Advanced(row, old, v) ==
    LET keep == StatusHeld(old, v)
        status == IF v.status = "gone" THEN "expired" ELSE v.status
        final == ~keep /\ IsTerminal(status)
    IN [status |-> IF keep THEN row.status ELSE status,
        settle |-> row.settle,
        out |-> row.out \/ v.out,
        tat |-> row.tat \/ final,
        ripe |-> ~final /\ row.ripe /\ row.tat]

\* Nothing is written when the response differs in nothing from the row that
\* was listed; the request counts, which also count, are not modelled.
AdvanceUpdate(j) ==
    LET b == cur[j]
        old == snap[j][b]
    IN /\ pc[j] = "advwrite"
       /\ \/ db' = [db EXCEPT ![b] = Advanced(@, old, seen[j])]
          \/ /\ Advanced(old, old, seen[j]) = Touch(old)
             /\ UNCHANGED db
       /\ Resume(j, "advance")
       /\ UNCHANGED <<redis, world, todo>>

-----------------------------------------------------------------------------
(* Duty 2b, BackfillTerminalArtifacts: completed rows without output file. *)

BackfillList(j) ==
    /\ todo[j] = {}
    /\ List(j, "advance", "backfill", db,
            {b \in Batches : db[b].status = "completed" /\ ~db[b].out /\ b \notin aged})

\* GET and patch; a 404 or a failure leaves the row alone.  The step is one:
\* the patch only ever fills the missing output file of a completed batch, and
\* the provider's answer does not change before it is written.
BackfillOne(j, b) ==
    /\ Pick(j, "backfill", b)
    /\ \/ db' = [db EXCEPT ![b] = IF prov[b].out THEN Touch([@ EXCEPT !.out = TRUE]) ELSE @]
       \/ {"provider_fail", "db_fail"} \cap Faults # {} /\ UNCHANGED db
    /\ UNCHANGED <<redis, world, pc, cur, snap, seen, bk, ret>>

-----------------------------------------------------------------------------
(* releaseReserve: read the book, decrement the mirror of each plan        *)
(* (clamped at zero), delete the book.                                     *)

\* Where releaseReserve returns to.  Only releaseOneTask gives up on an error.
Return(p, ok) ==
    CASE ret[p] = "done" -> Resume(p, "done")
      [] ret[p] = "dbrelease" /\ ~ok ->
            Resume(p, IF snap[p][cur[p]].status = "completed" THEN "settle" ELSE "release")
      [] OTHER -> /\ Goto(p, ret[p])
                  /\ bk' = [bk EXCEPT ![p] = NoUnits]
                  /\ UNCHANGED <<cur, snap, seen, ret>>

ReserveRead(p) ==
    /\ pc[p] = "relread"
    /\ \/ /\ book[cur[p]] # NoUnits
          /\ Goto(p, "reldecr")
          /\ bk' = [bk EXCEPT ![p] = book[cur[p]]]
          /\ UNCHANGED <<cur, snap, seen, ret>>
       \/ book[cur[p]] = NoUnits /\ Return(p, TRUE)
       \/ "redis_fail" \in Faults /\ Return(p, FALSE)
    /\ UNCHANGED <<db, redis, world, todo>>

\* Mutant: the script decrements without clamping.
ReserveDecr_NoClamp(p, q) ==
    /\ pc[p] = "reldecr"
    /\ bk[p][q] > 0
    /\ mirror' = [mirror EXCEPT ![q] = @ - bk[p][q]]
    /\ bk' = [bk EXCEPT ![p][q] = 0]
    /\ Goto(p, IF bk'[p] = NoUnits THEN "reldel" ELSE "reldecr")
    /\ UNCHANGED <<db, hash, claim, book, world, cur, todo, snap, seen, ret>>

\* One Lua script per plan; its failure is only logged.
ReserveDecr(p, q) ==
    /\ pc[p] = "reldecr"
    /\ bk[p][q] > 0
    /\ \/ mirror' = [mirror EXCEPT ![q] = IF @ > bk[p][q] THEN @ - bk[p][q] ELSE 0]
       \/ "decr_fail" \in Faults /\ UNCHANGED mirror
    /\ bk' = [bk EXCEPT ![p][q] = 0]
    /\ Goto(p, IF bk'[p] = NoUnits THEN "reldel" ELSE "reldecr")
    /\ UNCHANGED <<db, hash, claim, book, world, cur, todo, snap, seen, ret>>

ReserveDelete(p) ==
    /\ pc[p] = "reldel"
    /\ \/ book' = [book EXCEPT ![cur[p]] = NoUnits] /\ Return(p, TRUE)
       \/ "redis_fail" \in Faults /\ UNCHANGED book /\ Return(p, FALSE)
    /\ UNCHANGED <<db, hash, claim, mirror, world, todo>>

\* Call releaseReserve for b, then go to r.
CallRelease(p, b, r) ==
    /\ Goto(p, "relread")
    /\ cur' = [cur EXCEPT ![p] = b]
    /\ ret' = [ret EXCEPT ![p] = r]

-----------------------------------------------------------------------------
(* Duty 3, ReconcileSettle: settle the completed batches whose grace has   *)
(* passed, release the ones that ended without a result.                   *)

\* Mutant: a batch that is being cancelled counts as ended without a result.
ReleaseCandidate_Cancelling(row) ==
    row.status \in noSettleReleaseStatuses \cup {"cancelling"} /\ row.settle = "reserved"

SettleCandidate(row) == row.status = "completed" /\ row.settle = "reserved" /\ row.ripe
ReleaseCandidate(row) == row.status \in noSettleReleaseStatuses /\ row.settle = "reserved"

\* The rows that UpdateBatchTaskSettleStatus writes.
Settled(row, old) == [row EXCEPT !.settle = "settled", !.tat = TRUE, !.ripe = @ /\ old.tat]
Released(row) == Touch([row EXCEPT !.settle = "released"])

SettleList(j) ==
    /\ todo[j] = {}
    /\ List(j, "backfill", "relist", db, {b \in Batches : SettleCandidate(db[b])})

\* The second query; snap keeps the settle candidates of the first.
ReleaseQuery(j) ==
    List(j, "relist", "settle",
         [b \in Batches |-> IF b \in todo[j] THEN snap[j][b] ELSE db[b]], todo[j])

\* Mutant: SET without NX.
SettleClaim_NoNX(j, b) ==
    /\ Pick(j, "settle", b)
    /\ claim' = [claim EXCEPT ![b] = TRUE]
    /\ Goto(j, "claimed")
    /\ cur' = [cur EXCEPT ![j] = b]
    /\ UNCHANGED <<db, hash, book, mirror, world, snap, seen, bk, ret>>

\* SET NX BATCH_SETTLED: somebody else settles, or has settled, the batch.
SettleClaim(j, b) ==
    /\ Pick(j, "settle", b)
    /\ \/ /\ ~claim[b]
          /\ claim' = [claim EXCEPT ![b] = TRUE]
          /\ Goto(j, "claimed")
          /\ cur' = [cur EXCEPT ![j] = b]
       \/ /\ claim[b] \/ "redis_fail" \in Faults
          /\ UNCHANGED <<claim, pc, cur>>
    /\ UNCHANGED <<db, hash, book, mirror, world, snap, seen, bk, ret>>

\* completed without an output file: give the claim back and release.
SettleNoOutput(j) ==
    /\ pc[j] = "claimed"
    /\ ~snap[j][cur[j]].out
    /\ \/ claim' = [claim EXCEPT ![cur[j]] = FALSE]
       \/ "redis_fail" \in Faults /\ UNCHANGED claim
    /\ CallRelease(j, cur[j], "dbrelease")
    /\ UNCHANGED <<db, hash, book, mirror, world, todo, snap, seen, bk>>

\* Download the result and price it.  The request of a provider without keys
\* carries an empty header name, which the HTTP client refuses to send.
SettleDownload(j) ==
    LET b == cur[j]
        served == prov[b].status = "completed" /\ prov[b].out /\ b \notin Keyless
    IN /\ pc[j] = "claimed"
       /\ \/ snap[j][b].out /\ served /\ Goto(j, "hset")
          \/ snap[j][b].out /\ ~served /\ Goto(j, "abort")
          \/ "provider_fail" \in Faults /\ Goto(j, "abort")
       /\ UNCHANGED <<db, redis, world, cur, todo, snap, seen, bk, ret>>

\* Mutant: the reserve is not released with the settlement.
SettleHSet_NoRelease(j) ==
    /\ pc[j] = "hset"
    /\ hash' = [hash EXCEPT ![cur[j]].settle = "settled"]
    /\ Goto(j, "dbsettle")
    /\ UNCHANGED <<db, claim, book, mirror, world, cur, todo, snap, seen, bk, ret>>

SettleHSet(j) ==
    /\ pc[j] = "hset"
    /\ \/ /\ hash' = [hash EXCEPT ![cur[j]].settle = "settled"]
          /\ CallRelease(j, cur[j], "dbsettle")
       \/ /\ "redis_fail" \in Faults
          /\ Goto(j, "abort")
          /\ UNCHANGED <<hash, cur, ret>>
    /\ UNCHANGED <<db, claim, book, mirror, world, todo, snap, seen, bk>>

\* Mutant: the claim is given back after success too (a deferred delete).
SettleUpdate_DropClaim(j) ==
    LET b == cur[j] IN
    /\ pc[j] = "dbsettle"
    /\ db' = IF db[b].settle = "reserved" THEN [db EXCEPT ![b].settle = "settled"] ELSE db
    /\ claim' = [claim EXCEPT ![b] = FALSE]
    /\ Resume(j, "settle")
    /\ UNCHANGED <<hash, book, mirror, world, todo>>

\* UPDATE ... SET settle_status='settled' WHERE settle_status='reserved'.
SettleUpdate(j) ==
    LET b == cur[j] IN
    /\ pc[j] = "dbsettle"
    /\ \/ /\ db' = IF db[b].settle = "reserved"
                   THEN [db EXCEPT ![b] = Settled(@, snap[j][b])] ELSE db
          /\ Resume(j, "settle")
       \/ /\ "db_fail" \in Faults
          /\ Goto(j, "abort")
          /\ UNCHANGED <<db, cur, seen, snap, bk, ret>>
    /\ UNCHANGED <<redis, world, todo>>

\* releaseClaim: every failure after the claim deletes it.
SettleAbort(j) ==
    /\ pc[j] = "abort"
    /\ \/ claim' = [claim EXCEPT ![cur[j]] = FALSE]
       \/ "redis_fail" \in Faults /\ UNCHANGED claim
    /\ Resume(j, "settle")
    /\ UNCHANGED <<db, hash, book, mirror, world, todo>>

ReleaseList(j) ==
    /\ pc[j] = "settle"
    /\ todo[j] = {}
    /\ Goto(j, "release")
    /\ todo' = [todo EXCEPT ![j] = {b \in Batches : ReleaseCandidate(snap[j][b])}]
    /\ UNCHANGED <<db, redis, world, cur, snap, seen, bk, ret>>

ReleaseOne(j, b) ==
    /\ Pick(j, "release", b)
    /\ CallRelease(j, b, "dbrelease")
    /\ UNCHANGED <<db, redis, world, snap, seen, bk>>

ReleaseUpdate(j) ==
    LET b == cur[j] IN
    /\ pc[j] = "dbrelease"
    /\ db' = IF db[b].settle = "reserved"
             THEN [db EXCEPT ![b] = Released(@)] ELSE db
    /\ Resume(j, IF snap[j][b].status = "completed" THEN "settle" ELSE "release")
    /\ UNCHANGED <<redis, world, todo>>

\* A failed statement skips the batch.
StatementFails(j) ==
    /\ "db_fail" \in Faults
    /\ \/ pc[j] \in {"syncfetch", "syncwrite"} /\ Resume(j, "sync")
       \/ pc[j] = "advwrite" /\ Resume(j, "advance")
       \/ /\ pc[j] = "dbrelease"
          /\ Resume(j, IF snap[j][cur[j]].status = "completed" THEN "settle" ELSE "release")
    /\ UNCHANGED <<db, redis, world, todo>>

-----------------------------------------------------------------------------
(* Cancel: preempt the row, then POST to the provider, then release.       *)

CancelFetch(c, b) ==
    /\ pc[c] = "idle"
    /\ prov[b] # NoView
    /\ db[b] # NoRow \/ EarlyCancel
    /\ Goto(c, IF db[b] # NoRow THEN "preempt" ELSE "fallback")
    /\ cur' = [cur EXCEPT ![c] = b]
    /\ UNCHANGED <<db, redis, world, todo, snap, seen, bk, ret>>

\* The task of a miss comes from BATCH_TASK, with ID 0; no hash is a 404.
CancelFallback(c) ==
    /\ pc[c] = "fallback"
    /\ \/ /\ hash[cur[c]].status # ""
          /\ Goto(c, "preempt")
          /\ seen' = [seen EXCEPT ![c] = hash[cur[c]]]
          /\ UNCHANGED <<cur, snap, bk, ret>>
       \/ /\ hash[cur[c]].status = "" \/ "redis_fail" \in Faults
          /\ Resume(c, "done")
    /\ UNCHANGED <<db, redis, world, todo>>

\* UPDATE ... SET status='cancelling' WHERE status NOT IN (terminal, cancelling).
CancelPreempt(c) ==
    LET b == cur[c]
        hit == db[b].status = "in_progress"
    IN /\ pc[c] \in {"preempt", "preempt2"}
       /\ db' = IF hit THEN [db EXCEPT ![b].status = "cancelling"] ELSE db
       /\ Goto(c, CASE hit -> "post"
                    [] ~hit /\ pc[c] = "preempt" /\ seen[c] # NoView -> "upsert"
                    [] OTHER -> "recheck")
       /\ UNCHANGED <<redis, world, cur, todo, snap, seen, bk, ret>>

CancelUpsert(c) ==
    /\ pc[c] = "upsert"
    /\ \/ /\ db' = [db EXCEPT ![cur[c]] = applyTaskView(seen[c])]
          /\ Goto(c, "preempt2")
       \/ "db_fail" \in Faults /\ UNCHANGED db /\ Goto(c, "recheck")
    /\ UNCHANGED <<redis, world, cur, todo, snap, seen, bk, ret>>

\* cancelling: replay the provider request; otherwise 409.
CancelRecheck(c) ==
    /\ pc[c] = "recheck"
    /\ \/ /\ db[cur[c]].status = "cancelling"
          /\ Goto(c, "post")
          /\ UNCHANGED <<cur, snap, seen, bk, ret>>
       \/ db[cur[c]].status # "cancelling" /\ Resume(c, "done")
    /\ UNCHANGED <<db, redis, world, todo>>

\* Cancel and cancelReplay end alike; a failed POST keeps the reserve.
CancelPost(c) ==
    /\ pc[c] = "post"
    /\ \/ /\ PostCancel(cur[c], TRUE)
          /\ CallRelease(c, cur[c], "done")
          /\ UNCHANGED <<snap, seen, bk>>
       \/ PostCancel(cur[c], FALSE) /\ Resume(c, "done")
    /\ UNCHANGED <<db, redis, aged, lock, crashes, todo>>

CancelFails(c) ==
    /\ "db_fail" \in Faults
    /\ pc[c] \in {"preempt", "preempt2", "recheck"}
    /\ Resume(c, "done")
    /\ UNCHANGED <<db, redis, world, todo>>

-----------------------------------------------------------------------------
(* The data plane, the provider and time, as this code relies on them.     *)

DataPlaneCreate(b) ==
    /\ prov[b] = NoView
    /\ prov' = [prov EXCEPT ![b].status = "in_progress"]
    /\ hash' = [hash EXCEPT ![b].status = "in_progress"]
    /\ book' = [book EXCEPT ![b] = Reserve[b]]
    /\ mirror' = [q \in Plans |-> mirror[q] + Reserve[b][q]]
    /\ UNCHANGED <<db, claim, aged, lock, crashes, local>>

\* A client polls the batch through the gateway.
DataPlanePoll(b) ==
    /\ b \in Fetched
    /\ hash[b].status # ""
    /\ prov[b].status # "gone"
    /\ hash' = [hash EXCEPT ![b].status = prov[b].status, ![b].out = prov[b].out]
    /\ UNCHANGED <<db, claim, book, mirror, world, local>>

\* It settles when a client downloads the result, and releases when it sees
\* another terminal status; BATCH_SETTLED guards both.
DataPlaneSettle(b) ==
    /\ b \in Fetched
    /\ hash[b].status # ""
    /\ ~claim[b]
    /\ \/ prov[b].status = "completed" /\ prov[b].out
       \/ prov[b].status \in noSettleReleaseStatuses
    /\ claim' = [claim EXCEPT ![b] = TRUE]
    /\ hash' = [hash EXCEPT ![b].settle =
                    IF prov[b].status = "completed" THEN "settled" ELSE "released"]
    /\ book' = [book EXCEPT ![b] = NoUnits]
    /\ mirror' = [q \in Plans |->
                    IF mirror[q] > book[b][q] THEN mirror[q] - book[b][q] ELSE 0]
    /\ UNCHANGED <<db, world, local>>

ProviderFinish(b) ==
    /\ \E s \in TerminalStatuses, o \in BOOLEAN :
          /\ \/ prov[b].status = "in_progress" /\ s # "cancelled"
             \/ prov[b].status = "cancelling" /\ s \in {"cancelled", "completed"}
          /\ o => s = "completed"
          /\ prov' = [prov EXCEPT ![b].status = s, ![b].out = o]
    /\ UNCHANGED <<db, redis, aged, lock, crashes, local>>

ProviderForget(b) ==
    /\ "forget" \in Faults
    /\ prov[b].status # ""
    /\ prov' = [prov EXCEPT ![b].status = "gone", ![b].out = FALSE]
    /\ UNCHANGED <<db, redis, aged, lock, crashes, local>>

Age(b) ==
    /\ prov[b] # NoView /\ b \notin aged
    /\ aged' = aged \cup {b}
    /\ UNCHANGED <<db, redis, prov, lock, crashes, local>>

GraceElapses(b) ==
    /\ IsTerminal(db[b].status) /\ ~db[b].ripe
    /\ db' = [db EXCEPT ![b].ripe = TRUE]
    /\ UNCHANGED <<redis, world, local>>

\* The 48h TTLs.  A claim outlives the settlement that took it.
ExpireClaim(b) ==
    /\ "expire" \in Faults
    /\ claim[b]
    /\ \A p \in Procs : ~Settling(p, b)
    /\ claim' = [claim EXCEPT ![b] = FALSE]
    /\ UNCHANGED <<db, hash, book, mirror, world, local>>

ExpireTask(b) ==
    /\ "expire" \in Faults
    /\ hash[b] # NoView
    /\ hash' = [hash EXCEPT ![b] = NoView]
    /\ UNCHANGED <<db, claim, book, mirror, world, local>>

-----------------------------------------------------------------------------
JobStep(j) ==
    \/ JobStart(j) \/ JobEnd(j)
    \/ SyncFetch(j) \/ SyncUpsert(j)
    \/ AdvanceList(j) \/ AdvanceReissue(j) \/ AdvanceUpdate(j)
    \/ BackfillList(j) \/ SettleList(j) \/ ReleaseQuery(j) \/ ReleaseList(j)
    \/ SettleNoOutput(j) \/ SettleDownload(j) \/ SettleHSet(j) \/ SettleUpdate(j)
    \/ SettleAbort(j) \/ ReleaseUpdate(j) \/ StatementFails(j)
    \/ \E b \in Batches : \/ SyncHash(j, b) \/ AdvanceGet(j, b) \/ BackfillOne(j, b)
                          \/ SettleClaim(j, b) \/ ReleaseOne(j, b)

CancelStep(c) ==
    \/ CancelFallback(c) \/ CancelPreempt(c) \/ CancelUpsert(c)
    \/ CancelRecheck(c) \/ CancelPost(c) \/ CancelFails(c)
    \/ \E b \in Batches : CancelFetch(c, b)

ReserveStep(p) ==
    ReserveRead(p) \/ ReserveDelete(p) \/ \E q \in Plans : ReserveDecr(p, q)

Environment(b) ==
    \/ DataPlaneCreate(b) \/ DataPlanePoll(b) \/ DataPlaneSettle(b)
    \/ ProviderFinish(b) \/ ProviderForget(b) \/ Age(b) \/ GraceElapses(b)
    \/ ExpireClaim(b) \/ ExpireTask(b)

Next ==
    \/ \E j \in Jobs : JobStep(j)
    \/ \E c \in Callers : CancelStep(c)
    \/ \E p \in Procs : ReserveStep(p) \/ Crash(p)
    \/ \E b \in Batches : Environment(b)
    \/ LockLost

Spec == Init /\ [][Next]_vars

\* The reconcile loop keeps running (job.go loop), a request that has started
\* is served, the grace and the TTLs pass.  A provider request that is made
\* again every cycle is not lost every time.
Fairness ==
    /\ \A j \in Jobs : /\ WF_vars(JobStep(j))
                       /\ SF_vars(SettleDownload(j) /\ pc'[j] = "hset")
                       /\ SF_vars(SettleNoOutput(j))
                       /\ SF_vars(\E b \in Batches : AdvanceGet(j, b) /\ pc'[j] # "advance")
                       /\ SF_vars(AdvanceReissue(j) /\ prov' # prov)
    /\ \A c \in Callers : WF_vars(pc[c] # "idle" /\ CancelStep(c))
    /\ \A p \in Procs : WF_vars(ReserveStep(p))
    /\ \A b \in Batches : WF_vars(GraceElapses(b)) /\ WF_vars(ExpireClaim(b))

FairSpec == Spec /\ Fairness

-----------------------------------------------------------------------------
(* Properties.                                                             *)

\* What a row says is never taken back: neither a merge of an older hash, nor a patch
\* computed from an older read, nor a cancel takes it out of a terminal status;
\* settle_status never returns to reserved, which would have the batch settled again,
\* and settled is final.
RowsMoveForward ==
    [][\A b \in Batches :
         /\ IsTerminal(db[b].status) => db'[b].status = db[b].status
         /\ db[b].settle \in {"settled", "released"} => db'[b].settle # "reserved"
         /\ db[b].settle = "settled" => db'[b].settle = "settled"]_vars

\* BATCH_SETTLED is a mutual exclusion between replicas even when the named
\* lock does not exclude them: at most one is inside settleOneTask for a batch,
\* and while it is, the claim stands and keeps the data plane out.
SettleExclusive ==
    \A b \in Batches, p \in Procs :
        Settling(p, b) => claim[b] /\ \A r \in Procs \ {p} : ~Settling(r, b)

\* A batch is charged once and not given up: no replica gets to write a settlement
\* into BATCH_TASK over one that is already there, and settleOneTask never fails
\* holding the claim, so that a claim nobody works under belongs to a batch that has
\* been settled or released.
SettledOnce ==
    /\ \A j \in Jobs : pc[j] = "hset" => hash[cur[j]].settle = ""
    /\ \A b \in Batches :
          claim[b] /\ (\A p \in Procs : ~Settling(p, b)) => hash[b].settle # ""

\* The row agrees with what the provider did, however cancels, crashes, the
\* data plane and the duties interleave: settled only with a result to charge
\* for, released only when there is none.
SettleMatchesProvider ==
    \A b \in Batches :
        /\ db[b].settle = "settled" => prov[b].status = "completed" /\ prov[b].out
        /\ db[b].settle = "released" => IsTerminal(prov[b].status) /\ ~prov[b].out

\* Every terminal batch is settled or released in the end.
EventuallySettled ==
    \A b \in Batches :
        (IsTerminal(db[b].status) /\ db[b].settle = "reserved") ~> db[b].settle # "reserved"

\* The reserve of a batch that ended is given back in the end, unless a
\* process died: one that dies between writing the settlement into BATCH_TASK
\* and releasing leaves a book that no later cycle looks at.
ReserveReturned ==
    \A b \in Batches :
        (IsTerminal(db[b].status) /\ book[b] # NoUnits) ~> book[b] = NoUnits \/ crashes > 0

\* The advance duty re-issues a cancel whose request to the provider was lost
\* with the process, once a cycle starts after it and no hash is left to sync.
CancelReissued ==
    \A b \in Batches :
        (/\ db[b].status = "cancelling"
         /\ hash[b].status = ""
         /\ \A j \in Jobs : pc[j] = "idle")
        ~> prov[b].status # "in_progress"
=============================================================================
