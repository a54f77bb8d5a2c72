----------------------------- MODULE KeyRotate -----------------------------
(***************************************************************************)
(* Secrets at rest and their key rotation.  Provider keys and API keys are *)
(* stored as envelopes that name the key they were encrypted with          *)
(* (lib/xcrypto); every instance of the control plane holds the keyring it *)
(* last loaded (stateful/security.go); a sweep task rewrites all stored    *)
(* secrets to the active key (model/keyrotate, storage/rdb/keyrotate).     *)
(* Sweeps run concurrently with the business writes of all instances, with *)
(* keyring reloads, with crashes, and with a second sweep that took over a *)
(* task whose heartbeat stalled.                                           *)
(*                                                                         *)
(* A cell is a stored secret: the table and the primary key of its row.    *)
(* Its value is [secret, key]: the plaintext it stands for and the id of   *)
(* the key that encrypts it, 0 for a value stored in the clear.            *)
(***************************************************************************)
EXTENDS Naturals, Sequences, FiniteSets

CONSTANTS
    ApiInstances,   \* instances of the control plane
    Secrets,        \* plaintexts
    NProviders,     \* rows of providers, primary keys 1..NProviders
    NApiKeys,       \* rows of api_keys
    KeyFiles,       \* contents the operator gives the keyring file, in order
    Requests,       \* the [mode, dryRun, scope] sweeps are triggered with
    BatchSize,      \* rows per page (DefaultBatchSize)
    MaxAttempts,    \* attempts per page (defaultMaxBatchAttempts)
    HeartbeatTTL,   \* clock ticks after which a running task counts as lost
    MaxTasks,       \* bound: sweeps triggered
    MaxTicks,       \* bound: clock
    MaxWrites,      \* bound: business writes
    MaxSweepFaults, \* bound: failed statements and crashes
    Faults          \* subset of {"crash", "batch", "list", "finish", "progress"}

Tasks == 1..MaxTasks
NoTask == 0
Pks(tbl) == IF tbl = "providers" THEN 1..NProviders ELSE 1..NApiKeys
Cells == ({"providers"} \X Pks("providers")) \cup ({"api_keys"} \X Pks("api_keys"))
NoRing == [keys |-> {}, active |-> 0]
KeyIds == UNION {KeyFiles[n].keys : n \in DOMAIN KeyFiles}
Values == [secret : Secrets, key : {0} \cup KeyIds]
NoWrite == [cell |-> <<>>]
\* An update of a provider may replace its keys; an API key's value is fixed
\* when it is created (UpdateAPIKey drops it from the request).
Updatable == {"providers"} \X Pks("providers")

ASSUME KeyRotateAssumption ==
    /\ NProviders \in Nat /\ NApiKeys \in Nat
    /\ BatchSize \in Nat \ {0} /\ MaxAttempts \in Nat \ {0}
    /\ HeartbeatTTL \in Nat \ {0} /\ MaxTasks \in Nat /\ MaxTicks \in Nat
    /\ KeyFiles \in Seq([keys : SUBSET Nat, active : Nat]) /\ Len(KeyFiles) > 0
    /\ \A n \in DOMAIN KeyFiles : KeyFiles[n] = NoRing \/ KeyFiles[n].active \in KeyFiles[n].keys
    /\ ApiInstances # {}
    /\ Requests \subseteq [mode : {"reencrypt", "decrypt"}, dryRun : BOOLEAN,
                           scope : {"all", "providers", "api_keys"}]

VARIABLES
    cell,           \* [Cells -> Values], the committed rows
    file,           \* index in KeyFiles of the keyring file's present content
    ring,           \* the keyring each instance has loaded
    write,          \* the business write each instance has in flight, or NoWrite
    sweepLock,      \* holder_task_id of the single row of keyrotate_sweep_lock
    task,           \* rows of keyrotate_sweep_tasks
    exec,           \* the goroutine run(task), on the instance that triggered it
    committed,      \* rows each sweep has rewritten in transactions that committed
    clock,          \* clock
    spent           \* writes and faults so far

sweepVars == <<cell, file, ring, write, sweepLock, task, exec, committed, clock, spent>>

Row(status) == [status |-> status, mode |-> "reencrypt", dryRun |-> FALSE,
                scope |-> "all", rewritten |-> 0, heartbeat |-> 0,
                file |-> 0, clean |-> FALSE]
NoExec == [pc |-> "none", on |-> CHOOSE i \in ApiInstances : TRUE, tables |-> <<>>,
         cursor |-> 0, page |-> <<>>, pending |-> <<>>, attempt |-> 0,
         failed |-> FALSE, rew |-> 0, cnt |-> 0]

\* The goroutine is over; cnt is what it put, or would have put, in the summary.
Gone(e) == [NoExec EXCEPT !.pc = "done", !.cnt = e.cnt]

SweepInit ==
    /\ cell \in [Cells -> {v \in Values : v.key \in {0, KeyFiles[1].active}}]
    /\ \A c \in Cells : cell[c].secret = CHOOSE s \in Secrets : TRUE
    /\ file = 1
    /\ ring = [i \in ApiInstances |-> KeyFiles[1]]
    /\ write = [i \in ApiInstances |-> NoWrite]
    /\ sweepLock = NoTask
    /\ task = [t \in Tasks |-> Row("none")]
    /\ exec = [t \in Tasks |-> NoExec]
    /\ committed = [t \in Tasks |-> 0]
    /\ clock = 0
    /\ spent = [writes |-> 0, faults |-> 0]

----------------------------------------------------------------------------
(* The keyring: what Encrypt and Decrypt do to a stored value.             *)

\* Without a keyring values pass through; with one, the active key is used.
EncryptIfEnabled(kr, v) == IF kr = NoRing THEN v ELSE [v EXCEPT !.key = kr.active]

\* Values in the clear pass through; an envelope needs the key it names.
Decrypts(kr, v) == kr = NoRing \/ v.key = 0 \/ v.key \in kr.keys

\* The text a reader gets: without a keyring, the envelope itself.
Decrypted(kr, v) == IF kr = NoRing THEN v ELSE [v EXCEPT !.key = 0]

\* A reader on an instance with keyring kr sees the secret of v.
Readable(kr, v) == v.key = 0 \/ v.key \in kr.keys

----------------------------------------------------------------------------
(* transform: what a sweep does to one value.                              *)

\* Mutant: any envelope is taken for one under the active key.
Skips_AnyEnvelope(kr, mode, v) ==
    \/ mode = "decrypt" /\ v.key = 0
    \/ mode = "reencrypt" /\ (v.key # 0 \/ kr = NoRing)

Skips(kr, mode, v) ==
    \/ mode = "decrypt" /\ v.key = 0
    \/ mode = "reencrypt" /\ v.key # 0 /\ kr # NoRing /\ v.key = kr.active
    \/ mode = "reencrypt" /\ kr = NoRing

Transformable(kr, mode, v) == Skips(kr, mode, v) \/ Decrypts(kr, v)

Target(kr, mode, v) ==
    IF mode = "decrypt" THEN Decrypted(kr, v)
    ELSE EncryptIfEnabled(kr, Decrypted(kr, v))

TablesForScope(scope) ==
    CASE scope = "providers" -> <<"providers">>
      [] scope = "api_keys"  -> <<"api_keys">>
      [] OTHER               -> <<"providers", "api_keys">>

----------------------------------------------------------------------------
(* Locks, faults and the operator's view.                                  *)

Fault(kind) == kind \in Faults /\ spent.faults < MaxSweepFaults
CountFault == spent' = [spent EXCEPT !.faults = @ + 1]

\* The cells a batch transaction has written and not yet committed are locked.
Locked == UNION {IF exec[t].pc = "commit" THEN DOMAIN exec[t].pending ELSE {} : t \in Tasks}

AllLoaded == \A i \in ApiInstances : ring[i] = KeyFiles[file]

\* Nothing encrypted before the last reload is still on its way to a row.
Quiet ==
    /\ \A i \in ApiInstances : write[i] # NoWrite => write[i].val.key = KeyFiles[file].active
    /\ \A t \in Tasks : exec[t].pc = "commit" =>
          \A c \in DOMAIN exec[t].pending :
              exec[t].pending[c].key \in {0, KeyFiles[file].active}

\* A sweep that the operator may take as "every row uses the active key":
\* reencrypt over all tables, begun when all had loaded the present file.
Converged(t) ==
    /\ task[t].status = "succeeded" /\ task[t].mode = "reencrypt"
    /\ ~task[t].dryRun /\ task[t].scope = "all"
    /\ task[t].clean /\ task[t].file = file

----------------------------------------------------------------------------
(* Business writes and the keyring.                                        *)

\* Updating a provider encrypts its secret with the keyring of the instance that serves the request ...
WriteEncrypt(i, c, s) ==
    /\ write[i] = NoWrite /\ spent.writes < MaxWrites
    /\ write' = [write EXCEPT ![i] =
           [cell |-> c, val |-> EncryptIfEnabled(ring[i], [secret |-> s, key |-> 0])]]
    /\ spent' = [spent EXCEPT !.writes = @ + 1]
    /\ UNCHANGED <<cell, file, ring, sweepLock, task, exec, committed, clock>>

\* ... and stores the envelope, waiting for the row's lock.
WriteCommit(i) ==
    /\ write[i] # NoWrite /\ write[i].cell \notin Locked
    /\ cell' = [cell EXCEPT ![write[i].cell] = write[i].val]
    /\ write' = [write EXCEPT ![i] = NoWrite]
    /\ UNCHANGED <<file, ring, sweepLock, task, exec, committed, clock, spent>>

\* The operator's runbook: the file changes once every instance has loaded it,
\* and a key is taken out only after a converged sweep.
EditKeyFile ==
    /\ file < Len(KeyFiles) /\ AllLoaded
    /\ KeyFiles[file].keys \subseteq KeyFiles[file + 1].keys \/ \E t \in Tasks : Converged(t)
    /\ file' = file + 1
    /\ UNCHANGED <<cell, ring, write, sweepLock, task, exec, committed, clock, spent>>

\* /reload/security: re-read the file and swap the keyring.
ReloadSecurity(i) ==
    /\ ring[i] # KeyFiles[file]
    /\ ring' = [ring EXCEPT ![i] = KeyFiles[file]]
    /\ UNCHANGED <<cell, file, write, sweepLock, task, exec, committed, clock, spent>>

\* CheckSecretAtRest: a database that holds ciphertext needs a keyring.
MayStart(kr) == kr # NoRing \/ \A c \in Cells : cell[c].key = 0

\* An instance dies with its goroutines and requests and starts again with the
\* keyring file; an open transaction is rolled back by the database.
Crash(i) ==
    /\ Fault("crash") /\ MayStart(KeyFiles[file])
    /\ ring' = [ring EXCEPT ![i] = KeyFiles[file]]
    /\ write' = [write EXCEPT ![i] = NoWrite]
    /\ exec' = [t \in Tasks |-> IF exec[t].on = i /\ exec[t].pc \notin {"none", "done"}
                                THEN Gone(exec[t])
                                ELSE exec[t]]
    /\ CountFault
    /\ UNCHANGED <<cell, file, sweepLock, task, committed, clock>>

ClockTick ==
    /\ clock < MaxTicks
    /\ clock' = clock + 1
    /\ UNCHANGED <<cell, file, ring, write, sweepLock, task, exec, committed, spent>>

----------------------------------------------------------------------------
(* Sweep tasks.                                                            *)

\* AcquireTask, decision: the holder is running and its heartbeat is fresh.
HeldByLive == sweepLock # NoTask /\ task[sweepLock].status = "running"
              /\ clock - task[sweepLock].heartbeat < HeartbeatTTL

\* AcquireTask, effect: a running holder that went silent is marked lost.
MarkLost(rows) ==
    IF sweepLock # NoTask /\ rows[sweepLock].status = "running"
    THEN [rows EXCEPT ![sweepLock].status = "failed"] ELSE rows

\* Trigger: one transaction decides, under the lock row's FOR UPDATE, inserts
\* the task and takes the lock; the goroutine starts on this instance.
Trigger(i, t, req) ==
    /\ task[t].status = "none" /\ \A u \in 1..(t - 1) : task[u].status # "none"
    /\ ~HeldByLive
    /\ task' = [MarkLost(task) EXCEPT ![t] =
           [Row("running") EXCEPT !.mode = req.mode, !.dryRun = req.dryRun,
                !.scope = req.scope, !.heartbeat = clock,
                !.file = file, !.clean = AllLoaded /\ Quiet]]
    /\ sweepLock' = t
    /\ exec' = [exec EXCEPT ![t] = [NoExec EXCEPT !.pc = "list", !.on = i,
                                        !.tables = TablesForScope(req.scope)]]
    /\ UNCHANGED <<cell, file, ring, write, committed, clock, spent>>

NextSweepTable(e) ==
    [e EXCEPT !.pc = IF Len(e.tables) = 1 THEN "finish" ELSE "list",
              !.tables = Tail(@), !.cursor = 0, !.attempt = 0,
              !.page = <<>>, !.pending = <<>>]

\* One page of the table: the primary keys after the cursor.
ListRows(tbl, cursor) == {pk \in Pks(tbl) : pk > cursor /\ pk <= cursor + BatchSize}

\* sweepTable reads a page outside any transaction; an empty page ends it.
SweepList(t) ==
    LET e == exec[t]
        tbl == Head(e.tables)
        pks == ListRows(tbl, e.cursor)
    IN /\ e.pc = "list"
       /\ exec' = [exec EXCEPT ![t] =
              IF pks = {} THEN NextSweepTable(e)
              ELSE [e EXCEPT !.pc = "batch", !.attempt = 0,
                             !.page = [pk \in pks |-> cell[<<tbl, pk>>]]]]
       /\ UNCHANGED <<cell, file, ring, write, sweepLock, task, committed, clock, spent>>

\* A failed scan fails the table; the other tables are still swept.
SweepListFails(t) ==
    /\ Fault("list") /\ exec[t].pc = "list"
    /\ exec' = [exec EXCEPT ![t] = [NextSweepTable(exec[t]) EXCEPT !.failed = TRUE]]
    /\ CountFault
    /\ UNCHANGED <<cell, file, ring, write, sweepLock, task, committed, clock>>

\* The rows of the page execBatchOnce rewrites with keyring kr.
Rewrites(kr, t) ==
    {pk \in DOMAIN exec[t].page : ~Skips(kr, task[t].mode, exec[t].page[pk])}
PageDecrypts(kr, t) ==
    \A pk \in DOMAIN exec[t].page : Transformable(kr, task[t].mode, exec[t].page[pk])

\* execBatchOnce inside its transaction: every value of the page as it was read
\* is transformed with the keyring of the moment and written over the row.  A dry
\* run counts the same rows and writes none.
BatchApply(t) ==
    LET e == exec[t]
        kr == ring[e.on]
        tbl == Head(e.tables)
        rewritten == {<<tbl, pk>> : pk \in Rewrites(kr, t)}
    IN /\ e.pc = "batch" /\ PageDecrypts(kr, t)
       /\ task[t].dryRun \/ rewritten \cap Locked = {}
       /\ exec' = [exec EXCEPT ![t] =
              [e EXCEPT !.pc = "commit", !.rew = Cardinality(rewritten),
                        !.cnt = @ + Cardinality(rewritten),
                        !.pending = IF task[t].dryRun THEN <<>>
                                    ELSE [c \in rewritten |-> Target(kr, task[t].mode, e.page[c[2]])]]]
       /\ UNCHANGED <<cell, file, ring, write, sweepLock, task, committed, clock, spent>>

\* The rows and the progress with its heartbeat commit together; a progress
\* update that fails leaves the rewritten rows alone.
BatchCommit(t) ==
    LET e == exec[t]
        last == e.cursor + Cardinality(DOMAIN e.page)
    IN /\ e.pc = "commit"
       /\ cell' = [c \in Cells |-> IF c \in DOMAIN e.pending THEN e.pending[c] ELSE cell[c]]
       /\ committed' = [committed EXCEPT ![t] = @ + Cardinality(DOMAIN e.pending)]
       /\ exec' = [exec EXCEPT ![t] = [e EXCEPT !.pc = "list", !.cursor = last,
                                           !.page = <<>>, !.pending = <<>>, !.rew = 0]]
       /\ \/ task' = [task EXCEPT ![t].rewritten = @ + e.rew, ![t].heartbeat = clock]
             /\ UNCHANGED spent
          \/ Fault("progress") /\ CountFault /\ UNCHANGED task
       /\ UNCHANGED <<file, ring, write, sweepLock, clock>>

AttemptFailed(e) ==
    IF e.attempt + 1 < MaxAttempts
    THEN [e EXCEPT !.pc = "batch", !.attempt = @ + 1, !.pending = <<>>]
    ELSE [NextSweepTable(e) EXCEPT !.failed = TRUE]

\* A row no key of the keyring decrypts fails the attempt.
BatchUndecryptable(t) ==
    /\ exec[t].pc = "batch" /\ ~PageDecrypts(ring[exec[t].on], t)
    /\ exec' = [exec EXCEPT ![t] = AttemptFailed(exec[t])]
    /\ UNCHANGED <<cell, file, ring, write, sweepLock, task, committed, clock, spent>>

\* Mutant: the progress is written outside the transaction that rolls back.
BatchFails_KeepsProgress(t) ==
    /\ Fault("batch") /\ exec[t].pc = "commit"
    /\ exec' = [exec EXCEPT ![t] = AttemptFailed(exec[t])]
    /\ task' = [task EXCEPT ![t].rewritten = @ + exec[t].rew, ![t].heartbeat = clock]
    /\ CountFault
    /\ UNCHANGED <<cell, file, ring, write, sweepLock, committed, clock>>

\* A deadlock, a lock wait that times out or a commit that fails rolls the
\* transaction back; the in-memory counts keep the attempt.
BatchFails(t) ==
    /\ Fault("batch") /\ exec[t].pc = "commit"
    /\ exec' = [exec EXCEPT ![t] = AttemptFailed(exec[t])]
    /\ CountFault
    /\ UNCHANGED <<cell, file, ring, write, sweepLock, task, committed, clock>>

\* Mutant: the lock is released without looking at its holder.
FinishTask_AnyLock(t) ==
    /\ exec[t].pc = "finish"
    /\ task' = [task EXCEPT ![t].status = IF exec[t].failed THEN "failed" ELSE "succeeded",
                            ![t].heartbeat = clock]
    /\ sweepLock' = NoTask
    /\ exec' = [exec EXCEPT ![t] = Gone(exec[t])]
    /\ UNCHANGED <<cell, file, ring, write, committed, clock, spent>>

\* FinishTask: the row becomes terminal, whatever its status was, and the lock
\* is released if this task still holds it.
FinishTask(t) ==
    /\ exec[t].pc = "finish"
    /\ task' = [task EXCEPT ![t].status = IF exec[t].failed THEN "failed" ELSE "succeeded",
                            ![t].heartbeat = clock]
    /\ sweepLock' = IF sweepLock = t THEN NoTask ELSE sweepLock
    /\ exec' = [exec EXCEPT ![t] = Gone(exec[t])]
    /\ UNCHANGED <<cell, file, ring, write, committed, clock, spent>>

\* Its failure is logged, and the task stays running until it is taken over.
FinishTaskFails(t) ==
    /\ Fault("finish") /\ exec[t].pc = "finish"
    /\ exec' = [exec EXCEPT ![t] = Gone(exec[t])]
    /\ CountFault
    /\ UNCHANGED <<cell, file, ring, write, sweepLock, task, committed, clock>>

Executor(t) ==
    \/ SweepList(t) \/ BatchApply(t) \/ BatchCommit(t)
    \/ BatchUndecryptable(t) \/ FinishTask(t)

ExecutorFails(t) == SweepListFails(t) \/ BatchFails(t) \/ FinishTaskFails(t)

SweepNext ==
    \/ \E i \in ApiInstances, c \in Updatable, s \in Secrets : WriteEncrypt(i, c, s)
    \/ \E i \in ApiInstances : WriteCommit(i) \/ ReloadSecurity(i) \/ Crash(i)
    \/ EditKeyFile \/ ClockTick
    \/ \E i \in ApiInstances, t \in Tasks, req \in Requests : Trigger(i, t, req)
    \/ \E t \in Tasks : Executor(t) \/ ExecutorFails(t)

SweepSpec == SweepInit /\ [][SweepNext]_sweepVars

----------------------------------------------------------------------------
(* Properties.                                                             *)

SweepPages == UNION {[P -> Values] : P \in SUBSET (1..(NProviders + NApiKeys))}
Pendings == UNION {[C -> Values] : C \in SUBSET Cells}
ExecStates ==
    [pc : {"none", "list", "batch", "commit", "finish", "done"}, on : ApiInstances,
     tables : {<<>>, <<"providers">>, <<"api_keys">>, <<"providers", "api_keys">>},
     cursor : Nat, page : SweepPages, pending : Pendings,
     attempt : 0..(MaxAttempts - 1), failed : BOOLEAN, rew : Nat, cnt : Nat]
TaskRows ==
    [status : {"none", "running", "succeeded", "failed"},
     mode : {"reencrypt", "decrypt"}, dryRun : BOOLEAN,
     scope : {"all", "providers", "api_keys"}, rewritten : Nat,
     heartbeat : 0..MaxTicks, file : Nat, clean : BOOLEAN]

\* The type invariant: rows, keyrings, tasks and executors have the shapes the
\* tables and structs give them, an attempt counter stays below its limit, and
\* an executor that is not done has a table to work on.
SweepTypeOK ==
    /\ cell \in [Cells -> Values]
    /\ file \in 1..Len(KeyFiles)
    /\ ring \in [ApiInstances -> {KeyFiles[n] : n \in DOMAIN KeyFiles}]
    /\ \A i \in ApiInstances : write[i] = NoWrite \/ write[i] \in [cell : Updatable, val : Values]
    /\ sweepLock \in {NoTask} \cup Tasks
    /\ task \in [Tasks -> TaskRows] /\ exec \in [Tasks -> ExecStates]
    /\ \A t \in Tasks : exec[t].pc \in {"list", "batch", "commit"} => exec[t].tables # <<>>
    /\ committed \in [Tasks -> Nat] /\ clock \in 0..MaxTicks

\* storage/rdb/keyrotate AcquireTask, FinishTask: a task that the table calls
\* running is the one the lock row names, so a conflict response always points
\* at it, also after take-overs and late finishes of executors given up as lost.
RunningHoldsLock == \A t \in Tasks : task[t].status = "running" => sweepLock = t

\* lib/xcrypto Keyring.Decrypt with the rotation runbook: if the operator
\* reloads all instances after each edit of the keyring file and takes a key
\* out only after a sweep that began in that state succeeded, every instance
\* can read every stored secret at all times, whatever business writes, failed
\* batches, crashes and take-overs happen meanwhile.
AlwaysReadable == \A i \in ApiInstances, c \in Cells : Readable(ring[i], cell[c])

\* model/keyrotate execBatchOnce: "progress always reflects committed work": the
\* rewritten count of a real sweep's row never exceeds the rewrites that its
\* committed transactions made.
ProgressIsCommitted ==
    \A t \in Tasks : ~task[t].dryRun => task[t].rewritten <= committed[t]
=============================================================================
