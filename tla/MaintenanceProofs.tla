-------------------------- MODULE MaintenanceProofs -------------------------
(***************************************************************************)
(* Proofs about the jobs that work through whole tables.                   *)
(*                                                                         *)
(* The sweep (KeyRotate), for any number of instances, secrets, tasks,     *)
(* pages, writes and faults: a task that runs holds the lock, the progress *)
(* of a task is committed work, and every instance can read every secret   *)
(* while keys are added, switched and taken out.  The last one rests on    *)
(* what a sweep has achieved so far: SweptInv says which rows are known to *)
(* be under the active key from where the sweep stands.                    *)
(*                                                                         *)
(* The files of batches (BatchFiles), for any number of files, keys, job   *)
(* runs, writes and faults: a row keeps what it knows about a file, and a  *)
(* result file is never shown as an input.                                 *)
(***************************************************************************)
EXTENDS KeyRotate, BatchFiles, FiniteSetTheorems, TLAPS

-----------------------------------------------------------------------------
(* The sweep: the invariants.                                              *)

\* The keyring files of the runbook: there always is a keyring, and neither of
\* two successive files makes a key active that the other lacks: a key is added
\* before it becomes active, and taken out after another one has become active.
RotationFiles ==
    /\ \A n \in DOMAIN KeyFiles : KeyFiles[n].active \in KeyFiles[n].keys
    /\ \A n \in 1..(Len(KeyFiles) - 1) :
          KeyFiles[n].active \in KeyFiles[n + 1].keys /\ KeyFiles[n + 1].active \in KeyFiles[n].keys

AtWork == {"list", "batch", "commit", "finish"}

\* An executor has a page that is the one after its cursor, and writes rows of
\* that page only.
ShapeOf(e) ==
    /\ e.pc \in {"list", "batch", "commit"} => e.tables # <<>>
    /\ e.pc = "finish" => e.tables = <<>>
    /\ e.pc \in {"batch", "commit"} => DOMAIN e.page = ListRows(Head(e.tables), e.cursor)
    /\ e.pc = "commit" => DOMAIN e.pending \subseteq {<<Head(e.tables), pk>> : pk \in DOMAIN e.page}
    /\ e.pc # "commit" => DOMAIN e.pending = {}

SweepTypes ==
    /\ cell \in [Cells -> Values]
    /\ file \in 1..Len(KeyFiles)
    /\ ring \in [ApiInstances -> {KeyFiles[n] : n \in DOMAIN KeyFiles}]
    /\ write \in [ApiInstances -> {NoWrite} \cup [cell : Updatable, val : Values]]
    /\ sweepLock \in {NoTask} \cup Tasks
    /\ task \in [Tasks -> TaskRows] /\ exec \in [Tasks -> ExecStates]
    /\ committed \in [Tasks -> Nat] /\ clock \in 0..MaxTicks
    /\ \A t \in Tasks : ShapeOf(exec[t])

\* A transaction that is about to commit counts the rows it has written.
ProgressInv ==
    \A t \in Tasks :
        ~task[t].dryRun =>
            /\ task[t].rewritten <= committed[t]
            /\ exec[t].pc = "commit" => exec[t].rew = Cardinality(DOMAIN exec[t].pending)

\* An instance has the present file's keyring or the one before; no task was
\* triggered under a later file.
RingInv ==
    /\ \A i \in ApiInstances : ring[i] \in {KeyFiles[n] : n \in {file, file - 1} \cap DOMAIN KeyFiles}
    /\ \A t \in Tasks : task[t].file <= file

\* The keys in K encrypt all that is on its way to a row.
InFlight(w, x, K) ==
    /\ \A i \in ApiInstances : w[i] # NoWrite => w[i].val.key \in K
    /\ \A t \in Tasks : \A c \in DOMAIN x[t].pending : x[t].pending[c].key \in K

\* The keys that are in the present file and in every keyring, and 0, for no key.
KnownKeys(f, rg) == {0} \cup {k \in KeyFiles[f].keys : \A i \in ApiInstances : k \in rg[i].keys}

\* What is stored, and what is on its way to a row, can be read everywhere.
KeysInv ==
    /\ \A c \in Cells : cell[c].key \in KnownKeys(file, ring)
    /\ InFlight(write, exec, KnownKeys(file, ring))

\* The keys that stay when those that are not active are taken out.
Current(f) == {0, KeyFiles[f].active}

\* A sweep over everything, begun when all instances had the present file.
CleanSweep(t) ==
    /\ task[t].clean /\ task[t].file = file /\ task[t].mode = "reencrypt"
    /\ ~task[t].dryRun /\ task[t].scope = "all"

\* The rows an executor is through with.
Swept(e, c) ==
    \/ e.tables = <<>>
    \/ e.tables = <<"api_keys">> /\ (c[1] = "providers" \/ c[2] <= e.cursor)
    \/ e.tables = <<"providers", "api_keys">> /\ c[1] = "providers" /\ c[2] <= e.cursor

\* Where a sweep stands, with the status st of its task and the rows cl: all rows
\* it is through with are under a key of K; a row of its page that was when the
\* page was read still is, and the others are about to be written.
SweptBy(e, st, cl, K) ==
    /\ e.pc \in AtWork => e.tables \in {<<>>, <<"api_keys">>, <<"providers", "api_keys">>}
    /\ e.pc \in AtWork /\ ~e.failed => \A c \in Cells : Swept(e, c) => cl[c].key \in K
    /\ e.pc \in {"batch", "commit"} =>
          \A pk \in DOMAIN e.page : e.page[pk].key \in K => cl[<<Head(e.tables), pk>>].key \in K
    /\ e.pc = "commit" =>
          \A pk \in DOMAIN e.page : e.page[pk].key \in K \/ <<Head(e.tables), pk>> \in DOMAIN e.pending
    /\ st = "succeeded" => \A c \in Cells : cl[c].key \in K

\* Since a clean sweep began, only the active key has been used.
SweptInv ==
    \A t \in Tasks : CleanSweep(t) =>
        /\ AllLoaded /\ InFlight(write, exec, Current(file))
        /\ SweptBy(exec[t], task[t].status, cell, Current(file))

ReadInv == RingInv /\ KeysInv /\ SweptInv

-----------------------------------------------------------------------------
(* The sweep: the states of an executor.                                   *)

\* Nothing read and nothing written is a page and a pending transaction.
LEMMA Empty == <<>> \in SweepPages /\ <<>> \in Pendings /\ DOMAIN <<>> = {}
  <1>1. <<>> \in [{} -> Values] /\ DOMAIN <<>> = {}
    BY SMT
  <1> QED
    BY <1>1, Zenon DEF SweepPages, Pendings

\* The tables left when one is done.
LEMMA TableLists ==
    /\ Tail(<<"providers">>) = <<>> /\ Tail(<<"api_keys">>) = <<>>
    /\ Tail(<<"providers", "api_keys">>) = <<"api_keys">>
    /\ Len(<<"providers">>) = 1 /\ Len(<<"api_keys">>) = 1 /\ Len(<<"providers", "api_keys">>) = 2
    /\ Head(<<"providers">>) = "providers" /\ Head(<<"api_keys">>) = "api_keys"
    /\ Head(<<"providers", "api_keys">>) = "providers"
    /\ <<"providers">> # <<>> /\ <<"api_keys">> # <<>> /\ <<"providers", "api_keys">> # <<>>
    /\ <<"providers">> # <<"api_keys">> /\ <<"providers", "api_keys">> # <<"api_keys">>
    /\ <<"providers", "api_keys">> # <<"providers">>
  OBVIOUS

\* Before a sweep.
LEMMA NoExecState ==
    /\ NoExec \in ExecStates /\ NoExec.pc = "none" /\ DOMAIN NoExec.pending = {}
    /\ ShapeOf(NoExec)
  <1>1. (CHOOSE i \in ApiInstances : TRUE) \in ApiInstances
    BY KeyRotateAssumption, Zenon
  <1>2. 0 \in 0..(MaxAttempts - 1) /\ 0 \in Nat
    BY KeyRotateAssumption
  <1>3. NoExec \in ExecStates /\ NoExec.pc = "none" /\ NoExec.pending = <<>>
    BY Empty, <1>1, <1>2, Zenon DEF NoExec, ExecStates
  <1> QED
    BY Empty, <1>3, Zenon DEF ShapeOf

\* After it.
LEMMA GoneState ==
    ASSUME NEW e \in ExecStates
    PROVE  /\ Gone(e) \in ExecStates /\ Gone(e).pc = "done" /\ DOMAIN Gone(e).pending = {}
           /\ ShapeOf(Gone(e))
  <1>1. /\ Gone(e) = [NoExec EXCEPT !.pc = "done", !.cnt = e.cnt]
        /\ e.cnt \in Nat /\ NoExec \in ExecStates
    BY NoExecState, Zenon DEF Gone, ExecStates
  <1>2. Gone(e) \in ExecStates
    BY <1>1, Zenon DEF ExecStates
  <1>3. Gone(e).pc = "done" /\ Gone(e).pending = NoExec.pending
    BY <1>1, Zenon DEF ExecStates
  <1> QED
    BY <1>2, <1>3, NoExecState, Zenon DEF ShapeOf

\* The beginning.
Begun(i, req) == [NoExec EXCEPT !.pc = "list", !.on = i, !.tables = TablesForScope(req.scope)]

\* Such an executor is well formed and stands before the first page.
LEMMA BegunState ==
    ASSUME NEW i \in ApiInstances, NEW req \in Requests
    PROVE  /\ Begun(i, req) \in ExecStates /\ ShapeOf(Begun(i, req))
           /\ Begun(i, req).pc = "list" /\ Begun(i, req).cursor = 0
           /\ DOMAIN Begun(i, req).pending = {}
           /\ req.scope = "all" => Begun(i, req).tables = <<"providers", "api_keys">>
  <1> DEFINE ts == TablesForScope(req.scope)
  <1>1. req.scope \in {"all", "providers", "api_keys"}
    BY KeyRotateAssumption, Zenon
  <1>2. /\ ts \in {<<"providers">>, <<"api_keys">>, <<"providers", "api_keys">>}
        /\ req.scope = "all" => ts = <<"providers", "api_keys">>
    <2>1. CASE req.scope = "all"
      BY <2>1 DEF TablesForScope
    <2>2. CASE req.scope = "providers"
      BY <2>2 DEF TablesForScope
    <2>3. CASE req.scope = "api_keys"
      BY <2>3 DEF TablesForScope
    <2> QED
      BY <1>1, <2>1, <2>2, <2>3, Zenon
  <1>3. ts # <<>>
    BY <1>2, TableLists, Zenon
  <1> HIDE DEF ts
  <1>4. Begun(i, req) = [NoExec EXCEPT !.pc = "list", !.on = i, !.tables = ts] /\ NoExec \in ExecStates
    BY NoExecState, Zenon DEF Begun, ts
  <1>5. Begun(i, req) \in ExecStates
    BY <1>2, <1>4, Zenon DEF ExecStates
  <1>6. /\ Begun(i, req).pc = "list" /\ Begun(i, req).cursor = NoExec.cursor
        /\ Begun(i, req).pending = NoExec.pending /\ Begun(i, req).tables = ts
    BY <1>4, Zenon DEF ExecStates
  <1>7. NoExec.cursor = 0
    BY Zenon DEF NoExec
  <1> QED
    BY <1>2, <1>3, <1>5, <1>6, <1>7, NoExecState, Zenon DEF ShapeOf

\* On to the next table.
LEMMA NextTableState ==
    ASSUME NEW e \in ExecStates, e.tables # <<>>
    PROVE  /\ NextSweepTable(e) \in ExecStates /\ ShapeOf(NextSweepTable(e))
           /\ NextSweepTable(e).pc = IF Tail(e.tables) = <<>> THEN "finish" ELSE "list"
           /\ NextSweepTable(e).tables = Tail(e.tables) /\ NextSweepTable(e).cursor = 0
           /\ DOMAIN NextSweepTable(e).pending = {} /\ NextSweepTable(e).failed = e.failed
  <1> DEFINE ts == Tail(e.tables)
             p == IF Len(e.tables) = 1 THEN "finish" ELSE "list"
             n == NextSweepTable(e)
  <1>1. e.tables \in {<<"providers">>, <<"api_keys">>, <<"providers", "api_keys">>}
    BY Zenon DEF ExecStates
  <1>2. /\ ts \in {<<>>, <<"api_keys">>}
        /\ p = IF ts = <<>> THEN "finish" ELSE "list"
    <2>1. CASE e.tables = <<"providers", "api_keys">>
      <3>1. ts = <<"api_keys">> /\ Len(e.tables) = 2
        BY <2>1, TableLists, Zenon
      <3>2. Len(e.tables) # 1
        BY <3>1
      <3> QED
        BY <3>1, <3>2, TableLists, Zenon
    <2>2. CASE e.tables \in {<<"providers">>, <<"api_keys">>}
      <3>1. ts = <<>> /\ Len(e.tables) = 1
        BY <2>2, TableLists, Zenon
      <3> QED
        BY <3>1
    <2> QED
      BY <1>1, <2>1, <2>2, Zenon
  <1>3. 0 \in Nat /\ 0 \in 0..(MaxAttempts - 1)
    BY KeyRotateAssumption
  <1> HIDE DEF p
  <1>4. n = [e EXCEPT !.pc = p, !.tables = Tail(@), !.cursor = 0, !.attempt = 0,
                      !.page = <<>>, !.pending = <<>>]
    BY Zenon DEF NextSweepTable, p
  <1>5. n = [e EXCEPT !.pc = p, !.tables = ts, !.cursor = 0, !.attempt = 0,
                      !.page = <<>>, !.pending = <<>>]
    BY <1>4, Zenon DEF ExecStates
  <1> HIDE DEF n, ts
  <1>6. n \in ExecStates
    BY <1>2, <1>3, <1>5, Empty, Zenon DEF ExecStates
  <1>7. n.pc = p /\ n.tables = ts /\ n.cursor = 0 /\ n.pending = <<>> /\ n.failed = e.failed
    BY <1>5, Zenon DEF ExecStates
  <1>8. ShapeOf(n)
    BY <1>2, <1>7, Empty, Zenon DEF ShapeOf
  <1> QED
    BY <1>2, <1>6, <1>7, <1>8, Empty, Zenon DEF n, ts

\* The same for a table that failed.
FailedTable(e) == [NextSweepTable(e) EXCEPT !.failed = TRUE]

\* The executor goes on with the next table, marked as failed.
LEMMA FailedTableState ==
    ASSUME NEW e \in ExecStates, e.tables # <<>>
    PROVE  /\ FailedTable(e) \in ExecStates /\ ShapeOf(FailedTable(e))
           /\ FailedTable(e).pc \in {"list", "finish"} /\ FailedTable(e).tables = Tail(e.tables)
           /\ DOMAIN FailedTable(e).pending = {} /\ FailedTable(e).failed
  <1> DEFINE n == NextSweepTable(e)  f == FailedTable(e)
  <1>1. /\ n \in ExecStates /\ ShapeOf(n) /\ n.tables = Tail(e.tables) /\ DOMAIN n.pending = {}
        /\ n.pc \in {"list", "finish"}
    BY NextTableState, Zenon
  <1>2. f = [n EXCEPT !.failed = TRUE]
    BY Zenon DEF FailedTable
  <1> HIDE DEF n, f
  <1>3. f \in ExecStates
    BY <1>1, <1>2, Zenon DEF ExecStates
  <1>4. f.pc = n.pc /\ f.tables = n.tables /\ f.pending = n.pending /\ f.failed = TRUE
    BY <1>1, <1>2, Zenon DEF ExecStates
  <1>5. ShapeOf(f)
    BY <1>1, <1>4, Zenon DEF ShapeOf
  <1> QED
    BY <1>1, <1>3, <1>4, <1>5, Zenon DEF f

\* An attempt that failed: the page is tried again, or the table has failed.
Retried(e) == [e EXCEPT !.pc = "batch", !.attempt = @ + 1, !.pending = <<>>]

\* The executor keeps its page and its place; what it had pending is gone.
LEMMA RetriedState ==
    ASSUME NEW e \in ExecStates, ShapeOf(e), e.pc \in {"batch", "commit"}, e.attempt + 1 < MaxAttempts
    PROVE  /\ Retried(e) \in ExecStates /\ ShapeOf(Retried(e))
           /\ Retried(e).pc = "batch" /\ DOMAIN Retried(e).pending = {}
           /\ Retried(e).tables = e.tables /\ Retried(e).failed = e.failed
           /\ Retried(e).cursor = e.cursor /\ Retried(e).page = e.page
  <1> DEFINE a == e.attempt + 1  f == Retried(e)
  <1>1. a \in 0..(MaxAttempts - 1)
    <2>1. e.attempt \in 0..(MaxAttempts - 1)
      BY Zenon DEF ExecStates
    <2> QED
      BY <2>1, KeyRotateAssumption
  <1>2. f = [e EXCEPT !.pc = "batch", !.attempt = a, !.pending = <<>>]
    BY Zenon DEF Retried, ExecStates
  <1> HIDE DEF a, f
  <1>3. f \in ExecStates
    BY <1>1, <1>2, Empty, Zenon DEF ExecStates
  <1>4. /\ f.pc = "batch" /\ f.pending = <<>> /\ f.tables = e.tables /\ f.failed = e.failed
        /\ f.cursor = e.cursor /\ f.page = e.page
    BY <1>2, Zenon DEF ExecStates
  <1>5. ShapeOf(f)
    BY <1>4, Empty, Zenon DEF ShapeOf
  <1> QED
    BY <1>3, <1>4, <1>5, Empty, Zenon DEF f

\* AttemptFailed is one of the two.
LEMMA AttemptFailedIs ==
    ASSUME NEW e
    PROVE  \/ e.attempt + 1 < MaxAttempts /\ AttemptFailed(e) = Retried(e)
           \/ AttemptFailed(e) = FailedTable(e)
  BY Zenon DEF AttemptFailed, Retried, FailedTable

\* A page has been read.
HasRead(e, p) == [e EXCEPT !.pc = "batch", !.attempt = 0, !.page = p]

\* The executor holds the page it read and has written nothing.
LEMMA HasReadState ==
    ASSUME NEW e \in ExecStates, ShapeOf(e), e.pc = "list",
           NEW p \in [ListRows(Head(e.tables), e.cursor) -> Values]
    PROVE  /\ HasRead(e, p) \in ExecStates /\ ShapeOf(HasRead(e, p))
           /\ HasRead(e, p).pc = "batch" /\ HasRead(e, p).page = p
           /\ DOMAIN HasRead(e, p).pending = {}
           /\ HasRead(e, p).tables = e.tables /\ HasRead(e, p).failed = e.failed
           /\ HasRead(e, p).cursor = e.cursor
  <1> DEFINE f == HasRead(e, p)
  <1>1. 0 \in 0..(MaxAttempts - 1)
    BY KeyRotateAssumption
  <1>2. ListRows(Head(e.tables), e.cursor) \subseteq 1..(NProviders + NApiKeys)
    <2>1. \A pk \in Pks(Head(e.tables)) : pk \in 1..(NProviders + NApiKeys)
      BY KeyRotateAssumption DEF Pks
    <2> QED
      BY <2>1, Zenon DEF ListRows
  <1>3. p \in SweepPages
    BY <1>2, Zenon DEF SweepPages
  <1>4. f = [e EXCEPT !.pc = "batch", !.attempt = 0, !.page = p]
    BY Zenon DEF HasRead
  <1> HIDE DEF f
  <1>5. f \in ExecStates
    BY <1>1, <1>3, <1>4, Zenon DEF ExecStates
  <1>6. /\ f.pc = "batch" /\ f.page = p /\ f.pending = e.pending /\ f.tables = e.tables
        /\ f.failed = e.failed /\ f.cursor = e.cursor
    BY <1>4, Zenon DEF ExecStates
  <1>7. DOMAIN p = ListRows(Head(e.tables), e.cursor) /\ e.tables # <<>> /\ DOMAIN e.pending = {}
    BY Zenon DEF ShapeOf
  <1>8. ShapeOf(f)
    BY <1>6, <1>7, Zenon DEF ShapeOf
  <1> QED
    BY <1>5, <1>6, <1>7, <1>8, Zenon DEF f

\* The rows of a page are rewritten, not yet committed.
HasWritten(e, n, p) == [e EXCEPT !.pc = "commit", !.rew = n, !.cnt = @ + n, !.pending = p]

\* The executor holds what it wrote, for rows of its page only.
LEMMA HasWrittenState ==
    ASSUME NEW e \in ExecStates, ShapeOf(e), e.pc = "batch", NEW n \in Nat, NEW p \in Pendings,
           DOMAIN p \subseteq {<<Head(e.tables), pk>> : pk \in DOMAIN e.page}
    PROVE  /\ HasWritten(e, n, p) \in ExecStates /\ ShapeOf(HasWritten(e, n, p))
           /\ HasWritten(e, n, p).pc = "commit" /\ HasWritten(e, n, p).rew = n
           /\ HasWritten(e, n, p).pending = p /\ HasWritten(e, n, p).page = e.page
           /\ HasWritten(e, n, p).tables = e.tables /\ HasWritten(e, n, p).failed = e.failed
           /\ HasWritten(e, n, p).cursor = e.cursor
  <1> DEFINE c == e.cnt + n  f == HasWritten(e, n, p)
  <1>1. c \in Nat
    <2>1. e.cnt \in Nat
      BY Zenon DEF ExecStates
    <2> QED
      BY <2>1
  <1>2. f = [e EXCEPT !.pc = "commit", !.rew = n, !.cnt = c, !.pending = p]
    BY Zenon DEF HasWritten, ExecStates
  <1> HIDE DEF c, f
  <1>3. f \in ExecStates
    BY <1>1, <1>2, Zenon DEF ExecStates
  <1>4. /\ f.pc = "commit" /\ f.rew = n /\ f.pending = p /\ f.page = e.page /\ f.tables = e.tables
        /\ f.failed = e.failed /\ f.cursor = e.cursor
    BY <1>2, Zenon DEF ExecStates
  <1>5. ShapeOf(f)
    BY <1>4, Zenon DEF ShapeOf
  <1> QED
    BY <1>3, <1>4, <1>5, Zenon DEF f

\* A page is committed.
PageDone(e, last) ==
    [e EXCEPT !.pc = "list", !.cursor = last, !.page = <<>>, !.pending = <<>>, !.rew = 0]

\* The executor holds nothing and stands after the page.
LEMMA PageDoneState ==
    ASSUME NEW e \in ExecStates, ShapeOf(e), e.pc = "commit", NEW last \in Nat
    PROVE  /\ PageDone(e, last) \in ExecStates /\ ShapeOf(PageDone(e, last))
           /\ PageDone(e, last).pc = "list" /\ PageDone(e, last).cursor = last
           /\ DOMAIN PageDone(e, last).pending = {}
           /\ PageDone(e, last).tables = e.tables /\ PageDone(e, last).failed = e.failed
  <1> DEFINE f == PageDone(e, last)
  <1>1. 0 \in Nat
    OBVIOUS
  <1>2. f = [e EXCEPT !.pc = "list", !.cursor = last, !.page = <<>>, !.pending = <<>>, !.rew = 0]
    BY Zenon DEF PageDone
  <1> HIDE DEF f
  <1>3. f \in ExecStates
    BY <1>1, <1>2, Empty, Zenon DEF ExecStates
  <1>4. /\ f.pc = "list" /\ f.cursor = last /\ f.pending = <<>> /\ f.tables = e.tables
        /\ f.failed = e.failed
    BY <1>2, Zenon DEF ExecStates
  <1>5. ShapeOf(f)
    BY <1>4, Empty, Zenon DEF ShapeOf
  <1> QED
    BY <1>3, <1>4, <1>5, Empty, Zenon DEF f

-----------------------------------------------------------------------------
(* The sweep: pages and what is rewritten.                                 *)

\* A page has at most BatchSize rows.
LEMMA PageSize ==
    ASSUME NEW tbl, NEW cursor \in Nat
    PROVE  /\ IsFiniteSet(ListRows(tbl, cursor)) /\ Cardinality(ListRows(tbl, cursor)) \in Nat
           /\ Cardinality(ListRows(tbl, cursor)) <= BatchSize
  <1> DEFINE I == (cursor + 1)..(cursor + BatchSize)
  <1>1. BatchSize \in Nat \ {0}
    BY KeyRotateAssumption, Zenon
  <1>2. ListRows(tbl, cursor) \in SUBSET I
    BY <1>1, KeyRotateAssumption DEF ListRows, Pks
  <1>3. cursor + 1 \in Int /\ cursor + BatchSize \in Int
    BY <1>1
  <1>4. /\ IsFiniteSet(I)
        /\ Cardinality(I) = IF cursor + 1 > cursor + BatchSize
                            THEN 0 ELSE (cursor + BatchSize) - (cursor + 1) + 1
    BY <1>3, FS_Interval, Zenon
  <1>5. Cardinality(I) = BatchSize
    BY <1>1, <1>4
  <1> HIDE DEF I
  <1>6. /\ IsFiniteSet(ListRows(tbl, cursor))
        /\ Cardinality(ListRows(tbl, cursor)) <= Cardinality(I)
    BY <1>2, <1>4, FS_Subset, Zenon
  <1> QED
    BY <1>5, <1>6, FS_CardinalityType, Zenon

\* There are finitely many stored secrets.
LEMMA FiniteCells == IsFiniteSet(Cells)
  <1>1. IsFiniteSet({"providers", "api_keys"})
    <2>1. IsFiniteSet({"providers"})
      BY FS_Singleton, Zenon
    <2>2. {"providers", "api_keys"} = {"providers"} \cup {"api_keys"}
      OBVIOUS
    <2> QED
      BY <2>1, <2>2, FS_AddElement, Zenon
  <1>2. IsFiniteSet(1..(NProviders + NApiKeys))
    BY KeyRotateAssumption, FS_Interval
  <1>3. IsFiniteSet({"providers", "api_keys"} \X (1..(NProviders + NApiKeys)))
    BY <1>1, <1>2, FS_Product, Zenon
  <1>4. Cells \in SUBSET ({"providers", "api_keys"} \X (1..(NProviders + NApiKeys)))
    <2>1. \A tbl : Pks(tbl) \subseteq 1..(NProviders + NApiKeys)
      BY KeyRotateAssumption DEF Pks
    <2> QED
      BY <2>1 DEF Cells
  <1> QED
    BY <1>3, <1>4, FS_Subset, Zenon

\* What an executor may rewrite are stored secrets.
LEMMA PageCells ==
    ASSUME NEW e \in ExecStates, ShapeOf(e), e.pc \in {"batch", "commit"},
           NEW pk \in DOMAIN e.page
    PROVE  <<Head(e.tables), pk>> \in Cells
  <1>1. e.tables \in {<<"providers">>, <<"api_keys">>, <<"providers", "api_keys">>}
    BY Zenon DEF ExecStates, ShapeOf
  <1>2. Head(e.tables) \in {"providers", "api_keys"}
    BY <1>1, TableLists, Zenon
  <1>3. pk \in Pks(Head(e.tables))
    BY Zenon DEF ShapeOf, ListRows
  <1> QED
    BY <1>2, <1>3 DEF Cells

-----------------------------------------------------------------------------
(* The sweep: types.                                                       *)

Rings == {KeyFiles[n] : n \in DOMAIN KeyFiles}

\* The active key of a keyring is a key.
LEMMA ActiveIsKey ==
    ASSUME NEW kr \in Rings, kr # NoRing
    PROVE  kr.active \in {0} \cup KeyIds
  <1>1. PICK n \in DOMAIN KeyFiles : kr = KeyFiles[n]
    BY Zenon DEF Rings
  <1>2. kr.active \in KeyFiles[n].keys
    BY <1>1, KeyRotateAssumption, Zenon
  <1> QED
    BY <1>2, Zenon DEF KeyIds

\* Encryption and the transformation of a sweep yield values; with a keyring, what
\* they yield is in the clear or under its active key.
LEMMA Encrypted ==
    ASSUME NEW kr \in Rings, NEW v \in Values
    PROVE  /\ EncryptIfEnabled(kr, v) \in Values /\ Decrypted(kr, v) \in Values
           /\ kr # NoRing => EncryptIfEnabled(kr, v).key = kr.active /\ Decrypted(kr, v).key = 0
  <1>1. CASE kr = NoRing
    BY <1>1, Zenon DEF EncryptIfEnabled, Decrypted
  <1>2. CASE kr # NoRing
    <2>1. kr.active \in {0} \cup KeyIds /\ 0 \in {0} \cup KeyIds
      BY <1>2, ActiveIsKey, Zenon
    <2>2. EncryptIfEnabled(kr, v) = [v EXCEPT !.key = kr.active]
      BY <1>2, Zenon DEF EncryptIfEnabled
    <2>3. Decrypted(kr, v) = [v EXCEPT !.key = 0]
      BY <1>2, Zenon DEF Decrypted
    <2>4. EncryptIfEnabled(kr, v) \in Values /\ Decrypted(kr, v) \in Values
      BY <2>1, <2>2, <2>3, Zenon DEF Values
    <2>5. EncryptIfEnabled(kr, v).key = kr.active
      BY <2>1, <2>2, Zenon DEF Values
    <2>6. Decrypted(kr, v).key = 0
      BY <2>1, <2>3, Zenon DEF Values
    <2> QED
      BY <2>4, <2>5, <2>6, Zenon
  <1> QED
    BY <1>1, <1>2, Zenon

\* A value transform returns is a value, in the clear or under the active key.
LEMMA Transformed ==
    ASSUME NEW kr \in Rings, NEW v \in Values, NEW mode
    PROVE  /\ Target(kr, mode, v) \in Values
           /\ kr # NoRing => Target(kr, mode, v).key \in {0, kr.active}
  <1>1. /\ Decrypted(kr, v) \in Values
        /\ kr # NoRing => Decrypted(kr, v).key = 0
    BY Encrypted, Zenon
  <1>2. /\ EncryptIfEnabled(kr, Decrypted(kr, v)) \in Values
        /\ kr # NoRing => EncryptIfEnabled(kr, Decrypted(kr, v)).key = kr.active
    BY <1>1, Encrypted, Zenon
  <1> QED
    BY <1>1, <1>2, Zenon DEF Target

\* An executor moves and the others stand still.
Moves(t, x) == exec' = [exec EXCEPT ![t] = x] /\ x \in ExecStates /\ ShapeOf(x)

\* What such a move says of all executors.
LEMMA MovesOne ==
    ASSUME SweepTypes, NEW t \in Tasks, NEW x, Moves(t, x)
    PROVE  /\ exec' \in [Tasks -> ExecStates] /\ exec'[t] = x
           /\ \A u \in Tasks \ {t} : exec'[u] = exec[u]
           /\ \A u \in Tasks : ShapeOf(exec'[u])
  BY Zenon DEF Moves, SweepTypes

\* What the steps of an executor do to it.
LEMMA ListMoves ==
    ASSUME SweepTypes, NEW t \in Tasks, SweepList(t)
    PROVE  LET e == exec[t]
               tbl == Head(e.tables)
               p == [pk \in ListRows(tbl, e.cursor) |-> cell[<<tbl, pk>>]]
           IN  /\ e \in ExecStates /\ ShapeOf(e) /\ e.pc = "list" /\ e.tables # <<>>
               /\ \/ ListRows(tbl, e.cursor) = {} /\ Moves(t, NextSweepTable(e))
                  \/ p \in [ListRows(tbl, e.cursor) -> Values] /\ Moves(t, HasRead(e, p))
  <1> DEFINE e == exec[t]
             tbl == Head(e.tables)
             pks == ListRows(tbl, e.cursor)
             p == [pk \in pks |-> cell[<<tbl, pk>>]]
  <1>1. e \in ExecStates /\ ShapeOf(e) /\ e.pc = "list" /\ e.tables # <<>>
    BY Zenon DEF SweepTypes, SweepList, ShapeOf
  <1>2. exec' = [exec EXCEPT ![t] = IF pks = {} THEN NextSweepTable(e) ELSE HasRead(e, p)]
    BY Zenon DEF SweepList, HasRead
  <1>3. \A pk \in pks : cell[<<tbl, pk>>] \in Values
    <2>1. e.tables \in {<<"providers">>, <<"api_keys">>, <<"providers", "api_keys">>}
      BY <1>1, Zenon DEF ExecStates
    <2>2. tbl \in {"providers", "api_keys"}
      BY <2>1, TableLists, Zenon
    <2>3. \A pk \in pks : <<tbl, pk>> \in Cells
      BY <2>2 DEF ListRows, Cells
    <2> QED
      BY <2>3, Zenon DEF SweepTypes
  <1>4. p \in [pks -> Values]
    BY <1>3, Zenon
  <1> HIDE DEF p
  <1>5. CASE pks = {}
    BY <1>1, <1>2, <1>5, NextTableState, Zenon DEF Moves
  <1>6. CASE pks # {}
    <2>1. HasRead(e, p) \in ExecStates /\ ShapeOf(HasRead(e, p))
      BY <1>1, <1>4, HasReadState, Zenon
    <2>2. exec' = [exec EXCEPT ![t] = HasRead(e, p)]
      BY <1>2, <1>6, Zenon
    <2> QED
      BY <1>1, <1>4, <2>1, <2>2, Zenon DEF Moves, p
  <1> QED
    BY <1>1, <1>4, <1>5, <1>6, Zenon DEF p

\* BatchApply writes the rows that are not skipped, transformed.
LEMMA ApplyMoves ==
    ASSUME SweepTypes, NEW t \in Tasks, BatchApply(t)
    PROVE  LET e == exec[t]
               kr == ring[e.on]
               tbl == Head(e.tables)
               rewritten == {<<tbl, pk>> : pk \in Rewrites(kr, t)}
               p == IF task[t].dryRun THEN <<>>
                    ELSE [c \in rewritten |-> Target(kr, task[t].mode, e.page[c[2]])]
               n == Cardinality(rewritten)
           IN  /\ e \in ExecStates /\ ShapeOf(e) /\ e.pc = "batch" /\ kr \in Rings
               /\ p \in Pendings /\ n \in Nat
               /\ \A c \in DOMAIN p : c \in rewritten /\ e.page[c[2]] \in Values
                                      /\ p[c] = Target(kr, task[t].mode, e.page[c[2]])
               /\ ~task[t].dryRun => DOMAIN p = rewritten
               /\ Moves(t, HasWritten(e, n, p))
  <1> DEFINE e == exec[t]
             kr == ring[e.on]
             tbl == Head(e.tables)
             rewritten == {<<tbl, pk>> : pk \in Rewrites(kr, t)}
             g == [c \in rewritten |-> Target(kr, task[t].mode, e.page[c[2]])]
             p == IF task[t].dryRun THEN <<>> ELSE g
             n == Cardinality(rewritten)
  <1>1. e \in ExecStates /\ ShapeOf(e) /\ e.pc = "batch"
    BY Zenon DEF SweepTypes, BatchApply
  <1>2. kr \in Rings
    BY <1>1, Zenon DEF SweepTypes, ExecStates, Rings
  <1>3. exec' = [exec EXCEPT ![t] = HasWritten(e, n, p)]
    BY Zenon DEF BatchApply, HasWritten
  <1>4. rewritten \subseteq {<<tbl, pk>> : pk \in DOMAIN e.page}
    BY Zenon DEF Rewrites
  <1>5. rewritten \in SUBSET Cells
    BY <1>1, <1>4, PageCells, Zenon
  <1>6. n \in Nat
    BY <1>5, FiniteCells, FS_Subset, FS_CardinalityType, Zenon
  <1>7. \A pk \in DOMAIN e.page : e.page[pk] \in Values
    <2>1. e.page \in SweepPages
      BY <1>1, Zenon DEF ExecStates
    <2>2. PICK P : e.page \in [P -> Values]
      BY <2>1, Zenon DEF SweepPages
    <2> QED
      BY <2>2, Zenon
  <1>8. \A c \in rewritten : e.page[c[2]] \in Values
    <2> SUFFICES ASSUME NEW c \in rewritten PROVE e.page[c[2]] \in Values
      OBVIOUS
    <2>1. PICK pk \in DOMAIN e.page : c = <<tbl, pk>>
      BY <1>4, Zenon
    <2>2. c[2] = pk
      BY <2>1
    <2> QED
      BY <1>7, <2>2, Zenon
  <1> HIDE DEF rewritten, e, kr
  <1>9. g \in [rewritten -> Values]
    BY <1>2, <1>8, Transformed, Zenon
  <1>10. g \in Pendings /\ DOMAIN g = rewritten
    BY <1>5, <1>9, Zenon DEF Pendings
  <1>11. \A c \in DOMAIN g : g[c] = Target(kr, task[t].mode, e.page[c[2]])
    BY Zenon
  <1> HIDE DEF g
  <1>12. p \in Pendings /\ DOMAIN p \subseteq rewritten /\ (~task[t].dryRun => DOMAIN p = rewritten)
    BY <1>10, Empty, Zenon
  <1>13. \A c \in DOMAIN p : c \in rewritten /\ p[c] = Target(kr, task[t].mode, e.page[c[2]])
    BY <1>10, <1>11, Empty, Zenon
  <1> HIDE DEF p, n
  <1>14. Moves(t, HasWritten(e, n, p))
    BY <1>1, <1>3, <1>4, <1>6, <1>12, HasWrittenState, Zenon DEF Moves
  <1> QED
    BY <1>1, <1>2, <1>6, <1>8, <1>12, <1>13, <1>14, Zenon DEF e, kr, rewritten, g, p, n

\* BatchCommit moves on by at most a page.
LEMMA CommitMoves ==
    ASSUME SweepTypes, NEW t \in Tasks, BatchCommit(t)
    PROVE  LET e == exec[t]
               last == e.cursor + Cardinality(DOMAIN e.page)
           IN  /\ e \in ExecStates /\ ShapeOf(e) /\ e.pc = "commit" /\ e.cursor \in Nat
               /\ last \in Nat /\ last <= e.cursor + BatchSize
               /\ \A c \in DOMAIN e.pending : c \in Cells /\ e.pending[c] \in Values
               /\ Cardinality(DOMAIN e.pending) \in Nat
               /\ Moves(t, PageDone(e, last))
  <1> DEFINE e == exec[t]
             last == e.cursor + Cardinality(DOMAIN e.page)
  <1>1. e \in ExecStates /\ ShapeOf(e) /\ e.pc = "commit"
    BY Zenon DEF SweepTypes, BatchCommit
  <1>2. e.cursor \in Nat
    BY <1>1, Zenon DEF ExecStates
  <1>3. Cardinality(DOMAIN e.page) \in Nat /\ Cardinality(DOMAIN e.page) <= BatchSize
    <2>1. DOMAIN e.page = ListRows(Head(e.tables), e.cursor)
      BY <1>1, Zenon DEF ShapeOf
    <2> QED
      BY <1>2, <2>1, PageSize, Zenon
  <1>4. last \in Nat /\ last <= e.cursor + BatchSize
    BY <1>2, <1>3, KeyRotateAssumption
  <1>5. e.pending \in Pendings
    BY <1>1, Zenon DEF ExecStates
  <1>6. PICK C \in SUBSET Cells : e.pending \in [C -> Values]
    BY <1>5, Zenon DEF Pendings
  <1>7. \A c \in DOMAIN e.pending : c \in Cells /\ e.pending[c] \in Values
    BY <1>6, Zenon
  <1>8. DOMAIN e.pending \in SUBSET Cells
    BY <1>6, Zenon
  <1>9. Cardinality(DOMAIN e.pending) \in Nat
    BY <1>8, FiniteCells, FS_Subset, FS_CardinalityType, Zenon
  <1>10. exec' = [exec EXCEPT ![t] = PageDone(e, last)]
    BY Zenon DEF BatchCommit, PageDone
  <1> HIDE DEF e, last
  <1>11. Moves(t, PageDone(e, last))
    BY <1>1, <1>4, <1>10, PageDoneState, Zenon DEF Moves
  <1> QED
    BY <1>1, <1>2, <1>4, <1>7, <1>9, <1>11, Zenon DEF e, last

\* The steps in which an attempt or a scan fails.
LEMMA FailureMoves ==
    ASSUME SweepTypes, NEW t \in Tasks,
           SweepListFails(t) \/ BatchUndecryptable(t) \/ BatchFails(t)
    PROVE  LET e == exec[t]
           IN  /\ e \in ExecStates /\ ShapeOf(e) /\ e.pc \in {"list", "batch", "commit"}
               /\ e.tables # <<>>
               /\ \/ Moves(t, FailedTable(e))
                  \/ e.pc # "list" /\ e.attempt + 1 < MaxAttempts /\ Moves(t, Retried(e))
  <1> DEFINE e == exec[t]
  <1>1. /\ e \in ExecStates /\ ShapeOf(e) /\ e.pc \in {"list", "batch", "commit"}
        /\ e.tables # <<>>
    BY Zenon DEF SweepTypes, SweepListFails, BatchUndecryptable, BatchFails, ShapeOf
  <1>2. CASE SweepListFails(t)
    <2>1. exec' = [exec EXCEPT ![t] = FailedTable(e)]
      BY <1>2, Zenon DEF SweepListFails, FailedTable
    <2> QED
      BY <1>1, <2>1, FailedTableState, Zenon DEF Moves
  <1>3. CASE BatchUndecryptable(t) \/ BatchFails(t)
    <2>1. exec' = [exec EXCEPT ![t] = AttemptFailed(e)] /\ e.pc \in {"batch", "commit"}
      BY <1>3, Zenon DEF BatchUndecryptable, BatchFails
    <2> HIDE DEF e
    <2>2. CASE e.attempt + 1 < MaxAttempts /\ AttemptFailed(e) = Retried(e)
      <3>1. Retried(e) \in ExecStates /\ ShapeOf(Retried(e))
        BY <1>1, <2>1, <2>2, RetriedState, Zenon
      <3>2. e.pc # "list"
        BY <2>1
      <3> QED
        BY <1>1, <2>1, <2>2, <3>1, <3>2, Zenon DEF Moves, e
    <2>3. CASE AttemptFailed(e) = FailedTable(e)
      BY <1>1, <2>1, <2>3, FailedTableState, Zenon DEF Moves, e
    <2> QED
      BY <2>2, <2>3, AttemptFailedIs, Zenon
  <1> QED
    BY <1>2, <1>3, Zenon

\* An executor that ends has no table left.
LEMMA FinishMoves ==
    ASSUME SweepTypes, NEW t \in Tasks, FinishTask(t) \/ FinishTaskFails(t)
    PROVE  /\ exec[t] \in ExecStates /\ ShapeOf(exec[t]) /\ exec[t].pc = "finish"
           /\ exec[t].tables = <<>> /\ Moves(t, Gone(exec[t]))
  <1>1. /\ exec[t] \in ExecStates /\ ShapeOf(exec[t]) /\ exec[t].pc = "finish"
        /\ exec' = [exec EXCEPT ![t] = Gone(exec[t])]
    BY Zenon DEF SweepTypes, FinishTask, FinishTaskFails
  <1>2. exec[t].tables = <<>>
    BY <1>1, Zenon DEF ShapeOf
  <1> QED
    BY <1>1, <1>2, GoneState, Zenon DEF Moves

\* What Trigger writes: a running holder of the lock is marked lost.
NewRow(req) == [Row("running") EXCEPT !.mode = req.mode, !.dryRun = req.dryRun,
                    !.scope = req.scope, !.heartbeat = clock,
                    !.file = file, !.clean = AllLoaded /\ Quiet]

\* What a row says a task is for and has done; what it says of how the task stands,
\* when another task is begun; the row of a task that is begun.
RowKept(o, n) ==
    /\ n.mode = o.mode /\ n.dryRun = o.dryRun /\ n.scope = o.scope
    /\ n.file = o.file /\ n.clean = o.clean /\ n.rewritten = o.rewritten
RowMarked(o, n, held) ==
    /\ n.status = o.status \/ n.status = "failed"
    /\ held => n.status # "running"
RowBegun(n, req) ==
    /\ n.status = "running" /\ n.rewritten = 0
    /\ n.file = file /\ n.scope = req.scope /\ n.clean = (AllLoaded /\ Quiet)

\* The new row, and what is left of the others.
LEMMA TriggerRows ==
    ASSUME SweepTypes, NEW i \in ApiInstances, NEW t \in Tasks, NEW req \in Requests,
           Trigger(i, t, req)
    PROVE  /\ task' \in [Tasks -> TaskRows]
           /\ RowBegun(task'[t], req)
           /\ \A u \in Tasks \ {t} : /\ RowKept(task[u], task'[u])
                                   /\ RowMarked(task[u], task'[u], u = sweepLock)
           /\ Moves(t, Begun(i, req)) /\ sweepLock' = t
  <1> DEFINE m == MarkLost(task)  r == NewRow(req)
  <1>1. /\ task' = [m EXCEPT ![t] = r] /\ sweepLock' = t
        /\ exec' = [exec EXCEPT ![t] = Begun(i, req)]
    BY Zenon DEF Trigger, NewRow, Begun
  <1>2. /\ m \in [Tasks -> TaskRows]
        /\ \A u \in Tasks : /\ RowKept(task[u], m[u])
                            /\ RowMarked(task[u], m[u], u = sweepLock)
    <2>1. task \in [Tasks -> TaskRows] /\ sweepLock \in {NoTask} \cup Tasks
      BY Zenon DEF SweepTypes
    <2>2. CASE sweepLock # NoTask /\ task[sweepLock].status = "running"
      <3>1. PICK k \in Tasks : k = sweepLock
        BY <2>1, <2>2, Zenon
      <3> DEFINE x == [task[k] EXCEPT !.status = "failed"]
      <3>2. m = [task EXCEPT ![k] = x]
        BY <2>2, <3>1, Zenon DEF MarkLost
      <3>3. task[k] \in TaskRows
        BY <2>1, Zenon
      <3>4. x \in TaskRows
        BY <3>3, Zenon DEF TaskRows
      <3>5. /\ x.status = "failed" /\ x.mode = task[k].mode /\ x.dryRun = task[k].dryRun
            /\ x.scope = task[k].scope /\ x.file = task[k].file
            /\ x.clean = task[k].clean /\ x.rewritten = task[k].rewritten
        BY <3>3, Zenon DEF TaskRows
      <3> HIDE DEF x, m
      <3>6. m \in [Tasks -> TaskRows] /\ m[k] = x /\ \A u \in Tasks \ {k} : m[u] = task[u]
        BY <2>1, <3>2, <3>4, Zenon
      <3>7. x.status # "running"
        BY <3>5
      <3>8. RowKept(task[k], x) /\ \A h : RowMarked(task[k], x, h)
        BY <3>5, <3>7, Zenon DEF RowKept, RowMarked
      <3>9. ASSUME NEW u \in Tasks \ {k}
            PROVE  RowKept(task[u], m[u]) /\ RowMarked(task[u], m[u], u = sweepLock)
        <4>1. m[u] = task[u] /\ u # sweepLock
          BY <3>1, <3>6, Zenon
        <4> QED
          BY <4>1, Zenon DEF RowKept, RowMarked
      <3> QED
        BY <3>6, <3>8, <3>9, Zenon
    <2>3. CASE ~(sweepLock # NoTask /\ task[sweepLock].status = "running")
      <3>1. m = task
        BY <2>3, Zenon DEF MarkLost
      <3>2. \A u \in Tasks : u # NoTask
        BY DEF Tasks, NoTask
      <3>3. ASSUME NEW u \in Tasks
            PROVE  RowKept(task[u], m[u]) /\ RowMarked(task[u], m[u], u = sweepLock)
        <4>1. m[u] = task[u] /\ (u = sweepLock => task[u].status # "running")
          BY <2>3, <3>1, <3>2, Zenon
        <4> QED
          BY <4>1, Zenon DEF RowKept, RowMarked
      <3> QED
        BY <2>1, <3>1, <3>3, Zenon
    <2> QED
      BY <2>2, <2>3, Zenon
  <1>3. r \in TaskRows /\ RowBegun(r, req)
    <2>1. /\ req.mode \in {"reencrypt", "decrypt"} /\ req.dryRun \in BOOLEAN
          /\ req.scope \in {"all", "providers", "api_keys"}
      BY KeyRotateAssumption, Zenon
    <2>2. clock \in 0..MaxTicks /\ file \in Nat /\ 0 \in Nat /\ 0 \in 0..MaxTicks
      BY KeyRotateAssumption DEF SweepTypes
    <2>3. (AllLoaded /\ Quiet) \in BOOLEAN
      BY Zenon
    <2>4. Row("running") \in TaskRows /\ Row("running").status = "running" /\ Row("running").rewritten = 0
      BY <2>2, Zenon DEF Row, TaskRows
    <2>5. r \in TaskRows
      BY <2>1, <2>2, <2>3, <2>4, Zenon DEF TaskRows, NewRow
    <2>6. /\ r.status = Row("running").status /\ r.rewritten = Row("running").rewritten
          /\ r.file = file /\ r.scope = req.scope /\ r.clean = (AllLoaded /\ Quiet)
      BY <2>4, Zenon DEF TaskRows, NewRow
    <2> QED
      BY <2>4, <2>5, <2>6, Zenon DEF RowBegun
  <1> HIDE DEF m, r
  <1>4. task' \in [Tasks -> TaskRows] /\ task'[t] = r /\ \A u \in Tasks \ {t} : task'[u] = m[u]
    BY <1>1, <1>2, <1>3, Zenon
  <1>5. Moves(t, Begun(i, req))
    BY <1>1, BegunState, Zenon DEF Moves
  <1> QED
    BY <1>1, <1>2, <1>3, <1>4, <1>5, Zenon

\* Only BatchApply leaves a transaction that is about to commit.
LEMMA NotCommitting ==
    ASSUME SweepTypes, NEW t \in Tasks,
           SweepList(t) \/ BatchCommit(t) \/ BatchUndecryptable(t) \/ FinishTask(t)
           \/ SweepListFails(t) \/ BatchFails(t) \/ FinishTaskFails(t)
    PROVE  \E x : Moves(t, x) /\ x.pc # "commit"
  <1> DEFINE e == exec[t]
  <1> SUFFICES \E x : Moves(t, x) /\ x.pc \in {"list", "batch", "finish", "done"}
    OBVIOUS
  <1>1. e \in ExecStates /\ ShapeOf(e)
    BY Zenon DEF SweepTypes
  <1>2. CASE SweepList(t)
    <2> DEFINE p == [pk \in ListRows(Head(e.tables), e.cursor) |-> cell[<<Head(e.tables), pk>>]]
    <2>1. /\ e.pc = "list" /\ e.tables # <<>>
          /\ \/ Moves(t, NextSweepTable(e))
             \/ p \in [ListRows(Head(e.tables), e.cursor) -> Values] /\ Moves(t, HasRead(e, p))
      BY <1>2, ListMoves, Zenon
    <2> HIDE DEF e, p
    <2>2. NextSweepTable(e).pc \in {"list", "finish"}
      BY <1>1, <2>1, NextTableState, Zenon
    <2>3. p \in [ListRows(Head(e.tables), e.cursor) -> Values] => HasRead(e, p).pc = "batch"
      BY <1>1, <2>1, HasReadState, Zenon
    <2> QED
      BY <2>1, <2>2, <2>3, Zenon
  <1>3. CASE BatchUndecryptable(t) \/ SweepListFails(t) \/ BatchFails(t)
    <2>1. /\ e.tables # <<>> /\ e.pc \in {"list", "batch", "commit"}
          /\ \/ Moves(t, FailedTable(e))
             \/ e.pc # "list" /\ e.attempt + 1 < MaxAttempts /\ Moves(t, Retried(e))
      BY <1>3, FailureMoves, Zenon
    <2> HIDE DEF e
    <2>2. FailedTable(e).pc \in {"list", "finish"}
      BY <1>1, <2>1, FailedTableState, Zenon
    <2>3. CASE Moves(t, FailedTable(e))
      BY <2>2, <2>3, Zenon
    <2>4. CASE e.pc # "list" /\ e.attempt + 1 < MaxAttempts /\ Moves(t, Retried(e))
      <3>1. e.pc \in {"batch", "commit"}
        BY <2>1, <2>4, Zenon
      <3>2. Retried(e).pc = "batch"
        BY <1>1, <2>4, <3>1, RetriedState, Zenon
      <3> QED
        BY <2>4, <3>2, Zenon
    <2> QED
      BY <2>1, <2>3, <2>4, Zenon
  <1>4. CASE FinishTask(t) \/ FinishTaskFails(t)
    <2>1. Moves(t, Gone(e))
      BY <1>4, FinishMoves, Zenon
    <2>2. Gone(e).pc = "done"
      BY <1>1, GoneState, Zenon
    <2> QED
      BY <2>1, <2>2, Zenon
  <1>5. CASE BatchCommit(t)
    <2> DEFINE last == e.cursor + Cardinality(DOMAIN e.page)
    <2>1. e.pc = "commit" /\ last \in Nat /\ Moves(t, PageDone(e, last))
      BY <1>5, CommitMoves, Zenon
    <2> HIDE DEF e, last
    <2>2. PageDone(e, last).pc = "list"
      BY <1>1, <2>1, PageDoneState, Zenon
    <2> QED
      BY <2>1, <2>2, Zenon
  <1> QED
    BY <1>2, <1>3, <1>4, <1>5, Zenon

\* What Crash leaves of the executors.
LEMMA CrashLeaves ==
    ASSUME SweepTypes, NEW i \in ApiInstances, Crash(i)
    PROVE  /\ exec' \in [Tasks -> ExecStates]
           /\ \A u \in Tasks : ShapeOf(exec'[u]) /\ (exec'[u] = exec[u] \/ exec'[u] = Gone(exec[u]))
  <1>1. exec' = [t \in Tasks |-> IF exec[t].on = i /\ exec[t].pc \notin {"none", "done"}
                                 THEN Gone(exec[t]) ELSE exec[t]]
    BY Zenon DEF Crash
  <1>2. \A u \in Tasks : exec[u] \in ExecStates /\ ShapeOf(exec[u])
    BY Zenon DEF SweepTypes
  <1>3. \A u \in Tasks : Gone(exec[u]) \in ExecStates /\ ShapeOf(Gone(exec[u]))
    BY <1>2, GoneState, Zenon
  <1>4. \A u \in Tasks : exec'[u] = exec[u] \/ exec'[u] = Gone(exec[u])
    BY <1>1, Zenon
  <1>5. \A u \in Tasks : exec'[u] \in ExecStates /\ ShapeOf(exec'[u])
    BY <1>2, <1>3, <1>4, Zenon
  <1> QED
    BY <1>1, <1>4, <1>5, Zenon

\* What BatchCommit and FinishTask do to the row of their task.
LEMMA CommitRows ==
    ASSUME SweepTypes, NEW t \in Tasks, BatchCommit(t)
    PROVE  /\ task' \in [Tasks -> TaskRows]
           /\ \A u \in Tasks \ {t} : task'[u] = task[u]
           /\ task'[t].mode = task[t].mode /\ task'[t].dryRun = task[t].dryRun
           /\ task'[t].scope = task[t].scope /\ task'[t].file = task[t].file
           /\ task'[t].clean = task[t].clean /\ task'[t].status = task[t].status
           /\ task'[t].rewritten \in {task[t].rewritten, task[t].rewritten + exec[t].rew}
  <1>1. task \in [Tasks -> TaskRows] /\ task[t] \in TaskRows /\ clock \in 0..MaxTicks
        /\ exec[t] \in ExecStates
    BY Zenon DEF SweepTypes
  <1>2. task[t].rewritten \in Nat /\ exec[t].rew \in Nat
    BY <1>1, Zenon DEF TaskRows, ExecStates
  <1> DEFINE n == task[t].rewritten + exec[t].rew
  <1>3. n \in Nat
    BY <1>2
  <1>4. CASE UNCHANGED task
    BY <1>1, <1>4, Zenon
  <1>5. CASE task' = [task EXCEPT ![t].rewritten = @ + exec[t].rew, ![t].heartbeat = clock]
    <2> DEFINE x == [task[t] EXCEPT !.rewritten = n, !.heartbeat = clock]
    <2>1. task' = [task EXCEPT ![t] = x]
      BY <1>1, <1>5, Zenon DEF TaskRows
    <2> HIDE DEF n
    <2>2. x \in TaskRows
      BY <1>1, <1>3, Zenon DEF TaskRows
    <2>3. /\ x.mode = task[t].mode /\ x.dryRun = task[t].dryRun /\ x.scope = task[t].scope
          /\ x.file = task[t].file /\ x.clean = task[t].clean /\ x.status = task[t].status
          /\ x.rewritten = n
      BY <1>1, Zenon DEF TaskRows
    <2> HIDE DEF x
    <2>4. task' \in [Tasks -> TaskRows] /\ task'[t] = x /\ \A u \in Tasks \ {t} : task'[u] = task[u]
      BY <1>1, <2>1, <2>2, Zenon
    <2> QED
      BY <2>3, <2>4, Zenon DEF n
  <1> QED
    BY <1>4, <1>5, Zenon DEF BatchCommit

\* FinishTask decides the task's status and leaves what it was for.
LEMMA FinishRows ==
    ASSUME SweepTypes, NEW t \in Tasks, FinishTask(t)
    PROVE  /\ task' \in [Tasks -> TaskRows]
           /\ \A u \in Tasks \ {t} : task'[u] = task[u]
           /\ task'[t].mode = task[t].mode /\ task'[t].dryRun = task[t].dryRun
           /\ task'[t].scope = task[t].scope /\ task'[t].file = task[t].file
           /\ task'[t].clean = task[t].clean /\ task'[t].rewritten = task[t].rewritten
           /\ task'[t].status = IF exec[t].failed THEN "failed" ELSE "succeeded"
  <1> DEFINE s == IF exec[t].failed THEN "failed" ELSE "succeeded"
             x == [task[t] EXCEPT !.status = s, !.heartbeat = clock]
  <1>1. task \in [Tasks -> TaskRows] /\ task[t] \in TaskRows /\ clock \in 0..MaxTicks
    BY Zenon DEF SweepTypes
  <1>2. task' = [task EXCEPT ![t] = x]
    BY <1>1, Zenon DEF FinishTask, TaskRows
  <1>3. s \in {"none", "running", "succeeded", "failed"}
    BY Zenon
  <1> HIDE DEF s
  <1>4. x \in TaskRows
    BY <1>1, <1>3, Zenon DEF TaskRows
  <1>5. /\ x.mode = task[t].mode /\ x.dryRun = task[t].dryRun /\ x.scope = task[t].scope
        /\ x.file = task[t].file /\ x.clean = task[t].clean /\ x.rewritten = task[t].rewritten
        /\ x.status = s
    BY <1>1, Zenon DEF TaskRows
  <1> HIDE DEF x
  <1>6. task' \in [Tasks -> TaskRows] /\ task'[t] = x /\ \A u \in Tasks \ {t} : task'[u] = task[u]
    BY <1>1, <1>2, <1>4, Zenon
  <1> QED
    BY <1>5, <1>6, Zenon DEF s

\* What BatchCommit stores.
LEMMA CommitCells ==
    ASSUME SweepTypes, NEW t \in Tasks, BatchCommit(t)
    PROVE  /\ cell' \in [Cells -> Values]
           /\ \A c \in Cells : IF c \in DOMAIN exec[t].pending
                               THEN cell'[c] = exec[t].pending[c] ELSE cell'[c] = cell[c]
  <1>1. cell' = [c \in Cells |-> IF c \in DOMAIN exec[t].pending THEN exec[t].pending[c] ELSE cell[c]]
    BY Zenon DEF BatchCommit
  <1>2. \A c \in DOMAIN exec[t].pending : exec[t].pending[c] \in Values
    BY CommitMoves, Zenon
  <1>3. \A c \in Cells : cell[c] \in Values
    BY Zenon DEF SweepTypes
  <1>4. \A c \in Cells : IF c \in DOMAIN exec[t].pending
                         THEN cell'[c] = exec[t].pending[c] ELSE cell'[c] = cell[c]
    BY <1>1, Zenon
  <1>5. \A c \in Cells : cell'[c] \in Values
    BY <1>2, <1>3, <1>4, Zenon
  <1> QED
    BY <1>1, <1>4, <1>5, Zenon

\* What a business write has in flight.
LEMMA WriteTypes ==
    ASSUME SweepTypes, NEW i \in ApiInstances, NEW c \in Updatable, NEW s \in Secrets,
           WriteEncrypt(i, c, s)
    PROVE  LET v == EncryptIfEnabled(ring[i], [secret |-> s, key |-> 0])
           IN  /\ v \in Values /\ ring[i] \in Rings
               /\ ring[i] # NoRing => v.key = ring[i].active
               /\ write' = [write EXCEPT ![i] = [cell |-> c, val |-> v]]
               /\ [cell |-> c, val |-> v] \in [cell : Updatable, val : Values]
  <1> DEFINE w == [secret |-> s, key |-> 0]
             v == EncryptIfEnabled(ring[i], w)
  <1>1. w \in Values
    BY Zenon DEF Values
  <1>2. ring[i] \in Rings
    BY Zenon DEF SweepTypes, Rings
  <1>3. v \in Values /\ (ring[i] # NoRing => v.key = ring[i].active)
    BY <1>1, <1>2, Encrypted, Zenon
  <1>4. write' = [write EXCEPT ![i] = [cell |-> c, val |-> v]]
    BY Zenon DEF WriteEncrypt
  <1> HIDE DEF v
  <1> QED
    BY <1>2, <1>3, <1>4, Zenon DEF v

\* The types hold at the start.
LEMMA TypesInitially == SweepInit => SweepTypes
  <1> SUFFICES ASSUME SweepInit PROVE SweepTypes
    OBVIOUS
  <1>1. cell \in [Cells -> Values]
    BY Zenon DEF SweepInit
  <1>2. file \in 1..Len(KeyFiles) /\ 1 \in DOMAIN KeyFiles
    BY KeyRotateAssumption DEF SweepInit
  <1>3. ring \in [ApiInstances -> {KeyFiles[n] : n \in DOMAIN KeyFiles}]
    BY <1>2, Zenon DEF SweepInit
  <1>4. write \in [ApiInstances -> {NoWrite} \cup [cell : Updatable, val : Values]]
    BY Zenon DEF SweepInit
  <1>5. 0 \in Nat /\ 0 \in 0..MaxTicks
    BY KeyRotateAssumption
  <1>6. Row("none") \in TaskRows
    BY <1>5, Zenon DEF Row, TaskRows
  <1>7. task \in [Tasks -> TaskRows] /\ committed \in [Tasks -> Nat] /\ clock \in 0..MaxTicks
    BY <1>5, <1>6, Zenon DEF SweepInit
  <1>8. exec \in [Tasks -> ExecStates] /\ \A t \in Tasks : ShapeOf(exec[t])
    BY NoExecState, Zenon DEF SweepInit
  <1>9. sweepLock \in {NoTask} \cup Tasks
    BY Zenon DEF SweepInit
  <1> QED
    BY <1>1, <1>2, <1>3, <1>4, <1>7, <1>8, <1>9, Zenon DEF SweepTypes

\* Every step of instances, operator and executors keeps the types.
LEMMA TypesNext == SweepTypes /\ [SweepNext]_sweepVars => SweepTypes'
  <1> SUFFICES ASSUME SweepTypes, [SweepNext]_sweepVars PROVE SweepTypes'
    OBVIOUS
  <1>0. DOMAIN KeyFiles = 1..Len(KeyFiles) /\ Len(KeyFiles) \in Nat
    BY KeyRotateAssumption
  <1>00. KeyFiles[file] \in {KeyFiles[n] : n \in DOMAIN KeyFiles}
    BY <1>0, Zenon DEF SweepTypes
  <1>1. ASSUME NEW i \in ApiInstances, NEW c \in Updatable, NEW s \in Secrets, WriteEncrypt(i, c, s)
        PROVE  SweepTypes'
    <2>1. write' \in [ApiInstances -> {NoWrite} \cup [cell : Updatable, val : Values]]
      BY <1>1, WriteTypes, Zenon DEF SweepTypes
    <2> QED
      BY <1>1, <2>1, Zenon DEF SweepTypes, WriteEncrypt
  <1>2. ASSUME NEW i \in ApiInstances, WriteCommit(i) PROVE SweepTypes'
    <2>1. write[i] \in [cell : Updatable, val : Values]
      BY <1>2, Zenon DEF SweepTypes, WriteCommit
    <2>2. write[i].cell \in Updatable /\ write[i].val \in Values
      BY <2>1, Zenon
    <2>3. write[i].cell \in Cells
      BY <2>2, Zenon DEF Updatable, Cells
    <2>4. cell' \in [Cells -> Values]
      BY <1>2, <2>2, <2>3, Zenon DEF SweepTypes, WriteCommit
    <2>5. write' \in [ApiInstances -> {NoWrite} \cup [cell : Updatable, val : Values]]
      BY <1>2, Zenon DEF SweepTypes, WriteCommit
    <2> QED
      BY <1>2, <2>4, <2>5, Zenon DEF SweepTypes, WriteCommit
  <1>3. ASSUME NEW i \in ApiInstances, ReloadSecurity(i) PROVE SweepTypes'
    <2>1. ring' \in [ApiInstances -> {KeyFiles[n] : n \in DOMAIN KeyFiles}]
      BY <1>00, <1>3, Zenon DEF SweepTypes, ReloadSecurity
    <2> QED
      BY <1>3, <2>1, Zenon DEF SweepTypes, ReloadSecurity
  <1>4. ASSUME NEW i \in ApiInstances, Crash(i) PROVE SweepTypes'
    <2>1. ring' \in [ApiInstances -> {KeyFiles[n] : n \in DOMAIN KeyFiles}]
      BY <1>00, <1>4, Zenon DEF SweepTypes, Crash
    <2>2. write' \in [ApiInstances -> {NoWrite} \cup [cell : Updatable, val : Values]]
      BY <1>4, Zenon DEF SweepTypes, Crash
    <2>3. exec' \in [Tasks -> ExecStates] /\ \A u \in Tasks : ShapeOf(exec'[u])
      BY <1>4, CrashLeaves, Zenon
    <2> QED
      BY <1>4, <2>1, <2>2, <2>3, Zenon DEF SweepTypes, Crash
  <1>5. CASE EditKeyFile
    <2>1. file' \in 1..Len(KeyFiles)
      BY <1>0, <1>5 DEF SweepTypes, EditKeyFile
    <2> QED
      BY <1>5, <2>1, Zenon DEF SweepTypes, EditKeyFile
  <1>6. CASE ClockTick
    <2>1. clock' \in 0..MaxTicks
      BY <1>6, KeyRotateAssumption DEF SweepTypes, ClockTick
    <2> QED
      BY <1>6, <2>1, Zenon DEF SweepTypes, ClockTick
  <1>7. ASSUME NEW i \in ApiInstances, NEW t \in Tasks, NEW req \in Requests, Trigger(i, t, req)
        PROVE  SweepTypes'
    <2>1. task' \in [Tasks -> TaskRows] /\ Moves(t, Begun(i, req)) /\ sweepLock' = t
      BY <1>7, TriggerRows, Zenon
    <2>2. exec' \in [Tasks -> ExecStates] /\ \A u \in Tasks : ShapeOf(exec'[u])
      BY <2>1, MovesOne, Zenon
    <2> QED
      BY <1>7, <2>1, <2>2, Zenon DEF SweepTypes, Trigger
  <1>8. ASSUME NEW t \in Tasks, SweepList(t) \/ BatchApply(t) \/ BatchUndecryptable(t)
                                \/ SweepListFails(t) \/ BatchFails(t) \/ FinishTaskFails(t)
        PROVE  SweepTypes'
    <2>1. \E x : Moves(t, x)
      BY <1>8, ListMoves, ApplyMoves, FailureMoves, FinishMoves, Zenon
    <2>2. exec' \in [Tasks -> ExecStates] /\ \A u \in Tasks : ShapeOf(exec'[u])
      BY <2>1, MovesOne, Zenon
    <2>3. UNCHANGED <<cell, file, ring, write, sweepLock, task, committed, clock>>
      BY <1>8, Zenon DEF SweepList, BatchApply, BatchUndecryptable, SweepListFails, BatchFails,
                         FinishTaskFails
    <2> QED
      BY <2>2, <2>3, Zenon DEF SweepTypes
  <1>9. ASSUME NEW t \in Tasks, BatchCommit(t) PROVE SweepTypes'
    <2>1. Moves(t, PageDone(exec[t], exec[t].cursor + Cardinality(DOMAIN exec[t].page)))
      BY <1>9, CommitMoves, Zenon
    <2>2. exec' \in [Tasks -> ExecStates] /\ \A u \in Tasks : ShapeOf(exec'[u])
      BY <2>1, MovesOne, Zenon
    <2>3. cell' \in [Cells -> Values] /\ task' \in [Tasks -> TaskRows]
      BY <1>9, CommitCells, CommitRows, Zenon
    <2>4. committed[t] + Cardinality(DOMAIN exec[t].pending) \in Nat
      <3>1. committed[t] \in Nat /\ Cardinality(DOMAIN exec[t].pending) \in Nat
        BY <1>9, CommitMoves, Zenon DEF SweepTypes
      <3> QED
        BY <3>1
    <2>5. committed' \in [Tasks -> Nat]
      BY <1>9, <2>4, Zenon DEF SweepTypes, BatchCommit
    <2> QED
      BY <1>9, <2>2, <2>3, <2>5, Zenon DEF SweepTypes, BatchCommit
  <1>10. ASSUME NEW t \in Tasks, FinishTask(t) PROVE SweepTypes'
    <2>1. Moves(t, Gone(exec[t]))
      BY <1>10, FinishMoves, Zenon
    <2>2. exec' \in [Tasks -> ExecStates] /\ \A u \in Tasks : ShapeOf(exec'[u])
      BY <2>1, MovesOne, Zenon
    <2>3. task' \in [Tasks -> TaskRows]
      BY <1>10, FinishRows, Zenon
    <2>4. sweepLock' \in {NoTask} \cup Tasks
      BY <1>10, Zenon DEF SweepTypes, FinishTask
    <2> QED
      BY <1>10, <2>2, <2>3, <2>4, Zenon DEF SweepTypes, FinishTask
  <1>11. CASE UNCHANGED sweepVars
    BY <1>11, Zenon DEF SweepTypes, sweepVars
  <1> QED
    BY <1>1, <1>2, <1>3, <1>4, <1>5, <1>6, <1>7, <1>8, <1>9, <1>10, <1>11, Zenon
       DEF SweepNext, Executor, ExecutorFails

-----------------------------------------------------------------------------
(* The sweep: the lock and the progress.                                   *)

\* Trigger marks a running holder lost before it takes the lock; FinishTask ends
\* the task before it gives the lock up.
LEMMA LockNext == SweepTypes /\ RunningHoldsLock /\ [SweepNext]_sweepVars => RunningHoldsLock'
  <1> SUFFICES ASSUME SweepTypes, RunningHoldsLock, [SweepNext]_sweepVars,
                      NEW u \in Tasks, task'[u].status = "running"
               PROVE  sweepLock' = u
    BY Zenon DEF RunningHoldsLock
  <1>1. ASSUME NEW i \in ApiInstances, NEW t \in Tasks, NEW req \in Requests, Trigger(i, t, req)
        PROVE  sweepLock' = u
    <2>1. /\ sweepLock' = t
          /\ u # t => /\ task'[u].status = task[u].status \/ task'[u].status = "failed"
                      /\ u = sweepLock => task'[u].status # "running"
      <3>1. sweepLock' = t
        BY <1>1, TriggerRows, Zenon
      <3>2. CASE u # t
        <4>1. u \in Tasks \ {t}
          BY <3>2, Zenon
        <4> QED
          BY <1>1, <3>1, <4>1, TriggerRows, Zenon DEF RowMarked
      <3> QED
        BY <3>1, <3>2, Zenon
    <2>2. task'[u].status # "failed"
      OBVIOUS
    <2> QED
      BY <2>1, <2>2, Zenon DEF RunningHoldsLock
  <1>2. ASSUME NEW t \in Tasks, FinishTask(t) PROVE sweepLock' = u
    <2>1. task'[t].status \in {"failed", "succeeded"} /\ (u # t => task'[u] = task[u])
      BY <1>2, FinishRows, Zenon
    <2>2. u # t
      BY <2>1
    <2> QED
      BY <1>2, <2>1, <2>2, Zenon DEF RunningHoldsLock, FinishTask
  <1>3. ASSUME NEW t \in Tasks, BatchCommit(t) PROVE sweepLock' = u
    <2>1. task'[u].status = task[u].status
      BY <1>3, CommitRows, Zenon
    <2> QED
      BY <1>3, <2>1, Zenon DEF RunningHoldsLock, BatchCommit
  <1>4. CASE UNCHANGED <<task, sweepLock>>
    BY <1>4, Zenon DEF RunningHoldsLock
  <1> QED
    BY <1>1, <1>2, <1>3, <1>4, Zenon
       DEF SweepNext, Executor, ExecutorFails, sweepVars, WriteEncrypt, WriteCommit, ReloadSecurity,
           Crash, EditKeyFile, ClockTick, SweepList, BatchApply, BatchUndecryptable, SweepListFails,
           BatchFails, FinishTaskFails

\* The progress grows by what a transaction counted, which is what it had pending,
\* and only when that transaction commits.
LEMMA ProgressNext == SweepTypes /\ ProgressInv /\ [SweepNext]_sweepVars => ProgressInv'
  <1> SUFFICES ASSUME SweepTypes, ProgressInv, [SweepNext]_sweepVars, NEW u \in Tasks, ~task'[u].dryRun
               PROVE  /\ task'[u].rewritten <= committed'[u]
                      /\ exec'[u].pc = "commit" => exec'[u].rew = Cardinality(DOMAIN exec'[u].pending)
    BY Zenon DEF ProgressInv
  <1>0. /\ task[u].rewritten \in Nat /\ committed[u] \in Nat
        /\ ~task[u].dryRun =>
            /\ task[u].rewritten <= committed[u]
            /\ exec[u].pc = "commit" => exec[u].rew = Cardinality(DOMAIN exec[u].pending)
    BY Zenon DEF ProgressInv, SweepTypes, TaskRows
  <1>1. ASSUME NEW i \in ApiInstances, NEW t \in Tasks, NEW req \in Requests, Trigger(i, t, req)
        PROVE  /\ task'[u].rewritten <= committed'[u]
               /\ exec'[u].pc = "commit" => exec'[u].rew = Cardinality(DOMAIN exec'[u].pending)
    <2>1. committed'[u] = committed[u]
      BY <1>1, Zenon DEF Trigger
    <2>2. CASE u = t
      <3>0. task'[t].rewritten = 0 /\ Moves(t, Begun(i, req))
        <4>1. RowBegun(task'[t], req) /\ Moves(t, Begun(i, req))
          BY <1>1, TriggerRows, Zenon
        <4> QED
          BY <4>1, Zenon DEF RowBegun
      <3>1. task'[u].rewritten = 0 /\ exec'[u] = Begun(i, req)
        BY <2>2, <3>0, MovesOne, Zenon
      <3>2. Begun(i, req).pc = "list"
        BY BegunState, Zenon
      <3> QED
        BY <1>0, <2>1, <3>1, <3>2
    <2>3. CASE u # t
      <3>1. /\ task'[u].rewritten = task[u].rewritten /\ task'[u].dryRun = task[u].dryRun
            /\ Moves(t, Begun(i, req))
        <4>1. u \in Tasks \ {t}
          BY <2>3, Zenon
        <4>2. RowKept(task[u], task'[u])
          BY <1>1, <4>1, TriggerRows, Zenon
        <4>3. Moves(t, Begun(i, req))
          BY <1>1, TriggerRows, Zenon
        <4> QED
          BY <4>2, <4>3, Zenon DEF RowKept
      <3>2. exec'[u] = exec[u]
        BY <2>3, <3>1, MovesOne, Zenon
      <3> QED
        BY <1>0, <2>1, <3>1, <3>2, Zenon
    <2> QED
      BY <2>2, <2>3, Zenon
  <1>2. ASSUME NEW t \in Tasks, BatchCommit(t)
        PROVE  /\ task'[u].rewritten <= committed'[u]
               /\ exec'[u].pc = "commit" => exec'[u].rew = Cardinality(DOMAIN exec'[u].pending)
    <2> DEFINE e == exec[t]
               last == e.cursor + Cardinality(DOMAIN e.page)
               k == Cardinality(DOMAIN e.pending)
    <2>1. /\ Moves(t, PageDone(e, last)) /\ k \in Nat /\ e \in ExecStates /\ ShapeOf(e)
          /\ e.pc = "commit" /\ last \in Nat
      BY <1>2, CommitMoves, Zenon
    <2> HIDE DEF e, last, k
    <2>2. committed' = [committed EXCEPT ![t] = committed[t] + k]
      BY <1>2, Zenon DEF BatchCommit, e, k
    <2>3. CASE u = t
      <3>1. committed'[u] = committed[u] + k
        BY <2>2, <2>3, Zenon DEF SweepTypes
      <3>2. exec'[u] = PageDone(e, last)
        BY <2>1, <2>3, MovesOne, Zenon
      <3>5. exec'[u].pc = "list"
        <4>1. PageDone(e, last).pc = "list"
          BY <2>1, PageDoneState, Zenon
        <4> QED
          BY <3>2, <4>1, Zenon
      <3>3. ~task[u].dryRun /\ task'[u].rewritten \in {task[u].rewritten, task[u].rewritten + e.rew}
        BY <1>2, <2>3, CommitRows, Zenon DEF e
      <3>4. e.rew = k
        BY <1>0, <2>1, <2>3, <3>3, Zenon DEF e, k
      <3> QED
        BY <1>0, <2>1, <3>1, <3>3, <3>4, <3>5
    <2>4. CASE u # t
      <3>1. committed'[u] = committed[u]
        BY <2>2, <2>4, Zenon DEF SweepTypes
      <3>2. task'[u] = task[u]
        BY <1>2, <2>4, CommitRows, Zenon
      <3>3. exec'[u] = exec[u]
        BY <2>1, <2>4, MovesOne, Zenon
      <3> QED
        BY <1>0, <3>1, <3>2, <3>3, Zenon
    <2> QED
      BY <2>3, <2>4, Zenon
  <1>3. ASSUME NEW t \in Tasks, FinishTask(t)
        PROVE  /\ task'[u].rewritten <= committed'[u]
               /\ exec'[u].pc = "commit" => exec'[u].rew = Cardinality(DOMAIN exec'[u].pending)
    <2>1. /\ task'[u].rewritten = task[u].rewritten /\ task'[u].dryRun = task[u].dryRun
          /\ committed'[u] = committed[u]
      BY <1>3, FinishRows, Zenon DEF FinishTask
    <2>2. Moves(t, Gone(exec[t])) /\ exec[t] \in ExecStates
      BY <1>3, FinishMoves, Zenon
    <2>3. exec'[t].pc = "done" /\ (u # t => exec'[u] = exec[u])
      <3>1. exec'[t] = Gone(exec[t]) /\ (u # t => exec'[u] = exec[u])
        BY <2>2, MovesOne, Zenon
      <3>2. Gone(exec[t]).pc = "done"
        BY <2>2, GoneState, Zenon
      <3> QED
        BY <3>1, <3>2, Zenon
    <2>4. exec'[t].pc # "commit"
      BY <2>3
    <2> QED
      BY <1>0, <2>1, <2>3, <2>4, Zenon
  <1>4. ASSUME NEW t \in Tasks, BatchApply(t)
        PROVE  /\ task'[u].rewritten <= committed'[u]
               /\ exec'[u].pc = "commit" => exec'[u].rew = Cardinality(DOMAIN exec'[u].pending)
    <2>1. task' = task /\ committed' = committed
      BY <1>4, Zenon DEF BatchApply
    <2>2. CASE u = t
      <3>1. PICK n \in Nat, p \in Pendings :
               /\ exec[t] \in ExecStates /\ ShapeOf(exec[t]) /\ exec[t].pc = "batch"
               /\ ~task[t].dryRun => n = Cardinality(DOMAIN p)
               /\ DOMAIN p \subseteq {<<Head(exec[t].tables), pk>> : pk \in DOMAIN exec[t].page}
               /\ Moves(t, HasWritten(exec[t], n, p))
        <4> DEFINE e == exec[t]
                   kr == ring[e.on]
                   tbl == Head(e.tables)
                   w == {<<tbl, pk>> : pk \in Rewrites(kr, t)}
                   p == IF task[t].dryRun THEN <<>>
                        ELSE [c \in w |-> Target(kr, task[t].mode, e.page[c[2]])]
        <4>1. /\ e \in ExecStates /\ ShapeOf(e) /\ e.pc = "batch" /\ p \in Pendings
              /\ Cardinality(w) \in Nat /\ \A c \in DOMAIN p : c \in w
              /\ ~task[t].dryRun => DOMAIN p = w
              /\ Moves(t, HasWritten(e, Cardinality(w), p))
          BY <1>4, ApplyMoves, Zenon
        <4>2. w \subseteq {<<tbl, pk>> : pk \in DOMAIN e.page}
          BY Zenon DEF Rewrites
        <4> HIDE DEF w, p
        <4> QED
          BY <4>1, <4>2, Zenon
      <3>2. exec'[t].rew = n /\ exec'[t].pending = p
        <4>1. exec'[t] = HasWritten(exec[t], n, p)
          BY <3>1, MovesOne, Zenon
        <4>2. /\ HasWritten(exec[t], n, p).rew = n
              /\ HasWritten(exec[t], n, p).pending = p
          <5>1. exec[t] \in ExecStates
            BY <3>1, Zenon
          <5> QED
            BY <5>1, Zenon DEF HasWritten, ExecStates
        <4> QED
          BY <4>1, <4>2, Zenon
      <3> QED
        BY <1>0, <2>1, <2>2, <3>1, <3>2, Zenon
    <2>3. CASE u # t
      <3>1. exec'[u] = exec[u]
        BY <1>4, <2>3, Zenon DEF BatchApply, SweepTypes
      <3> QED
        BY <1>0, <2>1, <3>1, Zenon
    <2> QED
      BY <2>2, <2>3, Zenon
  <1>5. ASSUME UNCHANGED <<task, committed>>,
               exec'[u] = exec[u] \/ exec'[u].pc # "commit"
        PROVE  /\ task'[u].rewritten <= committed'[u]
               /\ exec'[u].pc = "commit" => exec'[u].rew = Cardinality(DOMAIN exec'[u].pending)
    BY <1>0, <1>5, Zenon
  <1>6. ASSUME NEW t \in Tasks, SweepList(t) \/ BatchUndecryptable(t) \/ SweepListFails(t)
                                \/ BatchFails(t) \/ FinishTaskFails(t)
        PROVE  UNCHANGED <<task, committed>> /\ (exec'[u] = exec[u] \/ exec'[u].pc # "commit")
    <2>1. UNCHANGED <<task, committed>>
      BY <1>6, Zenon DEF SweepList, BatchUndecryptable, SweepListFails, BatchFails, FinishTaskFails
    <2>2. PICK x : Moves(t, x) /\ x.pc # "commit"
      BY <1>6, NotCommitting, Zenon
    <2> QED
      BY <2>1, <2>2, MovesOne, Zenon
  <1>7. ASSUME NEW i \in ApiInstances, Crash(i)
        PROVE  UNCHANGED <<task, committed>> /\ (exec'[u] = exec[u] \/ exec'[u].pc # "commit")
    <2>1. exec'[u] = exec[u] \/ exec'[u] = Gone(exec[u])
      BY <1>7, CrashLeaves, Zenon
    <2>2. Gone(exec[u]).pc = "done"
      BY GoneState, Zenon DEF SweepTypes
    <2>3. Gone(exec[u]).pc # "commit"
      BY <2>2
    <2> QED
      BY <1>7, <2>1, <2>3, Zenon DEF Crash
  <1>8. ASSUME UNCHANGED <<task, committed, exec>>
        PROVE  /\ task'[u].rewritten <= committed'[u]
               /\ exec'[u].pc = "commit" => exec'[u].rew = Cardinality(DOMAIN exec'[u].pending)
    BY <1>0, <1>8, Zenon
  <1> QED
    BY <1>1, <1>2, <1>3, <1>4, <1>5, <1>6, <1>7, <1>8, Zenon
       DEF SweepNext, Executor, ExecutorFails, sweepVars, WriteEncrypt, WriteCommit, ReloadSecurity,
           EditKeyFile, ClockTick

-----------------------------------------------------------------------------
(* The sweep: which keys are in use.                                       *)

\* Two keyrings that are in use at the same time know each other's active key.
LEMMA Neighbours ==
    ASSUME RotationFiles, NEW n \in DOMAIN KeyFiles, NEW m \in DOMAIN KeyFiles,
           m \in {n, n - 1} \/ n \in {m, m - 1}
    PROVE  KeyFiles[n].active \in KeyFiles[m].keys
  <1>0. DOMAIN KeyFiles = 1..Len(KeyFiles) /\ Len(KeyFiles) \in Nat
    BY KeyRotateAssumption
  <1>1. CASE n = m
    BY <1>1, Zenon DEF RotationFiles
  <1>2. CASE m = n - 1
    <2>1. m \in 1..(Len(KeyFiles) - 1) /\ n = m + 1
      BY <1>0, <1>2
    <2> QED
      BY <2>1, Zenon DEF RotationFiles
  <1>3. CASE n = m - 1
    <2>1. n \in 1..(Len(KeyFiles) - 1) /\ m = n + 1
      BY <1>0, <1>3
    <2> QED
      BY <2>1, Zenon DEF RotationFiles
  <1> QED
    BY <1>1, <1>2, <1>3, Zenon

\* Every instance encrypts, with a key that all others know.
LEMMA ActiveIsKnown ==
    ASSUME RotationFiles, SweepTypes, RingInv, NEW i \in ApiInstances
    PROVE  ring[i] \in Rings /\ ring[i] # NoRing /\ ring[i].active \in KnownKeys(file, ring)
  <1>0. DOMAIN KeyFiles = 1..Len(KeyFiles) /\ Len(KeyFiles) \in Nat /\ file \in DOMAIN KeyFiles
    BY KeyRotateAssumption DEF SweepTypes
  <1>1. \A j \in ApiInstances : \E m \in {file, file - 1} \cap DOMAIN KeyFiles : ring[j] = KeyFiles[m]
    BY Zenon DEF RingInv
  <1>2. PICK n \in {file, file - 1} \cap DOMAIN KeyFiles : ring[i] = KeyFiles[n]
    BY <1>1, Zenon
  <1>3. \A m \in {file, file - 1} \cap DOMAIN KeyFiles : m \in {n, n - 1} \/ n \in {m, m - 1}
    BY <1>0
  <1>4. \A m \in {file, file - 1} \cap DOMAIN KeyFiles : ring[i].active \in KeyFiles[m].keys
    BY <1>2, <1>3, Neighbours, Zenon
  <1>5. ring[i].active \in KeyFiles[file].keys /\ \A j \in ApiInstances : ring[i].active \in ring[j].keys
    BY <1>0, <1>1, <1>4, Zenon
  <1>6. ring[i] # NoRing
    <2>1. NoRing.keys = {}
      BY Zenon DEF NoRing
    <2> QED
      BY <1>5, <2>1, Zenon
  <1> QED
    BY <1>2, <1>5, <1>6, Zenon DEF KnownKeys, Rings

\* Whatever keys are active, nothing else comes to be on its way to a row.
LEMMA FlightNext ==
    ASSUME SweepTypes, SweepNext, NEW K, 0 \in K,
           \A i \in ApiInstances : ring[i] # NoRing /\ ring[i].active \in K,
           InFlight(write, exec, K)
    PROVE  InFlight(write', exec', K)
  <1>1. ASSUME write' = write, NEW t \in Tasks, NEW x, Moves(t, x),
               \A c \in DOMAIN x.pending : x.pending[c].key \in K
        PROVE  InFlight(write', exec', K)
    <2>1. exec'[t] = x /\ \A u \in Tasks \ {t} : exec'[u] = exec[u]
      BY <1>1, MovesOne, Zenon
    <2> QED
      BY <1>1, <2>1, Zenon DEF InFlight
  <1>2. ASSUME NEW i \in ApiInstances, NEW c \in Updatable, NEW s \in Secrets, WriteEncrypt(i, c, s)
        PROVE  InFlight(write', exec', K)
    <2> DEFINE v == EncryptIfEnabled(ring[i], [secret |-> s, key |-> 0])
               w == [cell |-> c, val |-> v]
    <2>1. v.key = ring[i].active /\ write' = [write EXCEPT ![i] = w]
      BY <1>2, WriteTypes, Zenon
    <2> HIDE DEF v
    <2>2. w.val = v
      BY Zenon
    <2> HIDE DEF w
    <2>3. write'[i] = w /\ \A j \in ApiInstances \ {i} : write'[j] = write[j]
      BY <2>1, Zenon DEF SweepTypes
    <2>4. write'[i].val.key \in K
      BY <2>1, <2>2, <2>3, Zenon
    <2>5. exec' = exec
      BY <1>2, Zenon DEF WriteEncrypt
    <2> QED
      BY <2>3, <2>4, <2>5, Zenon DEF InFlight
  <1>3. ASSUME NEW i \in ApiInstances, WriteCommit(i) PROVE InFlight(write', exec', K)
    <2>1. \A j \in ApiInstances : write'[j] = write[j] \/ write'[j] = NoWrite
      BY <1>3, Zenon DEF WriteCommit, SweepTypes
    <2>2. exec' = exec
      BY <1>3, Zenon DEF WriteCommit
    <2> QED
      BY <2>1, <2>2, Zenon DEF InFlight
  <1>4. ASSUME NEW i \in ApiInstances, Crash(i) PROVE InFlight(write', exec', K)
    <2>1. \A j \in ApiInstances : write'[j] = write[j] \/ write'[j] = NoWrite
      BY <1>4, Zenon DEF Crash, SweepTypes
    <2>2. \A u \in Tasks : exec'[u] = exec[u] \/ exec'[u] = Gone(exec[u])
      BY <1>4, CrashLeaves, Zenon
    <2>3. \A u \in Tasks : DOMAIN Gone(exec[u]).pending = {}
      BY GoneState, Zenon DEF SweepTypes
    <2> QED
      BY <2>1, <2>2, <2>3, Zenon DEF InFlight
  <1>5. ASSUME NEW i \in ApiInstances, NEW t \in Tasks, NEW req \in Requests, Trigger(i, t, req)
        PROVE  InFlight(write', exec', K)
    <2>1. Moves(t, Begun(i, req))
      BY <1>5, TriggerRows, Zenon
    <2>3. write' = write
      BY <1>5, Zenon DEF Trigger
    <2>2. DOMAIN Begun(i, req).pending = {}
      BY BegunState, Zenon
    <2> QED
      BY <1>1, <2>1, <2>2, <2>3, Zenon
  <1>6. ASSUME NEW t \in Tasks, BatchApply(t) PROVE InFlight(write', exec', K)
    <2> DEFINE e == exec[t]
               kr == ring[e.on]
               tbl == Head(e.tables)
               w == {<<tbl, pk>> : pk \in Rewrites(kr, t)}
               p == IF task[t].dryRun THEN <<>>
                    ELSE [c \in w |-> Target(kr, task[t].mode, e.page[c[2]])]
    <2>1. /\ e \in ExecStates /\ ShapeOf(e) /\ e.pc = "batch" /\ p \in Pendings /\ kr \in Rings
          /\ Cardinality(w) \in Nat
          /\ \A c \in DOMAIN p : c \in w /\ e.page[c[2]] \in Values
                                 /\ p[c] = Target(kr, task[t].mode, e.page[c[2]])
          /\ Moves(t, HasWritten(e, Cardinality(w), p))
      BY <1>6, ApplyMoves, Zenon
    <2>2. w \subseteq {<<tbl, pk>> : pk \in DOMAIN e.page}
      BY Zenon DEF Rewrites
    <2>3. kr # NoRing /\ kr.active \in K
      BY <2>1, Zenon DEF ExecStates
    <2> HIDE DEF w, p, kr, e
    <2>4. \A c \in DOMAIN p : p[c].key \in {0, kr.active}
      BY <2>1, <2>3, Transformed, Zenon
    <2>5. \A c \in DOMAIN p : p[c].key \in K
      BY <2>3, <2>4, Zenon
    <2>6. HasWritten(e, Cardinality(w), p).pending = p
      <3> DEFINE c == Cardinality(w)
      <3> HIDE DEF c
      <3>1. e \in ExecStates
        BY <2>1, Zenon
      <3>2. HasWritten(e, c, p).pending = p
        BY <3>1, Zenon DEF HasWritten, ExecStates
      <3> QED
        BY <3>2, Zenon DEF c
    <2>7. write' = write
      BY <1>6, Zenon DEF BatchApply
    <2> QED
      BY <1>1, <2>1, <2>5, <2>6, <2>7, Zenon
  <1>7. ASSUME NEW t \in Tasks, SweepList(t) \/ BatchCommit(t) \/ BatchUndecryptable(t) \/ FinishTask(t)
                                \/ SweepListFails(t) \/ BatchFails(t) \/ FinishTaskFails(t)
        PROVE  InFlight(write', exec', K)
    <2>1. write' = write
      BY <1>7, Zenon DEF SweepList, BatchCommit, BatchUndecryptable, FinishTask, SweepListFails,
                         BatchFails, FinishTaskFails
    <2>2. PICK x : Moves(t, x) /\ x.pc # "commit"
      BY <1>7, NotCommitting, Zenon
    <2>3. DOMAIN x.pending = {}
      BY <2>2, Zenon DEF Moves, ShapeOf
    <2> QED
      BY <1>1, <2>1, <2>2, <2>3, Zenon
  <1>8. CASE UNCHANGED <<write, exec>>
    BY <1>8, Zenon
  <1> QED
    BY <1>2, <1>3, <1>4, <1>5, <1>6, <1>7, <1>8, Zenon
       DEF SweepNext, Executor, ExecutorFails, ReloadSecurity, EditKeyFile, ClockTick

\* What a step stores was on its way to the row.
LEMMA CellsNext ==
    ASSUME SweepTypes, SweepNext, NEW K, InFlight(write, exec, K)
    PROVE  \A c \in Cells : cell'[c] = cell[c] \/ cell'[c].key \in K
  <1>1. ASSUME NEW i \in ApiInstances, WriteCommit(i)
        PROVE  \A c \in Cells : cell'[c] = cell[c] \/ cell'[c].key \in K
    <2>1. cell' = [cell EXCEPT ![write[i].cell] = write[i].val] /\ write[i] # NoWrite
      BY <1>1, Zenon DEF WriteCommit
    <2>2. write[i].val.key \in K
      BY <2>1, Zenon DEF InFlight
    <2> QED
      BY <2>1, <2>2, Zenon DEF SweepTypes
  <1>2. ASSUME NEW t \in Tasks, BatchCommit(t)
        PROVE  \A c \in Cells : cell'[c] = cell[c] \/ cell'[c].key \in K
    <2>1. \A c \in Cells : IF c \in DOMAIN exec[t].pending
                           THEN cell'[c] = exec[t].pending[c] ELSE cell'[c] = cell[c]
      BY <1>2, CommitCells, Zenon
    <2>2. \A c \in DOMAIN exec[t].pending : exec[t].pending[c].key \in K
      BY Zenon DEF InFlight
    <2> QED
      BY <2>1, <2>2, Zenon
  <1>3. CASE UNCHANGED cell
    BY <1>3, Zenon
  <1> QED
    BY <1>1, <1>2, <1>3, Zenon
       DEF SweepNext, Executor, ExecutorFails, WriteEncrypt, ReloadSecurity,
           Crash, EditKeyFile, ClockTick, Trigger, SweepList, BatchApply, BatchUndecryptable, FinishTask,
           SweepListFails, BatchFails, FinishTaskFails

\* Instances are at most one file behind: the file is edited when all have loaded it.
LEMMA RingNext == SweepTypes /\ RingInv /\ [SweepNext]_sweepVars => RingInv'
  <1> SUFFICES ASSUME SweepTypes, RingInv, [SweepNext]_sweepVars PROVE RingInv'
    OBVIOUS
  <1>0. /\ DOMAIN KeyFiles = 1..Len(KeyFiles) /\ Len(KeyFiles) \in Nat
        /\ file \in DOMAIN KeyFiles /\ file \in Nat
        /\ \A u \in Tasks : task[u].file \in Nat
    <2>1. \A u \in Tasks : task[u].file \in Nat
      BY Zenon DEF SweepTypes, TaskRows
    <2> QED
      BY <2>1, KeyRotateAssumption DEF SweepTypes
  <1>1. CASE EditKeyFile
    <2>1. file' = file + 1 /\ ring' = ring /\ task' = task /\ \A i \in ApiInstances : ring[i] = KeyFiles[file]
      BY <1>1, Zenon DEF EditKeyFile, AllLoaded
    <2>2. file' - 1 = file /\ \A u \in Tasks : task[u].file <= file'
      BY <1>0, <2>1 DEF RingInv
    <2> QED
      BY <1>0, <2>1, <2>2, Zenon DEF RingInv
  <1>2. ASSUME NEW i \in ApiInstances, ReloadSecurity(i) \/ Crash(i) PROVE RingInv'
    <2>1. ring' = [ring EXCEPT ![i] = KeyFiles[file]] /\ file' = file /\ task' = task
      BY <1>2, Zenon DEF ReloadSecurity, Crash
    <2>2. \A j \in ApiInstances : ring'[j] \in {ring[j], KeyFiles[file]}
      BY <2>1, Zenon DEF SweepTypes
    <2> QED
      BY <1>0, <2>1, <2>2, Zenon DEF RingInv
  <1>3. ASSUME UNCHANGED <<file, ring>>, \A u \in Tasks : task'[u].file \in {task[u].file, file}
        PROVE  RingInv'
    <2>1. \A u \in Tasks : task'[u].file <= file
      BY <1>0, <1>3 DEF RingInv
    <2> QED
      BY <1>3, <2>1, Zenon DEF RingInv
  <1>4. ASSUME NEW i \in ApiInstances, NEW t \in Tasks, NEW req \in Requests, Trigger(i, t, req)
        PROVE  \A u \in Tasks : task'[u].file \in {task[u].file, file}
    <2>1. task'[t].file = file
      <3>1. RowBegun(task'[t], req)
        BY <1>4, TriggerRows, Zenon
      <3> QED
        BY <3>1, Zenon DEF RowBegun
    <2>2. ASSUME NEW u \in Tasks \ {t} PROVE task'[u].file = task[u].file
      <3>1. RowKept(task[u], task'[u])
        BY <1>4, TriggerRows, Zenon
      <3> QED
        BY <3>1, Zenon DEF RowKept
    <2> QED
      BY <2>1, <2>2, Zenon
  <1>5. ASSUME NEW t \in Tasks, BatchCommit(t) \/ FinishTask(t)
        PROVE  \A u \in Tasks : task'[u].file \in {task[u].file, file}
    BY <1>5, CommitRows, FinishRows, Zenon
  <1>6. CASE UNCHANGED <<file, ring, task>>
    BY <1>3, <1>6, Zenon
  <1>7. ASSUME NEW i \in ApiInstances, NEW t \in Tasks, NEW req \in Requests, Trigger(i, t, req)
        PROVE  RingInv'
    BY <1>3, <1>4, <1>7, Zenon DEF Trigger
  <1>8. ASSUME NEW t \in Tasks, BatchCommit(t) \/ FinishTask(t) PROVE RingInv'
    BY <1>3, <1>5, <1>8, Zenon DEF BatchCommit, FinishTask
  <1> QED
    BY <1>1, <1>2, <1>6, <1>7, <1>8, Zenon
       DEF SweepNext, Executor, ExecutorFails, sweepVars, WriteEncrypt, WriteCommit, ClockTick,
           SweepList, BatchApply, BatchUndecryptable, SweepListFails, BatchFails, FinishTaskFails

\* In every step but EditKeyFile the file stays and keyrings only come up to it.
LEMMA FileStays ==
    ASSUME SweepTypes, SweepNext, ~EditKeyFile
    PROVE  file' = file /\ \A i \in ApiInstances : ring'[i] \in {ring[i], KeyFiles[file]}
  <1>1. ASSUME NEW i \in ApiInstances, ReloadSecurity(i) \/ Crash(i)
        PROVE  file' = file /\ \A j \in ApiInstances : ring'[j] \in {ring[j], KeyFiles[file]}
    BY <1>1, Zenon DEF ReloadSecurity, Crash, SweepTypes
  <1>2. CASE UNCHANGED <<file, ring>>
    BY <1>2, Zenon
  <1> QED
    BY <1>1, <1>2, Zenon
       DEF SweepNext, Executor, ExecutorFails, WriteEncrypt, WriteCommit, ClockTick, Trigger,
           SweepList, BatchApply, BatchCommit, BatchUndecryptable, FinishTask, SweepListFails,
           BatchFails, FinishTaskFails

\* More keys do no harm.
LEMMA FlightGrows ==
    ASSUME NEW w, NEW x, NEW K, NEW L, K \subseteq L, InFlight(w, x, K)
    PROVE  InFlight(w, x, L)
  BY Zenon DEF InFlight

\* A key is taken out only when nothing is stored under it or on its way to a row.
LEMMA KeysNext ==
    ASSUME RotationFiles, SweepTypes, RingInv, KeysInv, SweptInv, [SweepNext]_sweepVars
    PROVE  KeysInv'
  <1> DEFINE K == KnownKeys(file, ring)
             L == KnownKeys(file', ring')
  <1> SUFFICES /\ \A c \in Cells : cell'[c].key \in L
               /\ InFlight(write', exec', L)
    BY Zenon DEF KeysInv
  <1>0. /\ DOMAIN KeyFiles = 1..Len(KeyFiles) /\ Len(KeyFiles) \in Nat
        /\ file \in DOMAIN KeyFiles /\ file \in Nat
    BY KeyRotateAssumption DEF SweepTypes
  <1>1. CASE EditKeyFile
    <2>1. /\ cell' = cell /\ write' = write /\ exec' = exec /\ ring' = ring /\ file' = file + 1
          /\ \A i \in ApiInstances : ring[i] = KeyFiles[file]
      BY <1>1, Zenon DEF EditKeyFile, AllLoaded
    <2>2. CASE KeyFiles[file].keys \subseteq KeyFiles[file + 1].keys
      <3>1. K \subseteq L
        BY <2>1, <2>2, Zenon DEF KnownKeys
      <3> HIDE DEF K, L
      <3> QED
        BY <2>1, <3>1, FlightGrows, Zenon DEF KeysInv, K
    <2>3. ASSUME NEW t \in Tasks, Converged(t)
          PROVE  /\ \A c \in Cells : cell'[c].key \in L
                 /\ InFlight(write', exec', L)
      <3>1. CleanSweep(t) /\ task[t].status = "succeeded"
        BY <2>3, Zenon DEF Converged, CleanSweep
      <3>2. InFlight(write, exec, Current(file)) /\ \A c \in Cells : cell[c].key \in Current(file)
        BY <3>1, Zenon DEF SweptInv, SweptBy
      <3>3. file + 1 \in DOMAIN KeyFiles /\ file \in {file + 1, (file + 1) - 1}
        BY <1>0, <1>1 DEF EditKeyFile
      <3>4. KeyFiles[file].active \in KeyFiles[file + 1].keys
        BY <1>0, <3>3, Neighbours, Zenon
      <3>5. KeyFiles[file].active \in KeyFiles[file].keys
        BY <1>0, Zenon DEF RotationFiles
      <3>6. Current(file) \subseteq L
        BY <2>1, <3>4, <3>5, Zenon DEF Current, KnownKeys
      <3> HIDE DEF L
      <3> QED
        BY <2>1, <3>2, <3>6, FlightGrows, Zenon
    <2> QED
      BY <1>1, <2>2, <2>3, Zenon DEF EditKeyFile
  <1>2. CASE SweepNext /\ ~EditKeyFile
    <2>1. file' = file /\ \A i \in ApiInstances : ring'[i] \in {ring[i], KeyFiles[file]}
      BY <1>2, FileStays, Zenon
    <2>2. K \subseteq L
      BY <2>1, Zenon DEF KnownKeys
    <2>3. 0 \in K /\ \A i \in ApiInstances : ring[i] # NoRing /\ ring[i].active \in K
      BY ActiveIsKnown, Zenon DEF KnownKeys
    <2>4. InFlight(write, exec, K) /\ \A c \in Cells : cell[c].key \in K
      BY Zenon DEF KeysInv
    <2> HIDE DEF K, L
    <2>5. InFlight(write', exec', K)
      BY <1>2, <2>3, <2>4, FlightNext, Zenon
    <2>6. \A c \in Cells : cell'[c] = cell[c] \/ cell'[c].key \in K
      BY <1>2, <2>4, CellsNext, Zenon
    <2> QED
      BY <2>2, <2>4, <2>5, <2>6, FlightGrows, Zenon
  <1>3. CASE UNCHANGED sweepVars
    BY <1>3, Zenon DEF sweepVars, KeysInv
  <1> QED
    BY <1>1, <1>2, <1>3, Zenon

-----------------------------------------------------------------------------
(* The sweep: what it has achieved.                                        *)

\* A cell is a table and a primary key of it, counted from 1.
LEMMA CellIs ==
    ASSUME NEW c \in Cells
    PROVE  /\ c = <<c[1], c[2]>> /\ c[1] \in {"providers", "api_keys"}
           /\ c[2] \in Nat \ {0} /\ c[2] \in Pks(c[1])
  <1>1. /\ c = <<c[1], c[2]>> /\ c[1] \in {"providers", "api_keys"} /\ c[2] \in Pks(c[1])
    BY DEF Cells
  <1>2. \A pk \in Pks(c[1]) : pk \in Nat \ {0}
    BY KeyRotateAssumption DEF Pks
  <1> QED
    BY <1>1, <1>2, Zenon

\* The primary keys of a page follow the cursor without a gap.
LEMMA NoGap ==
    ASSUME NEW c \in Cells, NEW cursor \in Nat, c[2] > cursor
    PROVE  /\ ListRows(c[1], cursor) # {}
           /\ c[2] <= cursor + BatchSize => c[2] \in ListRows(c[1], cursor)
  <1>1. c[2] \in Nat \ {0} /\ c[2] \in Pks(c[1]) /\ BatchSize \in Nat \ {0}
    BY CellIs, KeyRotateAssumption, Zenon
  <1>2. cursor + 1 \in Pks(c[1])
    BY <1>1, KeyRotateAssumption DEF Pks
  <1>3. cursor + 1 > cursor /\ cursor + 1 <= cursor + BatchSize
    BY <1>1
  <1>4. cursor + 1 \in ListRows(c[1], cursor)
    BY <1>2, <1>3, Zenon DEF ListRows
  <1> QED
    BY <1>1, <1>4, Zenon DEF ListRows

\* A step that the executor has no part in.
LEMMA SweptStays ==
    ASSUME NEW e \in ExecStates, ShapeOf(e), NEW st, NEW st2, NEW cl, NEW cl2, NEW K,
           SweptBy(e, st, cl, K),
           \A c \in Cells : cl[c].key \in K => cl2[c].key \in K,
           st2 = "succeeded" => st = "succeeded"
    PROVE  SweptBy(e, st2, cl2, K)
  <1>1. e.pc \in {"batch", "commit"} => \A pk \in DOMAIN e.page : <<Head(e.tables), pk>> \in Cells
    BY PageCells, Zenon
  <1>2. e.pc \in AtWork => e.tables \in {<<>>, <<"api_keys">>, <<"providers", "api_keys">>}
    BY Zenon DEF SweptBy
  <1>3. e.pc \in AtWork /\ ~e.failed => \A c \in Cells : Swept(e, c) => cl2[c].key \in K
    BY Zenon DEF SweptBy
  <1>4. e.pc \in {"batch", "commit"} =>
           \A pk \in DOMAIN e.page : e.page[pk].key \in K => cl2[<<Head(e.tables), pk>>].key \in K
    BY <1>1, Zenon DEF SweptBy
  <1>5. e.pc = "commit" =>
          \A pk \in DOMAIN e.page : e.page[pk].key \in K \/ <<Head(e.tables), pk>> \in DOMAIN e.pending
    BY Zenon DEF SweptBy
  <1>6. st2 = "succeeded" => \A c \in Cells : cl2[c].key \in K
    BY Zenon DEF SweptBy
  <1> QED
    BY <1>2, <1>3, <1>4, <1>5, <1>6, Zenon DEF SweptBy

\* An executor that is gone owes nothing more than its task claims.
LEMMA SweptGone ==
    ASSUME NEW e \in ExecStates, NEW st, NEW cl, NEW K,
           st = "succeeded" => \A c \in Cells : cl[c].key \in K
    PROVE  SweptBy(Gone(e), st, cl, K)
  <1>1. Gone(e).pc = "done"
    BY GoneState, Zenon
  <1>2. Gone(e).pc \notin AtWork /\ Gone(e).pc \notin {"batch", "commit"} /\ Gone(e).pc # "commit"
    BY <1>1 DEF AtWork
  <1> QED
    BY <1>2, Zenon DEF SweptBy

\* A table whose last page is done.
LEMMA SweptNextTable ==
    ASSUME NEW e \in ExecStates, ShapeOf(e), e.pc = "list", NEW st, NEW cl, NEW K,
           SweptBy(e, st, cl, K), ListRows(Head(e.tables), e.cursor) = {}
    PROVE  SweptBy(NextSweepTable(e), st, cl, K)
  <1> DEFINE n == NextSweepTable(e)
  <1>0. e.tables # <<>> /\ e.cursor \in Nat /\ e.pc \in AtWork
    BY Zenon DEF ShapeOf, ExecStates, AtWork
  <1>1. /\ n.pc \in {"list", "finish"} /\ n.tables = Tail(e.tables) /\ n.cursor = 0 /\ n.failed = e.failed
    BY <1>0, NextTableState, Zenon
  <1>2. e.tables \in {<<"api_keys">>, <<"providers", "api_keys">>}
    BY <1>0, Zenon DEF SweptBy
  <1> HIDE DEF n
  <1>3. n.tables \in {<<>>, <<"api_keys">>}
    BY <1>1, <1>2, TableLists, Zenon
  <1>4. n.pc \notin {"batch", "commit"} /\ n.pc # "commit"
    BY <1>1
  <1>5. ASSUME ~e.failed, NEW c \in Cells, Swept(n, c) PROVE cl[c].key \in K
    <2>1. c[1] \in {"providers", "api_keys"} /\ c[2] \in Nat \ {0}
      BY CellIs, Zenon
    <2>2. c[1] = Head(e.tables) => c[2] <= e.cursor
      <3>1. SUFFICES ASSUME c[1] = Head(e.tables), c[2] > e.cursor PROVE FALSE
        BY <1>0, <2>1
      <3> QED
        BY <1>0, <3>1, NoGap, Zenon
    <2>3. CASE e.tables = <<"api_keys">>
      <3>1. Head(e.tables) = "api_keys"
        BY <2>3, TableLists, Zenon
      <3>2. Swept(e, c)
        BY <2>1, <2>2, <2>3, <3>1, Zenon DEF Swept
      <3> QED
        BY <1>0, <1>5, <3>2, Zenon DEF SweptBy
    <2>4. CASE e.tables = <<"providers", "api_keys">>
      <3>1. Head(e.tables) = "providers" /\ n.tables = <<"api_keys">>
        BY <1>1, <2>4, TableLists, Zenon
      <3>2. c[1] = "providers" \/ c[2] <= 0
        BY <1>1, <1>5, <3>1, TableLists, Zenon DEF Swept
      <3>3. c[1] = "providers"
        BY <2>1, <3>2
      <3>4. Swept(e, c)
        BY <2>2, <2>4, <3>1, <3>3, Zenon DEF Swept
      <3> QED
        BY <1>0, <1>5, <3>4, Zenon DEF SweptBy
    <2> QED
      BY <1>2, <2>3, <2>4, Zenon
  <1>6. st = "succeeded" => \A c \in Cells : cl[c].key \in K
    BY Zenon DEF SweptBy
  <1> QED
    BY <1>1, <1>3, <1>4, <1>5, <1>6, Zenon DEF SweptBy, n

\* A page as it was just read.
LEMMA SweptRead ==
    ASSUME NEW e \in ExecStates, ShapeOf(e), e.pc = "list", NEW st, NEW cl, NEW K,
           SweptBy(e, st, cl, K), NEW p \in [ListRows(Head(e.tables), e.cursor) -> Values],
           \A pk \in DOMAIN p : p[pk] = cl[<<Head(e.tables), pk>>]
    PROVE  SweptBy(HasRead(e, p), st, cl, K)
  <1> DEFINE n == HasRead(e, p)
  <1>1. n.pc = "batch" /\ n.page = p /\ n.tables = e.tables /\ n.failed = e.failed /\ n.cursor = e.cursor
    BY HasReadState, Zenon
  <1> HIDE DEF n
  <1>2. e.pc \in AtWork /\ n.pc # "commit"
    BY <1>1 DEF AtWork
  <1>3. \A c \in Cells : Swept(n, c) <=> Swept(e, c)
    BY <1>1, Zenon DEF Swept
  <1>4. n.tables \in {<<>>, <<"api_keys">>, <<"providers", "api_keys">>}
    BY <1>1, <1>2, Zenon DEF SweptBy
  <1>5. ~n.failed => \A c \in Cells : Swept(n, c) => cl[c].key \in K
    BY <1>1, <1>2, <1>3, Zenon DEF SweptBy
  <1>6. \A pk \in DOMAIN n.page : n.page[pk].key \in K => cl[<<Head(n.tables), pk>>].key \in K
    BY <1>1, Zenon
  <1>7. st = "succeeded" => \A c \in Cells : cl[c].key \in K
    BY Zenon DEF SweptBy
  <1> QED
    BY <1>2, <1>4, <1>5, <1>6, <1>7, Zenon DEF SweptBy, n

\* A page whose rows are about to be committed.
LEMMA SweptWritten ==
    ASSUME NEW e \in ExecStates, ShapeOf(e), e.pc = "batch", NEW st, NEW cl, NEW K,
           SweptBy(e, st, cl, K), NEW n \in Nat, NEW p \in Pendings,
           DOMAIN p \subseteq {<<Head(e.tables), pk>> : pk \in DOMAIN e.page},
           \A pk \in DOMAIN e.page : e.page[pk].key \in K \/ <<Head(e.tables), pk>> \in DOMAIN p
    PROVE  SweptBy(HasWritten(e, n, p), st, cl, K)
  <1> DEFINE x == HasWritten(e, n, p)
  <1>1. /\ x.pc = "commit" /\ x.page = e.page /\ x.pending = p
        /\ x.tables = e.tables /\ x.failed = e.failed /\ x.cursor = e.cursor
    BY Zenon DEF HasWritten, ExecStates
  <1> HIDE DEF x
  <1>2. e.pc \in AtWork /\ e.pc \in {"batch", "commit"}
    BY DEF AtWork
  <1>3. \A c \in Cells : Swept(x, c) <=> Swept(e, c)
    BY <1>1, Zenon DEF Swept
  <1>4. x.tables \in {<<>>, <<"api_keys">>, <<"providers", "api_keys">>}
    BY <1>1, <1>2, Zenon DEF SweptBy
  <1>5. ~x.failed => \A c \in Cells : Swept(x, c) => cl[c].key \in K
    BY <1>1, <1>2, <1>3, Zenon DEF SweptBy
  <1>6. \A pk \in DOMAIN x.page : x.page[pk].key \in K => cl[<<Head(x.tables), pk>>].key \in K
    BY <1>1, <1>2, Zenon DEF SweptBy
  <1>7. st = "succeeded" => \A c \in Cells : cl[c].key \in K
    BY Zenon DEF SweptBy
  <1>8. \A pk \in DOMAIN x.page : x.page[pk].key \in K \/ <<Head(x.tables), pk>> \in DOMAIN x.pending
    BY <1>1, Zenon
  <1> QED
    BY <1>4, <1>5, <1>6, <1>7, <1>8, Zenon DEF SweptBy, x

\* A page that is to be tried again.
LEMMA SweptRetried ==
    ASSUME NEW e \in ExecStates, ShapeOf(e), e.pc \in {"batch", "commit"}, e.attempt + 1 < MaxAttempts,
           NEW st, NEW cl, NEW K, SweptBy(e, st, cl, K)
    PROVE  SweptBy(Retried(e), st, cl, K)
  <1> DEFINE x == Retried(e)
  <1>1. /\ x.pc = "batch" /\ x.page = e.page
        /\ x.tables = e.tables /\ x.failed = e.failed /\ x.cursor = e.cursor
    BY RetriedState, Zenon
  <1> HIDE DEF x
  <1>2. e.pc \in AtWork /\ x.pc # "commit"
    BY <1>1 DEF AtWork
  <1>3. \A c \in Cells : Swept(x, c) <=> Swept(e, c)
    BY <1>1, Zenon DEF Swept
  <1>4. x.tables \in {<<>>, <<"api_keys">>, <<"providers", "api_keys">>}
    BY <1>1, <1>2, Zenon DEF SweptBy
  <1>5. ~x.failed => \A c \in Cells : Swept(x, c) => cl[c].key \in K
    BY <1>1, <1>2, <1>3, Zenon DEF SweptBy
  <1>6. \A pk \in DOMAIN x.page : x.page[pk].key \in K => cl[<<Head(x.tables), pk>>].key \in K
    BY <1>1, Zenon DEF SweptBy
  <1>7. st = "succeeded" => \A c \in Cells : cl[c].key \in K
    BY Zenon DEF SweptBy
  <1> QED
    BY <1>2, <1>4, <1>5, <1>6, <1>7, Zenon DEF SweptBy, x

\* A table that failed: the sweep promises nothing any more.
LEMMA SweptFailed ==
    ASSUME NEW e \in ExecStates, e.tables # <<>>, e.pc \in AtWork, NEW st, NEW cl, NEW K,
           SweptBy(e, st, cl, K)
    PROVE  SweptBy(FailedTable(e), st, cl, K)
  <1> DEFINE x == FailedTable(e)
  <1>1. x.pc \in {"list", "finish"} /\ x.tables = Tail(e.tables) /\ x.failed
    BY FailedTableState, Zenon
  <1> HIDE DEF x
  <1>2. x.pc \notin {"batch", "commit"} /\ x.pc # "commit"
    BY <1>1
  <1>3. e.tables \in {<<"api_keys">>, <<"providers", "api_keys">>}
    BY Zenon DEF SweptBy
  <1>4. x.tables \in {<<>>, <<"api_keys">>, <<"providers", "api_keys">>}
    BY <1>1, <1>3, TableLists, Zenon
  <1>5. st = "succeeded" => \A c \in Cells : cl[c].key \in K
    BY Zenon DEF SweptBy
  <1> QED
    BY <1>1, <1>2, <1>4, <1>5, Zenon DEF SweptBy, x

\* A sweep that has just begun.
LEMMA SweptBegun ==
    ASSUME NEW i \in ApiInstances, NEW req \in Requests, req.scope = "all", NEW cl, NEW K
    PROVE  SweptBy(Begun(i, req), "running", cl, K)
  <1> DEFINE x == Begun(i, req)
  <1>1. x.pc = "list" /\ x.tables = <<"providers", "api_keys">> /\ x.cursor = 0
    BY BegunState, Zenon
  <1> HIDE DEF x
  <1>2. x.pc \notin {"batch", "commit"} /\ x.pc # "commit" /\ "running" # "succeeded"
    BY <1>1
  <1>3. \A c \in Cells : ~Swept(x, c)
    <2> SUFFICES ASSUME NEW c \in Cells, Swept(x, c) PROVE FALSE
      OBVIOUS
    <2>1. c[2] <= 0
      BY <1>1, TableLists, Zenon DEF Swept
    <2>2. c[2] \in Nat \ {0}
      BY CellIs, Zenon
    <2> QED
      BY <2>1, <2>2
  <1> QED
    BY <1>1, <1>2, <1>3, Zenon DEF SweptBy, x

\* A page whose rows are committed.
LEMMA SweptPageDone ==
    ASSUME NEW e \in ExecStates, ShapeOf(e), e.pc = "commit", NEW st, NEW cl, NEW cl2, NEW K,
           SweptBy(e, st, cl, K), NEW last \in Nat, last <= e.cursor + BatchSize,
           \A c \in Cells : cl[c].key \in K => cl2[c].key \in K,
           \A c \in DOMAIN e.pending : cl2[c].key \in K
    PROVE  SweptBy(PageDone(e, last), st, cl2, K)
  <1> DEFINE x == PageDone(e, last)
  <1>1. x.pc = "list" /\ x.tables = e.tables /\ x.failed = e.failed /\ x.cursor = last
    BY PageDoneState, Zenon
  <1> HIDE DEF x
  <1>2. /\ e.pc \in AtWork /\ e.pc \in {"batch", "commit"}
        /\ x.pc \notin {"batch", "commit"} /\ x.pc # "commit"
    BY <1>1 DEF AtWork
  <1>3. e.cursor \in Nat /\ BatchSize \in Nat /\ DOMAIN e.page = ListRows(Head(e.tables), e.cursor)
    BY <1>2, KeyRotateAssumption, Zenon DEF ExecStates, ShapeOf
  <1>4. x.tables \in {<<>>, <<"api_keys">>, <<"providers", "api_keys">>}
    BY <1>1, <1>2, Zenon DEF SweptBy
  <1>5. ASSUME ~x.failed, NEW c \in Cells, Swept(x, c) PROVE cl2[c].key \in K
    <2>1. CASE Swept(e, c)
      BY <1>1, <1>2, <1>5, <2>1, Zenon DEF SweptBy
    <2>2. CASE ~Swept(e, c)
      <3>1. c[1] = Head(e.tables) /\ c[2] <= last /\ ~(c[2] <= e.cursor)
        <4>0. c[1] \in {"providers", "api_keys"}
          BY CellIs, Zenon
        <4>1. CASE e.tables = <<"api_keys">>
          BY <1>1, <1>5, <2>2, <4>0, <4>1, TableLists, Zenon DEF Swept
        <4>2. CASE e.tables = <<"providers", "api_keys">>
          BY <1>1, <1>5, <2>2, <4>2, TableLists, Zenon DEF Swept
        <4> QED
          BY <1>1, <1>4, <2>2, <4>1, <4>2, Zenon DEF Swept
      <3>2. c[2] > e.cursor /\ c[2] <= e.cursor + BatchSize
        <4>1. c[2] \in Nat
          BY CellIs, Zenon
        <4> QED
          BY <1>3, <3>1, <4>1
      <3>3. c[2] \in DOMAIN e.page
        BY <1>3, <3>1, <3>2, NoGap, Zenon
      <3>4. c = <<Head(e.tables), c[2]>>
        BY <3>1, CellIs, Zenon
      <3>5. CASE e.page[c[2]].key \in K
        <4>1. cl[<<Head(e.tables), c[2]>>].key \in K
          BY <1>2, <3>3, <3>5, Zenon DEF SweptBy
        <4> QED
          BY <3>4, <4>1, Zenon
      <3>6. CASE <<Head(e.tables), c[2]>> \in DOMAIN e.pending
        BY <3>4, <3>6, Zenon
      <3> QED
        BY <3>3, <3>5, <3>6, Zenon DEF SweptBy
    <2> QED
      BY <2>1, <2>2, Zenon
  <1>6. st = "succeeded" => \A c \in Cells : cl2[c].key \in K
    BY Zenon DEF SweptBy
  <1> QED
    BY <1>2, <1>4, <1>5, <1>6, Zenon DEF SweptBy, x

\* An executor at the end has been through all rows.
LEMMA SweptFinish ==
    ASSUME NEW e \in ExecStates, e.pc = "finish", e.tables = <<>>, NEW st, NEW cl, NEW K,
           SweptBy(e, st, cl, K)
    PROVE  SweptBy(Gone(e), IF e.failed THEN "failed" ELSE "succeeded", cl, K)
  <1>1. e.pc \in AtWork /\ "failed" # "succeeded"
    BY DEF AtWork
  <1>2. ~e.failed => \A c \in Cells : cl[c].key \in K
    BY <1>1, Zenon DEF SweptBy, Swept
  <1>3. (IF e.failed THEN "failed" ELSE "succeeded") = "succeeded" => \A c \in Cells : cl[c].key \in K
    BY <1>1, <1>2, Zenon
  <1> QED
    BY <1>3, SweptGone, Zenon

\* The steps of a clean sweep's own executor.
LEMMA SweptExecutor ==
    ASSUME SweepTypes, NEW u \in Tasks, NEW K, SweptBy(exec[u], task[u].status, cell, K),
           task[u].mode = "reencrypt", ~task[u].dryRun,
           \A i \in ApiInstances : ring[i] # NoRing /\ ring[i].active \in K,
           InFlight(write, exec, K), Executor(u) \/ ExecutorFails(u)
    PROVE  SweptBy(exec'[u], task'[u].status, cell', K)
  <1> DEFINE e == exec[u]
             st == task[u].status
  <1>0. e \in ExecStates /\ ShapeOf(e)
    BY Zenon DEF SweepTypes
  <1>1. CASE SweepList(u)
    <2> DEFINE p == [pk \in ListRows(Head(e.tables), e.cursor) |-> cell[<<Head(e.tables), pk>>]]
    <2>1. /\ e.pc = "list"
          /\ \/ ListRows(Head(e.tables), e.cursor) = {} /\ Moves(u, NextSweepTable(e))
             \/ p \in [ListRows(Head(e.tables), e.cursor) -> Values] /\ Moves(u, HasRead(e, p))
      BY <1>1, ListMoves, Zenon
    <2>2. cell' = cell /\ task' = task
      BY <1>1, Zenon DEF SweepList
    <2>3. \A pk \in DOMAIN p : p[pk] = cell[<<Head(e.tables), pk>>]
      BY Zenon
    <2> HIDE DEF p
    <2>4. CASE ListRows(Head(e.tables), e.cursor) = {} /\ Moves(u, NextSweepTable(e))
      <3>1. exec'[u] = NextSweepTable(e)
        BY <2>4, MovesOne, Zenon
      <3>2. SweptBy(NextSweepTable(e), st, cell, K)
        BY <1>0, <2>1, <2>4, SweptNextTable, Zenon
      <3> QED
        BY <2>2, <3>1, <3>2, Zenon
    <2>5. CASE p \in [ListRows(Head(e.tables), e.cursor) -> Values] /\ Moves(u, HasRead(e, p))
      <3>1. exec'[u] = HasRead(e, p)
        BY <2>5, MovesOne, Zenon
      <3>2. SweptBy(HasRead(e, p), st, cell, K)
        BY <1>0, <2>1, <2>3, <2>5, SweptRead, Zenon
      <3> QED
        BY <2>2, <3>1, <3>2, Zenon
    <2> QED
      BY <2>1, <2>4, <2>5, Zenon
  <1>2. CASE BatchApply(u)
    <2> DEFINE kr == ring[e.on]
               w == {<<Head(e.tables), pk>> : pk \in Rewrites(kr, u)}
               p == IF task[u].dryRun THEN <<>>
                    ELSE [c \in w |-> Target(kr, task[u].mode, e.page[c[2]])]
    <2>1. /\ e.pc = "batch" /\ kr \in Rings /\ p \in Pendings /\ Cardinality(w) \in Nat
          /\ DOMAIN p = w /\ Moves(u, HasWritten(e, Cardinality(w), p))
      BY <1>2, ApplyMoves, Zenon
    <2>2. cell' = cell /\ task' = task
      BY <1>2, Zenon DEF BatchApply
    <2>3. w \subseteq {<<Head(e.tables), pk>> : pk \in DOMAIN e.page}
      BY Zenon DEF Rewrites
    <2>4. kr # NoRing /\ kr.active \in K
      <3>1. e.on \in ApiInstances
        BY <1>0, Zenon DEF ExecStates
      <3> QED
        BY <3>1, Zenon
    <2>5. ASSUME NEW pk \in DOMAIN e.page PROVE e.page[pk].key \in K \/ <<Head(e.tables), pk>> \in w
      <3>1. CASE Skips(kr, task[u].mode, e.page[pk])
        <4>1. e.page[pk].key = kr.active
          BY <2>4, <3>1 DEF Skips
        <4> QED
          BY <2>4, <4>1, Zenon
      <3>2. CASE ~Skips(kr, task[u].mode, e.page[pk])
        <4>1. pk \in Rewrites(kr, u)
          BY <2>5, <3>2, Zenon DEF Rewrites
        <4> QED
          BY <4>1, Zenon
      <3> QED
        BY <3>1, <3>2, Zenon
    <2> HIDE DEF w, p, kr
    <2>6. exec'[u] = HasWritten(e, Cardinality(w), p)
      BY <2>1, MovesOne, Zenon
    <2>7. SweptBy(HasWritten(e, Cardinality(w), p), st, cell, K)
      BY <1>0, <2>1, <2>3, <2>5, SweptWritten, Zenon
    <2> QED
      BY <2>2, <2>6, <2>7, Zenon
  <1>3. CASE BatchCommit(u)
    <2> DEFINE last == e.cursor + Cardinality(DOMAIN e.page)
    <2>1. /\ e.pc = "commit" /\ last \in Nat /\ last <= e.cursor + BatchSize
          /\ Moves(u, PageDone(e, last)) /\ \A c \in DOMAIN e.pending : c \in Cells
      BY <1>3, CommitMoves, Zenon
    <2> HIDE DEF last
    <2>2. task'[u].status = st
      BY <1>3, CommitRows, Zenon
    <2>3. \A c \in Cells : IF c \in DOMAIN e.pending THEN cell'[c] = e.pending[c] ELSE cell'[c] = cell[c]
      BY <1>3, CommitCells, Zenon
    <2>4. \A c \in DOMAIN e.pending : e.pending[c].key \in K
      BY Zenon DEF InFlight
    <2>5. \A c \in DOMAIN e.pending : cell'[c].key \in K
      BY <2>1, <2>3, <2>4, Zenon
    <2>6. \A c \in Cells : cell[c].key \in K => cell'[c].key \in K
      BY <2>3, <2>5, Zenon
    <2>7. exec'[u] = PageDone(e, last)
      BY <2>1, MovesOne, Zenon
    <2>8. SweptBy(PageDone(e, last), st, cell', K)
      BY <1>0, <2>1, <2>5, <2>6, SweptPageDone, Zenon
    <2> QED
      BY <2>2, <2>7, <2>8, Zenon
  <1>4. CASE SweepListFails(u) \/ BatchUndecryptable(u) \/ BatchFails(u)
    <2>1. /\ e.pc \in {"list", "batch", "commit"} /\ e.tables # <<>>
          /\ \/ Moves(u, FailedTable(e))
             \/ e.pc # "list" /\ e.attempt + 1 < MaxAttempts /\ Moves(u, Retried(e))
      BY <1>4, FailureMoves, Zenon
    <2>2. cell' = cell /\ task' = task
      BY <1>4, Zenon DEF SweepListFails, BatchUndecryptable, BatchFails
    <2>3. e.pc \in AtWork /\ (e.pc # "list" => e.pc \in {"batch", "commit"})
      BY <2>1 DEF AtWork
    <2>4. CASE Moves(u, FailedTable(e))
      <3>1. exec'[u] = FailedTable(e)
        BY <2>4, MovesOne, Zenon
      <3>2. SweptBy(FailedTable(e), st, cell, K)
        BY <1>0, <2>1, <2>3, SweptFailed, Zenon
      <3> QED
        BY <2>2, <3>1, <3>2, Zenon
    <2>5. CASE e.pc # "list" /\ e.attempt + 1 < MaxAttempts /\ Moves(u, Retried(e))
      <3>1. exec'[u] = Retried(e)
        BY <2>5, MovesOne, Zenon
      <3>2. SweptBy(Retried(e), st, cell, K)
        BY <1>0, <2>3, <2>5, SweptRetried, Zenon
      <3> QED
        BY <2>2, <3>1, <3>2, Zenon
    <2> QED
      BY <2>1, <2>4, <2>5, Zenon
  <1>5. CASE FinishTask(u) \/ FinishTaskFails(u)
    <2>1. e.pc = "finish" /\ e.tables = <<>> /\ Moves(u, Gone(e))
      BY <1>5, FinishMoves, Zenon
    <2>2. exec'[u] = Gone(e)
      BY <2>1, MovesOne, Zenon
    <2>3. CASE FinishTask(u)
      <3>1. cell' = cell /\ task'[u].status = IF e.failed THEN "failed" ELSE "succeeded"
        BY <2>3, FinishRows, Zenon DEF FinishTask
      <3>2. SweptBy(Gone(e), IF e.failed THEN "failed" ELSE "succeeded", cell, K)
        BY <1>0, <2>1, SweptFinish, Zenon
      <3> QED
        BY <2>2, <3>1, <3>2, Zenon
    <2>4. CASE FinishTaskFails(u)
      <3>1. cell' = cell /\ task' = task
        BY <2>4, Zenon DEF FinishTaskFails
      <3>2. st = "succeeded" => \A c \in Cells : cell[c].key \in K
        BY Zenon DEF SweptBy
      <3>3. SweptBy(Gone(e), st, cell, K)
        BY <1>0, <3>2, SweptGone, Zenon
      <3> QED
        BY <2>2, <3>1, <3>3, Zenon
    <2> QED
      BY <1>5, <2>3, <2>4, Zenon
  <1> QED
    BY <1>1, <1>2, <1>3, <1>4, <1>5, Zenon DEF Executor, ExecutorFails

\* While a sweep that is clean goes on, whoever takes the step.
LEMMA SweptStep ==
    ASSUME SweepTypes, SweepNext, ~EditKeyFile, NEW u \in Tasks, NEW K,
           SweptBy(exec[u], task[u].status, cell, K),
           task[u].mode = "reencrypt", ~task[u].dryRun,
           \A i \in ApiInstances : ring[i] # NoRing /\ ring[i].active \in K,
           InFlight(write, exec, K),
           \A i \in ApiInstances, req \in Requests : ~Trigger(i, u, req)
    PROVE  SweptBy(exec'[u], task'[u].status, cell', K)
  <1>0. exec[u] \in ExecStates /\ ShapeOf(exec[u])
    BY Zenon DEF SweepTypes
  <1>1. \A c \in Cells : cell[c].key \in K => cell'[c].key \in K
    <2>1. \A c \in Cells : cell'[c] = cell[c] \/ cell'[c].key \in K
      BY CellsNext, Zenon
    <2> QED
      BY <2>1, Zenon
  <1>2. ASSUME exec'[u] = exec[u], task'[u].status = "succeeded" => task[u].status = "succeeded"
        PROVE  SweptBy(exec'[u], task'[u].status, cell', K)
    <2>1. SweptBy(exec[u], task'[u].status, cell', K)
      <3> DEFINE st == task[u].status
                 st2 == task'[u].status
                 cl2 == cell'
      <3>1. /\ SweptBy(exec[u], st, cell, K) /\ (st2 = "succeeded" => st = "succeeded")
            /\ \A c \in Cells : cell[c].key \in K => cl2[c].key \in K
        BY <1>1, <1>2, Zenon
      <3> HIDE DEF st, st2, cl2
      <3>2. SweptBy(exec[u], st2, cl2, K)
        BY <1>0, <3>1, SweptStays, Zenon
      <3> QED
        BY <3>2, Zenon DEF st2, cl2
    <2> QED
      BY <1>2, <2>1, Zenon
  <1>3. ASSUME Executor(u) \/ ExecutorFails(u)
        PROVE  SweptBy(exec'[u], task'[u].status, cell', K)
    BY <1>3, SweptExecutor, Zenon
  <1>4. ASSUME NEW t \in Tasks, t # u, Executor(t) \/ ExecutorFails(t)
        PROVE  exec'[u] = exec[u] /\ task'[u] = task[u]
    <2>1. exec'[u] = exec[u]
      BY <1>4, Zenon DEF Executor, ExecutorFails, SweepTypes, SweepList, BatchApply, BatchCommit,
         BatchUndecryptable, FinishTask, SweepListFails, BatchFails, FinishTaskFails
    <2>2. task'[u] = task[u]
      BY <1>4, CommitRows, FinishRows, Zenon DEF Executor, ExecutorFails, SweepList, BatchApply,
         BatchUndecryptable, SweepListFails, BatchFails, FinishTaskFails
    <2> QED
      BY <2>1, <2>2, Zenon
  <1>5. ASSUME NEW i \in ApiInstances, NEW t \in Tasks, NEW req \in Requests, Trigger(i, t, req)
        PROVE  exec'[u] = exec[u] /\ (task'[u].status = "succeeded" => task[u].status = "succeeded")
    <2>1. u \in Tasks \ {t}
      BY <1>5, Zenon
    <2>2. /\ task'[u].status = task[u].status \/ task'[u].status = "failed"
          /\ Moves(t, Begun(i, req))
      <3>1. Moves(t, Begun(i, req))
        BY <1>5, TriggerRows, Zenon
      <3> QED
        BY <1>5, <2>1, <3>1, TriggerRows, Zenon DEF RowMarked
    <2>3. exec'[u] = exec[u]
      BY <2>1, <2>2, MovesOne, Zenon
    <2>4. "failed" # "succeeded"
      OBVIOUS
    <2> QED
      BY <2>2, <2>3, <2>4, Zenon
  <1>6. ASSUME NEW i \in ApiInstances, Crash(i)
        PROVE  SweptBy(exec'[u], task'[u].status, cell', K)
    <2>1. task' = task
      BY <1>6, Zenon DEF Crash
    <2>2. CASE exec'[u] = exec[u]
      BY <1>2, <2>1, <2>2, Zenon
    <2>3. CASE exec'[u] = Gone(exec[u])
      <3>1. task[u].status = "succeeded" => \A c \in Cells : cell'[c].key \in K
        BY <1>1, Zenon DEF SweptBy
      <3>2. SweptBy(Gone(exec[u]), task[u].status, cell', K)
        BY <1>0, <3>1, SweptGone, Zenon
      <3> QED
        BY <2>1, <2>3, <3>2, Zenon
    <2> QED
      BY <1>6, <2>2, <2>3, CrashLeaves, Zenon
  <1>7. ASSUME UNCHANGED <<task, exec>>
        PROVE  SweptBy(exec'[u], task'[u].status, cell', K)
    BY <1>2, <1>7, Zenon
  <1>8. ASSUME \/ \E i \in ApiInstances, c \in Updatable, s \in Secrets : WriteEncrypt(i, c, s)
               \/ \E i \in ApiInstances : WriteCommit(i) \/ ReloadSecurity(i)
               \/ ClockTick
        PROVE  UNCHANGED <<task, exec>>
    BY <1>8, Zenon DEF WriteEncrypt, WriteCommit, ReloadSecurity, ClockTick
  <1> QED
    BY <1>2, <1>3, <1>4, <1>5, <1>6, <1>7, <1>8, Zenon DEF SweepNext

\* What a task is for does not change once it has been triggered.
LEMMA CleanBefore ==
    ASSUME SweepTypes, SweepNext, ~EditKeyFile, NEW u \in Tasks, CleanSweep(u)',
           \A i \in ApiInstances, req \in Requests : ~Trigger(i, u, req)
    PROVE  CleanSweep(u)
  <1> DEFINE Same == /\ task'[u].mode = task[u].mode /\ task'[u].dryRun = task[u].dryRun
                     /\ task'[u].scope = task[u].scope /\ task'[u].file = task[u].file
                     /\ task'[u].clean = task[u].clean
  <1>1. ASSUME NEW i \in ApiInstances, NEW t \in Tasks, NEW req \in Requests, Trigger(i, t, req)
        PROVE  Same
    <2>1. u \in Tasks \ {t}
      BY <1>1, Zenon
    <2>2. RowKept(task[u], task'[u])
      BY <1>1, <2>1, TriggerRows, Zenon
    <2> QED
      BY <2>2, Zenon DEF RowKept
  <1>2. ASSUME NEW t \in Tasks, BatchCommit(t) PROVE Same
    BY <1>2, CommitRows, Zenon
  <1>3. ASSUME NEW t \in Tasks, FinishTask(t) PROVE Same
    BY <1>3, FinishRows, Zenon
  <1>4. ASSUME task' = task PROVE Same
    BY <1>4, Zenon
  <1>5. ASSUME NEW t \in Tasks, \/ SweepList(t) \/ BatchApply(t) \/ BatchUndecryptable(t)
                                \/ SweepListFails(t) \/ BatchFails(t) \/ FinishTaskFails(t)
        PROVE  task' = task
    BY <1>5, Zenon DEF SweepList, BatchApply, BatchUndecryptable, SweepListFails, BatchFails,
       FinishTaskFails
  <1>6. ASSUME \/ \E i \in ApiInstances, c \in Updatable, s \in Secrets : WriteEncrypt(i, c, s)
               \/ \E i \in ApiInstances : WriteCommit(i) \/ ReloadSecurity(i) \/ Crash(i)
               \/ ClockTick
        PROVE  task' = task
    BY <1>6, Zenon DEF WriteEncrypt, WriteCommit, ReloadSecurity, ClockTick, Crash
  <1> HIDE DEF Same
  <1>7. Same
    BY <1>1, <1>2, <1>3, <1>4, <1>5, <1>6, Zenon DEF SweepNext, Executor, ExecutorFails
  <1>8. file' = file
    BY FileStays, Zenon
  <1> QED
    BY <1>7, <1>8, Zenon DEF CleanSweep, Same

\* Since a clean sweep began only the active key is used, and the rows it is
\* through with are under that key.
LEMMA SweptNext ==
    ASSUME RotationFiles, SweepTypes, RingInv, SweptInv, [SweepNext]_sweepVars
    PROVE  SweptInv'
  <1> SUFFICES ASSUME NEW u \in Tasks, CleanSweep(u)'
               PROVE  /\ AllLoaded' /\ InFlight(write', exec', Current(file'))
                      /\ SweptBy(exec'[u], task'[u].status, cell', Current(file'))
    BY Zenon DEF SweptInv
  <1>1. CASE EditKeyFile
    <2>0. file \in Nat
      BY KeyRotateAssumption DEF SweepTypes
    <2>1. task' = task /\ file' = file + 1 /\ file \in Nat
      BY <1>1, <2>0, Zenon DEF EditKeyFile
    <2>2. task[u].file = file + 1 /\ task[u].file <= file
      BY <2>1, Zenon DEF CleanSweep, RingInv
    <2> QED
      BY <2>1, <2>2
  <1>2. CASE UNCHANGED sweepVars
    <2>1. UNCHANGED <<cell, file, ring, write, task, exec>>
      BY <1>2, Zenon DEF sweepVars
    <2>2. CleanSweep(u)
      BY <2>1, Zenon DEF CleanSweep
    <2> QED
      BY <2>1, <2>2, Zenon DEF SweptInv, AllLoaded
  <1>3. CASE SweepNext /\ ~EditKeyFile
    <2>1. file' = file /\ \A i \in ApiInstances : ring'[i] \in {ring[i], KeyFiles[file]}
      BY <1>3, FileStays, Zenon
    <2>2. \A i \in ApiInstances : ring[i] # NoRing
      BY ActiveIsKnown, Zenon
    <2>3. ASSUME AllLoaded, InFlight(write, exec, Current(file))
          PROVE  /\ AllLoaded' /\ InFlight(write', exec', Current(file'))
                 /\ 0 \in Current(file)
                 /\ \A i \in ApiInstances : ring[i] # NoRing /\ ring[i].active \in Current(file)
      <3>1. AllLoaded'
        BY <2>1, <2>3, Zenon DEF AllLoaded
      <3>2. 0 \in Current(file) /\ \A i \in ApiInstances : ring[i].active \in Current(file)
        BY <2>3, Zenon DEF AllLoaded, Current
      <3>3. InFlight(write', exec', Current(file))
        BY <1>3, <2>2, <2>3, <3>2, FlightNext, Zenon
      <3> QED
        BY <2>1, <2>2, <3>1, <3>2, <3>3, Zenon
    <2>4. ASSUME NEW i \in ApiInstances, NEW req \in Requests, Trigger(i, u, req)
          PROVE  /\ AllLoaded /\ InFlight(write, exec, Current(file))
                 /\ SweptBy(exec'[u], task'[u].status, cell', Current(file'))
      <3>1. /\ task'[u].status = "running" /\ task'[u].clean = (AllLoaded /\ Quiet)
            /\ task'[u].scope = req.scope /\ Moves(u, Begun(i, req))
        <4>1. RowBegun(task'[u], req) /\ Moves(u, Begun(i, req))
          BY <2>4, TriggerRows, Zenon
        <4> QED
          BY <4>1, Zenon DEF RowBegun
      <3>2. AllLoaded /\ Quiet /\ req.scope = "all"
        BY <3>1, Zenon DEF CleanSweep
      <3>3. InFlight(write, exec, Current(file))
        <4>1. \A j \in ApiInstances : write[j] # NoWrite => write[j].val.key \in Current(file)
          BY <3>2, Zenon DEF Quiet, Current
        <4>2. ASSUME NEW t \in Tasks, NEW c \in DOMAIN exec[t].pending
              PROVE  exec[t].pending[c].key \in Current(file)
          <5>1. exec[t].pc = "commit"
            BY <4>2, Zenon DEF SweepTypes, ShapeOf
          <5> QED
            BY <3>2, <4>2, <5>1, Zenon DEF Quiet, Current
        <4> QED
          BY <4>1, <4>2, Zenon DEF InFlight
      <3>4. exec'[u] = Begun(i, req)
        BY <3>1, MovesOne, Zenon
      <3>5. SweptBy(Begun(i, req), "running", cell', Current(file'))
        BY <3>2, SweptBegun, Zenon
      <3> QED
        BY <3>1, <3>2, <3>3, <3>4, <3>5, Zenon
    <2>5. ASSUME \A i \in ApiInstances, req \in Requests : ~Trigger(i, u, req)
          PROVE  /\ AllLoaded /\ InFlight(write, exec, Current(file))
                 /\ SweptBy(exec'[u], task'[u].status, cell', Current(file'))
      <3>1. CleanSweep(u)
        BY <1>3, <2>5, CleanBefore, Zenon
      <3>2. /\ AllLoaded /\ InFlight(write, exec, Current(file))
            /\ SweptBy(exec[u], task[u].status, cell, Current(file))
        BY <3>1, Zenon DEF SweptInv
      <3>3. task[u].mode = "reencrypt" /\ ~task[u].dryRun
        BY <3>1, Zenon DEF CleanSweep
      <3>4. \A i \in ApiInstances : ring[i] # NoRing /\ ring[i].active \in Current(file)
        BY <2>3, <3>2, Zenon
      <3>5. SweptBy(exec'[u], task'[u].status, cell', Current(file))
        BY <1>3, <2>5, <3>2, <3>3, <3>4, SweptStep, Zenon
      <3> QED
        BY <2>1, <3>2, <3>5, Zenon
    <2> QED
      BY <2>3, <2>4, <2>5, Zenon
  <1> QED
    BY <1>1, <1>2, <1>3, Zenon

\* The first file, loaded everywhere, and no sweep.
LEMMA ReadInitially == ASSUME RotationFiles, SweepInit PROVE ReadInv
  <1>1. /\ file = 1 /\ \A i \in ApiInstances : ring[i] = KeyFiles[1] /\ write[i] = NoWrite
        /\ \A t \in Tasks : exec[t] = NoExec /\ task[t] = Row("none")
        /\ \A c \in Cells : cell[c].key \in {0, KeyFiles[1].active}
    BY Zenon DEF SweepInit
  <1>2. 1 \in DOMAIN KeyFiles /\ 1 \in {1, 1 - 1} /\ 0 <= 1
    BY KeyRotateAssumption
  <1>3. Row("none").file = 0 /\ Row("none").clean = FALSE
    BY DEF Row
  <1>4. RingInv
    BY <1>1, <1>2, <1>3, Zenon DEF RingInv
  <1>5. KeyFiles[1].active \in KnownKeys(file, ring) /\ 0 \in KnownKeys(file, ring)
    BY <1>1, <1>2, Zenon DEF KnownKeys, RotationFiles
  <1>6. InFlight(write, exec, KnownKeys(file, ring))
    BY <1>1, NoExecState, Zenon DEF InFlight
  <1>7. KeysInv
    BY <1>1, <1>5, <1>6, Zenon DEF KeysInv
  <1>8. SweptInv
    BY <1>1, <1>3, Zenon DEF SweptInv, CleanSweep
  <1> QED
    BY <1>4, <1>7, <1>8, Zenon DEF ReadInv

-----------------------------------------------------------------------------
(* The sweep: the theorems.                                                *)

\* model/keyrotate run, sweepTable, execBatch and storage/rdb/keyrotate keep the
\* rows, keyrings, tasks and executors in their types, and an executor's page is
\* the page after its cursor.
THEOREM SweepTypeSafety == SweepSpec => []SweepTypes
  <1>1. SweepInit => SweepTypes
    BY TypesInitially, Zenon
  <1>2. SweepTypes /\ [SweepNext]_sweepVars => SweepTypes'
    BY TypesNext, Zenon
  <1> QED
    BY <1>1, <1>2, PTL DEF SweepSpec

\* AcquireTask and FinishTask: a task that is running is the one the lock names,
\* whatever executors were given up as lost and finish late.
THEOREM LockedByRunning == SweepSpec => []RunningHoldsLock
  <1>1. SweepInit => RunningHoldsLock
    <2> SUFFICES ASSUME SweepInit, NEW t \in Tasks, task[t].status = "running" PROVE sweepLock = t
      BY Zenon DEF RunningHoldsLock
    <2>1. task[t] = Row("none")
      BY Zenon DEF SweepInit
    <2>2. Row("none").status = "none"
      BY DEF Row
    <2> QED
      BY <2>1, <2>2
  <1>2. SweepTypes /\ RunningHoldsLock /\ [SweepNext]_sweepVars => RunningHoldsLock'
    BY LockNext, Zenon
  <1> QED
    BY <1>1, <1>2, SweepTypeSafety, PTL DEF SweepSpec

\* execBatchOnce: what the row of a real sweep reports as rewritten has been
\* committed, also when batches roll back, are retried, or lose their progress.
THEOREM ProgressSafety == SweepSpec => []ProgressIsCommitted
  <1>1. SweepInit => ProgressInv
    <2> SUFFICES ASSUME SweepInit, NEW t \in Tasks
                 PROVE  task[t].rewritten <= committed[t] /\ exec[t].pc # "commit"
      BY Zenon DEF ProgressInv
    <2>1. task[t] = Row("none") /\ committed[t] = 0 /\ exec[t] = NoExec
      BY Zenon DEF SweepInit
    <2>2. Row("none").rewritten = 0 /\ NoExec.pc = "none"
      BY NoExecState DEF Row
    <2> QED
      BY <2>1, <2>2
  <1>2. SweepTypes /\ ProgressInv /\ [SweepNext]_sweepVars => ProgressInv'
    BY ProgressNext, Zenon
  <1>3. ProgressInv => ProgressIsCommitted
    BY Zenon DEF ProgressInv, ProgressIsCommitted
  <1> QED
    BY <1>1, <1>2, <1>3, SweepTypeSafety, PTL DEF SweepSpec

\* lib/xcrypto Keyring.Decrypt under the runbook: when the keyring files follow
\* one another as RotationFiles says, every instance can read every stored secret
\* at all times, for any number of rows, pages, tasks, faults and writes.
THEOREM ReadableThroughout == ASSUME RotationFiles PROVE SweepSpec => []AlwaysReadable
  <1>1. SweepInit => ReadInv
    BY ReadInitially, Zenon
  <1>2. SweepTypes /\ ReadInv /\ [SweepNext]_sweepVars => ReadInv'
    BY RingNext, KeysNext, SweptNext, Zenon DEF ReadInv
  <1>3. ReadInv => AlwaysReadable
    BY Zenon DEF ReadInv, KeysInv, KnownKeys, AlwaysReadable, Readable
  <1> QED
    BY <1>1, <1>2, <1>3, SweepTypeSafety, PTL DEF SweepSpec

-----------------------------------------------------------------------------
(* The files of batches.                                                   *)

\* What a file is to batch_files: its owner's product, and its direction.
DirOf(f) == IF f \in Outputs THEN "output" ELSE "input"
RowOf(f, r) == r \in StoredFiles /\ r.product = ProductOf[KeyOfFile[f]] /\ r.dir = DirOf(f)

\* Hashes, entities on their way into the table, and rows agree on it.
FilesInv ==
    /\ hash \in [Files -> SUBSET Hashes] /\ hashWrites \in 0..MaxHashWrites
    /\ stored \in [Files -> SUBSET StoredFiles]
    /\ merging \in [FileJobs -> SUBSET [file : Files, entity : StoredFiles]]
    /\ \A f \in Files : \A h \in hash[f] : h.key = KeyOfFile[f] /\ h.dir = DirOf(f)
    /\ \A f \in Files : \A r \in stored[f] : RowOf(f, r)
    /\ \A j \in FileJobs : \A g \in merging[j] : RowOf(g.file, g.entity)

\* A hash read as a row.
LEMMA ViewOf ==
    ASSUME NEW f \in Files, NEW h \in Hashes, h.key = KeyOfFile[f], h.dir = DirOf(f)
    PROVE  RowOf(f, applyFileView(h))
  <1>1. h.dir # "none" /\ DirOf(f) \in {"input", "output"}
    BY DEF DirOf
  <1>2. h.ver \in 0..MaxHashWrites
    BY FileConstants DEF Hashes
  <1>3. ProductOf[h.key] \in Products /\ h.facts \in SUBSET FileFacts
    BY Zenon DEF Products, Hashes
  <1> DEFINE d == DirOf(f)
             v == [product |-> ProductOf[h.key], dir |-> d, facts |-> h.facts, ver |-> h.ver]
  <1>4. applyFileView(h) = v
    BY <1>1, Zenon DEF applyFileView
  <1>5. v \in StoredFiles
    <2>1. d \in {"input", "output"}
      BY <1>1, Zenon
    <2> HIDE DEF d
    <2> QED
      BY <1>2, <1>3, <2>1, Zenon DEF StoredFiles
  <1>6. v.product = ProductOf[KeyOfFile[f]] /\ v.dir = DirOf(f)
    BY Zenon
  <1> HIDE DEF v
  <1> QED
    BY <1>4, <1>5, <1>6, Zenon DEF RowOf

\* The upsert of a merged entity keeps what the row knew.
Upserted(f, r) ==
    [mergeFileForSync(stored[f], r) EXCEPT !.facts = @ \cup ({"name"} \cap UNION {e.facts : e \in stored[f]})]

\* Such a row is of the same file and has all facts of the row before.
LEMMA UpsertKeeps ==
    ASSUME FilesInv, NEW f \in Files, NEW r, RowOf(f, r)
    PROVE  /\ UpsertByFileProvider(f, mergeFileForSync(stored[f], r))
                = [stored EXCEPT ![f] = {Upserted(f, r)}]
           /\ RowOf(f, Upserted(f, r))
           /\ \A e \in stored[f] : e.facts \subseteq Upserted(f, r).facts
  <1> DEFINE old == UNION {e.facts : e \in stored[f]}
             m == mergeFileForSync(stored[f], r)
             u == Upserted(f, r)
  <1>1. \A e \in stored[f] : e \in StoredFiles
    BY Zenon DEF FilesInv
  <1>2. old \subseteq FileFacts
    BY <1>1, Zenon DEF StoredFiles
  <1>3. r \in StoredFiles /\ r.product = ProductOf[KeyOfFile[f]] /\ r.dir = DirOf(f)
    BY Zenon DEF RowOf
  <1>4. \A e \in stored[f] : e.facts \subseteq old
    BY Zenon
  <1>5. m = [r EXCEPT !.facts = r.facts \cup old]
    BY <1>3, Zenon DEF mergeFileForSync, StoredFiles
  <1>6. u = [m EXCEPT !.facts = m.facts \cup ({"name"} \cap old)]
    <2>1. m \in StoredFiles
      <3>1. r.facts \cup old \in SUBSET FileFacts
        BY <1>2, <1>3, Zenon DEF StoredFiles
      <3> HIDE DEF old, m
      <3> QED
        BY <1>3, <1>5, <3>1, Zenon DEF StoredFiles
    <2> QED
      BY <2>1, Zenon DEF Upserted, StoredFiles
  <1>7. UpsertByFileProvider(f, m) = [stored EXCEPT ![f] = {u}]
    BY Zenon DEF UpsertByFileProvider, Upserted
  <1> HIDE DEF old, m, u
  <1>8. /\ m \in StoredFiles /\ m.product = r.product /\ m.dir = r.dir /\ m.facts = r.facts \cup old
    <2>1. r.facts \cup old \in SUBSET FileFacts
      BY <1>2, <1>3, Zenon DEF StoredFiles
    <2> QED
      BY <1>3, <1>5, <2>1, Zenon DEF StoredFiles
  <1>9. /\ u \in StoredFiles /\ u.product = m.product /\ u.dir = m.dir
        /\ u.facts = m.facts \cup ({"name"} \cap old)
    <2>1. m.facts \cup ({"name"} \cap old) \in SUBSET FileFacts
      BY <1>2, <1>8, Zenon DEF StoredFiles
    <2> QED
      BY <1>6, <1>8, <2>1, Zenon DEF StoredFiles
  <1>10. RowOf(f, u) /\ \A e \in stored[f] : e.facts \subseteq u.facts
    BY <1>3, <1>4, <1>8, <1>9, Zenon DEF RowOf
  <1> QED
    BY <1>7, <1>10, Zenon DEF m, u

\* The steps that write rows write one row, of a file that is what it was.
LEMMA StoredStep ==
    ASSUME FilesInv, [FilesNext]_fileVars
    PROVE  \/ stored' = stored
           \/ \E f \in Files : \E r \in StoredFiles :
                 RowOf(f, r) /\ stored' = [stored EXCEPT ![f] = {Upserted(f, r)}]
  <1>1. ASSUME NEW j \in FileJobs, syncOneFile(j)
        PROVE  \E f \in Files : \E r \in StoredFiles :
                 RowOf(f, r) /\ stored' = [stored EXCEPT ![f] = {Upserted(f, r)}]
    <2>1. PICK g \in merging[j] :
             stored' = UpsertByFileProvider(g.file, mergeFileForSync(stored[g.file], g.entity))
      BY <1>1, Zenon DEF syncOneFile
    <2>2. g.file \in Files /\ g.entity \in StoredFiles /\ RowOf(g.file, g.entity)
      <3>1. g \in [file : Files, entity : StoredFiles]
        BY Zenon DEF FilesInv
      <3> QED
        BY <3>1, Zenon DEF FilesInv
    <2>3. stored' = [stored EXCEPT ![g.file] = {Upserted(g.file, g.entity)}]
      BY <2>1, <2>2, UpsertKeeps, Zenon
    <2> QED
      BY <2>2, <2>3, Zenon
  <1>2. ASSUME NEW j \in FileJobs, NEW f \in Files, registerOutputFile(j, f)
        PROVE  \E r \in StoredFiles :
                 RowOf(f, r) /\ stored' = [stored EXCEPT ![f] = {Upserted(f, r)}]
    <2> DEFINE r == [product |-> ProductOf[KeyOfFile[f]], dir |-> "output", facts |-> {}, ver |-> Seen(f)]
    <2>1. Seen(f) \in 0..MaxHashWrites
      <3>1. CASE stored[f] = {}
        BY <3>1, FileConstants DEF Seen
      <3>2. CASE stored[f] # {}
        <4>1. (CHOOSE x \in stored[f] : TRUE) \in StoredFiles
          BY <3>2, Zenon DEF FilesInv
        <4> QED
          BY <3>2, <4>1, Zenon DEF Seen, StoredFiles
      <3> QED
        BY <3>1, <3>2, Zenon
    <2>2. ProductOf[KeyOfFile[f]] \in Products
      BY FileConstants, Zenon DEF Products
    <2>3. r \in StoredFiles /\ r.product = ProductOf[KeyOfFile[f]] /\ r.dir = "output"
      BY <2>1, <2>2, Zenon DEF StoredFiles
    <2>4. /\ f \in Outputs
          /\ stored' = UpsertByFileProvider(f, mergeFileForSync(stored[f], r))
      BY <1>2, Zenon DEF registerOutputFile
    <2> HIDE DEF r
    <2>5. RowOf(f, r)
      BY <2>3, <2>4, Zenon DEF RowOf, DirOf
    <2>6. stored' = [stored EXCEPT ![f] = {Upserted(f, r)}]
      BY <2>4, <2>5, UpsertKeeps, Zenon
    <2> QED
      BY <2>3, <2>5, <2>6, Zenon
  <1> QED
    BY <1>1, <1>2, Zenon DEF FilesNext, fileVars, DataPlaneFile, HashExpires, DeleteKey, SyncStart,
       SyncScanFails, SyncUpsertFails, SyncRead, SyncReadFails

\* What a step may do to the row of a file.
LEMMA RowsKept ==
    ASSUME FilesInv, [FilesNext]_fileVars
    PROVE  /\ stored' \in [Files -> SUBSET StoredFiles]
           /\ \A f \in Files : \A r \in stored'[f] : RowOf(f, r)
           /\ \A f \in Files : \A r \in stored[f] : \E s \in stored'[f] :
                 RowOf(f, s) /\ r.facts \subseteq s.facts
  <1>0. /\ stored \in [Files -> SUBSET StoredFiles]
        /\ \A f \in Files : \A r \in stored[f] : RowOf(f, r)
    BY Zenon DEF FilesInv
  <1>1. CASE stored' = stored
    BY <1>0, <1>1, Zenon
  <1>2. ASSUME NEW f \in Files, NEW r \in StoredFiles,
               RowOf(f, r), stored' = [stored EXCEPT ![f] = {Upserted(f, r)}]
        PROVE  /\ stored' \in [Files -> SUBSET StoredFiles]
               /\ \A g \in Files : \A s \in stored'[g] : RowOf(g, s)
               /\ \A g \in Files : \A s \in stored[g] : \E x \in stored'[g] :
                     RowOf(g, x) /\ s.facts \subseteq x.facts
    <2> DEFINE u == Upserted(f, r)
    <2>1. RowOf(f, u) /\ \A e \in stored[f] : e.facts \subseteq u.facts
      BY <1>2, UpsertKeeps, Zenon
    <2>2. stored' = [stored EXCEPT ![f] = {u}]
      BY <1>2, Zenon
    <2> HIDE DEF u
    <2>3. u \in StoredFiles
      BY <2>1, Zenon DEF RowOf
    <2>4. stored' \in [Files -> SUBSET StoredFiles]
      BY <1>0, <2>2, <2>3, Zenon
    <2>5. stored'[f] = {u} /\ \A g \in Files \ {f} : stored'[g] = stored[g]
      BY <1>0, <2>2, Zenon
    <2>6. \A g \in Files : \A s \in stored'[g] : RowOf(g, s)
      BY <1>0, <2>1, <2>5, Zenon
    <2>7. ASSUME NEW g \in Files, NEW s \in stored[g]
          PROVE  \E x \in stored'[g] : RowOf(g, x) /\ s.facts \subseteq x.facts
      <3>1. CASE g = f
        BY <2>1, <2>5, <2>7, <3>1, Zenon
      <3>2. CASE g # f
        BY <1>0, <2>5, <2>7, <3>2, Zenon
      <3> QED
        BY <3>1, <3>2, Zenon
    <2> QED
      BY <2>4, <2>6, <2>7, Zenon
  <1> QED
    BY <1>1, <1>2, StoredStep, Zenon

\* Every step keeps them agreed, if the data plane writes the direction of a file.
LEMMA FilesInvNext ==
    ASSUME DirWritten # "no", FilesInv, [FilesNext]_fileVars
    PROVE  FilesInv'
  <1>0. /\ stored' \in [Files -> SUBSET StoredFiles]
        /\ \A f \in Files : \A r \in stored'[f] : RowOf(f, r)
    BY RowsKept, Zenon
  <1> DEFINE HashOK == /\ hash' \in [Files -> SUBSET Hashes] /\ hashWrites' \in 0..MaxHashWrites
                       /\ \A f \in Files : \A h \in hash'[f] : h.key = KeyOfFile[f] /\ h.dir = DirOf(f)
             MergeOK == /\ merging' \in [FileJobs -> SUBSET [file : Files, entity : StoredFiles]]
                        /\ \A j \in FileJobs : \A g \in merging'[j] : RowOf(g.file, g.entity)
  <1>1. ASSUME UNCHANGED <<hash, hashWrites>> PROVE HashOK
    BY <1>1, Zenon DEF FilesInv
  <1>2. ASSUME UNCHANGED merging PROVE MergeOK
    BY <1>2, Zenon DEF FilesInv
  <1>3. ASSUME NEW j \in FileJobs, merging' = [merging EXCEPT ![j] = {}] PROVE MergeOK
    BY <1>3, Zenon DEF FilesInv
  <1>4. ASSUME NEW f \in Files, DataPlaneFile(f) PROVE HashOK /\ MergeOK
    <2>1. PICK facts \in SUBSET FileFacts :
             hash' = [hash EXCEPT ![f] =
                {[key |-> KeyOfFile[f], facts |-> facts, ver |-> hashWrites',
                  dir |-> IF DirWritten = "no" THEN "none"
                          ELSE IF f \in Outputs THEN "output" ELSE "input"]}]
      BY <1>4, Zenon DEF DataPlaneFile
    <2> DEFINE h == [key |-> KeyOfFile[f], facts |-> facts, ver |-> hashWrites', dir |-> DirOf(f)]
    <2>2. hash' = [hash EXCEPT ![f] = {h}]
      BY <2>1, Zenon DEF DirOf
    <2>3. hashWrites' \in 1..MaxHashWrites /\ hashWrites' \in 0..MaxHashWrites
      BY <1>4, FileConstants DEF DataPlaneFile, FilesInv
    <2>4. h \in Hashes
      <3>1. KeyOfFile[f] \in FileKeys
        BY FileConstants, Zenon
      <3>2. DirOf(f) \in {"none", "input", "output"}
        BY DEF DirOf
      <3> QED
        BY <2>3, <3>1, <3>2, Zenon DEF Hashes
    <2>5. h.key = KeyOfFile[f] /\ h.dir = DirOf(f)
      BY Zenon
    <2> HIDE DEF h
    <2>6. HashOK
      BY <2>2, <2>3, <2>4, <2>5, Zenon DEF FilesInv
    <2>7. MergeOK
      BY <1>2, <1>4, Zenon DEF DataPlaneFile
    <2> QED
      BY <2>6, <2>7, Zenon
  <1>5. ASSUME NEW f \in Files, HashExpires(f) PROVE HashOK /\ MergeOK
    <2>1. HashOK
      BY <1>5, Zenon DEF HashExpires, FilesInv
    <2>2. MergeOK
      BY <1>2, <1>5, Zenon DEF HashExpires
    <2> QED
      BY <2>1, <2>2, Zenon
  <1>6. ASSUME NEW j \in FileJobs, NEW f \in Files, SyncRead(j, f) PROVE HashOK /\ MergeOK
    <2>1. HashOK
      BY <1>1, <1>6, Zenon DEF SyncRead
    <2>2. CASE UNCHANGED merging
      BY <1>2, <2>1, <2>2, Zenon
    <2>3. ASSUME NEW h \in hash[f],
                 merging' = [merging EXCEPT ![j] =
                    IF resolve(j, h.key) = {TRUE} THEN {[file |-> f, entity |-> applyFileView(h)]} ELSE {}]
          PROVE  MergeOK
      <3> DEFINE g == [file |-> f, entity |-> applyFileView(h)]
      <3>1. h \in Hashes /\ h.key = KeyOfFile[f] /\ h.dir = DirOf(f)
        BY <2>3, Zenon DEF FilesInv
      <3>2. RowOf(f, applyFileView(h))
        BY <3>1, ViewOf, Zenon
      <3>3. applyFileView(h) \in StoredFiles
        BY <3>2, Zenon DEF RowOf
      <3>4. g \in [file : Files, entity : StoredFiles] /\ RowOf(g.file, g.entity)
        BY <3>2, <3>3, Zenon
      <3>5. merging' = [merging EXCEPT ![j] = {g}] \/ merging' = [merging EXCEPT ![j] = {}]
        BY <2>3, Zenon
      <3> HIDE DEF g
      <3>6. CASE merging' = [merging EXCEPT ![j] = {g}]
        BY <3>4, <3>6, Zenon DEF FilesInv
      <3> QED
        BY <1>3, <3>5, <3>6, Zenon
    <2> QED
      BY <1>6, <2>1, <2>2, <2>3, Zenon DEF SyncRead
  <1>7. ASSUME NEW j \in FileJobs, syncOneFile(j) \/ SyncUpsertFails(j) PROVE HashOK /\ MergeOK
    <2>1. UNCHANGED <<hash, hashWrites>> /\ merging' = [merging EXCEPT ![j] = {}]
      BY <1>7, Zenon DEF syncOneFile, SyncUpsertFails
    <2> QED
      BY <1>1, <1>3, <2>1, Zenon
  <1>8. ASSUME UNCHANGED <<hash, hashWrites, merging>> PROVE HashOK /\ MergeOK
    BY <1>1, <1>2, <1>8, Zenon
  <1>9. ASSUME NEW j \in FileJobs, NEW f \in Files, SyncReadFails(j, f) \/ registerOutputFile(j, f)
        PROVE  UNCHANGED <<hash, hashWrites, merging>>
    BY <1>9, Zenon DEF SyncReadFails, registerOutputFile
  <1>10. ASSUME \/ \E k \in FileKeys : DeleteKey(k)
                \/ \E j \in FileJobs : SyncStart(j) \/ SyncScanFails(j)
                \/ UNCHANGED fileVars
         PROVE  UNCHANGED <<hash, hashWrites, merging>>
    BY <1>10, Zenon DEF DeleteKey, SyncStart, SyncScanFails, fileVars
  <1>11. HashOK /\ MergeOK
    <2> HIDE DEF HashOK, MergeOK
    <2> QED
      BY <1>4, <1>5, <1>6, <1>7, <1>8, <1>9, <1>10, Zenon DEF FilesNext
  <1> QED
    BY <1>0, <1>11, Zenon DEF FilesInv

\* No hash, no row and no job at the start.
LEMMA FilesInitially == FilesInit => FilesInv
  <1>1. 0 \in 0..MaxHashWrites
    BY FileConstants
  <1> QED
    BY <1>1, Zenon DEF FilesInit, FilesInv

\* model/ibatch/sync.go syncOneFile and advance.go registerOutputFile: whatever
\* order copies and registrations come in, a row of batch_files keeps its owner,
\* its purpose and the fields it has, for any number of files and job runs.
THEOREM FilesKeepFacts == ASSUME DirWritten # "no" PROVE FilesSpec => StoredFactsKept
  <1>1. FilesInv /\ [FilesNext]_fileVars =>
           [\A f \in Files : \A r \in stored[f] : \E s \in stored'[f] :
               /\ s.product = r.product /\ contractPurpose(s) = contractPurpose(r)
               /\ r.facts \subseteq s.facts]_fileVars
    <2> SUFFICES ASSUME FilesInv, [FilesNext]_fileVars, NEW f \in Files, NEW r \in stored[f]
                 PROVE  \E s \in stored'[f] :
                           /\ s.product = r.product /\ contractPurpose(s) = contractPurpose(r)
                           /\ r.facts \subseteq s.facts
      BY Zenon
    <2>1. PICK s \in stored'[f] : RowOf(f, s) /\ r.facts \subseteq s.facts
      BY RowsKept, Zenon
    <2>2. RowOf(f, r)
      BY Zenon DEF FilesInv
    <2> QED
      BY <2>1, <2>2, Zenon DEF RowOf, contractPurpose
  <1> QED
    BY <1>1, FilesInitially, FilesInvNext, PTL DEF FilesSpec, StoredFactsKept

\* QueryFile and its fallback to the hash: what a query answers about a result
\* file, whether from the table or from the data plane's hash, is an output file.
THEOREM OutputsShown == ASSUME DirWritten # "no" PROVE FilesSpec => []OutputsAreOutputs
  <1>1. FilesInv => OutputsAreOutputs
    <2> SUFFICES ASSUME FilesInv, NEW f \in Outputs, NEW p \in Products, NEW e \in FetchFile(f, p)
                 PROVE  contractPurpose(e) = "batch_output"
      BY Zenon DEF OutputsAreOutputs
    <2>0. f \in Files
      BY FileConstants, Zenon
    <2>1. e \in stored[f] \/ \E h \in hash[f] : e = applyFileView(h)
      <3> DEFINE row == {r \in stored[f] : r.product = p}
                 view == {x \in {applyFileView(h) : h \in {y \in hash[f] : y.key \in liveKeys}} : x.product = p}
      <3>1. e \in row \/ e \in view
        BY Zenon DEF FetchFile
      <3> QED
        BY <3>1, Zenon
    <2>2. ASSUME e \in stored[f] PROVE RowOf(f, e)
      BY <2>0, <2>2, Zenon DEF FilesInv
    <2>3. ASSUME NEW h \in hash[f], e = applyFileView(h) PROVE RowOf(f, e)
      <3>1. h \in Hashes /\ h.key = KeyOfFile[f] /\ h.dir = DirOf(f)
        BY <2>0, <2>3, Zenon DEF FilesInv
      <3> QED
        BY <2>0, <2>3, <3>1, ViewOf, Zenon
    <2>4. RowOf(f, e)
      BY <2>1, <2>2, <2>3, Zenon
    <2>5. e.dir = "output"
      BY <2>4, Zenon DEF RowOf, DirOf
    <2> QED
      BY <2>5 DEF contractPurpose
  <1> QED
    BY <1>1, FilesInitially, FilesInvNext, PTL DEF FilesSpec
=============================================================================
