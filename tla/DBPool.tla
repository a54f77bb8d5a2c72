------------------------------- MODULE DBPool -------------------------------
(***************************************************************************)
(* Transactions and the connection pool of one instance: lib/xdb.go,       *)
(* stateful/config_database.go, AtomExecute, the id sequences, and the     *)
(* batch job, which keeps a connection for its named lock while its duties *)
(* take others.                                                            *)
(*                                                                         *)
(* A session is one request: for a creation the endpoint first takes an id *)
(* from a sequence, in a transaction of its own, then the manager runs its *)
(* statements in AtomExecute.  A connection in use is the pair of its user *)
(* and its purpose; a statement outside a transaction takes one and gives  *)
(* it back in one step.  Rows are what a handler writes, one statement     *)
(* each, in any order.                                                     *)
(***************************************************************************)
EXTENDS Naturals, FiniteSets

CONSTANTS
    Sessions,       \* requests
    Creators,       \* those that take an id first
    RowsOf,         \* the rows a session's handler writes
    MaxOpenConns,   \* 0: no limit
    Duties,         \* database calls of a cycle of the job
    PoolFaults,     \* which of AllPoolFaults may happen
    MaxPoolFaults   \* bound on them

AllPoolFaults == {"ping", "begin", "stmt", "conn_lost", "commit"}

ASSUME PoolConstants ==
    /\ Creators \subseteq Sessions
    /\ DOMAIN RowsOf = Sessions
    /\ MaxOpenConns \in Nat
    /\ Duties \in Nat
    /\ PoolFaults \subseteq AllPoolFaults
    /\ MaxPoolFaults \in Nat

VARIABLES
    at,         \* where a session is
    held,       \* connections in use
    left,       \* rows its handler has still to write
    tx,         \* rows written in its open transaction
    failed,     \* the handler's error: "none", "error" or "invalid connection"
    applied,    \* rows of the session that are committed
    outcome,    \* the answer to the request: "open" while there is none
    nextSeq,    \* next_seq of the sequence
    idOf,       \* the number a session took, 0 for none
    job, duty,  \* where the job is, the duties it has done in this cycle
    poolFaults

sessionVars == <<at, left, tx, failed, applied, outcome, idOf>>
poolVars == <<sessionVars, held, nextSeq, job, duty, poolFaults>>

JobLock == <<"job", "lock">>
Purposes == {"tx", "seq"}
\* The users of connections: a session for a transaction or a sequence, the job.
Conns == (Sessions \X Purposes) \cup {JobLock}

Waiting == {"allocget", "allocbegin", "get", "begin"}
Places == Waiting \cup {"seqwrite", "seqcommit", "stmts", "done"}

AllRows == UNION {RowsOf[s] : s \in Sessions}

PoolTypeOK ==
    /\ at \in [Sessions -> Places]
    /\ held \in SUBSET Conns
    /\ left \in [Sessions -> SUBSET AllRows]
    /\ tx \in [Sessions -> SUBSET AllRows]
    /\ failed \in [Sessions -> {"none", "error", "invalid connection"}]
    /\ applied \in [Sessions -> SUBSET AllRows]
    /\ outcome \in [Sessions -> {"open", "ok", "refused", "unknown"}]
    /\ nextSeq \in Nat \ {0}
    /\ idOf \in [Sessions -> Nat]
    /\ job \in {"rest", "lock", "get", "stmt", "unlock"}
    /\ duty \in 0..Duties
    /\ poolFaults \in 0..MaxPoolFaults

-----------------------------------------------------------------------------
After(s, place) ==
    CASE place = "start" -> IF s \in Creators THEN "allocget" ELSE "get"
      [] place = "seq"   -> "get"
      [] place = "begun" -> "stmts"

PoolInit ==
    /\ at = [s \in Sessions |-> After(s, "start")]
    /\ held = {}
    /\ left = [s \in Sessions |-> RowsOf[s]]
    /\ tx = [s \in Sessions |-> {}]
    /\ failed = [s \in Sessions |-> "none"]
    /\ applied = [s \in Sessions |-> {}]
    /\ outcome = [s \in Sessions |-> "open"]
    /\ nextSeq = 1
    /\ idOf = [s \in Sessions |-> 0]
    /\ job = "rest" /\ duty = 0
    /\ poolFaults = 0

PoolFree == MaxOpenConns = 0 \/ Cardinality(held) < MaxOpenConns

PoolFault(f) ==
    /\ f \in PoolFaults
    /\ poolFaults < MaxPoolFaults
    /\ poolFaults' = poolFaults + 1

Move(s, place) == at' = [at EXCEPT ![s] = place]

Reply(s, o) ==
    /\ Move(s, "done")
    /\ outcome' = [outcome EXCEPT ![s] = o]

\* NewBFEDBContext for a request that is in no transaction: DbGet pings, which needs
\* a connection and waits for one without a deadline; three failures are an error.
DbGet(s, from, to) ==
    /\ at[s] = from
    /\ PoolFree
    /\ \/ Move(s, to) /\ UNCHANGED <<outcome, poolFaults>>
       \/ PoolFault("ping") /\ Reply(s, "refused")
    /\ UNCHANGED <<held, left, tx, failed, applied, nextSeq, idOf, job, duty>>

-----------------------------------------------------------------------------
(* The id of a creation: lib.Transaction on the pool.                      *)

AllocBegin(s) ==
    /\ at[s] = "allocbegin"
    /\ PoolFree
    /\ \/ /\ held' = held \cup {<<s, "seq">>}
          /\ Move(s, "seqwrite")
          /\ UNCHANGED <<outcome, poolFaults>>
       \/ PoolFault("begin") /\ Reply(s, "refused") /\ UNCHANGED held
    /\ UNCHANGED <<left, tx, failed, applied, nextSeq, idOf, job, duty>>

SeqLockFree(s) == \A r \in Sessions \ {s} : at[r] # "seqcommit"

\* INSERT .. ON DUPLICATE KEY UPDATE next_seq + 1; the number is the value before.
\* A failure rolls back, and the request ends.
allocateSeq(s) ==
    /\ at[s] = "seqwrite"
    /\ \/ /\ SeqLockFree(s)
          /\ idOf' = [idOf EXCEPT ![s] = nextSeq]
          /\ Move(s, "seqcommit")
          /\ UNCHANGED <<held, outcome, poolFaults>>
       \/ /\ PoolFault("stmt")
          /\ held' = held \ {<<s, "seq">>}
          /\ Reply(s, "refused")
          /\ UNCHANGED idOf
    /\ UNCHANGED <<left, tx, failed, applied, nextSeq, job, duty>>

\* When the answer to COMMIT is lost the number may be spent or not; the request
\* does not get it.
AllocCommit(s) ==
    /\ at[s] = "seqcommit"
    /\ held' = held \ {<<s, "seq">>}
    /\ \/ /\ nextSeq' = idOf[s] + 1
          /\ Move(s, After(s, "seq"))
          /\ UNCHANGED <<idOf, outcome, poolFaults>>
       \/ /\ PoolFault("commit")
          /\ nextSeq' \in {nextSeq, idOf[s] + 1}
          /\ idOf' = [idOf EXCEPT ![s] = 0]
          /\ Reply(s, "refused")
    /\ UNCHANGED <<left, tx, failed, applied, job, duty>>

-----------------------------------------------------------------------------
(* AtomExecute.                                                            *)

BeginTrans(s) ==
    /\ at[s] = "begin"
    /\ PoolFree
    /\ \/ /\ held' = held \cup {<<s, "tx">>}
          /\ Move(s, After(s, "begun"))
          /\ UNCHANGED <<outcome, poolFaults>>
       \/ PoolFault("begin") /\ Reply(s, "refused") /\ UNCHANGED held
    /\ UNCHANGED <<left, tx, failed, applied, nextSeq, idOf, job, duty>>

\* Where a statement of the handler runs.  Mutant: on the pool, where it commits at
\* once.
Execer_Pool(s) == "conn"
Execer(s) == IF <<s, "tx">> \in held THEN "tx" ELSE "conn"

\* A row written in another open transaction is locked.
RowFree(s, k) == \A r \in Sessions \ {s} : k \notin tx[r]

Statement(s, k) ==
    /\ at[s] = "stmts" /\ failed[s] = "none"
    /\ k \in left[s] /\ RowFree(s, k)
    /\ left' = [left EXCEPT ![s] = @ \ {k}]
    /\ \/ /\ Execer(s) = "tx"
          /\ tx' = [tx EXCEPT ![s] = @ \cup {k}]
          /\ UNCHANGED applied
       \/ /\ Execer(s) = "conn" /\ PoolFree
          /\ applied' = [applied EXCEPT ![s] = @ \cup {k}]
          /\ UNCHANGED tx
    /\ UNCHANGED <<at, held, failed, outcome, nextSeq, idOf, job, duty, poolFaults>>

\* A statement fails: it is in error, it waited too long for a row another
\* transaction holds, or the connection is gone, and the open transaction with it.
StatementFails(s) ==
    /\ at[s] = "stmts" /\ failed[s] = "none"
    /\ \/ /\ \/ PoolFault("stmt")
             \/ (\E k \in left[s] : ~RowFree(s, k)) /\ UNCHANGED poolFaults
          /\ failed' = [failed EXCEPT ![s] = "error"]
          /\ UNCHANGED tx
       \/ /\ PoolFault("conn_lost")
          /\ failed' = [failed EXCEPT ![s] = "invalid connection"]
          /\ tx' = [tx EXCEPT ![s] = {}]
    /\ UNCHANGED <<at, held, left, applied, outcome, nextSeq, idOf, job, duty>>

\* Mutant: the error is returned without a rollback.
commitOrRollback_NoRollback(s) ==
    \/ /\ failed[s] = "none" /\ left[s] = {}
       /\ applied' = [applied EXCEPT ![s] = @ \cup tx[s]]
       /\ held' = held \ {<<s, "tx">>}
       /\ Reply(s, "ok") /\ UNCHANGED poolFaults
    \/ /\ failed[s] # "none"
       /\ Reply(s, "refused")
       /\ UNCHANGED <<held, applied, poolFaults>>

\* After "invalid connection" there is no Rollback: the connection stays in use.
\* When the answer to COMMIT is lost the rows are there or not.
commitOrRollback(s) ==
    \/ /\ failed[s] = "none" /\ left[s] = {}
       /\ held' = held \ {<<s, "tx">>}
       /\ \/ /\ applied' = [applied EXCEPT ![s] = @ \cup tx[s]]
             /\ Reply(s, "ok") /\ UNCHANGED poolFaults
          \/ /\ PoolFault("commit")
             /\ \/ applied' = [applied EXCEPT ![s] = @ \cup tx[s]]
                \/ UNCHANGED applied
             /\ Reply(s, "unknown")
    \/ /\ failed[s] = "error"
       /\ held' = held \ {<<s, "tx">>}
       /\ Reply(s, "refused") /\ UNCHANGED <<applied, poolFaults>>
    \/ /\ failed[s] = "invalid connection"
       /\ Reply(s, "refused") /\ UNCHANGED <<held, applied, poolFaults>>

RDBTxnExecuteEnds(s) ==
    /\ at[s] = "stmts"
    /\ commitOrRollback(s)
    /\ tx' = [tx EXCEPT ![s] = {}]
    /\ UNCHANGED <<left, failed, nextSeq, idOf, job, duty>>

SessionStep(s) ==
    \/ DbGet(s, "allocget", "allocbegin") \/ AllocBegin(s)
    \/ allocateSeq(s) \/ AllocCommit(s)
    \/ DbGet(s, "get", "begin") \/ BeginTrans(s)
    \/ (\E k \in left[s] : Statement(s, k)) \/ StatementFails(s)
    \/ RDBTxnExecuteEnds(s)

-----------------------------------------------------------------------------
(* The batch job on MySQL: db.Conn and GET_LOCK, the duties, RELEASE_LOCK. *)
(* On SQLite it takes no lock and holds no connection.                     *)

JobMove(to) == job' = to /\ UNCHANGED <<sessionVars, nextSeq, poolFaults>>

JobConn ==
    /\ job = "rest"
    /\ PoolFree
    /\ held' = held \cup {JobLock}
    /\ JobMove("lock")
    /\ duty' = 0

\* The lock is ours, or another instance's: then the cycle ends.
JobGetLock ==
    /\ job = "lock"
    /\ \/ JobMove("get") /\ UNCHANGED held
       \/ JobMove("rest") /\ held' = held \ {JobLock}
    /\ UNCHANGED duty

DutyGet ==
    /\ job = "get" /\ duty < Duties
    /\ PoolFree
    /\ JobMove("stmt") /\ UNCHANGED <<held, duty>>

DutyStatement ==
    /\ job = "stmt"
    /\ duty' = duty + 1
    /\ JobMove("get") /\ UNCHANGED held

JobUnlock ==
    /\ job = "get" /\ duty = Duties
    /\ held' = held \ {JobLock}
    /\ JobMove("rest") /\ UNCHANGED duty

JobStep == JobConn \/ JobGetLock \/ DutyGet \/ DutyStatement \/ JobUnlock

PoolNext == (\E s \in Sessions : SessionStep(s)) \/ JobStep

\* A freed connection goes to some waiter, a freed row to the transaction that waits
\* for it: no waiter is passed over for ever.
PoolFairness == SF_poolVars(JobStep) /\ \A s \in Sessions : SF_poolVars(SessionStep(s))

PoolSpec == PoolInit /\ [][PoolNext]_poolVars /\ PoolFairness

-----------------------------------------------------------------------------
\* The rows of an AtomExecute are committed all together or not at all: all of them
\* when the request was answered without an error, none when the handler, a begin or
\* a ping failed; only after a failed COMMIT may it be either (RDBTxnExecute, Execer).
AllOrNothing ==
    \A s \in Sessions :
        /\ applied[s] \in {{}, RowsOf[s]}
        /\ outcome[s] = "ok" => applied[s] = RowsOf[s]
        /\ outcome[s] \in {"open", "refused"} => applied[s] = {}

\* No two requests get the same id, whatever becomes of the requests and however
\* their allocations interleave or fail (TAPIKeyIDSeqAllocate, TEntityIDSeqAllocate).
DistinctIds ==
    \A s, r \in Sessions :
        s # r /\ idOf[s] = idOf[r] => idOf[s] = 0

\* A request that waits for a connection holds none, so requests never wait for each
\* other: the id is allocated outside of any AtomExecute, and statements inside one
\* run on its connection (TAPIKeyIDSeqAllocate, NewBFEDBContext).
NoHoldAndWait ==
    \A s \in Sessions :
        at[s] \in Waiting => \A p \in Purposes : <<s, p>> \notin held

\* The requests and the job never all wait for each other's connections: somebody
\* can go on, also when a connection stays lost and while the job holds one and
\* asks for another (DbGet waits without a deadline; Job.RunOnce, commitOrRollback).
NeverStuck == ENABLED PoolNext
=============================================================================
