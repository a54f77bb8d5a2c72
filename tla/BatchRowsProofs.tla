-------------------------- MODULE BatchRowsProofs ---------------------------
(***************************************************************************)
(* RowsMoveForward of BatchTasks, for any number of batches, replicas and  *)
(* cancels, with failing calls and dying processes, as long as one duty    *)
(* cycle runs at a time.  The argument: a replica writes a row it has read *)
(* before, so what it read must still hold when it writes (ReadInv), which *)
(* it does because nobody else writes but a cancel (CycleInv); and the     *)
(* hash it merges cannot contradict a settled row, because the provider    *)
(* ends a batch in one way only (SignInv).                                 *)
(***************************************************************************)
EXTENDS BatchTasksProofs

-----------------------------------------------------------------------------
(* The rows move forward.                                                  *)

\* One duty cycle runs at a time, and a cancel finds the row.
OneAtATime ==
  /\ "lock_lost" \notin Faults \/ \A i, j \in Jobs : i = j
  /\ ~EarlyCancel

\* A replica in its cycle is the only one; a cancel works without a hash.
CycleInv ==
  /\ \A j \in Jobs : pc[j] # "idle" => lock = j \/ \A i \in Jobs : i = j
  /\ \A c \in Callers : seen[c] = NoView /\ pc[c] \notin {"fallback", "upsert", "preempt2"}

\* Rows and hashes are those of submitted batches, and what a replica read
\* about them is not empty.
SyncPcs == {"syncfetch", "syncwrite"}
AdvancePcs == {"advreissue", "advwrite"}
ExistInv ==
  /\ \A b \in Batches : db[b].status # "" \/ hash[b].status # "" => prov[b].status # ""
  /\ \A b \in Batches : db[b].settle # "" => db[b].status # ""
  /\ \A j \in Jobs : pc[j] \in SyncPcs \cup AdvancePcs =>
       seen[j].status # "" /\ prov[cur[j]].status # ""

\* What says that a batch was settled, or that the data plane released it.
SettledSign(b) ==
  \/ db[b].settle = "settled" \/ hash[b].settle = "settled"
  \/ \E j \in Jobs : /\ cur[j] = b
                     /\ \/ seen[j].settle = "settled" \/ pc[j] \in {"hset", "dbsettle"}
                        \/ pc[j] \in ReleasePcs /\ ret[j] = "dbsettle"
ReleasedSign(b) ==
  hash[b].settle = "released" \/ \E j \in Jobs : cur[j] = b /\ seen[j].settle = "released"

\* The two exclude each other, since the provider ends a batch one way only.
SignInv ==
  /\ \A b \in Batches : prov[b].settle = ""
  /\ \A b \in Batches : SettledSign(b) => prov[b].status \in {"completed", "gone"}
  /\ \A b \in Batches : ReleasedSign(b) => prov[b].status \in noSettleReleaseStatuses \cup {"gone"}
  /\ \A b \in Batches : ~(SettledSign(b) /\ ReleasedSign(b))

\* What a replica read of a row still holds up to a cancel, when it writes.
Open(row) == row.status \in {"in_progress", "cancelling"}
StillRead(old, row) ==
  /\ old.settle = row.settle
  /\ old.status = row.status \/ (old.status = "in_progress" /\ row.status = "cancelling")
ReadInv ==
  \A j \in Jobs :
    /\ pc[j] = "syncwrite" => StillRead(snap[j][cur[j]], db[cur[j]])
    /\ pc[j] \in {"advance"} \cup AdvancePcs => \A b \in todo[j] : Open(db[b])
    /\ pc[j] \in AdvancePcs => Open(db[cur[j]]) /\ cur[j] \notin todo[j]

RowInv == CycleInv /\ ExistInv /\ SignInv /\ ReadInv

\* What the property allows for a row.
Forward(row, new) ==
  /\ IsTerminal(row.status) => new.status = row.status
  /\ row.settle \in {"settled", "released"} => new.settle # "reserved"
  /\ row.settle = "settled" => new.settle = "settled"

-----------------------------------------------------------------------------
(* Rows.                                                                   *)

\* A row that only a cancel has touched has moved forward.
LEMMA StillReadForward ==
  ASSUME NEW row \in Rows, NEW new \in Rows, StillRead(row, new)
  PROVE  Forward(row, new)
  BY Zenon DEF StillRead, Forward, IsTerminal, TerminalStatuses

\* What was read before such a change still holds after it.
LEMMA StillReadOpen ==
  ASSUME NEW old, NEW row, NEW new, StillRead(row, new)
  PROVE  /\ StillRead(old, row) => StillRead(old, new)
         /\ Open(row) => Open(new)
  BY Zenon DEF StillRead, Open

\* The rows that AdvanceStatus lists are open.
LEMMA OpenStatus ==
  \A row \in Rows : row.status # "" /\ ~IsTerminal(row.status) => Open(row)
  BY Zenon DEF Rows, Statuses, IsTerminal, Open

\* An upsert of SyncFromRedis.
Upserted(row, old, v) == [mergeTaskForSync(old, v) EXCEPT !.ripe = @ /\ row.ripe]

LEMMA MergeForward ==
  ASSUME NEW row \in Rows, NEW old \in Rows, NEW v \in Views,
         v.status \notin {"", "gone"}, StillRead(old, row),
         row.settle # "" => row.status # "", row.settle = "settled" => v.settle # "released"
  PROVE  /\ Forward(row, Upserted(row, old, v)) /\ Upserted(row, old, v).status # ""
         /\ Upserted(row, old, v).settle = "settled" =>
              row.settle = "settled" \/ v.settle = "settled"
<1>0. PICK x, new : /\ new = Upserted(row, old, v)
                    /\ new = [mergeTaskForSync(old, v) EXCEPT !.ripe = x]
  BY Zenon DEF Upserted
<1>1. CASE old.status = ""
  <2>1. row.status = "" /\ row.settle = ""
    BY <1>1, Zenon DEF StillRead
  <2>2. new = [[applyTaskView(v) EXCEPT !.tat = IsTerminal(v.status)] EXCEPT !.ripe = x]
    BY <1>0, <1>1, Zenon DEF mergeTaskForSync
  <2>3. /\ new.status = v.status
        /\ new.settle = IF v.settle = "" THEN "reserved" ELSE v.settle
    BY <2>2, Zenon DEF applyTaskView
  <2>4. Forward(row, new)
    BY <2>1, Zenon DEF Forward, IsTerminal, TerminalStatuses
  <2>5. new.settle = "settled" => v.settle = "settled"
    <3>1. new.settle = "reserved" \/ new.settle = v.settle
      BY <2>3, Zenon
    <3> QED
      BY <3>1, Zenon
  <2> QED
    BY <1>0, <2>3, <2>4, <2>5, Zenon
<1>2. CASE old.status # ""
  <2> DEFINE status == IF IsTerminal(old.status) THEN old.status ELSE v.status
             settle == IF v.settle = "" THEN old.settle ELSE v.settle
  <2>1. /\ new.status = status /\ new.settle = settle
    BY <1>0, <1>2, Zenon DEF mergeTaskForSync
  <2>2. IsTerminal(row.status) => old.status = row.status
    BY Zenon DEF StillRead, IsTerminal, TerminalStatuses
  <2>3. v.settle \in {"", "settled", "released"} /\ old.settle = row.settle
    BY Zenon DEF Views, StillRead
  <2> QED
    BY <1>0, <1>2, <2>1, <2>2, <2>3, Zenon DEF Forward
<1> QED
  BY <1>1, <1>2, Zenon

\* A patch of AdvanceStatus.
LEMMA AdvanceForward ==
  ASSUME NEW row \in Rows, NEW old, NEW v \in Views, Open(row), v.status # ""
  PROVE  /\ Forward(row, Advanced(row, old, v)) /\ Advanced(row, old, v).status # ""
         /\ Advanced(row, old, v).settle = row.settle
<1>1. /\ Advanced(row, old, v).settle = row.settle
      /\ Advanced(row, old, v).status =
           IF StatusHeld(old, v) THEN row.status
           ELSE IF v.status = "gone" THEN "expired" ELSE v.status
  BY Zenon DEF Advanced
<1>2. ~IsTerminal(row.status) /\ row.status # ""
  BY Zenon DEF Open, IsTerminal, TerminalStatuses
<1> QED
  BY <1>1, <1>2, Zenon DEF Forward

-----------------------------------------------------------------------------
(* Steps, variable by variable.                                            *)

\* A step of process p leaves the locals of the others alone.
Apart(p, f, g) == \A r \in Procs \ {p} : g[r] = f[r]
Only(p, f, g) == g = f \/ \E v : g = [f EXCEPT ![p] = v]
Frame(p) == /\ Apart(p, pc, pc') /\ Apart(p, cur, cur') /\ Apart(p, seen, seen')
            /\ Apart(p, snap, snap') /\ Apart(p, todo, todo') /\ Apart(p, ret, ret')

LEMMA OnlyApart ==
  ASSUME NEW p \in Procs, NEW f, NEW g, f = [r \in Procs |-> f[r]], Only(p, f, g)
  PROVE  Apart(p, f, g)
  BY Zenon DEF Apart, Only

LEMMA OnlyFrame ==
  ASSUME TypeInv, NEW p \in Procs,
         Only(p, pc, pc'), Only(p, cur, cur'), Only(p, seen, seen'),
         Only(p, snap, snap') \/ Apart(p, snap, snap'), Only(p, todo, todo'), Only(p, ret, ret')
  PROVE  Frame(p)
<1>0. /\ pc = [r \in Procs |-> pc[r]] /\ cur = [r \in Procs |-> cur[r]]
      /\ seen = [r \in Procs |-> seen[r]] /\ snap = [r \in Procs |-> snap[r]]
      /\ todo = [r \in Procs |-> todo[r]] /\ ret = [r \in Procs |-> ret[r]]
  BY Zenon DEF TypeInv, TypeOK
<1>1. Apart(p, pc, pc')
  BY <1>0, OnlyApart, Zenon
<1>2. Apart(p, cur, cur')
  BY <1>0, OnlyApart, Zenon
<1>3. Apart(p, seen, seen')
  BY <1>0, OnlyApart, Zenon
<1>4. Apart(p, snap, snap')
  BY <1>0, OnlyApart, Zenon
<1>5. Apart(p, todo, todo')
  BY <1>0, OnlyApart, Zenon
<1>6. Apart(p, ret, ret')
  BY <1>0, OnlyApart, Zenon
<1> QED
  BY <1>1, <1>2, <1>3, <1>4, <1>5, <1>6, Zenon DEF Frame

LEMMA ResumeFrame ==
  ASSUME TypeInv, NEW p \in Procs, NEW l, Resume(p, l), Only(p, todo, todo')
  PROVE  Frame(p)
<1>1. Only(p, pc, pc') /\ Only(p, cur, cur') /\ Only(p, seen, seen') /\ Only(p, ret, ret')
  BY Zenon DEF Resume, Goto, Only
<1>2. Only(p, snap, snap')
  BY Zenon DEF Resume, Only
<1> QED
  BY <1>1, <1>2, OnlyFrame, Zenon

\* Every step of a replica, a request and releaseReserve has that frame.
LEMMA JobFrame ==
  ASSUME TypeInv, NEW j \in Jobs, JobStep(j)
  PROVE  Frame(j)
<1>0. j \in Procs
  BY Constants, Zenon
<1>1. CASE \/ JobEnd(j) \/ SyncUpsert(j) \/ AdvanceUpdate(j) \/ ReleaseUpdate(j)
           \/ StatementFails(j) \/ SettleAbort(j) \/ (SettleUpdate(j) /\ Resume(j, "settle"))
  <2>1. Only(j, todo, todo') /\ \E l : Resume(j, l)
    BY <1>1, Zenon DEF JobEnd, SyncUpsert, AdvanceUpdate, ReleaseUpdate, StatementFails,
                       SettleAbort, SettleUpdate, Only
  <2> QED
    BY <1>0, <2>1, ResumeFrame, Zenon
<1>2. CASE \/ AdvanceReissue(j) \/ SettleDownload(j) \/ (SettleUpdate(j) /\ ~Resume(j, "settle"))
           \/ SettleNoOutput(j) \/ SettleHSet(j) \/ (\E b \in Batches : ReleaseOne(j, b))
  <2>1. Only(j, seen, seen') /\ Only(j, snap, snap') /\ Only(j, todo, todo')
    BY <1>2, Zenon DEF AdvanceReissue, SettleDownload, SettleUpdate, SettleNoOutput, SettleHSet,
                       ReleaseOne, Pick, Only
  <2>2. Only(j, pc, pc')
    BY <1>2, Zenon DEF AdvanceReissue, SettleDownload, SettleUpdate, SettleNoOutput, SettleHSet,
                       ReleaseOne, CallRelease, Goto, Only
  <2>3. Only(j, cur, cur') /\ Only(j, ret, ret')
    BY <1>2, Zenon DEF AdvanceReissue, SettleDownload, SettleUpdate, SettleNoOutput, SettleHSet,
                       ReleaseOne, CallRelease, Only
  <2> QED
    BY <1>0, <2>1, <2>2, <2>3, OnlyFrame, Zenon
<1>3. CASE JobStart(j) \/ AdvanceList(j) \/ BackfillList(j) \/ SettleList(j)
           \/ ReleaseQuery(j) \/ ReleaseList(j) \/ SyncFetch(j)
  <2>1. /\ Only(j, cur, cur') /\ Only(j, seen, seen') /\ Only(j, ret, ret')
        /\ Only(j, todo, todo')
    BY <1>3, Zenon DEF JobStart, AdvanceList, BackfillList, SettleList, ReleaseQuery, ReleaseList,
                       SyncFetch, List, Only
  <2>2. Only(j, pc, pc')
    BY <1>3, Zenon DEF JobStart, AdvanceList, BackfillList, SettleList, ReleaseQuery, ReleaseList,
                       SyncFetch, List, Goto, Only
  <2>3. CASE SyncFetch(j)
    <3>1. snap' = [snap EXCEPT ![j] = [snap[j] EXCEPT ![cur[j]] = db[cur[j]]]]
      BY <2>3 DEF SyncFetch
    <3> QED
      BY <1>0, <2>1, <2>2, <3>1, OnlyFrame, Zenon DEF Only
  <2>4. CASE ~SyncFetch(j)
    <3>1. Only(j, snap, snap')
      BY <1>3, <2>4, Zenon DEF JobStart, AdvanceList, BackfillList, SettleList, ReleaseQuery,
                               ReleaseList, List, Only
    <3> QED
      BY <1>0, <2>1, <2>2, <3>1, OnlyFrame, Zenon
  <2> QED
    BY <2>3, <2>4, Zenon
<1>4. ASSUME NEW b \in Batches,
             SyncHash(j, b) \/ AdvanceGet(j, b) \/ BackfillOne(j, b) \/ SettleClaim(j, b)
      PROVE  Frame(j)
  <2>1. Only(j, snap, snap') /\ Only(j, ret, ret') /\ Only(j, todo, todo')
    BY <1>4, Zenon DEF SyncHash, AdvanceGet, BackfillOne, SettleClaim, Pick, Only
  <2>2. Only(j, pc, pc') /\ Only(j, cur, cur') /\ Only(j, seen, seen')
    BY <1>4, Zenon DEF SyncHash, AdvanceGet, BackfillOne, SettleClaim, Goto, Only
  <2> QED
    BY <1>0, <2>1, <2>2, OnlyFrame, Zenon
<1> QED
  BY <1>1, <1>2, <1>3, <1>4, Zenon DEF JobStep

LEMMA CancelFrame ==
  ASSUME TypeInv, NEW c \in Callers, CancelStep(c)
  PROVE  Frame(c)
<1>0. c \in Procs
  BY Constants, Zenon
<1>1. Only(c, todo, todo')
  BY Zenon DEF CancelStep, CancelFallback, CancelPreempt, CancelUpsert, CancelRecheck,
               CancelPost, CancelFails, CancelFetch, Only
<1>2. CASE Resume(c, "done")
  BY <1>0, <1>1, <1>2, ResumeFrame, Zenon
<1>3. CASE ~Resume(c, "done")
  <2>1. Only(c, snap, snap') /\ Only(c, pc, pc')
    BY <1>3, Zenon DEF CancelStep, CancelFallback, CancelPreempt, CancelUpsert, CancelRecheck,
                 CancelPost, CancelFails, CancelFetch, CallRelease, Goto, Only
  <2>2. Only(c, ret, ret') /\ Only(c, cur, cur') /\ Only(c, seen, seen')
    BY <1>3, Zenon DEF CancelStep, CancelFallback, CancelPreempt, CancelUpsert, CancelRecheck,
                 CancelPost, CancelFails, CancelFetch, CallRelease, Only
  <2> QED
    BY <1>0, <1>1, <2>1, <2>2, OnlyFrame, Zenon
<1> QED
  BY <1>2, <1>3, Zenon

LEMMA ReserveFrame ==
  ASSUME TypeInv, NEW p \in Procs, ReserveStep(p)
  PROVE  Frame(p)
<1>1. Only(p, todo, todo')
  BY Zenon DEF ReserveStep, ReserveRead, ReserveDelete, ReserveDecr, Only
<1>2. CASE \E l : Resume(p, l)
  BY <1>1, <1>2, ResumeFrame, Zenon
<1>3. CASE UNCHANGED <<cur, snap, seen, ret>> /\ \E l : Goto(p, l)
  <2>1. /\ Only(p, pc, pc') /\ Only(p, cur, cur') /\ Only(p, snap, snap')
        /\ Only(p, seen, seen') /\ Only(p, ret, ret')
    BY <1>3, Zenon DEF Goto, Only
  <2> QED
    BY <1>1, <2>1, OnlyFrame, Zenon
<1>4. \A ok \in BOOLEAN : Return(p, ok) => \/ \E l : Resume(p, l)
                                           \/ UNCHANGED <<cur, snap, seen, ret>> /\ \E l : Goto(p, l)
  BY DEF Return
<1> QED
  BY <1>2, <1>3, <1>4, Zenon DEF ReserveStep, ReserveRead, ReserveDelete, ReserveDecr

-----------------------------------------------------------------------------
(* What the provider and the hash say.                                     *)

\* The provider ends a batch one way, and keeps to it until it forgets it.
Kept(v, w) ==
  /\ w.settle = v.settle
  /\ v.status # "" => w.status # ""
  /\ v.status \in {"completed", "gone"} => w.status \in {"completed", "gone"}
  /\ v.status \in noSettleReleaseStatuses \cup {"gone"} =>
       w.status \in noSettleReleaseStatuses \cup {"gone"}

\* POST .../cancel.
LEMMA PostCancelKept ==
  ASSUME TypeInv, NEW b \in Batches, NEW ok \in BOOLEAN, PostCancel(b, ok)
  PROVE  \A c \in Batches : Kept(prov[c], prov'[c])
<1>0. prov \in [Batches -> Views]
  BY Zenon DEF TypeInv, TypeOK
<1>1. CASE UNCHANGED prov
  BY <1>1, Zenon DEF Kept
<1>2. CASE /\ prov[b].status \in {"in_progress", "cancelling"}
           /\ prov' = [prov EXCEPT ![b].status = "cancelling"]
  <2>1. /\ prov'[b] = [prov[b] EXCEPT !.status = "cancelling"]
        /\ \A c \in Batches \ {b} : prov'[c] = prov[c]
    BY <1>0, <1>2, Zenon
  <2>2. prov'[b].settle = prov[b].settle /\ prov'[b].status = "cancelling"
    <3>1. prov[b] \in Views
      BY <1>0, Zenon
    <3>2. [prov[b] EXCEPT !.status = "cancelling"].settle = prov[b].settle
      BY <3>1, Zenon DEF Views
    <3>3. [prov[b] EXCEPT !.status = "cancelling"].status = "cancelling"
      BY <3>1, Zenon DEF Views
    <3> QED
      BY <2>1, <3>2, <3>3, Zenon
  <2> QED
    BY <1>2, <2>1, <2>2, Zenon DEF Kept, noSettleReleaseStatuses
<1> QED
  BY <1>1, <1>2, Zenon DEF PostCancel

\* Every step keeps to it.
LEMMA ProvStep ==
  ASSUME TypeInv, [Next]_vars
  PROVE  \A c \in Batches : Kept(prov[c], prov'[c])
<1>0. prov \in [Batches -> Views]
  BY Zenon DEF TypeInv, TypeOK
<1>1. CASE UNCHANGED prov
  BY <1>1, Zenon DEF Kept
<1>2. ASSUME NEW j \in Jobs, JobStep(j)
      PROVE  \A c \in Batches : Kept(prov[c], prov'[c])
  <2>1. CASE AdvanceReissue(j)
    <3>1. j \in Procs /\ cur[j] \in Batches
      BY <2>1, Constants, PcSets, Zenon DEF AdvanceReissue, TypeInv, ControlOK
    <3> QED
      BY <2>1, <3>1, PostCancelKept, Zenon DEF AdvanceReissue
  <2>2. CASE ~AdvanceReissue(j)
    <3>1. UNCHANGED prov
      BY <1>2, <2>2, Zenon
         DEF JobStep, JobStart, JobEnd, SyncFetch, SyncUpsert, AdvanceList, AdvanceUpdate,
             BackfillList, SettleList, ReleaseQuery, ReleaseList, SettleNoOutput, SettleDownload,
             SettleHSet, SettleUpdate, SettleAbort, ReleaseUpdate, StatementFails, SyncHash,
             AdvanceGet, BackfillOne, SettleClaim, ReleaseOne, List, world
    <3> QED
      BY <1>1, <3>1, Zenon
  <2> QED
    BY <2>1, <2>2, Zenon
<1>3. ASSUME NEW c \in Callers, CancelStep(c)
      PROVE  \A b \in Batches : Kept(prov[b], prov'[b])
  <2>1. CASE CancelPost(c)
    <3>1. c \in Procs /\ cur[c] \in Batches
      BY <2>1, Constants, PcSets, Zenon DEF CancelPost, TypeInv, ControlOK
    <3> QED
      BY <2>1, <3>1, PostCancelKept, Zenon DEF CancelPost
  <2>2. CASE ~CancelPost(c)
    <3>1. UNCHANGED prov
      BY <1>3, <2>2, Zenon DEF CancelStep, CancelFallback, CancelPreempt, CancelUpsert,
                               CancelRecheck, CancelFails, CancelFetch, world
    <3> QED
      BY <1>1, <3>1, Zenon
  <2> QED
    BY <2>1, <2>2, Zenon
<1>4. ASSUME NEW b \in Batches, Environment(b)
      PROVE  \A c \in Batches : Kept(prov[c], prov'[c])
  <2>1. ASSUME NEW s, s # "", prov[b].status = "" \/ Open(prov[b]) \/ s = "gone",
               \/ prov' = [prov EXCEPT ![b].status = s]
               \/ \E o \in BOOLEAN : prov' = [prov EXCEPT ![b].status = s, ![b].out = o]
        PROVE  \A c \in Batches : Kept(prov[c], prov'[c])
    <3>1. \A c \in Batches \ {b} : prov'[c] = prov[c]
      BY <1>0, <2>1, Zenon
    <3>2. \/ prov'[b] = [prov[b] EXCEPT !.status = s]
          \/ \E o \in BOOLEAN : prov'[b] = [prov[b] EXCEPT !.status = s, !.out = o]
      BY <1>0, <2>1, Zenon
    <3>3. prov'[b].settle = prov[b].settle /\ prov'[b].status = s
      BY <1>0, <3>2, Zenon DEF Views
    <3> QED
      BY <2>1, <3>1, <3>3, Zenon DEF Kept, Open, noSettleReleaseStatuses
  <2>2. CASE DataPlaneCreate(b)
    <3>1. prov[b].status = ""
      BY <2>2, Constants, Zenon DEF DataPlaneCreate
    <3> QED
      BY <2>1, <2>2, <3>1, Zenon DEF DataPlaneCreate
  <2>3. CASE ProviderFinish(b)
    <3>1. PICK s \in TerminalStatuses, o \in BOOLEAN :
             /\ prov[b].status \in {"in_progress", "cancelling"}
             /\ prov' = [prov EXCEPT ![b].status = s, ![b].out = o]
      BY <2>3, Zenon DEF ProviderFinish
    <3>2. s # ""
      BY Zenon DEF TerminalStatuses
    <3> QED
      BY <2>1, <3>1, <3>2, Zenon DEF Open
  <2>4. CASE ProviderForget(b)
    BY <2>1, <2>4, Zenon DEF ProviderForget
  <2> QED
    BY <1>1, <1>4, <2>2, <2>3, <2>4, Zenon
       DEF Environment, DataPlanePoll, DataPlaneSettle, Age, GraceElapses, ExpireClaim, ExpireTask,
           world
<1>5. ASSUME NEW p \in Procs, ReserveStep(p) \/ Crash(p)
      PROVE  UNCHANGED prov
  BY <1>5, Zenon DEF ReserveStep, ReserveRead, ReserveDelete, ReserveDecr, Crash, world
<1>6. LockLost \/ UNCHANGED vars => UNCHANGED prov
  BY Zenon DEF LockLost, vars, world
<1> QED
  BY <1>1, <1>2, <1>3, <1>4, <1>5, <1>6, Zenon DEF Next

\* Who writes which settlement into BATCH_TASK, and for which batches.
LEMMA HashStep ==
  ASSUME TypeInv, ExistInv, [Next]_vars, NEW b \in Batches
  PROVE  /\ hash'[b].status # "" => prov'[b].status # ""
         /\ hash'[b].settle = "settled" =>
              \/ hash[b].settle = "settled" \/ prov[b].status = "completed"
              \/ \E j \in Jobs : cur[j] = b /\ pc[j] = "hset"
         /\ hash'[b].settle = "released" =>
              hash[b].settle = "released" \/ prov[b].status \in noSettleReleaseStatuses
<1> DEFINE Goal ==
         /\ hash'[b].status # "" => prov'[b].status # ""
         /\ hash'[b].settle = "settled" =>
              \/ hash[b].settle = "settled" \/ prov[b].status = "completed"
              \/ \E j \in Jobs : cur[j] = b /\ pc[j] = "hset"
         /\ hash'[b].settle = "released" =>
              hash[b].settle = "released" \/ prov[b].status \in noSettleReleaseStatuses
<1> SUFFICES Goal
  BY Zenon
<1>0. hash \in [Batches -> Views] /\ (prov[b].status # "" => prov'[b].status # "")
  BY ProvStep, Zenon DEF TypeInv, TypeOK, Kept
<1>1. ASSUME hash'[b].settle = hash[b].settle,
             hash'[b].status = hash[b].status \/ hash[b].status # "" \/ prov'[b].status # ""
      PROVE  Goal
  BY <1>0, <1>1, Zenon DEF ExistInv
<1> HIDE DEF Goal
<1>2. ASSUME NEW j \in Jobs, SettleHSet(j)
      PROVE  Goal
  <2>1. CASE hash' = hash
    BY <1>1, <2>1, Zenon
  <2>2. CASE hash' = [hash EXCEPT ![cur[j]].settle = "settled"]
    <3>1. CASE b # cur[j]
      BY <1>0, <1>1, <2>2, <3>1, Zenon
    <3>2. CASE b = cur[j]
      <4>1. hash'[b] = [hash[b] EXCEPT !.settle = "settled"]
        BY <1>0, <2>2, <3>2, Zenon
      <4>2. hash'[b].settle = "settled" /\ hash'[b].status = hash[b].status
        <5>1. hash[b] \in Views
          BY <1>0, Zenon
        <5>2. [hash[b] EXCEPT !.settle = "settled"].settle = "settled"
          BY <5>1, Zenon DEF Views
        <5>3. [hash[b] EXCEPT !.settle = "settled"].status = hash[b].status
          BY <5>1, Zenon DEF Views
        <5> QED
          BY <4>1, <5>2, <5>3, Zenon
      <4>3. pc[j] = "hset"
        BY <1>2, Zenon DEF SettleHSet
      <4> QED
        BY <1>0, <3>2, <4>2, <4>3, Zenon DEF Goal, ExistInv
    <3> QED
      BY <3>1, <3>2, Zenon
  <2> QED
    BY <1>2, <2>1, <2>2, Zenon DEF SettleHSet
<1>3. ASSUME NEW j \in Jobs, JobStep(j), ~SettleHSet(j)
      PROVE  hash' = hash
  BY <1>3, Zenon
     DEF JobStep, JobStart, JobEnd, SyncFetch, SyncUpsert, AdvanceList, AdvanceReissue,
         AdvanceUpdate, BackfillList, SettleList, ReleaseQuery, ReleaseList, SettleNoOutput,
         SettleDownload, SettleUpdate, SettleAbort, ReleaseUpdate, StatementFails, SyncHash,
         AdvanceGet, BackfillOne, SettleClaim, ReleaseOne, List, redis
<1>4. ASSUME NEW c \in Callers, CancelStep(c)
      PROVE  hash' = hash
  BY <1>4, Zenon DEF CancelStep, CancelFallback, CancelPreempt, CancelUpsert, CancelRecheck,
                     CancelPost, CancelFails, CancelFetch, redis
<1>5. ASSUME NEW p \in Procs, ReserveStep(p) \/ Crash(p)
      PROVE  hash' = hash
  BY <1>5, Zenon DEF ReserveStep, ReserveRead, ReserveDelete, ReserveDecr, Crash, redis
<1>6. ASSUME NEW c \in Batches, Environment(c)
      PROVE  Goal
  <2>1. CASE hash'[b] = hash[b]
    BY <1>1, <2>1, Zenon
  <2>2. CASE hash'[b] # hash[b]
    <3>1. CASE DataPlaneCreate(c)
      <4>1. /\ hash' = [hash EXCEPT ![c].status = "in_progress"]
            /\ prov' = [prov EXCEPT ![c].status = "in_progress"]
        BY <3>1, Zenon DEF DataPlaneCreate
      <4>2. b = c
        BY <1>0, <2>2, <4>1, Zenon
      <4>3. hash'[b] = [hash[b] EXCEPT !.status = "in_progress"]
            /\ prov'[b] = [prov[b] EXCEPT !.status = "in_progress"]
            /\ hash[b] \in Views /\ prov[b] \in Views
        BY <1>0, <4>1, <4>2, Zenon DEF TypeInv, TypeOK
      <4>4. hash'[b].settle = hash[b].settle /\ prov'[b].status = "in_progress"
        BY <4>3, Zenon DEF Views
      <4> QED
        BY <1>1, <4>4, Zenon
    <3>2. CASE DataPlanePoll(c)
      <4>1. /\ hash' = [hash EXCEPT ![c].status = prov[c].status, ![c].out = prov[c].out]
            /\ hash[c].status # ""
        BY <3>2, Zenon DEF DataPlanePoll
      <4>2. b = c
        BY <1>0, <2>2, <4>1, Zenon
      <4>3. hash'[b] = [hash[b] EXCEPT !.status = prov[b].status, !.out = prov[b].out]
            /\ hash[b] \in Views
        BY <1>0, <4>1, <4>2, Zenon
      <4>4. hash'[b].settle = hash[b].settle
        BY <4>3, Zenon DEF Views
      <4> QED
        BY <1>1, <4>1, <4>2, <4>4, Zenon
    <3>3. CASE DataPlaneSettle(c)
      <4>1. \/ /\ hash' = [hash EXCEPT ![c].settle = "settled"]
               /\ prov[c].status = "completed"
            \/ /\ hash' = [hash EXCEPT ![c].settle = "released"]
               /\ prov[c].status \in noSettleReleaseStatuses
        BY <3>3, Zenon DEF DataPlaneSettle
      <4>2. b = c
        BY <1>0, <2>2, <4>1, Zenon
      <4>3. /\ \/ hash'[b] = [hash[b] EXCEPT !.settle = "settled"] /\ prov[b].status = "completed"
               \/ /\ hash'[b] = [hash[b] EXCEPT !.settle = "released"]
                  /\ prov[b].status \in noSettleReleaseStatuses
            /\ hash[b] \in Views
        BY <1>0, <4>1, <4>2, Zenon
      <4>4. /\ hash'[b].status = hash[b].status
            /\ \/ hash'[b].settle = "settled" /\ prov[b].status = "completed"
               \/ hash'[b].settle = "released" /\ prov[b].status \in noSettleReleaseStatuses
        BY <4>3, Zenon DEF Views
      <4> QED
        BY <1>0, <4>4, Zenon DEF Goal, ExistInv
    <3>4. CASE ExpireTask(c)
      <4>1. hash'[b] = NoView
        BY <1>0, <2>2, <3>4, Zenon DEF ExpireTask
      <4>2. NoView.status = "" /\ NoView.settle = ""
        BY Zenon DEF NoView
      <4> QED
        BY <4>1, <4>2, Zenon DEF Goal
    <3> QED
      BY <1>6, <2>2, <3>1, <3>2, <3>3, <3>4, Zenon
         DEF Environment, ProviderFinish, ProviderForget, Age, GraceElapses, ExpireClaim, redis
  <2> QED
    BY <2>1, <2>2, Zenon
<1>7. LockLost \/ UNCHANGED vars => hash' = hash
  BY Zenon DEF LockLost, vars, redis
<1>8. hash' = hash => Goal
  BY <1>1, Zenon
<1> QED
  BY <1>2, <1>3, <1>4, <1>5, <1>6, <1>7, <1>8, Zenon DEF Next

-----------------------------------------------------------------------------
(* One cycle at a time.                                                    *)

LEMMA CrashFrame ==
  ASSUME TypeInv, NEW p \in Procs, Crash(p)
  PROVE  Frame(p)
<1>1. Only(p, todo, todo') /\ \E l : Resume(p, l)
  BY Zenon DEF Crash, Only
<1> QED
  BY <1>1, ResumeFrame, Zenon

\* Where a process is after it is done with its batch.
LEMMA ResumeAt ==
  ASSUME TypeInv, NEW p \in Procs, NEW l, Resume(p, l)
  PROVE  pc'[p] = l /\ cur'[p] = None /\ seen'[p] = NoView /\ ret'[p] = "done"
<1>1. pc \in [Procs -> Pcs] /\ DOMAIN cur = Procs /\ DOMAIN seen = Procs /\ DOMAIN ret = Procs
  BY Zenon DEF TypeInv, TypeOK
<1> QED
  BY <1>1, Zenon DEF Resume, Goto

LEMMA GotoAt ==
  ASSUME TypeInv, NEW p \in Procs, NEW l, Goto(p, l)
  PROVE  pc'[p] = l
<1>1. pc \in [Procs -> Pcs]
  BY Zenon DEF TypeInv, TypeOK
<1> QED
  BY <1>1, Zenon DEF Goto

\* releaseReserve returns to the caller, or is done.
LEMMA ReturnAt ==
  ASSUME TypeInv, NEW p \in Procs, NEW ok \in BOOLEAN, Return(p, ok)
  PROVE  \/ \E l \in {"done", "settle", "release"} : Resume(p, l)
         \/ /\ UNCHANGED <<cur, snap, seen, ret>>
            /\ Goto(p, ret[p]) /\ ret[p] \in {"dbsettle", "dbrelease"}
<1>1. ret[p] \in {"dbsettle", "dbrelease", "done"}
  BY Zenon DEF TypeInv, TypeOK
<1> QED
  BY <1>1 DEF Return

\* A step of releaseReserve writes no row and moves its process only.
LEMMA ReserveAt ==
  ASSUME TypeInv, NEW p \in Procs, ReserveStep(p)
  PROVE  /\ pc[p] \in ReleasePcs /\ UNCHANGED <<db, todo>>
         /\ \/ \E l \in {"done", "settle", "release"} : Resume(p, l)
            \/ /\ UNCHANGED <<cur, snap, seen, ret>>
               /\ \/ \E l \in ReleasePcs : Goto(p, l)
                  \/ Goto(p, ret[p]) /\ ret[p] \in {"dbsettle", "dbrelease"}
<1>1. CASE ReserveRead(p)
  BY <1>1, ReturnAt, Zenon DEF ReserveRead, ReleasePcs
<1>2. CASE ReserveDelete(p)
  BY <1>2, ReturnAt, Zenon DEF ReserveDelete, ReleasePcs
<1>3. ASSUME NEW q \in Plans, ReserveDecr(p, q)
      PROVE  /\ pc[p] = "reldecr" /\ UNCHANGED <<db, todo, cur, snap, seen, ret>>
             /\ \E l \in ReleasePcs : Goto(p, l)
  BY <1>3, Zenon DEF ReserveDecr, ReleasePcs
<1> QED
  BY <1>1, <1>2, <1>3, Zenon DEF ReserveStep, ReleasePcs

\* A replica takes a step in its cycle only, and lets only its own lock go.
LEMMA JobLock ==
  ASSUME TypeInv, NEW j \in Jobs, JobStep(j)
  PROVE  \/ pc[j] = "idle" /\ lock = None /\ lock' = j /\ pc'[j] = "sync" /\ JobStart(j)
         \/ pc[j] # "idle" /\ lock' = (IF lock = j THEN None ELSE lock) /\ pc'[j] = "idle"
         \/ pc[j] # "idle" /\ lock' = lock
<1>0. j \in Procs
  BY Constants, Zenon
<1>1. CASE JobStart(j)
  BY <1>0, <1>1, GotoAt, Zenon DEF JobStart
<1>2. CASE JobEnd(j)
  BY <1>0, <1>2, ResumeAt, Zenon DEF JobEnd
<1>3. CASE ~JobStart(j) /\ ~JobEnd(j)
  <2>1. lock' = lock
    BY <1>3, Zenon
       DEF JobStep, SyncFetch, SyncUpsert, AdvanceList, AdvanceReissue, AdvanceUpdate,
           BackfillList, SettleList, ReleaseQuery, ReleaseList, SettleNoOutput, SettleDownload,
           SettleHSet, SettleUpdate, SettleAbort, ReleaseUpdate, StatementFails, SyncHash,
           AdvanceGet, BackfillOne, SettleClaim, ReleaseOne, List, world
  <2>2. pc[j] # "idle"
    BY <1>3, Zenon
       DEF JobStep, SyncFetch, SyncUpsert, AdvanceList, AdvanceReissue, AdvanceUpdate,
           BackfillList, SettleList, ReleaseQuery, ReleaseList, SettleNoOutput, SettleDownload,
           SettleHSet, SettleUpdate, SettleAbort, ReleaseUpdate, StatementFails, SyncHash,
           AdvanceGet, BackfillOne, SettleClaim, ReleaseOne, List, Pick
  <2> QED
    BY <2>1, <2>2, Zenon
<1> QED
  BY <1>1, <1>2, <1>3, Zenon

\* Named lock and cancel keep CycleInv.
LEMMA CycleNext ==
  ASSUME OneAtATime, TypeInv, CycleInv, [Next]_vars
  PROVE  CycleInv'
<1>0. /\ \A j \in Jobs : j \in Procs /\ j \notin Callers /\ j # None
      /\ \A c \in Callers : c \in Procs /\ c \notin Jobs
      /\ pc \in [Procs -> Pcs] /\ seen \in [Procs -> Views]
  BY ConstantsOK, Zenon DEF Procs, TypeInv, TypeOK
<1>1. ASSUME NEW j \in Jobs, JobStep(j)
      PROVE  CycleInv'
  <2>1. /\ \A r \in Procs \ {j} : pc'[r] = pc[r] /\ seen'[r] = seen[r]
    BY <1>1, JobFrame, Zenon DEF Frame, Apart
  <2> QED
    BY <1>0, <1>1, <2>1, JobLock, Zenon DEF CycleInv
<1>2. ASSUME NEW c \in Callers, CancelStep(c)
      PROVE  CycleInv'
  <2>1. \A r \in Procs \ {c} : pc'[r] = pc[r] /\ seen'[r] = seen[r]
    BY <1>2, CancelFrame, Zenon DEF Frame, Apart
  <2>2. lock' = lock
    BY <1>2, Zenon DEF CancelStep, CancelFallback, CancelPreempt, CancelUpsert, CancelRecheck,
                       CancelPost, CancelFails, CancelFetch, world
  <2>3. seen'[c] = NoView /\ pc'[c] \notin {"fallback", "upsert", "preempt2"}
    <3>0. c \in Procs /\ seen[c] = NoView /\ pc[c] \notin {"fallback", "upsert", "preempt2"}
      BY <1>0, Zenon DEF CycleInv
    <3>1. CASE Resume(c, "done")
      BY <3>0, <3>1, ResumeAt, Zenon
    <3>2. CASE /\ UNCHANGED seen
               /\ \E l \in {"preempt", "post", "recheck", "relread"} : Goto(c, l)
      BY <3>0, <3>2, GotoAt, Zenon
    <3>3. ASSUME NEW b \in Batches, CancelFetch(c, b)
          PROVE  UNCHANGED seen /\ Goto(c, "preempt")
      <4>1. db[b] # NoRow
        BY <3>3, Zenon DEF CancelFetch, OneAtATime
      <4> QED
        BY <3>3, <4>1, Zenon DEF CancelFetch
    <3>4. CancelPreempt(c) => UNCHANGED seen /\ \E l \in {"post", "recheck"} : Goto(c, l)
      BY <3>0 DEF CancelPreempt
    <3> QED
      BY <1>2, <3>0, <3>1, <3>2, <3>3, <3>4, Zenon
         DEF CancelStep, CancelFallback, CancelUpsert, CancelRecheck, CancelPost, CancelFails,
             CallRelease
  <2> QED
    BY <1>0, <2>1, <2>2, <2>3, Zenon DEF CycleInv
<1>3. ASSUME NEW p \in Procs, ReserveStep(p)
      PROVE  CycleInv'
  <2>1. \A r \in Procs \ {p} : pc'[r] = pc[r] /\ seen'[r] = seen[r]
    BY <1>3, ReserveFrame, Zenon DEF Frame, Apart
  <2>2. lock' = lock
    BY <1>3, Zenon DEF ReserveStep, ReserveRead, ReserveDelete, ReserveDecr, world
  <2>3. pc[p] # "idle"
    BY <1>3, ReserveAt, Zenon DEF ReleasePcs
  <2>4. seen'[p] = NoView \/ seen'[p] = seen[p]
    BY <1>3, ReserveAt, ResumeAt, Zenon
  <2>5. pc'[p] \notin {"fallback", "upsert", "preempt2"}
    <3>1. PICK l \in {"done", "settle", "release", "dbsettle", "dbrelease"} \cup ReleasePcs :
             Resume(p, l) \/ Goto(p, l)
      BY <1>3, ReserveAt, Zenon
    <3>2. pc'[p] = l
      BY <3>1, ResumeAt, GotoAt, Zenon
    <3> QED
      BY <3>2, Zenon DEF ReleasePcs
  <2> QED
    BY <1>0, <2>1, <2>2, <2>3, <2>4, <2>5, Zenon DEF CycleInv
<1>4. ASSUME NEW p \in Procs, Crash(p)
      PROVE  CycleInv'
  <2>1. \A r \in Procs \ {p} : pc'[r] = pc[r] /\ seen'[r] = seen[r]
    BY <1>4, CrashFrame, Zenon DEF Frame, Apart
  <2>2. lock' = IF lock = p THEN None ELSE lock
    BY <1>4, Zenon DEF Crash
  <2>3. /\ seen'[p] = NoView /\ pc'[p] = (IF p \in Jobs THEN "idle" ELSE "done")
    BY <1>4, ResumeAt, Zenon DEF Crash
  <2>4. (p \in Jobs => pc'[p] = "idle") /\ (p \in Callers => pc'[p] = "done")
    BY <1>0, <2>3, Zenon
  <2>5. ASSUME NEW j \in Jobs, pc'[j] # "idle"
        PROVE  lock' = j \/ \A i \in Jobs : i = j
    <3>1. p # j
      BY <2>4, <2>5, Zenon
    <3>2. pc[j] # "idle"
      BY <1>0, <2>1, <2>5, <3>1, Zenon
    <3> QED
      BY <2>2, <3>1, <3>2, Zenon DEF CycleInv
  <2>6. ASSUME NEW c \in Callers
        PROVE  seen'[c] = NoView /\ pc'[c] \notin {"fallback", "upsert", "preempt2"}
    BY <1>0, <2>1, <2>3, <2>4, Zenon DEF CycleInv
  <2> QED
    BY <2>5, <2>6, Zenon DEF CycleInv
<1>5. ASSUME NEW b \in Batches, Environment(b)
      PROVE  CycleInv'
  <2>1. lock' = lock /\ pc' = pc /\ seen' = seen
    BY <1>5, Zenon DEF Environment, DataPlaneCreate, DataPlanePoll, DataPlaneSettle, ProviderFinish,
                       ProviderForget, Age, GraceElapses, ExpireClaim, ExpireTask, world, local
  <2> QED
    BY <2>1, Zenon DEF CycleInv
<1>6. CASE LockLost
  <2>1. pc' = pc /\ seen' = seen /\ \A i, j \in Jobs : i = j
    BY <1>6, Zenon DEF LockLost, local, OneAtATime
  <2> QED
    BY <2>1, Zenon DEF CycleInv
<1>7. CASE UNCHANGED vars
  BY <1>7, Zenon DEF vars, world, local, CycleInv
<1> QED
  BY <1>1, <1>2, <1>3, <1>4, <1>5, <1>6, <1>7, Zenon DEF Next

-----------------------------------------------------------------------------
(* What a replica works on.                                                *)

\* What a replica has read it keeps no longer than it works on the batch.
SeenInv == \A j \in Jobs : pc[j] \notin SyncPcs \cup AdvancePcs => seen[j] = NoView

\* Outside SyncFromRedis and AdvanceStatus; from the settlement on.
ElsePcs == Pcs \ (SyncPcs \cup AdvancePcs)
SettlePcs == {"hset", "dbsettle"} \cup ReleasePcs

\* The places a replica can go to, with what it then works on and has read.
Done(j) == cur'[j] = None /\ seen'[j] = NoView /\ pc'[j] \in ElsePcs \ SettlePcs
ReadsHash(j) == \E b \in Batches : /\ pc[j] = "sync" /\ pc'[j] = "syncfetch"
                                   /\ cur'[j] = b /\ seen'[j] = hash[b] /\ hash[b].status # ""
ReadsProvider(j) == \E b \in todo[j] : /\ pc[j] = "advance" /\ pc'[j] \in AdvancePcs
                                       /\ cur'[j] = b /\ seen'[j] = prov[b]
                                       /\ todo'[j] = todo[j] \ {b}
GoesOn(j) == /\ \/ pc[j] = "syncfetch" /\ pc'[j] = "syncwrite"
                \/ pc[j] = "advreissue" /\ pc'[j] = "advwrite"
             /\ cur'[j] = cur[j] /\ seen'[j] = seen[j] /\ todo'[j] = todo[j]
SettlesOn(j) == /\ pc[j] \in ElsePcs /\ seen'[j] = seen[j] /\ pc'[j] \in ElsePcs
                /\ \/ pc'[j] \notin SettlePcs
                   \/ pc'[j] \in ReleasePcs /\ ret'[j] = "dbrelease"
                   \/ pc'[j] = "hset" /\ cur'[j] = cur[j] /\ prov[cur[j]].status = "completed"
                   \/ pc[j] = "hset" /\ cur'[j] = cur[j] /\ pc'[j] = "relread"

LEMMA ElsePcsList ==
  /\ \A l \in {"idle", "sync", "advance", "backfill", "settle", "release", "relist", "claimed",
               "abort", "dbrelease", "done"} : l \in ElsePcs \ SettlePcs
  /\ \A l \in SettlePcs : l \in ElsePcs
  BY PcSets, Zenon DEF ElsePcs, SettlePcs, SyncPcs, AdvancePcs, ReleasePcs

\* Every step of a replica goes to one of these places.
LEMMA JobLocal ==
  ASSUME TypeInv, NEW j \in Jobs, JobStep(j)
  PROVE  Done(j) \/ ReadsHash(j) \/ ReadsProvider(j) \/ GoesOn(j) \/ SettlesOn(j)
<1>0. /\ j \in Procs /\ DOMAIN pc = Procs /\ DOMAIN cur = Procs /\ DOMAIN seen = Procs
      /\ DOMAIN ret = Procs /\ DOMAIN todo = Procs
  BY Constants, Zenon DEF TypeInv, TypeOK
<1>1. ASSUME NEW l \in {"idle", "sync", "advance", "settle", "release"}, Resume(j, l)
      PROVE  Done(j)
  BY <1>0, <1>1, ResumeAt, ElsePcsList, Zenon DEF Done
<1>2. CASE \/ JobEnd(j) \/ SyncUpsert(j) \/ AdvanceUpdate(j) \/ ReleaseUpdate(j)
           \/ StatementFails(j) \/ SettleAbort(j) \/ (SettleUpdate(j) /\ Resume(j, "settle"))
  BY <1>1, <1>2, Zenon DEF JobEnd, SyncUpsert, AdvanceUpdate, ReleaseUpdate, StatementFails,
                           SettleAbort
<1>3. ASSUME NEW k, NEW l, pc[j] = k, Goto(j, l), UNCHANGED seen,
             k \in {"idle", "sync", "advance", "backfill", "relist", "settle", "release",
                    "claimed", "hset", "dbsettle"},
             l \in {"sync", "advance", "backfill", "relist", "settle", "release", "claimed",
                    "abort"}
      PROVE  SettlesOn(j)
  <2>1. pc'[j] = l /\ seen'[j] = seen[j]
    BY <1>0, <1>3, GotoAt, Zenon
  <2>2. k \in ElsePcs
    BY <1>3, ElsePcsList, Zenon DEF SettlePcs
  <2> QED
    BY <1>3, <2>1, <2>2, ElsePcsList, Zenon DEF SettlesOn
<1>4. CASE \/ JobStart(j) \/ AdvanceList(j) \/ BackfillList(j) \/ SettleList(j)
           \/ ReleaseQuery(j) \/ ReleaseList(j) \/ (SettleUpdate(j) /\ ~Resume(j, "settle"))
  BY <1>3, <1>4, Zenon DEF JobStart, AdvanceList, BackfillList, SettleList, ReleaseQuery, List,
                           ReleaseList, SettleUpdate
<1>5. CASE SyncFetch(j) \/ AdvanceReissue(j)
  BY <1>0, <1>5, GotoAt, Zenon DEF SyncFetch, AdvanceReissue, GoesOn
<1>6. CASE SettleNoOutput(j) \/ \E b \in Batches : ReleaseOne(j, b)
  <2>1. /\ pc[j] \in {"claimed", "release"} /\ seen' = seen /\ Goto(j, "relread")
        /\ ret' = [ret EXCEPT ![j] = "dbrelease"]
    BY <1>6, Zenon DEF SettleNoOutput, ReleaseOne, CallRelease, Pick
  <2>2. pc'[j] = "relread" /\ ret'[j] = "dbrelease" /\ pc[j] \in ElsePcs
    BY <1>0, <2>1, GotoAt, ElsePcsList, Zenon
  <2> QED
    BY <2>1, <2>2, ElsePcsList, Zenon DEF SettlesOn, SettlePcs, ReleasePcs
<1>7. CASE SettleDownload(j)
  <2>1. /\ pc[j] = "claimed" /\ UNCHANGED <<seen, cur>>
        /\ Goto(j, "abort") \/ (Goto(j, "hset") /\ prov[cur[j]].status = "completed")
    BY <1>7, Zenon DEF SettleDownload
  <2>2. CASE Goto(j, "abort")
    BY <1>3, <2>1, <2>2, Zenon
  <2>3. CASE Goto(j, "hset") /\ prov[cur[j]].status = "completed"
    <3>1. pc'[j] = "hset" /\ pc[j] \in ElsePcs /\ pc'[j] \in ElsePcs
      BY <1>0, <2>1, <2>3, GotoAt, ElsePcsList, Zenon DEF SettlePcs
    <3> QED
      BY <2>1, <2>3, <3>1, Zenon DEF SettlesOn
  <2> QED
    BY <2>1, <2>2, <2>3, Zenon
<1>8. CASE SettleHSet(j)
  <2>1. CASE Goto(j, "abort")
    BY <1>3, <1>8, <2>1, Zenon DEF SettleHSet
  <2>2. CASE CallRelease(j, cur[j], "dbsettle")
    <3>1. pc[j] = "hset" /\ pc'[j] = "relread" /\ cur'[j] = cur[j] /\ seen' = seen
      BY <1>0, <1>8, <2>2, GotoAt, Zenon DEF SettleHSet, CallRelease
    <3>2. pc[j] \in ElsePcs /\ pc'[j] \in ElsePcs
      BY <3>1, ElsePcsList, Zenon DEF SettlePcs, ReleasePcs
    <3> QED
      BY <3>1, <3>2, Zenon DEF SettlesOn
  <2> QED
    BY <1>8, <2>1, <2>2, Zenon DEF SettleHSet
<1>9. ASSUME NEW b \in Batches, BackfillOne(j, b) \/ SettleClaim(j, b)
      PROVE  SettlesOn(j)
  <2>1. CASE UNCHANGED pc
    <3>1. pc'[j] = pc[j] /\ seen' = seen /\ pc[j] \in {"backfill", "settle"}
      BY <1>9, <2>1, Zenon DEF BackfillOne, SettleClaim, Pick
    <3>2. pc[j] \in ElsePcs \ SettlePcs
      BY <3>1, ElsePcsList, Zenon
    <3> QED
      BY <3>1, <3>2, Zenon DEF SettlesOn
  <2>2. CASE Goto(j, "claimed")
    BY <1>3, <1>9, <2>2, Zenon DEF BackfillOne, SettleClaim, Pick
  <2> QED
    BY <1>9, <2>1, <2>2, Zenon DEF BackfillOne, SettleClaim
<1>10. ASSUME NEW b \in Batches, SyncHash(j, b) \/ AdvanceGet(j, b)
       PROVE  ReadsHash(j) \/ ReadsProvider(j) \/ SettlesOn(j)
  <2>1. CASE UNCHANGED <<pc, seen>>
    <3>1. pc'[j] = pc[j] /\ seen' = seen /\ pc[j] \in {"sync", "advance"}
      BY <1>10, <2>1, Zenon DEF SyncHash, AdvanceGet, Pick
    <3>2. pc[j] \in ElsePcs \ SettlePcs
      BY <3>1, ElsePcsList, Zenon
    <3> QED
      BY <3>1, <3>2, Zenon DEF SettlesOn
  <2>2. CASE SyncHash(j, b) /\ ~UNCHANGED <<pc, seen>>
    <3>1. /\ pc[j] = "sync" /\ Goto(j, "syncfetch") /\ hash[b].status # ""
          /\ cur' = [cur EXCEPT ![j] = b] /\ seen' = [seen EXCEPT ![j] = hash[b]]
      BY <2>2, Zenon DEF SyncHash, Pick
    <3>2. cur'[j] = b /\ seen'[j] = hash[b] /\ pc'[j] = "syncfetch"
      BY <1>0, <3>1, GotoAt, Zenon
    <3> QED
      BY <3>1, <3>2, Zenon DEF ReadsHash
  <2>3. CASE AdvanceGet(j, b) /\ ~UNCHANGED <<pc, seen>>
    <3>1. /\ pc[j] = "advance" /\ b \in todo[j] /\ todo' = [todo EXCEPT ![j] = @ \ {b}]
          /\ \E l \in AdvancePcs : Goto(j, l)
          /\ cur' = [cur EXCEPT ![j] = b] /\ seen' = [seen EXCEPT ![j] = prov[b]]
      BY <2>3, Zenon DEF AdvanceGet, Pick, AdvancePcs
    <3>2. cur'[j] = b /\ seen'[j] = prov[b] /\ pc'[j] \in AdvancePcs /\ todo'[j] = todo[j] \ {b}
      BY <1>0, <3>1, GotoAt, Zenon
    <3> QED
      BY <3>1, <3>2, Zenon DEF ReadsProvider
  <2> QED
    BY <1>10, <2>1, <2>2, <2>3, Zenon
<1> QED
  BY <1>2, <1>4, <1>5, <1>6, <1>7, <1>8, <1>9, <1>10, Zenon DEF JobStep

\* Steps of the others do not touch what a replica works on.
SameLocals(j) == /\ pc'[j] = pc[j] /\ cur'[j] = cur[j] /\ seen'[j] = seen[j]
                 /\ snap'[j] = snap[j] /\ todo'[j] = todo[j] /\ ret'[j] = ret[j]

\* A step of releaseReserve, or the death of a replica.
Releases(j) == /\ pc[j] \in ReleasePcs /\ todo'[j] = todo[j]
               /\ cur'[j] = cur[j] /\ seen'[j] = seen[j] /\ ret'[j] = ret[j]
               /\ \/ pc'[j] \in ReleasePcs \cup {"dbrelease"}
                  \/ pc'[j] = "dbsettle" /\ ret[j] = "dbsettle"
Dies(j) == Done(j) /\ \/ pc'[j] = "idle"
                      \/ pc'[j] \in {"done", "settle", "release"} /\ pc[j] \in ReleasePcs

\* What a step of the system does to a replica.
LEMMA LocalStep ==
  ASSUME TypeInv, [Next]_vars, NEW j \in Jobs
  PROVE  SameLocals(j) \/ JobStep(j) \/ Releases(j) \/ Dies(j)
<1>0. j \in Procs /\ j \notin Callers /\ DOMAIN todo = Procs
  BY ConstantsOK, Zenon DEF Procs, TypeInv, TypeOK
<1>1. ASSUME NEW p \in Procs, p # j, Frame(p)
      PROVE  SameLocals(j)
  BY <1>0, <1>1, Zenon DEF Frame, Apart, SameLocals
<1>2. ASSUME NEW i \in Jobs, i # j, JobStep(i)
      PROVE  SameLocals(j)
  BY <1>1, <1>2, JobFrame, Constants, Zenon
<1>3. ASSUME NEW c \in Callers, CancelStep(c)
      PROVE  SameLocals(j)
  BY <1>0, <1>1, <1>3, CancelFrame, Constants, Zenon
<1>4. ASSUME NEW p \in Procs, p # j, ReserveStep(p) \/ Crash(p)
      PROVE  SameLocals(j)
  BY <1>1, <1>4, ReserveFrame, CrashFrame, Zenon
<1>5. CASE ReserveStep(j)
  <2>1. PICK l : /\ pc'[j] = l /\ pc[j] \in ReleasePcs /\ todo'[j] = todo[j]
                 /\ \/ l \in {"done", "settle", "release"} /\ Resume(j, l)
                    \/ l \in ReleasePcs /\ UNCHANGED <<cur, snap, seen, ret>>
                    \/ /\ l = ret[j] /\ l \in {"dbsettle", "dbrelease"}
                       /\ UNCHANGED <<cur, snap, seen, ret>>
    BY <1>0, <1>5, ReserveAt, ResumeAt, GotoAt, Zenon
  <2>2. CASE l \in {"done", "settle", "release"} /\ Resume(j, l)
    BY <1>0, <2>1, <2>2, ResumeAt, ElsePcsList, Zenon DEF Dies, Done
  <2>3. CASE l \in ReleasePcs /\ UNCHANGED <<cur, snap, seen, ret>>
    BY <2>1, <2>3, Zenon DEF Releases
  <2>4. CASE l = ret[j] /\ l \in {"dbsettle", "dbrelease"} /\ UNCHANGED <<cur, snap, seen, ret>>
    BY <2>1, <2>4, Zenon DEF Releases
  <2> QED
    BY <2>1, <2>2, <2>3, <2>4, Zenon
<1>6. CASE Crash(j)
  <2>1. Resume(j, "idle")
    BY <1>6, Zenon DEF Crash
  <2> QED
    BY <1>0, <2>1, ResumeAt, ElsePcsList, Zenon DEF Dies, Done
<1>7. ASSUME NEW b \in Batches, Environment(b)
      PROVE  UNCHANGED local
  BY <1>7, Zenon DEF Environment, DataPlaneCreate, DataPlanePoll, DataPlaneSettle, ProviderFinish,
                     ProviderForget, Age, GraceElapses, ExpireClaim, ExpireTask
<1>8. LockLost \/ UNCHANGED vars => UNCHANGED local
  BY Zenon DEF LockLost, vars, local
<1>9. UNCHANGED local => SameLocals(j)
  BY Zenon DEF local, SameLocals
<1> QED
  BY <1>2, <1>3, <1>4, <1>5, <1>6, <1>7, <1>8, <1>9, Zenon DEF Next

LEMMA SeenNext ==
  ASSUME TypeInv, SeenInv, [Next]_vars
  PROVE  SeenInv'
<1>1. ASSUME NEW j \in Jobs, pc'[j] \notin SyncPcs \cup AdvancePcs
      PROVE  seen'[j] = NoView
  <2>1. CASE SameLocals(j)
    BY <1>1, <2>1, Zenon DEF SameLocals, SeenInv
  <2>2. CASE Done(j)
    BY <2>2, Zenon DEF Done
  <2>3. CASE Releases(j)
    BY <1>1, <2>3, Zenon DEF Releases, SeenInv, ReleasePcs, SyncPcs, AdvancePcs
  <2>4. CASE ReadsHash(j) \/ ReadsProvider(j) \/ GoesOn(j)
    BY <1>1, <2>4, Zenon DEF ReadsHash, ReadsProvider, GoesOn, SyncPcs, AdvancePcs
  <2>5. CASE SettlesOn(j)
    BY <1>1, <2>5, Zenon DEF SettlesOn, SeenInv, ElsePcs
  <2> QED
    BY <2>1, <2>2, <2>3, <2>4, <2>5, LocalStep, JobLocal, Zenon DEF Dies
<1> QED
  BY <1>1, Zenon DEF SeenInv

\* A replica that has read of a settlement or makes one; that has read of a release.
Charging(j, b) ==
  /\ cur[j] = b
  /\ \/ seen[j].settle = "settled" \/ pc[j] \in {"hset", "dbsettle"}
     \/ pc[j] \in ReleasePcs /\ ret[j] = "dbsettle"
Freeing(j, b) == cur[j] = b /\ seen[j].settle = "released"

\* A replica comes to a sign from BATCH_TASK or from the provider only.
LEMMA LocalSigns ==
  ASSUME TypeInv, SeenInv, SignInv, [Next]_vars, NEW j \in Jobs, NEW b \in Batches
  PROVE  /\ Charging(j, b)' =>
              Charging(j, b) \/ hash[b].settle = "settled" \/ prov[b].status = "completed"
         /\ Freeing(j, b)' => Freeing(j, b) \/ hash[b].settle = "released"
<1>0. b # None /\ NoView.settle = ""
  BY ConstantsOK, Zenon DEF NoView
<1>1. CASE SameLocals(j)
  BY <1>1, Zenon DEF SameLocals, Charging, Freeing
<1>2. CASE Done(j)
  BY <1>0, <1>2, Zenon DEF Done, Charging, Freeing
<1>3. CASE Releases(j)
  BY <1>3, Zenon DEF Releases, Charging, Freeing, ReleasePcs
<1>4. CASE ReadsHash(j)
  <2>1. PICK c \in Batches : cur'[j] = c /\ seen'[j] = hash[c] /\ pc'[j] = "syncfetch"
    BY <1>4, Zenon DEF ReadsHash
  <2>2. pc'[j] \notin {"hset", "dbsettle"} \cup ReleasePcs
    BY <2>1, Zenon DEF ReleasePcs
  <2> QED
    BY <2>1, <2>2, Zenon DEF Charging, Freeing
<1>5. CASE ReadsProvider(j)
  <2>1. PICK c \in todo[j] : cur'[j] = c /\ seen'[j] = prov[c] /\ pc'[j] \in AdvancePcs
    BY <1>5, Zenon DEF ReadsProvider
  <2>2. c \in Batches
    BY <2>1, Constants, Zenon DEF TypeInv, TypeOK
  <2>3. seen'[j].settle = ""
    BY <2>1, <2>2, Zenon DEF SignInv
  <2>4. pc'[j] \notin {"hset", "dbsettle"} \cup ReleasePcs
    BY <2>1, Zenon DEF ReleasePcs, AdvancePcs
  <2> QED
    BY <2>3, <2>4, Zenon DEF Charging, Freeing
<1>6. CASE GoesOn(j)
  <2>1. pc'[j] \notin {"hset", "dbsettle"} \cup ReleasePcs
    BY <1>6, Zenon DEF ReleasePcs, GoesOn
  <2> QED
    BY <1>6, <2>1, Zenon DEF Charging, Freeing, GoesOn
<1>7. CASE SettlesOn(j)
  <2>1. seen'[j].settle = ""
    BY <1>0, <1>7, Zenon DEF SettlesOn, SeenInv, ElsePcs
  <2>2. ~Freeing(j, b)'
    BY <2>1, Zenon DEF Freeing
  <2>3. ASSUME Charging(j, b)'
        PROVE  Charging(j, b) \/ prov[b].status = "completed"
    <3>1. pc'[j] \in SettlePcs /\ cur'[j] = b
      BY <2>1, <2>3, Zenon DEF Charging, SettlePcs
    <3>2. ~(pc'[j] \in ReleasePcs /\ ret'[j] = "dbrelease")
      BY <2>1, <2>3, Zenon DEF Charging, ReleasePcs
    <3> QED
      BY <1>7, <3>1, <3>2, Zenon DEF SettlesOn, Charging
  <2> QED
    BY <2>2, <2>3, Zenon
<1> QED
  BY <1>1, <1>2, <1>3, <1>4, <1>5, <1>6, <1>7, LocalStep, JobLocal, Zenon DEF Dies

\* So do all signs, hence the two kinds of sign never meet.
LEMMA SignNext ==
  ASSUME TypeInv, SeenInv, ExistInv, SignInv, [Next]_vars,
         \A b \in Batches : db'[b].settle = "settled" => SettledSign(b)
  PROVE  SignInv'
<1>1. ASSUME NEW b \in Batches
      PROVE  /\ SettledSign(b)' => SettledSign(b) \/ prov[b].status = "completed"
             /\ ReleasedSign(b)' => ReleasedSign(b) \/ prov[b].status \in noSettleReleaseStatuses
  <2>1. \A j \in Jobs :
          /\ Charging(j, b)' =>
               Charging(j, b) \/ hash[b].settle = "settled" \/ prov[b].status = "completed"
          /\ Freeing(j, b)' => Freeing(j, b) \/ hash[b].settle = "released"
    BY LocalSigns, Zenon
  <2>2. /\ SettledSign(b) <=> \/ db[b].settle = "settled" \/ hash[b].settle = "settled"
                              \/ \E j \in Jobs : Charging(j, b)
        /\ SettledSign(b)' <=> \/ db'[b].settle = "settled" \/ hash'[b].settle = "settled"
                               \/ \E j \in Jobs : Charging(j, b)'
    BY Zenon DEF SettledSign, Charging
  <2>3. /\ ReleasedSign(b) <=> hash[b].settle = "released" \/ \E j \in Jobs : Freeing(j, b)
        /\ ReleasedSign(b)' <=> hash'[b].settle = "released" \/ \E j \in Jobs : Freeing(j, b)'
    BY Zenon DEF ReleasedSign, Freeing
  <2>4. \A j \in Jobs : cur[j] = b /\ pc[j] = "hset" => Charging(j, b)
    BY Zenon DEF Charging
  <2> QED
    BY <2>1, <2>2, <2>3, <2>4, HashStep, Zenon
<1>2. ASSUME NEW b \in Batches
      PROVE  /\ prov'[b].settle = ""
             /\ SettledSign(b)' => prov'[b].status \in {"completed", "gone"}
             /\ ReleasedSign(b)' => prov'[b].status \in noSettleReleaseStatuses \cup {"gone"}
             /\ ~(SettledSign(b)' /\ ReleasedSign(b)')
  <2>1. Kept(prov[b], prov'[b])
    BY ProvStep, Zenon
  <2>2. SettledSign(b)' => prov[b].status \in {"completed", "gone"}
    BY <1>1, Zenon DEF SignInv
  <2>3. ReleasedSign(b)' => prov[b].status \in noSettleReleaseStatuses \cup {"gone"}
    BY <1>1, Zenon DEF SignInv
  <2>4. SettledSign(b)' /\ ReleasedSign(b)' => prov[b].status = "gone"
    BY <2>2, <2>3, Zenon DEF noSettleReleaseStatuses
  <2>5. ~(SettledSign(b)' /\ ReleasedSign(b)')
    BY <1>1, <2>4, Zenon DEF SignInv, noSettleReleaseStatuses
  <2> QED
    BY <2>1, <2>2, <2>3, <2>5, Zenon DEF SignInv, Kept
<1> QED
  BY <1>2, Zenon DEF SignInv

-----------------------------------------------------------------------------
(* The statements that write rows.                                         *)

\* The statements that write a row of which the replica has read before.
Writes(j) == SyncUpsert(j) \/ AdvanceUpdate(j) \/ SettleUpdate(j) \/ ReleaseUpdate(j)

\* All other statements keep what a replica can rely on.
LEMMA DbQuiet ==
  ASSUME TypeInv, CycleInv, [Next]_vars, \A j \in Jobs : ~Writes(j)
  PROVE  \A b \in Batches : StillRead(db[b], db'[b])
<1>0. db \in [Batches -> Rows]
  BY Zenon DEF TypeInv, TypeOK
<1>1. UNCHANGED db => \A b \in Batches : StillRead(db[b], db'[b])
  BY Zenon DEF StillRead
<1>2. ASSUME NEW j \in Jobs, NEW b \in Batches, BackfillOne(j, b)
      PROVE  \A c \in Batches : StillRead(db[c], db'[c])
  <2>1. CASE UNCHANGED db
    BY <1>1, <2>1, Zenon
  <2>2. CASE db' = [db EXCEPT ![b] = IF prov[b].out THEN Touch([db[b] EXCEPT !.out = TRUE])
                                     ELSE db[b]]
    <3>1. Touch([db[b] EXCEPT !.out = TRUE]).settle = db[b].settle
          /\ Touch([db[b] EXCEPT !.out = TRUE]).status = db[b].status
      BY <1>0, Zenon DEF Touch, Rows
    <3>2. /\ db'[b] = Touch([db[b] EXCEPT !.out = TRUE]) \/ db'[b] = db[b]
          /\ \A c \in Batches \ {b} : db'[c] = db[c]
      BY <1>0, <2>2, Zenon
    <3> QED
      BY <3>1, <3>2, Zenon DEF StillRead
  <2> QED
    BY <1>2, <2>1, <2>2, Zenon DEF BackfillOne
<1>3. ASSUME NEW j \in Jobs, JobStep(j), ~UNCHANGED db
      PROVE  \E b \in Batches : BackfillOne(j, b)
  BY <1>3, Zenon
     DEF JobStep, JobStart, JobEnd, SyncFetch, AdvanceList, AdvanceReissue,
         BackfillList, SettleList, ReleaseQuery, ReleaseList, SettleNoOutput, SettleDownload,
         SettleHSet, SettleAbort, StatementFails, SyncHash,
         AdvanceGet, SettleClaim, ReleaseOne, List, Writes
<1>4. ASSUME NEW c \in Callers, CancelStep(c)
      PROVE  \A b \in Batches : StillRead(db[b], db'[b])
  <2>1. pc[c] \notin {"fallback", "upsert", "preempt2"}
    BY Zenon DEF CycleInv
  <2>2. CASE CancelPreempt(c) /\ db' # db
    <3>1. cur[c] \in Batches
      BY <2>2, Constants, PcSets, Zenon DEF CancelPreempt, TypeInv, ControlOK
    <3>2. /\ db[cur[c]].status = "in_progress"
          /\ db' = [db EXCEPT ![cur[c]].status = "cancelling"]
      BY <2>2, Zenon DEF CancelPreempt
    <3>3. /\ db'[cur[c]] = [db[cur[c]] EXCEPT !.status = "cancelling"]
          /\ \A b \in Batches \ {cur[c]} : db'[b] = db[b]
      BY <1>0, <3>1, <3>2, Zenon
    <3>4. db'[cur[c]].settle = db[cur[c]].settle /\ db'[cur[c]].status = "cancelling"
      <4>1. db[cur[c]] \in Rows
        BY <1>0, <3>1, Zenon
      <4>2. [db[cur[c]] EXCEPT !.status = "cancelling"].settle = db[cur[c]].settle
        BY <4>1, Zenon DEF Rows
      <4>3. [db[cur[c]] EXCEPT !.status = "cancelling"].status = "cancelling"
        BY <4>1, Zenon DEF Rows
      <4> QED
        BY <3>3, <4>2, <4>3, Zenon
    <3> QED
      BY <3>2, <3>3, <3>4, Zenon DEF StillRead
  <2>3. CASE ~(CancelPreempt(c) /\ db' # db)
    <3>1. UNCHANGED db
      BY <1>4, <2>1, <2>3, Zenon DEF CancelStep, CancelFallback, CancelUpsert, CancelRecheck,
                                     CancelPost, CancelFails, CancelFetch
    <3> QED
      BY <1>1, <3>1, Zenon
  <2> QED
    BY <2>2, <2>3, Zenon
<1>5. ASSUME NEW b \in Batches, Environment(b)
      PROVE  \A c \in Batches : StillRead(db[c], db'[c])
  <2>1. CASE GraceElapses(b)
    <3>1. /\ db'[b] = [db[b] EXCEPT !.ripe = TRUE]
          /\ \A c \in Batches \ {b} : db'[c] = db[c]
      BY <1>0, <2>1, Zenon DEF GraceElapses
    <3>2. db'[b].settle = db[b].settle /\ db'[b].status = db[b].status
      <4>1. db[b] \in Rows
        BY <1>0, Zenon
      <4> QED
        BY <3>1, <4>1, Zenon DEF Rows
    <3> QED
      BY <3>1, <3>2, Zenon DEF StillRead
  <2>2. CASE ~GraceElapses(b)
    <3>1. UNCHANGED db
      BY <1>5, <2>2, Zenon DEF Environment, DataPlaneCreate, DataPlanePoll, DataPlaneSettle,
            ProviderFinish, ProviderForget, Age, ExpireClaim, ExpireTask
    <3> QED
      BY <1>1, <3>1, Zenon
  <2> QED
    BY <2>1, <2>2, Zenon
<1>6. ASSUME NEW p \in Procs, ReserveStep(p) \/ Crash(p)
      PROVE  UNCHANGED db
  BY <1>6, ReserveAt, Zenon DEF Crash
<1>7. LockLost \/ UNCHANGED vars => UNCHANGED db
  BY Zenon DEF LockLost, vars
<1> QED
  BY <1>1, <1>2, <1>3, <1>4, <1>5, <1>6, <1>7, Zenon DEF Next

\* The rows that UpdateBatchTaskSettleStatus writes.
LEMMA SettledFields ==
  \A row \in Rows : \A old :
     Settled(row, old).status = row.status /\ Settled(row, old).settle = "settled"
  BY Zenon DEF Settled, Rows

LEMMA ReleasedFields ==
  \A row \in Rows : Released(row).status = row.status /\ Released(row).settle = "released"
  BY Zenon DEF Released, Touch, Rows

\* A row stays one of a submitted batch, and says settled only with a sign.
Sound(b) ==
  /\ Forward(db[b], db'[b])
  /\ db'[b].status # "" => prov[b].status # ""
  /\ db'[b].settle # "" => db'[b].status # ""
  /\ db'[b].settle = "settled" => SettledSign(b)

\* A statement that leaves what a replica can rely on is sound,
LEMMA UntouchedSound ==
  ASSUME TypeInv, ExistInv, NEW b \in Batches, db'[b] \in Rows, StillRead(db[b], db'[b])
  PROVE  Sound(b)
<1>0. db[b] \in Rows
  BY Zenon DEF TypeInv, TypeOK
<1>1. Forward(db[b], db'[b])
  BY <1>0, StillReadForward, Zenon
<1> QED
  BY <1>1, Zenon DEF Sound, StillRead, ExistInv, SettledSign

\* and so are the four writes, each of one row,
LEMMA DbWrite ==
  ASSUME TypeInv, ExistInv, SignInv, ReadInv, TypeInv', NEW j \in Jobs, Writes(j)
  PROVE  /\ cur[j] \in Batches /\ Sound(cur[j])
         /\ \A b \in Batches \ {cur[j]} : db'[b] = db[b]
<1>0. /\ db \in [Batches -> Rows] /\ \A b \in Batches : db'[b] \in Rows
      /\ seen[j] \in Views /\ snap[j] \in [Batches -> Rows]
  BY Constants, Zenon DEF TypeInv, TypeOK
<1>1. cur[j] \in Batches
  <2>1. pc[j] \in WorkPcs
    BY PcSets, Zenon DEF Writes, SyncUpsert, AdvanceUpdate, SettleUpdate, ReleaseUpdate
  <2> QED
    BY <2>1, Constants, Zenon DEF TypeInv, ControlOK
<1>2. PICK b \in Batches : b = cur[j]
  BY <1>1, Zenon
<1>3. db' = db => Sound(b)
  BY <1>0, <1>2, UntouchedSound, Zenon DEF StillRead
<1>4. ASSUME NEW row, db' = [db EXCEPT ![b] = row]
      PROVE  db'[b] = row /\ \A c \in Batches \ {b} : db'[c] = db[c]
  BY <1>0, <1>2, <1>4, Zenon
<1>5. CASE SyncUpsert(j)
  <2>1. db' = [db EXCEPT ![b] = Upserted(db[b], snap[j][b], seen[j])]
    BY <1>2, <1>5, Zenon DEF SyncUpsert, Upserted
  <2>2. db'[b] = Upserted(db[b], snap[j][b], seen[j]) /\ \A c \in Batches \ {b} : db'[c] = db[c]
    BY <1>4, <2>1, Zenon
  <2>3. pc[j] = "syncwrite" /\ pc[j] \in SyncPcs
    BY <1>5, Zenon DEF SyncUpsert, SyncPcs
  <2>4. /\ StillRead(snap[j][b], db[b]) /\ seen[j].status # "" /\ prov[b].status # ""
        /\ db[b].settle # "" => db[b].status # ""
    BY <1>2, <2>3, Zenon DEF ReadInv, ExistInv
  <2>5. seen[j].status # "gone"
    BY <2>3, Constants, Zenon DEF TypeInv, ControlOK
  <2>6. db[b].settle = "settled" => seen[j].settle # "released"
    BY <1>2, Zenon DEF SignInv, SettledSign, ReleasedSign
  <2>7. /\ Forward(db[b], db'[b]) /\ db'[b].status # ""
        /\ db'[b].settle = "settled" => db[b].settle = "settled" \/ seen[j].settle = "settled"
    <3>1. db[b] \in Rows /\ snap[j][b] \in Rows /\ seen[j].status \notin {"", "gone"}
      BY <1>0, <2>4, <2>5, Zenon
    <3>2. /\ Forward(db[b], Upserted(db[b], snap[j][b], seen[j]))
          /\ Upserted(db[b], snap[j][b], seen[j]).status # ""
          /\ Upserted(db[b], snap[j][b], seen[j]).settle = "settled" =>
               db[b].settle = "settled" \/ seen[j].settle = "settled"
      BY <1>0, <2>4, <2>6, <3>1, MergeForward, Zenon
    <3>3. /\ Forward(db[b], db'[b]) /\ db'[b].status # ""
      BY <2>2, <3>2, Zenon
    <3>4. db'[b].settle = "settled" => db[b].settle = "settled" \/ seen[j].settle = "settled"
      BY <2>2, <3>2, Zenon
    <3> QED
      BY <3>3, <3>4, Zenon
  <2> QED
    BY <1>1, <1>2, <2>2, <2>4, <2>7, Zenon DEF Sound, SettledSign
<1>6. CASE AdvanceUpdate(j) /\ db' # db
  <2>1. db' = [db EXCEPT ![b] = Advanced(db[b], snap[j][b], seen[j])] /\ pc[j] = "advwrite"
    BY <1>2, <1>6, Zenon DEF AdvanceUpdate
  <2>2. db'[b] = Advanced(db[b], snap[j][b], seen[j]) /\ \A c \in Batches \ {b} : db'[c] = db[c]
    BY <1>4, <2>1, Zenon
  <2>3. pc[j] \in AdvancePcs
    BY <2>1, Zenon DEF AdvancePcs
  <2>4. Open(db[b]) /\ seen[j].status # "" /\ prov[b].status # "" /\ db[b] \in Rows
    BY <1>0, <1>2, <2>3, Zenon DEF ReadInv, ExistInv
  <2>5. Forward(db[b], db'[b]) /\ db'[b].status # "" /\ db'[b].settle = db[b].settle
    <3>1. /\ Forward(db[b], Advanced(db[b], snap[j][b], seen[j]))
          /\ Advanced(db[b], snap[j][b], seen[j]).status # ""
          /\ Advanced(db[b], snap[j][b], seen[j]).settle = db[b].settle
      BY <1>0, <2>4, AdvanceForward, Zenon
    <3> QED
      BY <2>2, <3>1, Zenon
  <2> QED
    BY <1>1, <1>2, <2>2, <2>4, <2>5, Zenon DEF Sound, SettledSign
<1>7. CASE SettleUpdate(j) /\ db' # db
  <2>1. /\ db' = [db EXCEPT ![b] = Settled(db[b], snap[j][b])] /\ pc[j] = "dbsettle"
        /\ db[b].settle = "reserved"
    BY <1>2, <1>7, Zenon DEF SettleUpdate
  <2>2. db'[b] = Settled(db[b], snap[j][b]) /\ \A c \in Batches \ {b} : db'[c] = db[c]
    BY <1>4, <2>1, Zenon
  <2>3. db'[b].status = db[b].status /\ db'[b].settle = "settled"
    <3>1. db[b] \in Rows
      BY <1>0, Zenon
    <3>2. /\ Settled(db[b], snap[j][b]).status = db[b].status
          /\ Settled(db[b], snap[j][b]).settle = "settled"
      BY <3>1, SettledFields, Zenon
    <3> QED
      BY <2>2, <3>2, Zenon
  <2>4. Forward(db[b], db'[b])
    BY <2>1, <2>3, Zenon DEF Forward
  <2>5. SettledSign(b)
    BY <1>2, <2>1, Zenon DEF SettledSign
  <2> QED
    BY <1>1, <1>2, <2>1, <2>2, <2>3, <2>4, <2>5, Zenon DEF Sound, ExistInv
<1>8. CASE ReleaseUpdate(j) /\ db' # db
  <2>1. db' = [db EXCEPT ![b] = Released(db[b])] /\ db[b].settle = "reserved"
    BY <1>2, <1>8, Zenon DEF ReleaseUpdate
  <2>2. db'[b] = Released(db[b]) /\ \A c \in Batches \ {b} : db'[c] = db[c]
    BY <1>4, <2>1, Zenon
  <2>3. db'[b].status = db[b].status /\ db'[b].settle = "released"
    <3>1. db[b] \in Rows
      BY <1>0, Zenon
    <3>2. Released(db[b]).status = db[b].status /\ Released(db[b]).settle = "released"
      BY <3>1, ReleasedFields, Zenon
    <3> QED
      BY <2>2, <3>2, Zenon
  <2>4. Forward(db[b], db'[b])
    BY <2>1, <2>3, Zenon DEF Forward
  <2> QED
    BY <1>1, <1>2, <2>1, <2>2, <2>3, <2>4, Zenon DEF Sound, ExistInv
<1> QED
  BY <1>1, <1>2, <1>3, <1>5, <1>6, <1>7, <1>8, Zenon DEF Writes

\* and so every step.
LEMMA DbStep ==
  ASSUME TypeInv, CycleInv, ExistInv, SignInv, ReadInv, TypeInv', [Next]_vars
  PROVE  \A b \in Batches : Sound(b)
<1>0. \A b \in Batches : db'[b] \in Rows
  BY Zenon DEF TypeInv, TypeOK
<1>1. CASE \A j \in Jobs : ~Writes(j)
  BY <1>0, <1>1, DbQuiet, UntouchedSound, Zenon
<1>2. ASSUME NEW j \in Jobs, Writes(j)
      PROVE  \A b \in Batches : Sound(b)
  <2>1. \A b \in Batches \ {cur[j]} : StillRead(db[b], db'[b])
    BY <1>2, DbWrite, Zenon DEF StillRead
  <2> QED
    BY <1>0, <1>2, <2>1, DbWrite, UntouchedSound, Zenon
<1> QED
  BY <1>1, <1>2, Zenon

-----------------------------------------------------------------------------
(* The inductive step and the theorem.                                     *)

\* What a replica reads is about a submitted batch.
LEMMA ExistNext ==
  ASSUME TypeInv, CycleInv, SeenInv, ExistInv, SignInv, ReadInv, TypeInv', [Next]_vars
  PROVE  ExistInv'
<1>1. \A b \in Batches : Kept(prov[b], prov'[b]) /\ Sound(b)
  BY ProvStep, DbStep, Zenon
<1>2. \A b \in Batches : /\ db'[b].status # "" \/ hash'[b].status # "" => prov'[b].status # ""
                         /\ db'[b].settle # "" => db'[b].status # ""
  BY <1>1, HashStep, Zenon DEF Kept, Sound
<1>3. ASSUME NEW j \in Jobs, pc'[j] \in SyncPcs \cup AdvancePcs
      PROVE  seen'[j].status # "" /\ prov'[cur'[j]].status # ""
  <2>1. \A b \in Batches : prov[b].status # "" => prov'[b].status # ""
    BY <1>1, Zenon DEF Kept
  <2>2. ASSUME pc[j] \in SyncPcs \cup AdvancePcs, seen'[j] = seen[j], cur'[j] = cur[j]
        PROVE  seen'[j].status # "" /\ prov'[cur'[j]].status # ""
    <3>1. pc[j] \in WorkPcs
      BY <2>2, PcSets, Zenon DEF SyncPcs, AdvancePcs
    <3>2. cur[j] \in Batches
      BY <3>1, Constants, Zenon DEF TypeInv, ControlOK
    <3> QED
      BY <2>1, <2>2, <3>2, Zenon DEF ExistInv
  <2>3. CASE SameLocals(j)
    BY <1>3, <2>2, <2>3, Zenon DEF SameLocals
  <2>4. CASE Releases(j)
    BY <1>3, <2>4, Zenon DEF Releases, ReleasePcs, SyncPcs, AdvancePcs
  <2>5. CASE ReadsHash(j)
    <3>1. PICK b \in Batches : cur'[j] = b /\ seen'[j] = hash[b] /\ hash[b].status # ""
      BY <2>5, Zenon DEF ReadsHash
    <3>2. prov[b].status # ""
      BY <3>1, Zenon DEF ExistInv
    <3> QED
      BY <2>1, <3>1, <3>2, Zenon
  <2>6. CASE ReadsProvider(j)
    <3>1. PICK b \in todo[j] : cur'[j] = b /\ seen'[j] = prov[b] /\ pc[j] = "advance"
      BY <2>6, Zenon DEF ReadsProvider
    <3>2. b \in Batches
      BY Constants, Zenon DEF TypeInv, TypeOK
    <3>3. Open(db[b])
      BY <3>1, Zenon DEF ReadInv
    <3>4. db[b].status # ""
      BY <3>3, Zenon DEF Open
    <3>5. prov[b].status # ""
      BY <3>2, <3>4, Zenon DEF ExistInv
    <3> QED
      BY <2>1, <3>1, <3>2, <3>5, Zenon
  <2>7. CASE GoesOn(j)
    BY <2>2, <2>7, Zenon DEF GoesOn, SyncPcs, AdvancePcs
  <2>8. CASE Done(j) \/ SettlesOn(j)
    BY <1>3, <2>8, Zenon DEF Done, SettlesOn, ElsePcs
  <2> QED
    BY <2>3, <2>4, <2>5, <2>6, <2>7, <2>8, LocalStep, JobLocal, Zenon DEF Dies
<1> QED
  BY <1>2, <1>3, Zenon DEF ExistInv

\* How a replica comes to the loop of AdvanceStatus.
LEMMA AdvanceEntry ==
  ASSUME TypeInv, NEW j \in Jobs, JobStep(j), pc'[j] = "advance"
  PROVE  \/ pc[j] \in {"advance", "advwrite"} /\ todo'[j] \subseteq todo[j]
         \/ db' = db /\ \A b \in todo'[j] : b \in Batches /\ Open(db[b])
<1>0. j \in Procs /\ DOMAIN todo = Procs /\ DOMAIN pc = Procs /\ db \in [Batches -> Rows]
  BY Constants, Zenon DEF TypeInv, TypeOK
<1>1. ASSUME NEW l, l # "advance", Goto(j, l) \/ Resume(j, l)
      PROVE  FALSE
  BY <1>0, <1>1, GotoAt, ResumeAt, Zenon
<1>2. CASE \/ JobStart(j) \/ JobEnd(j) \/ SyncFetch(j) \/ SyncUpsert(j) \/ AdvanceReissue(j)
           \/ BackfillList(j) \/ SettleList(j) \/ ReleaseQuery(j) \/ ReleaseList(j)
           \/ SettleNoOutput(j) \/ SettleDownload(j) \/ SettleHSet(j) \/ SettleUpdate(j)
           \/ SettleAbort(j)
  BY <1>1, <1>2, Zenon
     DEF JobStart, JobEnd, SyncFetch, SyncUpsert, AdvanceReissue, BackfillList, SettleList,
         ReleaseQuery, ReleaseList, SettleNoOutput, SettleDownload, SettleHSet, SettleUpdate,
         SettleAbort, List, CallRelease
<1>3. CASE ReleaseUpdate(j)
  <2>1. \E l : l # "advance" /\ Resume(j, l)
    BY <1>3, Zenon DEF ReleaseUpdate
  <2> QED
    BY <1>1, <2>1, Zenon
<1>4. CASE StatementFails(j)
  <2>1. \/ \E l : l # "advance" /\ Resume(j, l)
        \/ pc[j] = "advwrite" /\ todo' = todo
    BY <1>4, Zenon DEF StatementFails
  <2> QED
    BY <1>1, <2>1, Zenon
<1>5. CASE AdvanceUpdate(j)
  BY <1>5, Zenon DEF AdvanceUpdate
<1>6. CASE AdvanceList(j)
  <2> DEFINE S == {b \in Batches : db[b].status # "" /\ ~IsTerminal(db[b].status)}
  <2>1. db' = db /\ (todo'[j] = S \/ todo'[j] = {})
    BY <1>0, <1>6, Zenon DEF AdvanceList, List
  <2>2. \A b \in S : b \in Batches /\ Open(db[b])
    BY <1>0, OpenStatus, Zenon
  <2> HIDE DEF S
  <2> QED
    BY <2>1, <2>2, Zenon
<1>7. ASSUME NEW b \in Batches,
             \/ SyncHash(j, b) \/ AdvanceGet(j, b) \/ BackfillOne(j, b) \/ SettleClaim(j, b)
             \/ ReleaseOne(j, b)
      PROVE  pc[j] \in {"advance", "advwrite"} /\ todo'[j] \subseteq todo[j]
  <2>1. todo'[j] = todo[j] \ {b}
    BY <1>0, <1>7, Zenon DEF SyncHash, AdvanceGet, BackfillOne, SettleClaim, ReleaseOne, Pick
  <2>2. \/ pc' = pc \/ Goto(j, "syncfetch") \/ Goto(j, "claimed") \/ Goto(j, "relread")
        \/ pc[j] = "advance"
    BY <1>7, Zenon DEF SyncHash, AdvanceGet, BackfillOne, SettleClaim, ReleaseOne, CallRelease, Pick
  <2>3. pc[j] = "advance"
    BY <1>1, <2>2, Zenon
  <2> QED
    BY <2>1, <2>3, Zenon
<1> QED
  BY <1>2, <1>3, <1>4, <1>5, <1>6, <1>7, Zenon DEF JobStep

\* A write ends the work on the batch.
LEMMA WritesAt ==
  ASSUME TypeInv, NEW j \in Jobs, Writes(j)
  PROVE  /\ pc[j] # "idle" /\ JobStep(j) /\ todo' = todo
         /\ pc'[j] \notin {"syncwrite"} \cup AdvancePcs
         /\ pc'[j] = "advance" => pc[j] = "advwrite"
<1>0. j \in Procs
  BY Constants, Zenon
<1>1. JobStep(j)
  BY Zenon DEF Writes, JobStep
<1>2. pc[j] # "idle" /\ todo' = todo
  BY Zenon DEF Writes, SyncUpsert, AdvanceUpdate, SettleUpdate, ReleaseUpdate
<1>3. PICK l \in {"sync", "advance", "settle", "release", "abort"} :
        /\ Resume(j, l) \/ Goto(j, l)
        /\ l = "advance" => pc[j] = "advwrite"
  BY Zenon DEF Writes, SyncUpsert, AdvanceUpdate, SettleUpdate, ReleaseUpdate
<1>4. pc'[j] = l
  BY <1>0, <1>3, ResumeAt, GotoAt, Zenon
<1> QED
  BY <1>1, <1>2, <1>3, <1>4, Zenon DEF AdvancePcs

\* ReadInv, for one replica.
Reads(j) ==
  /\ pc[j] = "syncwrite" => StillRead(snap[j][cur[j]], db[cur[j]])
  /\ pc[j] \in {"advance"} \cup AdvancePcs => \A b \in todo[j] : Open(db[b])
  /\ pc[j] \in AdvancePcs => Open(db[cur[j]]) /\ cur[j] \notin todo[j]

\* With the one write its own, or none.
LEMMA ReadsNext ==
  ASSUME TypeInv, CycleInv, ExistInv, SignInv, ReadInv, TypeInv', [Next]_vars, NEW j \in Jobs
  PROVE  Reads(j)'
<1>0. j \in Procs /\ todo[j] \subseteq Batches /\ Reads(j)
  BY Constants, Zenon DEF TypeInv, TypeOK, ReadInv, Reads
<1>1. pc[j] \in {"syncwrite", "syncfetch"} \cup AdvancePcs => cur[j] \in Batches
  <2>1. pc[j] \in {"syncwrite", "syncfetch"} \cup AdvancePcs => pc[j] \in WorkPcs
    BY PcSets, Zenon DEF AdvancePcs
  <2> QED
    BY <1>0, <2>1, Zenon DEF TypeInv, ControlOK
<1>2. ASSUME pc'[j] \notin {"syncwrite", "advance"} \cup AdvancePcs
      PROVE  Reads(j)'
  BY <1>2, Zenon DEF Reads
<1>3. CASE \A i \in Jobs : ~Writes(i)
  <2>0. \A b \in Batches : StillRead(db[b], db'[b])
    BY <1>3, DbQuiet, Zenon
  <2>1. \A b \in Batches : Open(db[b]) => Open(db'[b])
    BY <2>0, StillReadOpen, Zenon
  <2>2. CASE SameLocals(j)
    <3>1. ASSUME pc'[j] = "syncwrite"
          PROVE  StillRead(snap'[j][cur'[j]], db'[cur'[j]])
      <4>1. pc[j] = "syncwrite" /\ snap'[j][cur'[j]] = snap[j][cur[j]] /\ cur'[j] = cur[j]
        BY <2>2, <3>1, Zenon DEF SameLocals
      <4>2. StillRead(snap[j][cur[j]], db[cur[j]]) /\ StillRead(db[cur[j]], db'[cur[j]])
        BY <1>0, <1>1, <2>0, <4>1, Zenon DEF Reads
      <4>3. StillRead(snap[j][cur[j]], db'[cur[j]])
        BY <4>2, StillReadOpen, Zenon
      <4> QED
        BY <4>1, <4>3, Zenon
    <3>2. ASSUME pc'[j] \in {"advance"} \cup AdvancePcs
          PROVE  \A b \in todo'[j] : Open(db'[b])
      BY <1>0, <2>1, <2>2, <3>2, Zenon DEF SameLocals, Reads
    <3>3. ASSUME pc'[j] \in AdvancePcs
          PROVE  Open(db'[cur'[j]]) /\ cur'[j] \notin todo'[j]
      BY <1>0, <1>1, <2>1, <2>2, <3>3, Zenon DEF SameLocals, Reads
    <3> QED
      BY <3>1, <3>2, <3>3, Zenon DEF Reads
  <2>3. CASE Releases(j)
    <3>1. pc'[j] \in {"dbrelease", "dbsettle"} \cup ReleasePcs
      BY <2>3, Zenon DEF Releases
    <3> QED
      BY <1>2, <3>1, Zenon DEF ReleasePcs, AdvancePcs
  <2>4. CASE Dies(j)
    <3>1. pc'[j] \in {"idle", "done", "settle", "release"}
      BY <2>4, Zenon DEF Dies
    <3> QED
      BY <1>2, <3>1, Zenon DEF AdvancePcs
  <2>5. CASE JobStep(j)
    <3>1. CASE pc'[j] = "advance"
      <4>1. \A b \in todo'[j] : Open(db'[b])
        <5>1. CASE pc[j] \in {"advance", "advwrite"} /\ todo'[j] \subseteq todo[j]
          BY <1>0, <2>1, <5>1, Zenon DEF Reads, AdvancePcs
        <5>2. CASE db' = db /\ \A b \in todo'[j] : b \in Batches /\ Open(db[b])
          BY <5>2, Zenon
        <5> QED
          BY <2>5, <3>1, <5>1, <5>2, AdvanceEntry, Zenon
      <4>2. pc'[j] # "syncwrite" /\ pc'[j] \notin AdvancePcs
        BY <3>1, Zenon DEF AdvancePcs
      <4> QED
        BY <4>1, <4>2, Zenon DEF Reads
    <3>2. CASE pc'[j] # "advance"
      <4>1. CASE Done(j) \/ ReadsHash(j) \/ SettlesOn(j)
        <5>1. pc'[j] \notin {"syncwrite"} \cup AdvancePcs
          BY <4>1, Zenon DEF Done, ReadsHash, SettlesOn, ElsePcs, SyncPcs, AdvancePcs
        <5> QED
          BY <1>2, <3>2, <5>1, Zenon
      <4>2. CASE ReadsProvider(j)
        <5>1. PICK b \in todo[j] : /\ pc[j] = "advance" /\ pc'[j] \in AdvancePcs
                                   /\ cur'[j] = b /\ todo'[j] = todo[j] \ {b}
          BY <4>2, Zenon DEF ReadsProvider
        <5>2. \A c \in todo[j] : Open(db'[c])
          BY <1>0, <2>1, <5>1, Zenon DEF Reads
        <5>3. pc'[j] # "syncwrite"
          BY <5>1, Zenon DEF AdvancePcs
        <5> QED
          BY <5>1, <5>2, <5>3, Zenon DEF Reads
      <4>3. CASE GoesOn(j) /\ pc'[j] = "syncwrite"
        <5>1. SyncFetch(j)
          <6>1. pc[j] = "syncfetch" /\ pc'[j] # "sync"
            BY <4>3, Zenon DEF GoesOn
          <6>2. ~StatementFails(j)
            BY <1>0, <4>3, <6>1, ResumeAt, Zenon DEF StatementFails
          <6> QED
            BY <2>5, <6>1, <6>2, Zenon
               DEF JobStep, JobStart, JobEnd, SyncUpsert, AdvanceList, AdvanceReissue,
                   AdvanceUpdate, BackfillList, SettleList, ReleaseQuery, ReleaseList,
                   SettleNoOutput, SettleDownload, SettleHSet, SettleUpdate, SettleAbort,
                   ReleaseUpdate, SyncHash, AdvanceGet, BackfillOne, SettleClaim, ReleaseOne,
                   List, Pick
        <5>2. db' = db /\ cur' = cur /\ snap' = [snap EXCEPT ![j][cur[j]] = db[cur[j]]]
          BY <5>1, Zenon DEF SyncFetch
        <5>3. snap \in [Procs -> [Batches -> Rows]] /\ cur[j] \in Batches
          BY <1>1, <4>3, Zenon DEF TypeInv, TypeOK, GoesOn
        <5>4. snap'[j][cur[j]] = db[cur[j]]
          BY <1>0, <5>2, <5>3
        <5>5. StillRead(snap'[j][cur'[j]], db'[cur'[j]])
          BY <5>2, <5>4, Zenon DEF StillRead
        <5>6. pc'[j] \notin {"advance"} \cup AdvancePcs
          BY <4>3, Zenon DEF AdvancePcs
        <5> QED
          BY <5>5, <5>6, Zenon DEF Reads
      <4>4. CASE GoesOn(j) /\ pc'[j] # "syncwrite"
        <5>1. pc[j] \in AdvancePcs /\ todo'[j] = todo[j] /\ cur'[j] = cur[j]
          BY <4>4, Zenon DEF GoesOn, AdvancePcs
        <5> QED
          BY <1>0, <1>1, <2>1, <4>4, <5>1, Zenon DEF Reads
      <4> QED
        BY <2>5, <4>1, <4>2, <4>3, <4>4, JobLocal, Zenon
    <3> QED
      BY <3>1, <3>2, Zenon
  <2> QED
    BY <2>2, <2>3, <2>4, <2>5, LocalStep, Zenon
<1>4. ASSUME NEW i \in Jobs, Writes(i), i # j
      PROVE  Reads(j)'
  <2>1. JobStep(i) /\ pc[i] # "idle"
    BY <1>4, WritesAt, Zenon
  <2>2. pc[j] = "idle"
    BY <1>4, <2>1, Zenon DEF CycleInv
  <2>3. pc'[j] = pc[j]
    BY <1>0, <1>4, <2>1, JobFrame, Zenon DEF Frame, Apart
  <2> QED
    BY <1>2, <2>2, <2>3, Zenon DEF AdvancePcs
<1>5. CASE Writes(j)
  <2>1. CASE pc'[j] = "advance"
    <3>1. pc[j] = "advwrite" /\ todo' = todo /\ pc'[j] \notin {"syncwrite"} \cup AdvancePcs
      BY <1>5, <2>1, WritesAt, Zenon
    <3>2. (\A b \in todo[j] : Open(db[b])) /\ cur[j] \notin todo[j]
      BY <1>0, <3>1, Zenon DEF Reads, AdvancePcs
    <3>3. \A b \in Batches \ {cur[j]} : db'[b] = db[b]
      BY <1>5, DbWrite, Zenon
    <3>4. \A b \in todo'[j] : Open(db'[b])
      BY <1>0, <3>1, <3>2, <3>3, Zenon
    <3> QED
      BY <3>1, <3>4, Zenon DEF Reads
  <2>2. CASE pc'[j] # "advance"
    BY <1>2, <1>5, <2>2, WritesAt, Zenon
  <2> QED
    BY <2>1, <2>2, Zenon
<1> QED
  BY <1>3, <1>4, <1>5, Zenon

\* The inductive invariant.
RowsInv == TypeInv /\ RowInv /\ SeenInv

LEMMA RowsInit == Init => RowsInv
<1> SUFFICES ASSUME Init PROVE RowsInv
  OBVIOUS
<1>1. TypeInv
  BY TypeInit, Zenon
<1>2. /\ \A p \in Procs : pc[p] = "idle" /\ seen[p] = NoView /\ cur[p] = None
      /\ \A b \in Batches : db[b] = NoRow /\ hash[b] = NoView /\ prov[b] = NoView
  BY Zenon DEF Init, NoRows
<1>3. NoRow.status = "" /\ NoRow.settle = "" /\ NoView.status = "" /\ NoView.settle = ""
  BY Zenon DEF NoRow, NoView
<1>4. CycleInv /\ SeenInv
  BY <1>2, Constants, Zenon DEF CycleInv, SeenInv
<1>5. ExistInv
  BY <1>2, <1>3, Constants, Zenon DEF ExistInv, SyncPcs, AdvancePcs
<1>6. SignInv
  <2>1. \A b \in Batches : b # None
    BY ConstantsOK, Zenon
  <2> QED
    BY <1>2, <1>3, <2>1, Constants, Zenon DEF SignInv, SettledSign, ReleasedSign
<1>7. ReadInv
  BY <1>2, Constants, Zenon DEF ReadInv, AdvancePcs
<1> QED
  BY <1>1, <1>4, <1>5, <1>6, <1>7, Zenon DEF RowsInv, RowInv

\* The invariant is inductive, and a step from it moves rows forward.
LEMMA RowsNext ==
  ASSUME OneAtATime, RowsInv, [Next]_vars
  PROVE  RowsInv' /\ \A b \in Batches : Forward(db[b], db'[b])
<1>1. TypeInv /\ CycleInv /\ ExistInv /\ SignInv /\ ReadInv /\ SeenInv
  BY Zenon DEF RowsInv, RowInv
<1>2. TypeInv'
  BY <1>1, TypeStep, Zenon
<1>3. \A b \in Batches : Sound(b)
  BY <1>1, <1>2, DbStep, Zenon
<1>4. CycleInv' /\ SeenInv' /\ ExistInv'
  BY <1>1, <1>2, CycleNext, SeenNext, ExistNext, Zenon
<1>5. SignInv'
  BY <1>1, <1>3, SignNext, Zenon DEF Sound
<1>6. ReadInv'
  <2>1. \A j \in Jobs : Reads(j)'
    BY <1>1, <1>2, ReadsNext, Zenon
  <2> QED
    BY <2>1, Zenon DEF ReadInv, Reads
<1> QED
  BY <1>2, <1>3, <1>4, <1>5, <1>6, Zenon DEF RowsInv, RowInv, Sound

\* What a row of batch_tasks says is never taken back, by a merge of an older
\* hash (SyncFromRedis), by a patch computed from an older read (AdvanceStatus),
\* by a settlement or by a cancel: for any number of batches, replicas and
\* requests, with every call failing and processes dying, as long as the named
\* lock holds for a whole cycle and a cancel comes after the first sync.
THEOREM RowsOnlyMoveForward ==
  ASSUME OneAtATime
  PROVE  Spec => RowsMoveForward
<1>1. Init => RowsInv
  BY RowsInit
<1>2. RowsInv /\ [Next]_vars => RowsInv'
  BY RowsNext
<1>3. RowsInv /\ [Next]_vars =>
        [\A b \in Batches :
           /\ IsTerminal(db[b].status) => db'[b].status = db[b].status
           /\ db[b].settle \in {"settled", "released"} => db'[b].settle # "reserved"
           /\ db[b].settle = "settled" => db'[b].settle = "settled"]_vars
  BY RowsNext, Zenon DEF Forward
<1> QED
  BY <1>1, <1>2, <1>3, PTL DEF Spec, RowsMoveForward
=============================================================================
