-------------------------- MODULE BatchTasksProofs --------------------------
(***************************************************************************)
(* Theorems about BatchTasks, for any number of batches, plans, replicas   *)
(* and requests.                                                           *)
(***************************************************************************)
EXTENDS BatchTasks, TLAPS

-----------------------------------------------------------------------------
(* Type correctness.                                                       *)

\* Where a process works on a batch.
WorkPcs == Pcs \ (JobLoops \cup {"idle", "relist", "done"})

\* The control invariant that makes TypeOK inductive: at work there is a
\* batch, and a 404 of the provider is never taken for the status of a row.
ControlOK ==
    /\ \A p \in Procs : pc[p] \in WorkPcs => cur[p] \in Batches
    /\ \A b \in Batches : hash[b].status # "gone"
    /\ \A p \in Procs : pc[p] \notin {"advreissue", "advwrite"} => seen[p].status # "gone"

TypeInv == TypeOK /\ ControlOK

LEMMA Constants == /\ NoRow \in Rows
                   /\ NoView \in Views /\ NoView.status = ""
                   /\ NoRows \in [Batches -> Rows]
                   /\ NoUnits \in [Plans -> Nat]
                   /\ Reserve \in [Batches -> [Plans -> Nat]]
                   /\ \A p \in Jobs : p \in Procs
                   /\ \A p \in Callers : p \in Procs
  BY ConstantsOK DEF NoRow, Rows, NoView, Views, NoRows, NoUnits, Procs

\* The ReserveDecr script clamps at zero.
LEMMA Clamp == \A m, n \in Nat : (IF m > n THEN m - n ELSE 0) \in Nat
  OBVIOUS

LEMMA Arithmetic == /\ \A m, n \in Nat : m + n \in Nat
                    /\ \A m \in Nat : \A i \in 0..m : i < m => i + 1 \in 0..m
  OBVIOUS

\* The places in the code, listed.
LEMMA PcSets ==
  /\ WorkPcs = {"syncfetch", "syncwrite", "advreissue", "advwrite", "claimed", "hset",
                "dbsettle", "abort", "dbrelease", "relread", "reldecr", "reldel",
                "fallback", "preempt", "upsert", "preempt2", "recheck", "post"}
  /\ Pcs = WorkPcs \cup {"sync", "advance", "backfill", "settle", "release",
                          "idle", "relist", "done"}
  BY DEF WorkPcs, Pcs, JobPcs, CallerPcs, JobLoops, ReleasePcs

\* Setting the output flag or the status of a row keeps its type.
LEMMA RowFields ==
  /\ \A r \in Rows : [r EXCEPT !.out = TRUE] \in Rows
  /\ \A r \in Rows, s \in Statuses : [r EXCEPT !.status = s] \in Rows
<1>1. \A r \in Rows : [r EXCEPT !.out = TRUE] \in Rows
  BY Zenon DEF Rows
<1>2. \A r \in Rows, s \in Statuses : [r EXCEPT !.status = s] \in Rows
  BY Zenon DEF Rows
<1> QED
  BY <1>1, <1>2, Zenon

\* The rows the code assembles are rows.
LEMMA RowTypes ==
  /\ \A v \in Views : v.status # "gone" => applyTaskView(v) \in Rows
  /\ \A r \in Rows : Touch(r) \in Rows
  /\ \A r \in Rows, v \in Views : v.status # "gone" => mergeTaskForSync(r, v) \in Rows
  /\ \A r, o \in Rows, v \in Views : Advanced(r, o, v) \in Rows
  /\ \A r, o \in Rows : Settled(r, o) \in Rows
  /\ \A r \in Rows : Released(r) \in Rows
<1>1. \A v \in Views : v.status # "gone" => applyTaskView(v) \in Rows
  BY Zenon DEF applyTaskView, Views, Rows, SettleStatuses, Statuses
<1>2. \A r \in Rows : Touch(r) \in Rows
  BY Zenon DEF Touch, Rows
<1>3. ASSUME NEW r \in Rows, NEW v \in Views, v.status # "gone"
      PROVE  mergeTaskForSync(r, v) \in Rows
  <2>1. CASE r.status = ""
    <3>1. IsTerminal(v.status) \in BOOLEAN
      BY DEF IsTerminal
    <3>2. [applyTaskView(v) EXCEPT !.tat = IsTerminal(v.status)] \in Rows
      BY <1>1, <1>3, <3>1, Zenon DEF Rows
    <3>3. QED BY <2>1, <3>2, Zenon DEF mergeTaskForSync
  <2>2. CASE r.status # ""
    <3> DEFINE final == IsTerminal(r.status)
               tat == IF final THEN r.tat ELSE IsTerminal(v.status)
               ripe == final /\ r.tat
               out == v.out \/ r.out
               status == IF final THEN r.status ELSE v.status
               settle == IF v.settle = "" THEN r.settle ELSE v.settle
    <3>1. tat \in BOOLEAN /\ ripe \in BOOLEAN /\ out \in BOOLEAN
      <4>1. r.tat \in BOOLEAN
        BY Zenon DEF Rows
      <4>2. IsTerminal(v.status) \in BOOLEAN
        BY DEF IsTerminal
      <4>3. QED BY <4>1, <4>2, Zenon
    <3>2. status \in Statuses \cup {""} /\ settle \in SettleStatuses \cup {""}
      BY <1>3, Zenon DEF Rows, Views, SettleStatuses
    <3> HIDE DEF tat, ripe, out, status, settle
    <3>3. [status |-> status, settle |-> settle, out |-> out, tat |-> tat, ripe |-> ripe] \in Rows
      BY <3>1, <3>2, Zenon DEF Rows
    <3>4. QED BY <2>2, <3>3, Zenon DEF mergeTaskForSync, tat, ripe, out, status, settle
  <2>3. QED BY <2>1, <2>2, Zenon
<1>4. ASSUME NEW r \in Rows, NEW o \in Rows, NEW v \in Views
      PROVE  Advanced(r, o, v) \in Rows
  <2> DEFINE keep == StatusHeld(o, v)
             new == IF v.status = "gone" THEN "expired" ELSE v.status
             final == ~keep /\ IsTerminal(new)
             status == IF keep THEN r.status ELSE new
             out == r.out \/ v.out
             tat == r.tat \/ final
             ripe == ~final /\ r.ripe /\ r.tat
  <2>1. out \in BOOLEAN /\ tat \in BOOLEAN /\ ripe \in BOOLEAN
    BY Zenon
  <2>2. status \in Statuses \cup {""} /\ r.settle \in SettleStatuses \cup {""}
    BY Zenon DEF Rows, Views, Statuses, TerminalStatuses
  <2> HIDE DEF status, out, tat, ripe
  <2>3. [status |-> status, settle |-> r.settle, out |-> out, tat |-> tat, ripe |-> ripe] \in Rows
    BY <2>1, <2>2, Zenon DEF Rows
  <2>4. QED BY <2>3 DEF Advanced, status, out, tat, ripe
<1>5. ASSUME NEW r \in Rows, NEW o \in Rows
      PROVE  Settled(r, o) \in Rows
  <2>1. (r.ripe /\ o.tat) \in BOOLEAN
    BY Zenon
  <2>2. QED BY <2>1, Zenon DEF Settled, Rows, SettleStatuses
<1>6. ASSUME NEW r \in Rows PROVE Released(r) \in Rows
  <2>1. [r EXCEPT !.settle = "released"] \in Rows
    BY Zenon DEF Rows, SettleStatuses
  <2>2. QED BY <1>2, <2>1 DEF Released
<1>7. QED BY <1>1, <1>2, <1>3, <1>4, <1>5, <1>6

\* Lowering a flag of a row, and a provider's answer to a cancel.
LEMMA BoolField ==
  ASSUME NEW r \in Rows, NEW x
  PROVE  [r EXCEPT !.ripe = @ /\ x] \in Rows
<1>1. (r.ripe /\ x) \in BOOLEAN
  BY Zenon
<1>2. QED BY <1>1, Zenon DEF Rows

LEMMA PostCancelType ==
  ASSUME TypeInv, NEW b \in Batches, NEW ok \in BOOLEAN, PostCancel(b, ok)
  PROVE  prov' \in [Batches -> Views]
<1>0. prov[b] \in Views
  BY DEF TypeInv, TypeOK
<1>1. [prov[b] EXCEPT !.status = "cancelling"] \in Views
  BY <1>0, Zenon DEF Views, Statuses
<1>2. QED BY <1>1, Zenon DEF PostCancel, TypeInv, TypeOK

\* Going back to a loop, which every duty does, keeps the locals well typed.
LEMMA ResumeType ==
  ASSUME TypeInv, NEW p \in Procs, NEW l \in Pcs \ WorkPcs, Resume(p, l)
  PROVE  /\ pc' \in [Procs -> Pcs]
         /\ cur' \in [Procs -> Batches \cup {None}]
         /\ snap' \in [Procs -> [Batches -> Rows]]
         /\ seen' \in [Procs -> Views]
         /\ bk' \in [Procs -> [Plans -> Nat]]
         /\ ret' \in [Procs -> {"dbsettle", "dbrelease", "done"}]
         /\ \A r \in Procs : pc'[r] \in WorkPcs => cur'[r] \in Batches
         /\ \A r \in Procs : pc'[r] \notin {"advreissue", "advwrite"} => seen'[r].status # "gone"
  BY Constants, Zenon DEF TypeInv, TypeOK, ControlOK, Resume, Goto

\* Taking a batch off the list keeps a list.
LEMMA PickType ==
  ASSUME TypeInv, NEW j \in Procs, NEW l, NEW b, Pick(j, l, b)
  PROVE  todo' \in [Procs -> SUBSET Batches] /\ pc[j] = l
  BY DEF Pick, TypeInv, TypeOK

\* So does listing the candidates of the next duty.
LEMMA ListType ==
  ASSUME TypeInv, NEW j \in Jobs, NEW from \in Pcs \ WorkPcs, NEW to \in Pcs \ WorkPcs,
         NEW rows \in [Batches -> Rows], NEW S \in SUBSET Batches,
         List(j, from, to, rows, S)
  PROVE  TypeInv'
<1> USE Constants DEF List, Goto, redis, world
<1>0. j \in Procs
  BY Zenon
<1>1. /\ pc' \in [Procs -> Pcs]
      /\ todo' \in [Procs -> SUBSET Batches]
      /\ snap' \in [Procs -> [Batches -> Rows]]
  <2>1. pc' \in [Procs -> Pcs]
    BY <1>0, Zenon DEF TypeInv, TypeOK
  <2>2. todo' \in [Procs -> SUBSET Batches]
    BY <1>0, Zenon DEF TypeInv, TypeOK
  <2>3. snap' \in [Procs -> [Batches -> Rows]]
    BY <1>0, Zenon DEF TypeInv, TypeOK
  <2>4. QED BY <2>1, <2>2, <2>3, Zenon
<1>2. TypeOK'
  BY <1>1, Zenon DEF TypeInv, TypeOK
<1>3. ControlOK'
  BY <1>0, PcSets, Zenon DEF TypeInv, TypeOK, ControlOK
<1>4. QED BY <1>2, <1>3, Zenon DEF TypeInv

\* Every step keeps the types and the control invariant.
LEMMA TypeStep == TypeInv /\ [Next]_vars => TypeInv'
<1> SUFFICES ASSUME TypeInv, [Next]_vars PROVE TypeInv'
  OBVIOUS
<1> USE Constants
<1>1. ASSUME NEW j \in Jobs, JobStep(j) PROVE TypeInv'
  <2>0. /\ j \in Procs
        /\ snap[j] \in [Batches -> Rows]
        /\ todo[j] \in SUBSET Batches
        /\ seen[j] \in Views
    BY Zenon DEF TypeInv, TypeOK
  <2>1. CASE JobStart(j)
    <3>1. todo' \in [Procs -> SUBSET Batches]
      <4>1. {b \in Batches : hash[b] # NoView} \in SUBSET Batches
        BY Zenon
      <4>2. QED BY <2>0, <2>1, <4>1, Zenon DEF JobStart, TypeInv, TypeOK
    <3>2. QED
      BY <2>0, <2>1, <3>1, PcSets, Zenon
         DEF JobStart, TypeInv, TypeOK, ControlOK, Goto, redis, world, local
  <2>2. CASE JobEnd(j)
    BY <2>0, <2>2, ResumeType, PcSets, Zenon
       DEF JobEnd, TypeInv, TypeOK, ControlOK, Goto, redis, world, local
  <2>3. CASE SyncFetch(j)
    BY <2>0, <2>3, PcSets, Zenon
       DEF SyncFetch, TypeInv, TypeOK, ControlOK, Goto, redis, world, local
  <2>4. CASE SyncUpsert(j)
    <3>1. cur[j] \in Batches /\ seen[j] \in Views /\ seen[j].status # "gone"
      BY <2>0, <2>4, PcSets, Zenon DEF SyncUpsert, TypeInv, TypeOK, ControlOK
    <3>2. mergeTaskForSync(snap[j][cur[j]], seen[j]) \in Rows
      BY <2>0, <3>1, RowTypes, Zenon DEF TypeInv, TypeOK
    <3>3. db' \in [Batches -> Rows]
      <4> DEFINE m == mergeTaskForSync(snap[j][cur[j]], seen[j])
      <4>1. [m EXCEPT !.ripe = @ /\ db[cur[j]].ripe] \in Rows
        BY <3>2, BoolField, Zenon
      <4>2. QED BY <2>0, <2>4, <3>1, <4>1, Zenon DEF SyncUpsert, TypeInv, TypeOK
    <3>4. QED
      BY <2>0, <2>4, <3>3, ResumeType, PcSets, Zenon
         DEF SyncUpsert, TypeInv, TypeOK, ControlOK, Goto, redis, world, local
  <2>5. CASE AdvanceList(j)
    <3>1. db \in [Batches -> Rows]
      BY Zenon DEF TypeInv, TypeOK
    <3>2. {b \in Batches : db[b].status # "" /\ ~IsTerminal(db[b].status)} \in SUBSET Batches
      BY Zenon
    <3>3. QED BY <2>5, <3>1, <3>2, ListType, PcSets, Zenon DEF AdvanceList
  <2>6. CASE AdvanceReissue(j)
    <3>0. cur[j] \in Batches
      BY <2>0, <2>6, PcSets, Zenon DEF AdvanceReissue, TypeInv, ControlOK
    <3>1. PICK ok \in BOOLEAN : PostCancel(cur[j], ok)
      BY <2>6, Zenon DEF AdvanceReissue
    <3>2. prov' \in [Batches -> Views]
      BY <3>0, <3>1, PostCancelType, Zenon
    <3>3. QED
      BY <2>0, <2>6, <3>2, PcSets, Zenon
         DEF AdvanceReissue, TypeInv, TypeOK, ControlOK, Goto, redis, world, local
  <2>7. CASE AdvanceUpdate(j)
    <3>1. cur[j] \in Batches /\ seen[j] \in Views
      BY <2>0, <2>7, PcSets, Zenon DEF AdvanceUpdate, TypeInv, TypeOK, ControlOK
    <3>2. Advanced(db[cur[j]], snap[j][cur[j]], seen[j]) \in Rows
      BY <2>0, <3>1, RowTypes, Zenon DEF TypeInv, TypeOK
    <3>3. db' \in [Batches -> Rows]
      BY <2>0, <2>7, <3>1, <3>2, Zenon DEF AdvanceUpdate, TypeInv, TypeOK
    <3>4. QED
      BY <2>0, <2>7, <3>3, ResumeType, PcSets, Zenon
         DEF AdvanceUpdate, TypeInv, TypeOK, ControlOK, Goto, redis, world, local
  <2>8. CASE BackfillList(j)
    <3>1. db \in [Batches -> Rows]
      BY Zenon DEF TypeInv, TypeOK
    <3>2. {b \in Batches : db[b].status = "completed" /\ ~db[b].out /\ b \notin aged} \in SUBSET Batches
      BY Zenon
    <3>3. QED BY <2>8, <3>1, <3>2, ListType, PcSets, Zenon DEF BackfillList
  <2>9. CASE SettleList(j)
    <3>1. db \in [Batches -> Rows]
      BY Zenon DEF TypeInv, TypeOK
    <3>2. {b \in Batches : SettleCandidate(db[b])} \in SUBSET Batches
      BY Zenon
    <3>3. QED BY <2>9, <3>1, <3>2, ListType, PcSets, Zenon DEF SettleList
  <2>10. CASE ReleaseQuery(j)
    <3>1. [b \in Batches |-> IF b \in todo[j] THEN snap[j][b] ELSE db[b]] \in [Batches -> Rows]
      BY <2>0, Zenon DEF TypeInv, TypeOK
    <3>2. todo[j] \in SUBSET Batches
      BY Zenon DEF TypeInv, TypeOK
    <3>3. QED BY <2>0, <2>10, <3>1, <3>2, ListType, PcSets, Zenon DEF ReleaseQuery
  <2>11. CASE ReleaseList(j)
    BY <2>0, <2>11, PcSets, Zenon
       DEF ReleaseList, TypeInv, TypeOK, ControlOK, Goto, redis, world, local
  <2>12. CASE SettleNoOutput(j)
    BY <2>0, <2>12, PcSets, Zenon
       DEF SettleNoOutput, CallRelease, TypeInv, TypeOK, ControlOK, Goto, redis, world, local
  <2>13. CASE SettleDownload(j)
    BY <2>0, <2>13, PcSets, Zenon
       DEF SettleDownload, TypeInv, TypeOK, ControlOK, Goto, redis, world, local
  <2>14. CASE SettleHSet(j)
    <3>1. cur[j] \in Batches
      BY <2>0, <2>14, PcSets, Zenon DEF SettleHSet, TypeInv, ControlOK
    <3>2. /\ hash' \in [Batches -> Views]
          /\ \A b \in Batches : hash'[b].status # "gone"
      <4>1. hash[cur[j]] \in Views
        BY <3>1, Zenon DEF TypeInv, TypeOK
      <4>2. /\ [hash[cur[j]] EXCEPT !.settle = "settled"] \in Views
            /\ [hash[cur[j]] EXCEPT !.settle = "settled"].status = hash[cur[j]].status
        BY <4>1, Zenon DEF Views
      <4>3. CASE UNCHANGED hash
        BY <4>3, Zenon DEF TypeInv, TypeOK, ControlOK
      <4>4. CASE hash' = [hash EXCEPT ![cur[j]].settle = "settled"]
        BY <3>1, <4>2, <4>4, Zenon DEF TypeInv, TypeOK, ControlOK
      <4>5. QED BY <2>14, <4>3, <4>4, Zenon DEF SettleHSet
    <3>3. CASE CallRelease(j, cur[j], "dbsettle")
      BY <2>0, <2>14, <3>1, <3>2, <3>3, PcSets, Zenon
         DEF SettleHSet, CallRelease, TypeInv, TypeOK, ControlOK, Goto, redis, world, local
    <3>4. CASE Goto(j, "abort") /\ UNCHANGED <<cur, ret>>
      BY <2>0, <2>14, <3>1, <3>2, <3>4, PcSets, Zenon
         DEF SettleHSet, TypeInv, TypeOK, ControlOK, Goto, redis, world, local
    <3>5. QED BY <2>14, <3>3, <3>4, Zenon DEF SettleHSet
  <2>15. CASE SettleUpdate(j)
    <3>1. cur[j] \in Batches /\ snap[j][cur[j]] \in Rows /\ db[cur[j]] \in Rows
      BY <2>0, <2>15, PcSets, Zenon DEF SettleUpdate, TypeInv, TypeOK, ControlOK
    <3>2. db' \in [Batches -> Rows]
      <4>1. Settled(db[cur[j]], snap[j][cur[j]]) \in Rows
        BY <3>1, RowTypes, Zenon
      <4>2. QED BY <2>0, <2>15, <3>1, <4>1, Zenon DEF SettleUpdate, TypeInv, TypeOK
    <3>3. CASE Resume(j, "settle")
      BY <2>0, <2>15, <3>2, <3>3, ResumeType, PcSets, Zenon
         DEF SettleUpdate, TypeInv, TypeOK, ControlOK, Goto, redis, world, local
    <3>4. CASE Goto(j, "abort") /\ UNCHANGED <<cur, seen, snap, bk, ret>>
      BY <2>0, <2>15, <3>1, <3>2, <3>4, PcSets, Zenon
         DEF SettleUpdate, TypeInv, TypeOK, ControlOK, Goto, redis, world, local
    <3>5. QED BY <2>0, <2>15, <3>3, <3>4, Zenon DEF SettleUpdate
  <2>16. CASE SettleAbort(j)
    BY <2>0, <2>16, ResumeType, PcSets, Zenon
       DEF SettleAbort, TypeInv, TypeOK, ControlOK, Goto, redis, world, local
  <2>17. CASE ReleaseUpdate(j)
    <3>1. cur[j] \in Batches
      BY <2>0, <2>17, PcSets, Zenon DEF ReleaseUpdate, TypeInv, ControlOK
    <3>2. Released(db[cur[j]]) \in Rows
      BY <3>1, RowTypes, Zenon DEF TypeInv, TypeOK
    <3>3. db' \in [Batches -> Rows]
      BY <2>0, <2>17, <3>1, <3>2, Zenon DEF ReleaseUpdate, TypeInv, TypeOK
    <3>4. QED
      BY <2>0, <2>17, <3>3, ResumeType, PcSets, Zenon
         DEF ReleaseUpdate, TypeInv, TypeOK, ControlOK, Goto, redis, world, local
  <2>18. CASE StatementFails(j)
    BY <2>0, <2>18, ResumeType, PcSets, Zenon
       DEF StatementFails, TypeInv, TypeOK, ControlOK, Goto, redis, world, local
  <2>19. ASSUME NEW b \in Batches, SyncHash(j, b) PROVE TypeInv'
    <3>1. todo' \in [Procs -> SUBSET Batches]
      BY <2>0, <2>19, PickType, Zenon DEF SyncHash
    <3>2. CASE UNCHANGED <<pc, cur, seen>>
      BY <2>19, <3>1, <3>2, Zenon
         DEF SyncHash, TypeInv, TypeOK, ControlOK, Goto, redis, world, local
    <3>3. CASE /\ Goto(j, "syncfetch")
               /\ cur' = [cur EXCEPT ![j] = b]
               /\ seen' = [seen EXCEPT ![j] = hash[b]]
      BY <2>0, <2>19, <3>1, <3>3, PcSets, Zenon
         DEF SyncHash, TypeInv, TypeOK, ControlOK, Goto, redis, world, local
    <3>4. QED BY <2>19, <3>2, <3>3, Zenon DEF SyncHash
  <2>20. ASSUME NEW b \in Batches, AdvanceGet(j, b) PROVE TypeInv'
    <3>1. CASE UNCHANGED <<pc, cur, seen>>
      BY <2>0, <2>20, <3>1, Zenon
         DEF AdvanceGet, Pick, TypeInv, TypeOK, ControlOK, Goto, redis, world, local
    <3>2. CASE /\ Goto(j, IF StatusHeld(snap[j][b], prov[b]) THEN "advreissue" ELSE "advwrite")
               /\ cur' = [cur EXCEPT ![j] = b]
               /\ seen' = [seen EXCEPT ![j] = prov[b]]
      <4> DEFINE l == IF StatusHeld(snap[j][b], prov[b]) THEN "advreissue" ELSE "advwrite"
      <4>1. l \in {"advreissue", "advwrite"}
        BY Zenon
      <4> HIDE DEF l
      <4>2. pc' = [pc EXCEPT ![j] = l]
        BY <3>2, Zenon DEF l, Goto
      <4>3. QED
        BY <2>0, <2>20, <3>2, <4>1, <4>2, PcSets, Zenon
           DEF AdvanceGet, Pick, TypeInv, TypeOK, ControlOK, redis, world
    <3>3. QED BY <2>0, <2>20, <3>1, <3>2, Zenon DEF AdvanceGet
  <2>21. ASSUME NEW b \in Batches, BackfillOne(j, b) PROVE TypeInv'
    <3>1. Touch([db[b] EXCEPT !.out = TRUE]) \in Rows
      <4>1. [db[b] EXCEPT !.out = TRUE] \in Rows
        <5>1. db[b] \in Rows
          BY Zenon DEF TypeInv, TypeOK
        <5>2. QED BY <5>1, RowFields, Zenon
      <4>2. QED BY <4>1, RowTypes, Zenon
    <3>2. db' \in [Batches -> Rows]
      BY <2>0, <2>21, <3>1, Zenon DEF BackfillOne, TypeInv, TypeOK
    <3>3. QED
      BY <2>0, <2>21, <3>2, Zenon
         DEF BackfillOne, Pick, TypeInv, TypeOK, ControlOK, Goto, redis, world, local
  <2>22. ASSUME NEW b \in Batches, SettleClaim(j, b) PROVE TypeInv'
    <3>1. todo' \in [Procs -> SUBSET Batches]
      BY <2>0, <2>22, PickType, Zenon DEF SettleClaim
    <3>2. CASE UNCHANGED <<claim, pc, cur>>
      BY <2>22, <3>1, <3>2, Zenon
         DEF SettleClaim, TypeInv, TypeOK, ControlOK, Goto, redis, world, local
    <3>3. CASE /\ claim' = [claim EXCEPT ![b] = TRUE]
               /\ Goto(j, "claimed")
               /\ cur' = [cur EXCEPT ![j] = b]
      <4>1. pc[j] = "settle"
        BY <2>0, <2>22, PickType, Zenon DEF SettleClaim
      <4>2. QED
        BY <2>0, <2>22, <3>1, <3>3, <4>1, PcSets, Zenon
           DEF SettleClaim, TypeInv, TypeOK, ControlOK, Goto, redis, world, local
    <3>4. QED BY <2>22, <3>2, <3>3, Zenon DEF SettleClaim
  <2>23. ASSUME NEW b \in Batches, ReleaseOne(j, b) PROVE TypeInv'
    BY <2>0, <2>23, PcSets, Zenon
       DEF ReleaseOne, CallRelease, Pick, TypeInv, TypeOK, ControlOK, Goto, redis, world, local
  <2>24. QED
    BY <1>1, <2>1, <2>2, <2>3, <2>4, <2>5, <2>6, <2>7, <2>8, <2>9, <2>10, <2>11, <2>12, <2>13,
       <2>14, <2>15, <2>16, <2>17, <2>18, <2>19, <2>20, <2>21, <2>22, <2>23, Zenon DEF JobStep
<1>2. ASSUME NEW c \in Callers, CancelStep(c) PROVE TypeInv'
  <2>0. c \in Procs /\ seen[c] \in Views
    BY Zenon DEF TypeInv, TypeOK
  <2>1. CASE CancelFallback(c)
    <3>1. cur[c] \in Batches
      BY <2>0, <2>1, PcSets, Zenon DEF CancelFallback, TypeInv, ControlOK
    <3>2. CASE Resume(c, "done")
      BY <2>0, <2>1, <3>2, ResumeType, PcSets, Zenon
         DEF CancelFallback, TypeInv, TypeOK, ControlOK, Goto, redis, world, local
    <3>3. CASE /\ Goto(c, "preempt")
               /\ seen' = [seen EXCEPT ![c] = hash[cur[c]]]
               /\ UNCHANGED <<cur, snap, bk, ret>>
      BY <2>0, <2>1, <3>1, <3>3, PcSets, Zenon
         DEF CancelFallback, TypeInv, TypeOK, ControlOK, Goto, redis, world, local
    <3>4. QED BY <2>1, <3>2, <3>3, Zenon DEF CancelFallback
  <2>2. CASE CancelPreempt(c)
    <3>1. cur[c] \in Batches
      BY <2>0, <2>2, PcSets, Zenon DEF CancelPreempt, TypeInv, ControlOK
    <3>2. db' \in [Batches -> Rows]
      <4>1. [db[cur[c]] EXCEPT !.status = "cancelling"] \in Rows
        <5>1. db[cur[c]] \in Rows /\ "cancelling" \in Statuses
          BY <3>1, Zenon DEF TypeInv, TypeOK, Statuses
        <5>2. QED BY <5>1, RowFields, Zenon
      <4>2. QED BY <2>2, <3>1, <4>1, Zenon DEF CancelPreempt, TypeInv, TypeOK
    <3>3. \E l \in {"post", "upsert", "recheck"} : Goto(c, l)
      BY <2>2, Zenon DEF CancelPreempt
    <3>4. QED
      BY <2>0, <2>2, <3>1, <3>2, <3>3, PcSets, Zenon
         DEF CancelPreempt, TypeInv, TypeOK, ControlOK, Goto, redis, world, local
  <2>3. CASE CancelUpsert(c)
    <3>1. cur[c] \in Batches /\ seen[c].status # "gone"
      BY <2>0, <2>3, PcSets, Zenon DEF CancelUpsert, TypeInv, ControlOK
    <3>2. applyTaskView(seen[c]) \in Rows
      BY <2>0, <3>1, RowTypes, Zenon
    <3>3. db' \in [Batches -> Rows]
      <4>1. db \in [Batches -> Rows]
        BY Zenon DEF TypeInv, TypeOK
      <4>2. db' \in {db, [db EXCEPT ![cur[c]] = applyTaskView(seen[c])]}
        BY <2>3, Zenon DEF CancelUpsert
      <4>3. QED BY <3>1, <3>2, <4>1, <4>2, Zenon
    <3>4. \E l \in {"preempt2", "recheck"} : Goto(c, l)
      BY <2>3, Zenon DEF CancelUpsert
    <3>5. QED
      BY <2>0, <2>3, <3>1, <3>3, <3>4, PcSets, Zenon
         DEF CancelUpsert, TypeInv, TypeOK, ControlOK, Goto, redis, world, local
  <2>4. CASE CancelRecheck(c)
    <3>1. cur[c] \in Batches
      BY <2>0, <2>4, PcSets, Zenon DEF CancelRecheck, TypeInv, ControlOK
    <3>2. CASE Resume(c, "done")
      BY <2>0, <2>4, <3>2, ResumeType, PcSets, Zenon
         DEF CancelRecheck, TypeInv, TypeOK, ControlOK, Goto, redis, world, local
    <3>3. CASE Goto(c, "post") /\ UNCHANGED <<cur, snap, seen, bk, ret>>
      BY <2>0, <2>4, <3>1, <3>3, PcSets, Zenon
         DEF CancelRecheck, TypeInv, TypeOK, ControlOK, Goto, redis, world, local
    <3>4. QED BY <2>4, <3>2, <3>3, Zenon DEF CancelRecheck
  <2>5. CASE CancelPost(c)
    <3>1. cur[c] \in Batches
      BY <2>0, <2>5, PcSets, Zenon DEF CancelPost, TypeInv, ControlOK
    <3>2. \E ok \in BOOLEAN : PostCancel(cur[c], ok)
      BY <2>5, Zenon DEF CancelPost
    <3>3. prov' \in [Batches -> Views]
      BY <3>1, <3>2, PostCancelType, Zenon
    <3>4. CASE Resume(c, "done")
      BY <2>0, <2>5, <3>3, <3>4, ResumeType, PcSets, Zenon
         DEF CancelPost, TypeInv, TypeOK, ControlOK, Goto, redis, world, local
    <3>5. CASE CallRelease(c, cur[c], "done") /\ UNCHANGED <<snap, seen, bk>>
      BY <2>0, <2>5, <3>1, <3>3, <3>5, PcSets, Zenon
         DEF CancelPost, CallRelease, TypeInv, TypeOK, ControlOK, Goto, redis, world, local
    <3>6. QED BY <2>5, <3>4, <3>5, Zenon DEF CancelPost
  <2>6. CASE CancelFails(c)
    BY <2>0, <2>6, ResumeType, PcSets, Zenon
       DEF CancelFails, TypeInv, TypeOK, ControlOK, Goto, redis, world, local
  <2>7. ASSUME NEW b \in Batches, CancelFetch(c, b) PROVE TypeInv'
    <3>1. \E l \in {"preempt", "fallback"} : Goto(c, l)
      BY <2>7, Zenon DEF CancelFetch
    <3>2. QED
      BY <2>0, <2>7, <3>1, PcSets, Zenon
         DEF CancelFetch, TypeInv, TypeOK, ControlOK, Goto, redis, world, local
  <2>8. QED BY <1>2, <2>1, <2>2, <2>3, <2>4, <2>5, <2>6, <2>7, Zenon DEF CancelStep
<1>3. ASSUME NEW p \in Procs, ReserveStep(p) PROVE TypeInv'
  <2>0. cur[p] \in Batches
    BY <1>3, PcSets, Zenon
       DEF ReserveStep, ReserveRead, ReserveDecr, ReserveDelete, TypeInv, ControlOK
  <2>1. ASSUME NEW ok \in BOOLEAN, Return(p, ok), pc[p] \in ReleasePcs
        PROVE  /\ pc' \in [Procs -> Pcs]
               /\ cur' \in [Procs -> Batches \cup {None}]
               /\ snap' \in [Procs -> [Batches -> Rows]]
               /\ seen' \in [Procs -> Views]
               /\ bk' \in [Procs -> [Plans -> Nat]]
               /\ ret' \in [Procs -> {"dbsettle", "dbrelease", "done"}]
               /\ \A r \in Procs : pc'[r] \in WorkPcs => cur'[r] \in Batches
               /\ \A r \in Procs : pc'[r] \notin {"advreissue", "advwrite"} => seen'[r].status # "gone"
    <3>1. CASE \E l \in {"done", "settle", "release"} : Resume(p, l)
      BY <3>1, ResumeType, PcSets, Zenon
    <3>2. CASE /\ Goto(p, ret[p])
               /\ ret[p] # "done"
               /\ bk' = [bk EXCEPT ![p] = NoUnits]
               /\ UNCHANGED <<cur, snap, seen, ret>>
      BY <2>0, <2>1, <3>2, PcSets, Zenon DEF Goto, TypeInv, TypeOK, ControlOK, ReleasePcs
    <3>3. QED BY <2>1, <3>1, <3>2, Zenon DEF Return
  <2>2. CASE ReserveRead(p)
    <3>1. CASE Goto(p, "reldecr") /\ bk' = [bk EXCEPT ![p] = book[cur[p]]] /\ UNCHANGED <<cur, snap, seen, ret>>
      BY <2>0, <2>2, <3>1, PcSets, Zenon
         DEF ReserveRead, TypeInv, TypeOK, ControlOK, Goto, redis, world, local
    <3>2. CASE \E ok \in BOOLEAN : Return(p, ok)
      <4>1. pc[p] \in ReleasePcs
        BY <2>2, Zenon DEF ReserveRead, ReleasePcs
      <4>2. QED
        BY <2>1, <2>2, <3>2, <4>1, Zenon DEF ReserveRead, TypeInv, TypeOK, ControlOK, redis, world
    <3>3. QED BY <2>2, <3>1, <3>2, Zenon DEF ReserveRead
  <2>3. CASE ReserveDelete(p)
    <3>1. book' \in [Batches -> [Plans -> Nat]]
      BY <2>0, <2>3, Zenon DEF ReserveDelete, TypeInv, TypeOK
    <3>2. pc[p] \in ReleasePcs /\ \E ok \in BOOLEAN : Return(p, ok)
      BY <2>3, Zenon DEF ReserveDelete, ReleasePcs
    <3>3. QED
      BY <2>1, <2>3, <3>1, <3>2, Zenon DEF ReserveDelete, TypeInv, TypeOK, ControlOK, redis, world
  <2>4. ASSUME NEW q \in Plans, ReserveDecr(p, q) PROVE TypeInv'
    <3>1. bk[p] \in [Plans -> Nat] /\ bk[p][q] \in Nat /\ mirror[q] \in Nat
      BY Zenon DEF TypeInv, TypeOK
    <3>2. mirror' \in [Plans -> Nat]
      <4> DEFINE m == IF mirror[q] > bk[p][q] THEN mirror[q] - bk[p][q] ELSE 0
      <4>1. m \in Nat
        BY <3>1, Clamp, Zenon
      <4>2. mirror' = [mirror EXCEPT ![q] = m] \/ mirror' = mirror
        BY <2>4, Zenon DEF ReserveDecr
      <4> HIDE DEF m
      <4>3. QED BY <4>1, <4>2, Zenon DEF TypeInv, TypeOK
    <3>3. bk' \in [Procs -> [Plans -> Nat]]
      BY <2>4, <3>1, Zenon DEF ReserveDecr, TypeInv, TypeOK
    <3>4. \E l \in {"reldel", "reldecr"} : Goto(p, l)
      BY <2>4, Zenon DEF ReserveDecr
    <3>5. QED
      BY <2>0, <2>4, <3>2, <3>3, <3>4, PcSets, Zenon
         DEF ReserveDecr, TypeInv, TypeOK, ControlOK, Goto, redis, world, local
  <2>5. QED BY <1>3, <2>2, <2>3, <2>4, Zenon DEF ReserveStep
<1>4. ASSUME NEW p \in Procs, Crash(p) PROVE TypeInv'
  <2>1. \E l \in {"idle", "done"} : Resume(p, l)
    BY <1>4, Zenon DEF Crash
  <2>2. crashes' \in 0..MaxCrashes
    <3>1. crashes \in 0..MaxCrashes /\ crashes < MaxCrashes /\ crashes' = crashes + 1
      BY <1>4, Zenon DEF Crash, TypeInv, TypeOK
    <3>2. MaxCrashes \in Nat
      BY ConstantsOK, Zenon
    <3>3. QED BY <3>1, <3>2, Arithmetic, Zenon
  <2>3. QED
    BY <1>4, <2>1, <2>2, ResumeType, PcSets, Zenon DEF Crash, TypeInv, TypeOK, ControlOK, redis
<1>5. ASSUME NEW b \in Batches, Environment(b) PROVE TypeInv'
  <2>0. prov[b] \in Views /\ hash[b] \in Views /\ db[b] \in Rows /\ hash[b].status # "gone"
    BY Zenon DEF TypeInv, TypeOK, ControlOK
  <2>1. CASE DataPlaneCreate(b)
    <3>1. /\ [prov[b] EXCEPT !.status = "in_progress"] \in Views
          /\ [hash[b] EXCEPT !.status = "in_progress"] \in Views
      BY <2>0, Zenon DEF Views, Statuses
    <3>2. [hash[b] EXCEPT !.status = "in_progress"].status # "gone"
      BY <2>0, Zenon DEF Views
    <3>3. mirror' \in [Plans -> Nat]
      <4>1. \A q \in Plans : mirror[q] \in Nat /\ Reserve[b][q] \in Nat
        BY Zenon DEF TypeInv, TypeOK
      <4>2. \A q \in Plans : mirror[q] + Reserve[b][q] \in Nat
        BY <4>1, Arithmetic, Zenon
      <4>3. mirror' = [q \in Plans |-> mirror[q] + Reserve[b][q]]
        BY <2>1, Zenon DEF DataPlaneCreate
      <4>4. QED BY <4>2, <4>3, Zenon
    <3>4. QED
      BY <2>1, <3>1, <3>2, <3>3, Zenon
         DEF DataPlaneCreate, TypeInv, TypeOK, ControlOK, Goto, redis, world, local
  <2>2. CASE DataPlanePoll(b)
    <3> DEFINE h == [hash[b] EXCEPT !.status = prov[b].status, !.out = prov[b].out]
    <3>1. h \in Views /\ h.status # "gone"
      BY <2>0, <2>2, Zenon DEF DataPlanePoll, Views
    <3>2. hash' = [hash EXCEPT ![b] = h]
      BY <2>0, <2>2, Zenon DEF DataPlanePoll, TypeInv, TypeOK, Views
    <3> HIDE DEF h
    <3>3. /\ hash' \in [Batches -> Views]
          /\ \A c \in Batches : hash'[c].status # "gone"
      BY <3>1, <3>2, Zenon DEF TypeInv, TypeOK, ControlOK
    <3>4. QED
      BY <2>2, <3>3, Zenon DEF DataPlanePoll, TypeInv, TypeOK, ControlOK, Goto, redis, world, local
  <2>3. CASE DataPlaneSettle(b)
    <3>1. PICK s \in {"settled", "released"} : hash' = [hash EXCEPT ![b].settle = s]
      BY <2>3, Zenon DEF DataPlaneSettle
    <3>2. [hash[b] EXCEPT !.settle = s] \in Views /\ [hash[b] EXCEPT !.settle = s].status # "gone"
      BY <2>0, Zenon DEF Views
    <3>3. mirror' \in [Plans -> Nat]
      <4> DEFINE m(q) == IF mirror[q] > book[b][q] THEN mirror[q] - book[b][q] ELSE 0
      <4>1. \A q \in Plans : mirror[q] \in Nat /\ book[b][q] \in Nat
        BY Zenon DEF TypeInv, TypeOK
      <4>2. \A q \in Plans : m(q) \in Nat
        BY <4>1, Clamp, Zenon
      <4>3. mirror' = [q \in Plans |-> m(q)]
        BY <2>3, Zenon DEF DataPlaneSettle
      <4> HIDE DEF m
      <4>4. QED BY <4>2, <4>3, Zenon
    <3>4. /\ hash' \in [Batches -> Views]
          /\ \A c \in Batches : hash'[c].status # "gone"
      BY <3>1, <3>2, Zenon DEF TypeInv, TypeOK, ControlOK
    <3>5. book' \in [Batches -> [Plans -> Nat]] /\ claim' \in [Batches -> BOOLEAN]
      BY <2>3, Zenon DEF DataPlaneSettle, TypeInv, TypeOK
    <3>6. QED
      BY <2>3, <3>3, <3>4, <3>5, Zenon
         DEF DataPlaneSettle, TypeInv, TypeOK, ControlOK, Goto, redis, world, local
  <2>4. CASE ProviderFinish(b)
    <3>1. PICK s \in TerminalStatuses, o \in BOOLEAN :
             prov' = [prov EXCEPT ![b].status = s, ![b].out = o]
      BY <2>4, Zenon DEF ProviderFinish
    <3>2. [prov[b] EXCEPT !.status = s, !.out = o] \in Views
      BY <2>0, Zenon DEF Views, Statuses
    <3>3. prov' \in [Batches -> Views]
      BY <3>1, <3>2, Zenon DEF TypeInv, TypeOK
    <3>4. QED
      BY <2>4, <3>3, Zenon DEF ProviderFinish, TypeInv, TypeOK, ControlOK, Goto, redis, world, local
  <2>5. CASE ProviderForget(b)
    <3>1. [prov[b] EXCEPT !.status = "gone", !.out = FALSE] \in Views
      BY <2>0, Zenon DEF Views
    <3>2. prov' \in [Batches -> Views]
      BY <2>5, <3>1, Zenon DEF ProviderForget, TypeInv, TypeOK
    <3>3. QED
      BY <2>5, <3>2, Zenon DEF ProviderForget, TypeInv, TypeOK, ControlOK, Goto, redis, world, local
  <2>6. CASE Age(b)
    BY <2>6, Zenon DEF Age, TypeInv, TypeOK, ControlOK, Goto, redis, world, local
  <2>7. CASE GraceElapses(b)
    <3>1. [db[b] EXCEPT !.ripe = TRUE] \in Rows
      BY <2>0, Zenon DEF Rows
    <3>2. QED
      BY <2>7, <3>1, Zenon DEF GraceElapses, TypeInv, TypeOK, ControlOK, Goto, redis, world, local
  <2>8. CASE ExpireClaim(b)
    BY <2>8, Zenon DEF ExpireClaim, TypeInv, TypeOK, ControlOK, Goto, redis, world, local
  <2>9. CASE ExpireTask(b)
    BY <2>9, Zenon DEF ExpireTask, TypeInv, TypeOK, ControlOK, Goto, redis, world, local
  <2>10. QED BY <1>5, <2>1, <2>2, <2>3, <2>4, <2>5, <2>6, <2>7, <2>8, <2>9, Zenon DEF Environment
<1>6. CASE LockLost
  BY <1>6, Zenon DEF LockLost, TypeInv, TypeOK, ControlOK, Goto, redis, world, local
<1>7. CASE UNCHANGED vars
  BY <1>7, Zenon DEF vars, TypeInv, TypeOK, ControlOK, Goto, redis, world, local
<1>8. QED BY <1>1, <1>2, <1>3, <1>4, <1>5, <1>6, <1>7, Zenon DEF Next

\* The types are those of the initial state too.
LEMMA TypeInit == Init => TypeInv
<1> SUFFICES ASSUME Init PROVE TypeInv
  OBVIOUS
<1>1. 0 \in 0..MaxCrashes
  BY ConstantsOK
<1>2. TypeOK
  BY <1>1, Constants, PcSets, Zenon DEF Init, TypeOK
<1>3. ControlOK
  BY Constants, PcSets, Zenon DEF Init, ControlOK
<1>4. QED BY <1>2, <1>3 DEF TypeInv

\* TypeOK is an invariant whatever the number of batches, plans, replicas and
\* requests and whatever fails: in particular no mirror counter goes below zero
\* (the clamp of the ReserveDecr script), and no row takes a status outside the
\* state machine (a provider's 404 becomes expired before it is written).
THEOREM TypeCorrect == Spec => []TypeOK
<1>1. Spec => []TypeInv
  BY TypeInit, TypeStep, PTL DEF Spec
<1>2. TypeInv => TypeOK
  BY DEF TypeInv
<1>3. QED BY <1>1, <1>2, PTL

-----------------------------------------------------------------------------
(* Mutual exclusion under BATCH_SETTLED.                                   *)

\* What a step of process p may do to the settlements in progress: the other
\* processes stay where they are, p begins one only by setting the claim that
\* was not there, and takes a claim away only by ending its own.
ClaimStep(p) ==
    /\ \A r \in Procs \ {p}, b \in Batches : Settling(r, b)' => Settling(r, b)
    /\ \A b \in Batches : Settling(p, b)' => Settling(p, b) \/ (~claim[b] /\ claim'[b])
    /\ \A b \in Batches : claim[b] /\ ~claim'[b] => Settling(p, b) /\ ~Settling(p, b)'

LEMMA ClaimStepExclusive ==
  ASSUME NEW p \in Procs, SettleExclusive, ClaimStep(p)
  PROVE  SettleExclusive'
  BY DEF SettleExclusive, ClaimStep

\* A step that leaves the claims alone and moves p within, or out of, the
\* settlement it is in.
LEMMA QuietStep ==
  ASSUME TypeInv, NEW p \in Procs, UNCHANGED claim,
         \A r \in Procs \ {p} : pc'[r] = pc[r] /\ cur'[r] = cur[r] /\ ret'[r] = ret[r],
         \A b \in Batches : Settling(p, b)' => Settling(p, b)
  PROVE  ClaimStep(p)
  BY DEF ClaimStep, Settling

LEMMA ResumeQuiet ==
  ASSUME TypeInv, NEW p \in Procs, NEW l \in Pcs, Resume(p, l), UNCHANGED claim
  PROVE  ClaimStep(p)
<1>1. \A b \in Batches : b # None
  BY ConstantsOK
<1>2. \A b \in Batches : ~Settling(p, b)'
  BY <1>1 DEF TypeInv, TypeOK, Resume, Settling
<1>3. QED BY <1>2, QuietStep DEF TypeInv, TypeOK, Resume, Goto

\* releaseReserve returns into the settlement it was called from.
LEMMA ReturnQuiet ==
  ASSUME TypeInv, NEW p \in Procs, NEW ok \in BOOLEAN, pc[p] \in ReleasePcs,
         Return(p, ok), UNCHANGED claim
  PROVE  ClaimStep(p)
<1>1. CASE \E l \in {"done", "settle", "release"} : Resume(p, l)
  BY <1>1, ResumeQuiet, PcSets
<1>2. CASE /\ Goto(p, ret[p])
           /\ ret[p] # "done"
           /\ UNCHANGED <<cur, snap, seen, ret>>
  BY <1>2, QuietStep, Zenon DEF Goto, Settling, TypeInv, TypeOK
<1>3. QED BY <1>1, <1>2 DEF Return

LEMMA JobClaimStep ==
  ASSUME TypeInv, NEW j \in Jobs, JobStep(j)
  PROVE  ClaimStep(j)
<1>0. j \in Procs
  BY DEF Procs
<1>1. CASE \/ JobEnd(j) \/ SyncUpsert(j) \/ AdvanceUpdate(j) \/ ReleaseUpdate(j)
           \/ StatementFails(j)
  <2>1. UNCHANGED claim
    BY <1>1 DEF JobEnd, SyncUpsert, AdvanceUpdate, ReleaseUpdate, StatementFails, redis
  <2>2. \E l \in {"idle", "sync", "advance", "settle", "release"} : Resume(j, l)
    BY <1>1 DEF JobEnd, SyncUpsert, AdvanceUpdate, ReleaseUpdate, StatementFails
  <2>3. QED BY <1>0, <2>1, <2>2, ResumeQuiet, PcSets
<1>2. CASE JobStart(j)
  BY <1>0, <1>2, QuietStep DEF JobStart, Goto, redis, world, Settling, ReleasePcs, TypeInv, TypeOK
<1>3. CASE SyncFetch(j)
  BY <1>0, <1>3, QuietStep DEF SyncFetch, Goto, redis, world, Settling, ReleasePcs, TypeInv, TypeOK
<1>4. CASE AdvanceList(j)
  BY <1>0, <1>4, QuietStep, Zenon
     DEF AdvanceList, List, Goto, redis, world, Settling, ReleasePcs, TypeInv, TypeOK
<1>5. CASE AdvanceReissue(j)
  BY <1>0, <1>5, QuietStep
     DEF AdvanceReissue, Goto, redis, world, Settling, ReleasePcs, TypeInv, TypeOK
<1>6. CASE BackfillList(j)
  BY <1>0, <1>6, QuietStep
     DEF BackfillList, List, Goto, redis, world, Settling, ReleasePcs, TypeInv, TypeOK
<1>7. CASE SettleList(j)
  BY <1>0, <1>7, QuietStep
     DEF SettleList, List, Goto, redis, world, Settling, ReleasePcs, TypeInv, TypeOK
<1>8. CASE ReleaseQuery(j)
  BY <1>0, <1>8, QuietStep
     DEF ReleaseQuery, List, Goto, redis, world, Settling, ReleasePcs, TypeInv, TypeOK
<1>9. CASE ReleaseList(j)
  BY <1>0, <1>9, QuietStep
     DEF ReleaseList, Goto, redis, world, Settling, ReleasePcs, TypeInv, TypeOK
<1>10. CASE SettleDownload(j)
  BY <1>0, <1>10, QuietStep
     DEF SettleDownload, Goto, redis, world, Settling, ReleasePcs, TypeInv, TypeOK
<1>11. ASSUME NEW b \in Batches, SyncHash(j, b) PROVE ClaimStep(j)
  BY <1>0, <1>11, QuietStep, Zenon
     DEF SyncHash, Pick, Goto, redis, world, Settling, ReleasePcs, TypeInv, TypeOK
<1>12. ASSUME NEW b \in Batches, AdvanceGet(j, b) PROVE ClaimStep(j)
  BY <1>0, <1>12, QuietStep, Zenon
     DEF AdvanceGet, Pick, Goto, redis, world, Settling, ReleasePcs, TypeInv, TypeOK
<1>13. ASSUME NEW b \in Batches, BackfillOne(j, b) PROVE ClaimStep(j)
  BY <1>0, <1>13, QuietStep
     DEF BackfillOne, Pick, Goto, redis, world, Settling, ReleasePcs, TypeInv, TypeOK
<1>14. ASSUME NEW b \in Batches, ReleaseOne(j, b) PROVE ClaimStep(j)
  BY <1>0, <1>14, QuietStep
     DEF ReleaseOne, Pick, CallRelease, Goto, redis, world, Settling, ReleasePcs, TypeInv, TypeOK
<1>15. CASE SettleHSet(j)
  BY <1>0, <1>15, QuietStep, Zenon
     DEF SettleHSet, CallRelease, Goto, world, Settling, ReleasePcs, TypeInv, TypeOK
<1>16. CASE SettleUpdate(j)
  <2>1. UNCHANGED claim
    BY <1>16 DEF SettleUpdate, redis
  <2>2. CASE Resume(j, "settle")
    BY <1>0, <2>1, <2>2, ResumeQuiet, PcSets
  <2>3. CASE Goto(j, "abort") /\ UNCHANGED <<cur, ret>>
    BY <1>0, <1>16, <2>1, <2>3, QuietStep
       DEF SettleUpdate, Goto, Settling, ReleasePcs, TypeInv, TypeOK
  <2>4. QED BY <1>16, <2>2, <2>3, Zenon DEF SettleUpdate
<1>17. CASE SettleNoOutput(j)
  BY <1>0, <1>17
     DEF SettleNoOutput, CallRelease, Goto, ClaimStep, Settling, ReleasePcs, TypeInv, TypeOK
<1>18. CASE SettleAbort(j)
  BY <1>0, <1>18, ConstantsOK
     DEF SettleAbort, Resume, Goto, ClaimStep, Settling, ReleasePcs, TypeInv, TypeOK
<1>19. ASSUME NEW b \in Batches, SettleClaim(j, b) PROVE ClaimStep(j)
  <2>1. CASE UNCHANGED <<claim, pc, cur>>
    BY <1>0, <1>19, <2>1, QuietStep DEF SettleClaim, Settling, ReleasePcs, TypeInv, TypeOK
  <2>2. CASE ~claim[b] /\ claim' = [claim EXCEPT ![b] = TRUE] /\ cur' = [cur EXCEPT ![j] = b]
             /\ Goto(j, "claimed")
    BY <1>0, <1>19, <2>2 DEF SettleClaim, Goto, ClaimStep, Settling, ReleasePcs, TypeInv, TypeOK
  <2>3. QED BY <1>19, <2>1, <2>2 DEF SettleClaim
<1>20. QED
  BY <1>1, <1>2, <1>3, <1>4, <1>5, <1>6, <1>7, <1>8, <1>9, <1>10, <1>11, <1>12, <1>13, <1>14,
     <1>15, <1>16, <1>17, <1>18, <1>19 DEF JobStep

LEMMA CancelClaimStep ==
  ASSUME TypeInv, NEW c \in Callers, CancelStep(c)
  PROVE  ClaimStep(c)
<1>0. c \in Procs
  BY DEF Procs
<1>1. UNCHANGED claim
  BY Zenon DEF CancelStep, CancelFallback, CancelPreempt, CancelUpsert, CancelRecheck,
         CancelPost, CancelFails, CancelFetch, redis
<1>2. CASE Resume(c, "done")
  BY <1>0, <1>1, <1>2, ResumeQuiet, PcSets
<1>3. CASE \E l \in {"preempt", "upsert", "preempt2", "recheck", "post"} :
              Goto(c, l) /\ UNCHANGED <<cur, ret>>
  BY <1>0, <1>1, <1>3, QuietStep DEF Goto, Settling, ReleasePcs, TypeInv, TypeOK
<1>4. CASE CancelPost(c) /\ CallRelease(c, cur[c], "done")
  BY <1>0, <1>1, <1>4, QuietStep DEF CallRelease, Goto, Settling, ReleasePcs, TypeInv, TypeOK
<1>5. CASE \E b \in Batches : CancelFetch(c, b)
  BY <1>0, <1>1, <1>5, QuietStep DEF CancelFetch, Goto, Settling, ReleasePcs, TypeInv, TypeOK
<1>6. CASE CancelPreempt(c)
  <2>1. \E l \in {"post", "upsert", "recheck"} : Goto(c, l) /\ UNCHANGED <<cur, ret>>
    BY <1>6 DEF CancelPreempt
  <2>2. QED BY <1>3, <2>1
<1>7. QED BY <1>2, <1>3, <1>4, <1>5, <1>6, Zenon
          DEF CancelStep, CancelFallback, CancelUpsert, CancelRecheck, CancelPost, CancelFails

LEMMA ReserveClaimStep ==
  ASSUME TypeInv, NEW p \in Procs, ReserveStep(p)
  PROVE  ClaimStep(p)
<1>1. CASE ReserveRead(p)
  <2>1. UNCHANGED claim /\ pc[p] \in ReleasePcs
    BY <1>1, Zenon DEF ReserveRead, redis, ReleasePcs
  <2>2. CASE \E ok \in BOOLEAN : Return(p, ok)
    BY <2>1, <2>2, ReturnQuiet
  <2>3. CASE Goto(p, "reldecr") /\ UNCHANGED <<cur, snap, seen, ret>>
    BY <2>1, <2>3, QuietStep DEF Goto, Settling, ReleasePcs, TypeInv, TypeOK
  <2>4. QED BY <1>1, <2>2, <2>3, Zenon DEF ReserveRead
<1>2. CASE ReserveDelete(p)
  <2>1. UNCHANGED claim /\ pc[p] \in ReleasePcs /\ \E ok \in BOOLEAN : Return(p, ok)
    BY <1>2, Zenon DEF ReserveDelete, ReleasePcs
  <2>2. QED BY <2>1, ReturnQuiet
<1>3. ASSUME NEW q \in Plans, ReserveDecr(p, q) PROVE ClaimStep(p)
  <2>1. \E l \in {"reldel", "reldecr"} : Goto(p, l)
    BY <1>3 DEF ReserveDecr
  <2>2. QED BY <1>3, <2>1, QuietStep DEF ReserveDecr, Goto, Settling, ReleasePcs, TypeInv, TypeOK
<1>4. QED BY <1>1, <1>2, <1>3 DEF ReserveStep

LEMMA ExclusiveStep == TypeInv /\ SettleExclusive /\ [Next]_vars => SettleExclusive'
<1> SUFFICES ASSUME TypeInv, SettleExclusive, [Next]_vars PROVE SettleExclusive'
  OBVIOUS
<1>1. ASSUME NEW p \in Procs, ClaimStep(p) PROVE SettleExclusive'
  BY <1>1, ClaimStepExclusive
<1>2. ASSUME NEW j \in Jobs, JobStep(j) PROVE SettleExclusive'
  BY <1>1, <1>2, JobClaimStep DEF Procs
<1>3. ASSUME NEW c \in Callers, CancelStep(c) PROVE SettleExclusive'
  BY <1>1, <1>3, CancelClaimStep DEF Procs
<1>4. ASSUME NEW p \in Procs, ReserveStep(p) PROVE SettleExclusive'
  BY <1>1, <1>4, ReserveClaimStep
<1>5. ASSUME NEW p \in Procs, Crash(p) PROVE SettleExclusive'
  <2>1. (\E l \in {"idle", "done"} : Resume(p, l)) /\ UNCHANGED claim
    BY <1>5 DEF Crash, redis
  <2>2. QED BY <1>1, <2>1, ResumeQuiet, PcSets
<1>6. ASSUME NEW b \in Batches, Environment(b) PROVE SettleExclusive'
  <2>1. UNCHANGED <<pc, cur, ret>>
    BY <1>6, Zenon DEF Environment, DataPlaneCreate, DataPlanePoll, DataPlaneSettle, ProviderFinish,
                ProviderForget, Age, GraceElapses, ExpireClaim, ExpireTask, local
  <2>2. \A c \in Batches, p \in Procs : Settling(p, c)' <=> Settling(p, c)
    BY <2>1 DEF Settling
  <2>3. CASE ExpireClaim(b)
    BY <2>2, <2>3 DEF ExpireClaim, SettleExclusive, TypeInv, TypeOK
  <2>4. CASE DataPlaneSettle(b)
    BY <2>2, <2>4, Zenon DEF DataPlaneSettle, SettleExclusive, TypeInv, TypeOK
  <2>5. CASE UNCHANGED claim
    BY <2>2, <2>5 DEF SettleExclusive
  <2>6. QED BY <1>6, <2>3, <2>4, <2>5, Zenon
            DEF Environment, DataPlaneCreate, DataPlanePoll, ProviderFinish,
                ProviderForget, Age, GraceElapses, ExpireTask, redis
<1>7. CASE LockLost
  BY <1>7 DEF LockLost, redis, local, SettleExclusive, Settling
<1>8. CASE UNCHANGED vars
  BY <1>8 DEF vars, redis, local, SettleExclusive, Settling
<1>9. QED BY <1>2, <1>3, <1>4, <1>5, <1>6, <1>7, <1>8 DEF Next

\* BATCH_SETTLED excludes: at most one process is inside settleOneTask for a
\* batch and it holds the claim, for any number of replicas, with the named
\* lock lost at any time, processes dying and Redis, database and provider
\* calls failing (SET NX in settleOneTask; releaseClaim only by its holder).
THEOREM SettleMutex == Spec => []SettleExclusive
<1>1. Init => SettleExclusive
  BY ConstantsOK DEF Init, SettleExclusive, Settling, ReleasePcs
<1>2. Spec => []TypeInv
  BY TypeInit, TypeStep, PTL DEF Spec
<1>3. QED BY <1>1, <1>2, ExclusiveStep, PTL DEF Spec

-----------------------------------------------------------------------------
(* One settlement for a batch.                                             *)

\* Neither Redis nor the database loses anything of a settlement.
Undisturbed == Faults \cap {"db_fail", "redis_fail", "expire"} = {} /\ MaxCrashes = 0

\* BATCH_TASK says that the batch has been settled or released; a replica is
\* in settleOneTask before, and after, it wrote that.
Charged(b) == hash[b].settle # ""
EarlyPcs == {"claimed", "hset", "abort"}
Before(p, b) == cur[p] = b /\ pc[p] \in EarlyPcs
After(p, b) == /\ cur[p] = b
               /\ pc[p] = "dbsettle" \/ (pc[p] \in ReleasePcs /\ ret[p] = "dbsettle")

\* The claim stands for a settlement that is under way or done.
OnceInv ==
  /\ \A p \in Procs, b \in Batches : Before(p, b) => ~Charged(b)
  /\ \A p \in Procs, b \in Batches : After(p, b) => Charged(b)
  /\ \A b \in Batches : Charged(b) => claim[b]
  /\ \A b \in Batches : claim[b] => Charged(b) \/ \E p \in Procs : Before(p, b)

LEMMA SettlingParts ==
  \A p \in Procs, b \in Batches : Settling(p, b) <=> Before(p, b) \/ After(p, b)
  BY Zenon DEF Settling, Before, After, EarlyPcs

\* What a step of process p may do to the settlement of a batch: nothing, begin
\* it, write it, or give it up.
OnceStep(p) ==
  /\ \A r \in Procs \ {p}, b \in Batches :
       (Before(r, b)' <=> Before(r, b)) /\ (After(r, b)' <=> After(r, b))
  /\ \A b \in Batches :
       \/ /\ claim'[b] = claim[b] /\ (Charged(b)' <=> Charged(b))
          /\ Before(p, b)' <=> Before(p, b)
          /\ After(p, b)' => After(p, b)
       \/ /\ ~claim[b] /\ claim'[b] /\ (Charged(b)' <=> Charged(b))
          /\ Before(p, b)' /\ ~After(p, b)'
       \/ /\ Before(p, b) /\ claim'[b] = claim[b] /\ Charged(b)'
          /\ ~Before(p, b)' /\ After(p, b)'
       \/ /\ Before(p, b) /\ ~claim'[b] /\ (Charged(b)' <=> Charged(b))
          /\ ~Before(p, b)' /\ ~After(p, b)'

LEMMA OnceStepKeeps ==
  ASSUME NEW p \in Procs, SettleExclusive, OnceInv, OnceStep(p)
  PROVE  OnceInv'
<1>0. \A r \in Procs, b \in Batches :
        Before(r, b) \/ After(r, b) =>
          claim[b] /\ \A q \in Procs \ {r} : ~Before(q, b) /\ ~After(q, b)
  BY SettlingParts, Zenon DEF SettleExclusive
<1> SUFFICES ASSUME NEW b \in Batches
             PROVE  /\ \A r \in Procs : Before(r, b)' => ~Charged(b)'
                    /\ \A r \in Procs : After(r, b)' => Charged(b)'
                    /\ Charged(b)' => claim'[b]
                    /\ claim'[b] => Charged(b)' \/ \E r \in Procs : Before(r, b)'
  BY Zenon DEF OnceInv
<1>1. \A r \in Procs \ {p} : (Before(r, b)' <=> Before(r, b)) /\ (After(r, b)' <=> After(r, b))
  BY Zenon DEF OnceStep
<1>2. /\ \A r \in Procs : Before(r, b) => ~Charged(b)
      /\ \A r \in Procs : After(r, b) => Charged(b)
      /\ Charged(b) => claim[b]
      /\ claim[b] => Charged(b) \/ \E r \in Procs : Before(r, b)
  BY Zenon DEF OnceInv
<1>3. CASE /\ claim'[b] = claim[b] /\ (Charged(b)' <=> Charged(b))
           /\ Before(p, b)' <=> Before(p, b)
           /\ After(p, b)' => After(p, b)
  BY <1>1, <1>2, <1>3, Zenon
<1>4. CASE /\ ~claim[b] /\ claim'[b] /\ (Charged(b)' <=> Charged(b))
           /\ Before(p, b)' /\ ~After(p, b)'
  BY <1>0, <1>1, <1>2, <1>4, Zenon
<1>5. CASE /\ Before(p, b) /\ claim'[b] = claim[b] /\ Charged(b)'
           /\ ~Before(p, b)' /\ After(p, b)'
  BY <1>0, <1>1, <1>2, <1>5, Zenon
<1>6. CASE /\ Before(p, b) /\ ~claim'[b] /\ (Charged(b)' <=> Charged(b))
           /\ ~Before(p, b)' /\ ~After(p, b)'
  BY <1>0, <1>1, <1>2, <1>6, Zenon
<1> QED
  BY <1>3, <1>4, <1>5, <1>6, Zenon DEF OnceStep

\* A step of p outside settleOneTask, or one that leaves it after the charge.
LEMMA OutsideStep ==
  ASSUME NEW p \in Procs, UNCHANGED <<hash, claim>>,
         \A r \in Procs \ {p} : pc'[r] = pc[r] /\ cur'[r] = cur[r] /\ ret'[r] = ret[r],
         pc[p] \notin EarlyPcs, pc'[p] \notin EarlyPcs \cup {"dbsettle"},
         pc'[p] \in ReleasePcs => ret'[p] # "dbsettle"
  PROVE  OnceStep(p)
<1>1. \A r \in Procs \ {p}, b \in Batches :
        (Before(r, b)' <=> Before(r, b)) /\ (After(r, b)' <=> After(r, b))
  BY Zenon DEF Before, After
<1>2. \A b \in Batches : ~Before(p, b) /\ ~Before(p, b)' /\ ~After(p, b)'
  BY Zenon DEF Before, After
<1>3. \A b \in Batches : claim'[b] = claim[b] /\ (Charged(b)' <=> Charged(b))
  BY Zenon DEF Charged
<1> QED
  BY <1>1, <1>2, <1>3, Zenon DEF OnceStep

LEMMA ResumeOutside ==
  ASSUME TypeInv, NEW p \in Procs, NEW l \in Pcs \ WorkPcs, Resume(p, l),
         UNCHANGED <<hash, claim>>, pc[p] \notin EarlyPcs
  PROVE  OnceStep(p)
<1>1. \A r \in Procs \ {p} : pc'[r] = pc[r] /\ cur'[r] = cur[r] /\ ret'[r] = ret[r]
  BY Zenon DEF TypeInv, TypeOK, Resume, Goto
<1>2. pc'[p] = l
  BY Zenon DEF TypeInv, TypeOK, Resume, Goto
<1>3. l \notin EarlyPcs \cup {"dbsettle"} /\ l \notin ReleasePcs
  BY PcSets, Zenon DEF EarlyPcs, ReleasePcs
<1> QED
  BY <1>1, <1>2, <1>3, OutsideStep, Zenon

LEMMA GotoOutside ==
  ASSUME TypeInv, NEW p \in Procs, NEW l \in Pcs \ (EarlyPcs \cup ReleasePcs \cup {"dbsettle"}),
         Goto(p, l), \A r \in Procs \ {p} : cur'[r] = cur[r],
         UNCHANGED <<hash, claim, ret>>, pc[p] \notin EarlyPcs
  PROVE  OnceStep(p)
<1>1. \A r \in Procs \ {p} : pc'[r] = pc[r] /\ cur'[r] = cur[r] /\ ret'[r] = ret[r]
  BY Zenon DEF TypeInv, TypeOK, Goto
<1>2. pc'[p] = l
  BY Zenon DEF TypeInv, TypeOK, Goto
<1> QED
  BY <1>1, <1>2, OutsideStep, Zenon

\* Calls of releaseReserve from outside settleOneTask.
LEMMA CallOutside ==
  ASSUME TypeInv, NEW p \in Procs, NEW b \in Batches, NEW l \in {"dbrelease", "done"},
         CallRelease(p, b, l), UNCHANGED <<hash, claim>>, pc[p] \notin EarlyPcs
  PROVE  OnceStep(p)
<1>1. \A r \in Procs \ {p} : pc'[r] = pc[r] /\ cur'[r] = cur[r] /\ ret'[r] = ret[r]
  BY Zenon DEF TypeInv, TypeOK, CallRelease, Goto
<1>2. pc'[p] = "relread" /\ ret'[p] # "dbsettle"
  BY Zenon DEF TypeInv, TypeOK, CallRelease, Goto
<1> QED
  BY <1>1, <1>2, OutsideStep, Zenon DEF EarlyPcs

LEMMA JobOnceStep ==
  ASSUME Undisturbed, TypeInv, NEW j \in Jobs, JobStep(j)
  PROVE  OnceStep(j)
<1>0. /\ j \in Procs /\ pc \in [Procs -> Pcs] /\ cur \in [Procs -> Batches \cup {None}]
      /\ claim \in [Batches -> BOOLEAN]
  BY Constants, Zenon DEF TypeInv, TypeOK
<1>1. CASE \/ JobEnd(j) \/ SyncUpsert(j) \/ AdvanceUpdate(j) \/ ReleaseUpdate(j)
           \/ StatementFails(j)
  <2>1. UNCHANGED <<hash, claim>> /\ pc[j] \notin EarlyPcs
    BY <1>1, Zenon DEF JobEnd, SyncUpsert, AdvanceUpdate, ReleaseUpdate, StatementFails, redis,
                       EarlyPcs
  <2>2. \E l \in {"idle", "sync", "advance", "settle", "release"} : Resume(j, l)
    BY <1>1, Zenon DEF JobEnd, SyncUpsert, AdvanceUpdate, ReleaseUpdate, StatementFails
  <2> QED
    BY <1>0, <2>1, <2>2, ResumeOutside, PcSets, Zenon
<1>2. CASE \/ JobStart(j) \/ SyncFetch(j) \/ AdvanceList(j) \/ AdvanceReissue(j)
           \/ BackfillList(j) \/ SettleList(j) \/ ReleaseQuery(j) \/ ReleaseList(j)
  <2>1. UNCHANGED <<hash, claim, cur, ret>> /\ pc[j] \notin EarlyPcs
    BY <1>2, Zenon DEF JobStart, SyncFetch, AdvanceList, AdvanceReissue, BackfillList, SettleList,
                       ReleaseQuery, ReleaseList, List, redis, EarlyPcs
  <2>2. \E l \in {"sync", "syncwrite", "advance", "advwrite", "backfill", "relist", "settle",
                   "release"} : Goto(j, l)
    BY <1>2, Zenon DEF JobStart, SyncFetch, AdvanceList, AdvanceReissue, BackfillList, SettleList,
                       ReleaseQuery, ReleaseList, List
  <2> QED
    BY <1>0, <2>1, <2>2, GotoOutside, PcSets, Zenon DEF EarlyPcs, ReleasePcs
<1>3. ASSUME NEW b \in Batches, SyncHash(j, b) \/ AdvanceGet(j, b) \/ BackfillOne(j, b)
      PROVE  OnceStep(j)
  <2>1. UNCHANGED <<hash, claim, ret>> /\ pc[j] \in {"sync", "advance", "backfill"}
    BY <1>3, Zenon DEF SyncHash, AdvanceGet, BackfillOne, Pick, redis
  <2>2. CASE UNCHANGED <<pc, cur>>
    BY <1>0, <2>1, <2>2, OutsideStep, Zenon DEF EarlyPcs, ReleasePcs
  <2>3. CASE /\ \E l \in {"syncfetch", "advreissue", "advwrite"} : Goto(j, l)
             /\ cur' = [cur EXCEPT ![j] = b]
    <3>1. \A r \in Procs \ {j} : cur'[r] = cur[r]
      BY <1>0, <2>3, Zenon
    <3> QED
      BY <1>0, <2>1, <2>3, <3>1, GotoOutside, PcSets, Zenon DEF EarlyPcs, ReleasePcs
  <2> QED
    BY <1>3, <2>2, <2>3, Zenon DEF SyncHash, AdvanceGet, BackfillOne
<1>4. ASSUME NEW b \in Batches, ReleaseOne(j, b)
      PROVE  OnceStep(j)
  BY <1>0, <1>4, CallOutside, Zenon DEF ReleaseOne, Pick, redis, EarlyPcs
<1>5. CASE SettleUpdate(j)
  BY <1>0, <1>5, ResumeOutside, PcSets, Zenon DEF SettleUpdate, redis, EarlyPcs, Undisturbed
<1>6. ASSUME NEW b \in Batches, SettleClaim(j, b)
      PROVE  OnceStep(j)
  <2>1. UNCHANGED <<hash, ret>> /\ pc[j] = "settle"
    BY <1>6, Zenon DEF SettleClaim, Pick
  <2>2. CASE UNCHANGED <<claim, pc, cur>>
    BY <1>0, <2>1, <2>2, OutsideStep, Zenon DEF EarlyPcs, ReleasePcs
  <2>3. CASE /\ ~claim[b] /\ claim' = [claim EXCEPT ![b] = TRUE]
             /\ Goto(j, "claimed") /\ cur' = [cur EXCEPT ![j] = b]
    <3>1. /\ pc'[j] = "claimed" /\ cur'[j] = b
          /\ \A r \in Procs \ {j} : pc'[r] = pc[r] /\ cur'[r] = cur[r] /\ ret'[r] = ret[r]
          /\ claim'[b] /\ \A c \in Batches \ {b} : claim'[c] = claim[c]
      BY <1>0, <2>1, <2>3, Zenon DEF Goto
    <3>2. \A c \in Batches : Charged(c)' <=> Charged(c)
      BY <2>1, Zenon DEF Charged
    <3>3. \A r \in Procs \ {j}, c \in Batches :
            (Before(r, c)' <=> Before(r, c)) /\ (After(r, c)' <=> After(r, c))
      BY <3>1, Zenon DEF Before, After
    <3>4. Before(j, b)' /\ \A c \in Batches : ~After(j, c)'
      BY <3>1, Zenon DEF Before, After, EarlyPcs, ReleasePcs
    <3>5. \A c \in Batches \ {b} : ~Before(j, c) /\ ~Before(j, c)'
      BY <2>1, <3>1, Zenon DEF Before, EarlyPcs
    <3> QED
      BY <2>3, <3>1, <3>2, <3>3, <3>4, <3>5, Zenon DEF OnceStep
  <2> QED
    BY <1>6, <2>2, <2>3, Zenon DEF SettleClaim
<1>7. CASE SettleDownload(j)
  <2>1. UNCHANGED <<hash, claim, cur, ret>> /\ pc[j] = "claimed"
        /\ \E l \in {"hset", "abort"} : Goto(j, l)
    BY <1>7, Zenon DEF SettleDownload, redis
  <2>2. /\ pc'[j] \in {"hset", "abort"}
        /\ \A r \in Procs \ {j} : pc'[r] = pc[r]
    BY <1>0, <2>1, Zenon DEF Goto
  <2>3. \A r \in Procs, c \in Batches :
          (Before(r, c)' <=> Before(r, c)) /\ (After(r, c)' <=> After(r, c))
    BY <2>1, <2>2, Zenon DEF Before, After, EarlyPcs, ReleasePcs
  <2>4. \A c \in Batches : Charged(c)' <=> Charged(c)
    BY <2>1, Zenon DEF Charged
  <2> QED
    BY <1>0, <2>1, <2>3, <2>4, Zenon DEF OnceStep
<1>8. CASE SettleHSet(j)
  <2>1. PICK b \in Batches : b = cur[j]
    BY <1>0, <1>8, PcSets, Zenon DEF SettleHSet, TypeInv, ControlOK
  <2>2. /\ pc[j] = "hset" /\ claim' = claim
        /\ hash' = [hash EXCEPT ![b].settle = "settled"]
        /\ CallRelease(j, b, "dbsettle")
    BY <1>8, <2>1, Zenon DEF SettleHSet, Undisturbed
  <2>3. /\ pc'[j] = "relread" /\ cur'[j] = b /\ ret'[j] = "dbsettle"
        /\ \A r \in Procs \ {j} : pc'[r] = pc[r] /\ cur'[r] = cur[r] /\ ret'[r] = ret[r]
    BY <1>0, <2>2, Zenon DEF TypeInv, TypeOK, CallRelease, Goto
  <2>4. hash'[b].settle = "settled" /\ \A c \in Batches \ {b} : hash'[c] = hash[c]
    <3>1. \A v \in Views : [v EXCEPT !.settle = "settled"].settle = "settled"
      BY Zenon DEF Views
    <3>2. hash \in [Batches -> Views]
      BY Zenon DEF TypeInv, TypeOK
    <3> QED
      BY <2>2, <3>1, <3>2, Zenon
  <2>5. Charged(b)' /\ \A c \in Batches \ {b} : Charged(c)' <=> Charged(c)
    BY <2>4, Zenon DEF Charged
  <2>6. /\ \A r \in Procs \ {j}, c \in Batches :
             (Before(r, c)' <=> Before(r, c)) /\ (After(r, c)' <=> After(r, c))
        /\ Before(j, b) /\ ~Before(j, b)' /\ After(j, b)'
        /\ \A c \in Batches \ {b} : ~Before(j, c) /\ ~Before(j, c)' /\ ~After(j, c)'
    BY <2>1, <2>2, <2>3, Zenon DEF Before, After, EarlyPcs, ReleasePcs
  <2>7. \A c \in Batches : claim'[c] = claim[c]
    BY <2>2, Zenon
  <2> QED
    BY <2>5, <2>6, <2>7, Zenon DEF OnceStep
<1>9. CASE SettleNoOutput(j) \/ SettleAbort(j)
  <2>1. /\ pc[j] \in {"claimed", "abort"} /\ hash' = hash
        /\ claim' = [claim EXCEPT ![cur[j]] = FALSE]
        /\ CallRelease(j, cur[j], "dbrelease") \/ Resume(j, "settle")
    BY <1>9, Zenon DEF SettleNoOutput, SettleAbort, Undisturbed
  <2>2. cur[j] \in Batches
    BY <1>0, <2>1, PcSets, Zenon DEF TypeInv, ControlOK
  <2>3. /\ pc'[j] = "settle" \/ (pc'[j] = "relread" /\ ret'[j] = "dbrelease")
        /\ \A r \in Procs \ {j} : pc'[r] = pc[r] /\ cur'[r] = cur[r] /\ ret'[r] = ret[r]
    BY <1>0, <2>1, Zenon DEF TypeInv, TypeOK, CallRelease, Resume, Goto
  <2>4. ~claim'[cur[j]] /\ \A c \in Batches \ {cur[j]} : claim'[c] = claim[c]
    BY <1>0, <2>1, <2>2, Zenon
  <2>5. \A c \in Batches : Charged(c)' <=> Charged(c)
    BY <2>1, Zenon DEF Charged
  <2>6. \A r \in Procs \ {j}, c \in Batches :
          (Before(r, c)' <=> Before(r, c)) /\ (After(r, c)' <=> After(r, c))
    BY <2>3, Zenon DEF Before, After
  <2>7. /\ Before(j, cur[j]) /\ \A c \in Batches \ {cur[j]} : ~Before(j, c)
        /\ \A c \in Batches : ~Before(j, c)' /\ ~After(j, c)'
    BY <2>1, <2>3, Zenon DEF Before, After, EarlyPcs, ReleasePcs
  <2> QED
    BY <2>2, <2>4, <2>5, <2>6, <2>7, Zenon DEF OnceStep
<1> QED
  BY <1>1, <1>2, <1>3, <1>4, <1>5, <1>6, <1>7, <1>8, <1>9, Zenon DEF JobStep

LEMMA CancelOnceStep ==
  ASSUME TypeInv, NEW c \in Callers, CancelStep(c)
  PROVE  OnceStep(c)
<1>0. c \in Procs /\ cur \in [Procs -> Batches \cup {None}]
  BY Constants, Zenon DEF TypeInv, TypeOK
<1>1. UNCHANGED <<hash, claim>> /\ pc[c] \notin EarlyPcs
  BY Zenon DEF CancelStep, CancelFallback, CancelPreempt, CancelUpsert, CancelRecheck,
               CancelPost, CancelFails, CancelFetch, redis, EarlyPcs
<1>2. CASE Resume(c, "done")
  BY <1>0, <1>1, <1>2, ResumeOutside, PcSets, Zenon
<1>3. CASE \E l \in {"preempt", "upsert", "preempt2", "recheck", "post", "fallback"} :
             Goto(c, l) /\ UNCHANGED ret /\ \A r \in Procs \ {c} : cur'[r] = cur[r]
  BY <1>0, <1>1, <1>3, GotoOutside, PcSets, Zenon DEF EarlyPcs, ReleasePcs
<1>4. CASE CancelPost(c) /\ CallRelease(c, cur[c], "done")
  <2>1. cur[c] \in Batches
    BY <1>0, <1>4, PcSets, Zenon DEF CancelPost, TypeInv, ControlOK
  <2> QED
    BY <1>0, <1>1, <1>4, <2>1, CallOutside, Zenon
<1>5. CASE \E b \in Batches : CancelFetch(c, b)
  <2>1. UNCHANGED ret /\ \A r \in Procs \ {c} : cur'[r] = cur[r]
    BY <1>0, <1>5, Zenon DEF CancelFetch
  <2>2. Goto(c, "preempt") \/ Goto(c, "fallback")
    BY <1>5, Zenon DEF CancelFetch
  <2> QED
    BY <1>3, <2>1, <2>2, Zenon
<1>6. CASE CancelPreempt(c)
  <2>1. UNCHANGED ret /\ \A r \in Procs \ {c} : cur'[r] = cur[r]
    BY <1>6, Zenon DEF CancelPreempt
  <2>2. Goto(c, "post") \/ Goto(c, "upsert") \/ Goto(c, "recheck")
    BY <1>6 DEF CancelPreempt
  <2> QED
    BY <1>3, <2>1, <2>2, Zenon
<1>7. CASE CancelFallback(c) \/ CancelUpsert(c) \/ CancelRecheck(c)
  BY <1>2, <1>3, <1>7, Zenon DEF CancelFallback, CancelUpsert, CancelRecheck
<1> QED
  BY <1>2, <1>4, <1>5, <1>6, <1>7, Zenon DEF CancelStep, CancelPost, CancelFails

\* releaseReserve returns into the settlement it was called from.
LEMMA ReserveOnceStep ==
  ASSUME TypeInv, NEW p \in Procs, ReserveStep(p)
  PROVE  OnceStep(p)
<1>0. pc \in [Procs -> Pcs] /\ pc[p] \in ReleasePcs /\ UNCHANGED <<hash, claim>>
  BY Zenon DEF TypeInv, TypeOK, ReserveStep, ReserveRead, ReserveDelete, ReserveDecr, redis,
               ReleasePcs
<1>1. pc[p] \notin EarlyPcs
  BY <1>0, Zenon DEF ReleasePcs, EarlyPcs
<1>2. ASSUME NEW l \in ReleasePcs \cup {ret[p]}, Goto(p, l), UNCHANGED <<cur, ret>>
      PROVE  OnceStep(p)
  <2>1. pc'[p] = l /\ \A r \in Procs \ {p} : pc'[r] = pc[r]
    BY <1>0, <1>2, Zenon DEF Goto
  <2>2. ret[p] \in {"dbsettle", "dbrelease", "done"}
    BY Zenon DEF TypeInv, TypeOK
  <2>3. \A r \in Procs \ {p}, c \in Batches :
          (Before(r, c)' <=> Before(r, c)) /\ (After(r, c)' <=> After(r, c))
    BY <1>2, <2>1, Zenon DEF Before, After
  <2>4. l \notin EarlyPcs
    BY <1>2, <2>2, Zenon DEF ReleasePcs, EarlyPcs
  <2>5. \A c \in Batches : ~Before(p, c) /\ ~Before(p, c)'
    BY <1>1, <2>1, <2>4, Zenon DEF Before
  <2>6. \A c \in Batches : After(p, c)' => After(p, c)
    BY <1>0, <1>2, <2>1, <2>2, Zenon DEF After, ReleasePcs
  <2>7. \A c \in Batches : claim'[c] = claim[c] /\ (Charged(c)' <=> Charged(c))
    BY <1>0, Zenon DEF Charged
  <2> QED
    BY <2>3, <2>5, <2>6, <2>7, Zenon DEF OnceStep
<1>3. ASSUME NEW ok \in BOOLEAN, Return(p, ok)
      PROVE  OnceStep(p)
  <2>1. CASE \E l \in {"done", "settle", "release"} : Resume(p, l)
    BY <1>0, <1>1, <2>1, ResumeOutside, PcSets, Zenon
  <2>2. CASE Goto(p, ret[p]) /\ UNCHANGED <<cur, ret>>
    BY <1>2, <2>2, Zenon
  <2> QED
    BY <1>3, <2>1, <2>2 DEF Return
<1>4. ASSUME NEW q \in Plans, ReserveDecr(p, q)
      PROVE  OnceStep(p)
  <2>1. (Goto(p, "reldel") \/ Goto(p, "reldecr")) /\ UNCHANGED <<cur, ret>>
    BY <1>4, Zenon DEF ReserveDecr
  <2> QED
    BY <1>2, <2>1, Zenon DEF ReleasePcs
<1> QED
  BY <1>2, <1>3, <1>4, Zenon DEF ReserveStep, ReserveRead, ReserveDelete, ReleasePcs

LEMMA OnceNext ==
  ASSUME Undisturbed, TypeInv, SettleExclusive, OnceInv, [Next]_vars
  PROVE  OnceInv'
<1>1. ASSUME NEW p \in Procs, OnceStep(p)
      PROVE  OnceInv'
  BY <1>1, OnceStepKeeps
<1>2. ASSUME UNCHANGED <<pc, cur, ret, claim>>,
             \A b \in Batches : hash'[b].settle = hash[b].settle
      PROVE  OnceInv'
  <2>1. /\ \A p \in Procs, b \in Batches : (Before(p, b)' <=> Before(p, b)) /\ (After(p, b)' <=> After(p, b))
        /\ \A b \in Batches : Charged(b)' <=> Charged(b)
    BY <1>2, Zenon DEF Before, After, Charged
  <2> QED
    BY <1>2, <2>1, Zenon DEF OnceInv
<1>3. ASSUME NEW b \in Batches, DataPlaneSettle(b)
      PROVE  OnceInv'
  <2>1. /\ UNCHANGED <<pc, cur, ret>> /\ ~claim[b]
        /\ claim' = [claim EXCEPT ![b] = TRUE]
        /\ \E s \in {"settled", "released"} : hash' = [hash EXCEPT ![b].settle = s]
    BY <1>3, Zenon DEF DataPlaneSettle, local
  <2>2. hash \in [Batches -> Views] /\ claim \in [Batches -> BOOLEAN]
    BY Zenon DEF TypeInv, TypeOK
  <2>3. claim'[b] /\ \A c \in Batches \ {b} : claim'[c] = claim[c] /\ hash'[c] = hash[c]
    BY <2>1, <2>2, Zenon
  <2>4. Charged(b)' /\ \A c \in Batches \ {b} : Charged(c)' <=> Charged(c)
    <3>1. \A v \in Views, s \in {"settled", "released"} : [v EXCEPT !.settle = s].settle = s
      BY Zenon DEF Views
    <3>2. PICK s \in {"settled", "released"} : hash' = [hash EXCEPT ![b].settle = s]
      BY <2>1, Zenon
    <3>3. hash'[b] = [hash[b] EXCEPT !.settle = s] /\ hash[b] \in Views
      BY <2>2, <3>2, Zenon
    <3>4. hash'[b].settle \in {"settled", "released"}
      BY <3>1, <3>3, Zenon
    <3> QED
      BY <2>3, <3>4, Zenon DEF Charged
  <2>5. \A p \in Procs, c \in Batches : (Before(p, c)' <=> Before(p, c)) /\ (After(p, c)' <=> After(p, c))
    BY <2>1, Zenon DEF Before, After
  <2>6. \A p \in Procs : ~Before(p, b) /\ ~After(p, b)
    BY <2>1, SettlingParts, Zenon DEF SettleExclusive
  <2>7. ASSUME NEW p \in Procs, NEW c \in Batches
        PROVE  (Before(p, c)' => ~Charged(c)') /\ (After(p, c)' => Charged(c)')
    <3>1. CASE c = b
      BY <2>4, <2>5, <2>6, <3>1, Zenon
    <3>2. CASE c # b
      <4>1. Charged(c)' <=> Charged(c)
        BY <2>4, <3>2, Zenon
      <4> QED
        BY <2>5, <4>1, Zenon DEF OnceInv
    <3> QED
      BY <3>1, <3>2, Zenon
  <2>8. ASSUME NEW c \in Batches
        PROVE  /\ Charged(c)' => claim'[c]
               /\ claim'[c] => Charged(c)' \/ \E p \in Procs : Before(p, c)'
    <3>1. CASE c = b
      BY <2>3, <2>4, <3>1, Zenon
    <3>2. CASE c # b
      <4>1. (Charged(c)' <=> Charged(c)) /\ claim'[c] = claim[c]
        BY <2>3, <2>4, <3>2, Zenon
      <4> QED
        BY <2>5, <4>1, Zenon DEF OnceInv
    <3> QED
      BY <3>1, <3>2, Zenon
  <2> QED
    BY <2>7, <2>8, Zenon DEF OnceInv
<1>4. ASSUME NEW b \in Batches, Environment(b), ~DataPlaneSettle(b)
      PROVE  OnceInv'
  <2>1. ~ExpireClaim(b) /\ ~ExpireTask(b)
    BY Zenon DEF ExpireClaim, ExpireTask, Undisturbed
  <2>2. UNCHANGED <<pc, cur, ret, claim>>
    BY <1>4, <2>1, Zenon DEF Environment, DataPlaneCreate, DataPlanePoll, ProviderFinish,
                             ProviderForget, Age, GraceElapses, redis, local
  <2>3. CASE hash' = hash
    BY <1>2, <2>2, <2>3, Zenon
  <2>4. CASE DataPlaneCreate(b) \/ DataPlanePoll(b)
    <3>1. \/ hash' = [hash EXCEPT ![b].status = "in_progress"]
          \/ hash' = [hash EXCEPT ![b].status = prov[b].status, ![b].out = prov[b].out]
      BY <2>4, Zenon DEF DataPlaneCreate, DataPlanePoll
    <3>2. ASSUME NEW v \in Views, NEW s, NEW o
          PROVE  /\ [v EXCEPT !.status = s].settle = v.settle
                 /\ [v EXCEPT !.status = s, !.out = o].settle = v.settle
      BY Zenon DEF Views
    <3>3. hash \in [Batches -> Views]
      BY Zenon DEF TypeInv, TypeOK
    <3>4. /\ \A c \in Batches \ {b} : hash'[c] = hash[c]
          /\ \/ hash'[b] = [hash[b] EXCEPT !.status = "in_progress"]
             \/ hash'[b] = [hash[b] EXCEPT !.status = prov[b].status, !.out = prov[b].out]
          /\ hash[b] \in Views
      BY <3>1, <3>3, Zenon
    <3>5. hash'[b].settle = hash[b].settle
      <4>1. CASE hash'[b] = [hash[b] EXCEPT !.status = "in_progress"]
        BY <3>2, <3>4, <4>1
      <4>2. CASE hash'[b] = [hash[b] EXCEPT !.status = prov[b].status, !.out = prov[b].out]
        BY <3>2, <3>4, <4>2
      <4> QED
        BY <3>4, <4>1, <4>2, Zenon
    <3> QED
      BY <1>2, <2>2, <3>4, <3>5, Zenon
  <2> QED
    BY <1>4, <2>1, <2>3, <2>4, Zenon DEF Environment, ProviderFinish, ProviderForget, Age,
                                         GraceElapses, redis
<1>5. \A p \in Procs : ~Crash(p)
  <2>1. crashes \in Nat /\ ~(crashes < 0)
    BY DEF TypeInv, TypeOK, Undisturbed
  <2> QED
    BY <2>1, Zenon DEF Crash, Undisturbed
<1>6. CASE LockLost \/ UNCHANGED vars
  BY <1>2, <1>6, Zenon DEF LockLost, vars, redis, local
<1> QED
  BY <1>1, <1>3, <1>4, <1>5, <1>6, JobOnceStep, CancelOnceStep, ReserveOnceStep, Constants, Zenon
     DEF Next

\* As long as nothing of a settlement is lost (no process dies, the database
\* and Redis answer, and the keys of Redis stay), a batch is settled once and
\* no claim is left behind, for any number of replicas, batches and cancels,
\* when the provider fails and the named lock is lost (settleOneTask and its
\* SET NX of BATCH_SETTLED).
THEOREM SettledAtMostOnce ==
  ASSUME Undisturbed
  PROVE  Spec => []SettledOnce
<1>1. Init => TypeInv /\ SettleExclusive /\ OnceInv
  <2> SUFFICES ASSUME Init PROVE SettleExclusive /\ OnceInv
    BY TypeInit
  <2>1. SettleExclusive
    BY ConstantsOK DEF Init, SettleExclusive, Settling, ReleasePcs
  <2>2. \A p \in Procs, b \in Batches : ~Before(p, b) /\ ~After(p, b)
    BY ConstantsOK, Zenon DEF Init, Before, After
  <2>3. \A b \in Batches : ~Charged(b) /\ ~claim[b]
    BY Zenon DEF Init, Charged, NoView
  <2> QED
    BY <2>1, <2>2, <2>3, Zenon DEF OnceInv
<1>2. TypeInv /\ SettleExclusive /\ OnceInv /\ [Next]_vars
        => TypeInv' /\ SettleExclusive' /\ OnceInv'
  BY TypeStep, ExclusiveStep, OnceNext
<1>3. TypeInv /\ OnceInv => SettledOnce
  <2> SUFFICES ASSUME TypeInv, OnceInv PROVE SettledOnce
    OBVIOUS
  <2>1. ASSUME NEW j \in Jobs, pc[j] = "hset"
        PROVE  hash[cur[j]].settle = ""
    <3>1. j \in Procs /\ cur[j] \in Batches
      BY <2>1, Constants, PcSets, Zenon DEF TypeInv, ControlOK
    <3>2. Before(j, cur[j])
      BY <2>1, Zenon DEF Before, EarlyPcs
    <3> QED
      BY <3>1, <3>2, Zenon DEF OnceInv, Charged
  <2>2. \A b \in Batches :
          claim[b] /\ (\A p \in Procs : ~Settling(p, b)) => hash[b].settle # ""
    BY SettlingParts, Zenon DEF OnceInv, Charged
  <2> QED
    BY <2>1, <2>2, Zenon DEF SettledOnce
<1> QED
  BY <1>1, <1>2, <1>3, PTL DEF Spec
=============================================================================
