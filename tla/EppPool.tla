------------------------------ MODULE EppPool ------------------------------
(***************************************************************************)
(* The endpoint-picker (EPP) groups and their assignment to the clusters   *)
(* in EPP mode (model/epp_pool): the instance pool, replaced as a whole by *)
(* PATCH /epp-pool, the greedy allocator, the repair of assignments to     *)
(* groups that are gone, the reconciler that runs every interval, and the  *)
(* manual override.  All of them read the pool and the assignments first   *)
(* and write one assignment per transaction afterwards, so they interleave.*)
(* Groups and clusters are numbers, in the order of their names.           *)
(***************************************************************************)
EXTENDS Tables, Integers

CONSTANTS
    Groups,          \* group names
    EppClusters,     \* names of clusters that may be in EPP mode
    EppConfigs,      \* epp_config bodies
    Handlers,        \* request handlers that may run at once
    MaxEppWrites,    \* bound on the requests
    MaxEppFaults     \* bound on the database errors

ASSUME EppAssumption ==
    /\ Groups \subseteq Nat /\ EppClusters \subseteq Nat
    /\ MaxEppWrites \in Nat /\ MaxEppFaults \in Nat

VARIABLES
    groups,       \* groups of the pool; each has its one instance
    assigned,     \* cluster -> the group of its row of epp_assignments
    eppRow,       \* cluster -> its epp_config while in EPP mode
    eppWorker,    \* the reconciler and the handlers at work
    eppFaults     \* database errors so far

eppVars == <<groups, assigned, eppRow, eppWorker, eppFaults>>

Reconciler == "reconciler"
Workers == Handlers \cup {Reconciler}

\* A worker at rest, and one about to repair or to fill the clusters cs.
Idle == [pc |-> "idle", phase |-> "none", pool |-> {}, view |-> EmptyTable(EppClusters),
         todo |-> {}, retried |-> FALSE]
Working(phase, cs) == [Idle EXCEPT !.pc = "pool", !.phase = phase, !.todo = cs]

EppInit ==
    /\ groups = {}
    /\ assigned = EmptyTable(EppClusters)
    /\ eppRow = EmptyTable(EppClusters)
    /\ eppWorker = [w \in Workers |-> Idle]
    /\ eppFaults = 0

FetchEPPClusters == {c \in EppClusters : Exists(eppRow, c)}

---------------------------------------------------------------------------
\* The allocator.

countGroupAssignments(view, g) == Cardinality({c \in EppClusters : view[c] = {g}})

\* The group with the fewest assignments, the first by name among equals.
allocateCluster(pool, view) ==
    CHOOSE g \in pool : \A h \in pool \ {g} :
        LET a == countGroupAssignments(view, g)
            b == countGroupAssignments(view, h)
        IN a < b \/ (a = b /\ g < h)

findValidAssignment(pool, view, c) == view[c] \cap pool

\* What repairOne and allocateAndUpsert write for a cluster without a valid
\* assignment: a new group, or no row when there is no group.
Reallocated(pool, view) == IF pool = {} THEN {} ELSE {allocateCluster(pool, view)}

First(S) == CHOOSE c \in S : \A d \in S : c <= d

\* UpsertAssignment, or DeleteAssignment for the empty row.
Store(c, row) == assigned' = [assigned EXCEPT ![c] = row]

EppFault == eppFaults < MaxEppFaults /\ eppFaults' = eppFaults + 1

---------------------------------------------------------------------------
\* The steps of a worker.  FetchInstanceList and buildPool.
ReadPool(w) ==
    /\ eppWorker[w].pc = "pool"
    /\ eppWorker' = [eppWorker EXCEPT ![w].pc = "view", ![w].pool = groups]
    /\ UNCHANGED <<groups, assigned, eppRow, eppFaults>>

\* FetchAssignmentList; a repair goes through every row it finds.
ReadAssignments(w) ==
    /\ eppWorker[w].pc = "view"
    /\ eppWorker' = [eppWorker EXCEPT ![w].pc = "work", ![w].view = assigned,
                    ![w].todo = IF eppWorker[w].phase = "repair"
                                THEN {c \in EppClusters : Exists(assigned, c)} ELSE @]
    /\ UNCHANGED <<groups, assigned, eppRow, eppFaults>>

ReadFails(w) ==
    /\ eppWorker[w].pc \in {"pool", "view"}
    /\ EppFault
    /\ eppWorker' = [eppWorker EXCEPT ![w] = Idle]
    /\ UNCHANGED <<groups, assigned, eppRow>>

\* One row of the repair; pool and loads are those read at its beginning.
RepairDangling(w) ==
    LET s == eppWorker[w]
        c == First(s.todo)
    IN /\ s.pc = "work" /\ s.phase = "repair" /\ s.todo # {}
       /\ IF findValidAssignment(s.pool, s.view, c) # {} THEN assigned' = assigned
          ELSE Store(c, Reallocated(s.pool, s.view))
       /\ eppWorker' = [eppWorker EXCEPT ![w].todo = s.todo \ {c}]
       /\ UNCHANGED <<groups, eppRow, eppFaults>>

\* One cluster of the allocation, which re-reads the rows after a write.
\* The second attempt does not look for a valid assignment again.
allocateAndUpsert(w) ==
    LET s == eppWorker[w]
        c == First(s.todo)
    IN /\ s.pc = "work" /\ s.phase = "fill" /\ s.todo # {}
       /\ IF ~s.retried /\ findValidAssignment(s.pool, s.view, c) # {}
          THEN assigned' = assigned /\ eppWorker' = [eppWorker EXCEPT ![w].todo = s.todo \ {c}]
          ELSE /\ Store(c, Reallocated(s.pool, s.view))
               /\ eppWorker' = [eppWorker EXCEPT ![w].todo = s.todo \ {c}, ![w].pc = "view",
                                           ![w].retried = FALSE]
       /\ UNCHANGED <<groups, eppRow, eppFaults>>

\* The write fails: an upsert of the allocation is tried once more on rows
\* read again; everything else is given up.
WriteFails(w) ==
    LET s == eppWorker[w]
        again == s.phase = "fill" /\ ~s.retried /\ s.pool # {}
    IN /\ s.pc = "work" /\ s.todo # {}
       /\ s.retried \/ findValidAssignment(s.pool, s.view, First(s.todo)) = {}
       /\ EppFault
       /\ eppWorker' = [eppWorker EXCEPT ![w] = IF again THEN [s EXCEPT !.pc = "view", !.retried = TRUE]
                                          ELSE Idle]
       /\ UNCHANGED <<groups, assigned, eppRow>>

\* Mutant: Reconcile stops after the repair.
WorkEnds_RepairOnly(w) ==
    /\ eppWorker[w].pc = "work" /\ eppWorker[w].todo = {}
    /\ eppWorker' = [eppWorker EXCEPT ![w] = Idle]
    /\ UNCHANGED <<groups, assigned, eppRow, eppFaults>>

\* A repair within Reconcile goes on to the clusters in EPP mode.
WorkEnds(w) ==
    LET s == eppWorker[w]
    IN /\ s.pc = "work" /\ s.todo = {}
       /\ eppWorker' = [eppWorker EXCEPT ![w] =
             IF w = Reconciler /\ s.phase = "repair" /\ FetchEPPClusters # {}
             THEN Working("fill", FetchEPPClusters) ELSE Idle]
       /\ UNCHANGED <<groups, assigned, eppRow, eppFaults>>

EppWorkerStep(w) ==
    \/ ReadPool(w) \/ ReadAssignments(w) \/ ReadFails(w) \/ RepairDangling(w)
    \/ allocateAndUpsert(w) \/ WriteFails(w) \/ WorkEnds(w)

\* reconcileWithRecover: once at start, then every interval; what fails is
\* left to the next tick.
ReconcileTick ==
    /\ eppWorker[Reconciler] = Idle
    /\ eppWorker' = [eppWorker EXCEPT ![Reconciler] = Working("repair", {})]
    /\ UNCHANGED <<groups, assigned, eppRow, eppFaults>>

---------------------------------------------------------------------------
\* Requests.

\* validateGroups: at least one group, each with exactly one instance.
validateGroups(G) == G # {}

PatchPool(h, G) ==
    /\ eppWorker[h] = Idle
    /\ validateGroups(G)
    /\ groups' = G
    /\ eppWorker' = [eppWorker EXCEPT ![h] = Working("repair", {})]
    /\ UNCHANGED <<assigned, eppRow>>

EffectiveAffinity(conf) == Given(conf.affinity, "medium")
EffectiveWaitingQueueMax(conf) == Given(conf.waiting, 0)

\* waiting_queue_max is in halves; a limit of flow control is -1 or positive.
FlowControlValidate(fc) ==
    /\ \A n \in fc.max : n = -1 \/ n > 0
    /\ \A t \in fc.ttl : t >= 0
    /\ \A t \in fc.noTtl : t >= 0
    /\ ~Given(fc.evict, FALSE)

IsEmpty(conf) == \A f \in DOMAIN conf : conf[f] = {}

EppConfigValidate(conf) ==
    /\ EffectiveAffinity(conf) \in {"off", "low", "medium", "high"}
    /\ EffectiveWaitingQueueMax(conf) >= 0
    /\ Given(conf.session, FALSE) => conf.header # {}
    /\ \A fc \in conf.fc : FlowControlValidate(fc)

\* A cluster enters EPP mode by creation or PATCH; its handler then calls
\* AssignCluster.  A new epp_config of a cluster already there is only stored.
EnterEPP(h, c, conf) ==
    /\ eppWorker[h] = Idle
    /\ EppConfigValidate(conf) /\ ~IsEmpty(conf)
    /\ eppRow' = [eppRow EXCEPT ![c] = {conf}]
    /\ eppWorker' = IF Exists(eppRow, c) THEN eppWorker
                 ELSE [eppWorker EXCEPT ![h] = Working("fill", {c})]
    /\ UNCHANGED <<groups, assigned>>

\* Back to WRR, or deleted: the assignment stays in the table.
LeaveEPP(c) ==
    /\ Exists(eppRow, c)
    /\ eppRow' = [eppRow EXCEPT ![c] = {}]
    /\ UNCHANGED <<groups, assigned, eppWorker>>

\* OverrideAssignment checks cluster and group, and then writes.
OverrideBegin(h, c, g) ==
    /\ eppWorker[h] = Idle
    /\ c \in FetchEPPClusters
    /\ g \in groups
    /\ eppWorker' = [eppWorker EXCEPT ![h] = [Idle EXCEPT !.pc = "override", !.pool = {g}, !.todo = {c}]]
    /\ UNCHANGED <<groups, assigned, eppRow>>

OverrideAssignment(h) ==
    /\ eppWorker[h].pc = "override"
    /\ \/ Store(First(eppWorker[h].todo), eppWorker[h].pool) /\ UNCHANGED eppFaults
       \/ EppFault /\ UNCHANGED assigned
    /\ eppWorker' = [eppWorker EXCEPT ![h] = Idle]
    /\ UNCHANGED <<groups, eppRow>>

EppRequest ==
    /\ Write(MaxEppWrites)
    /\ UNCHANGED eppFaults
    /\ \/ \E h \in Handlers, G \in SUBSET Groups : PatchPool(h, G)
       \/ \E h \in Handlers, c \in EppClusters, conf \in EppConfigs : EnterEPP(h, c, conf)
       \/ \E c \in EppClusters : LeaveEPP(c)
       \/ \E h \in Handlers, c \in EppClusters, g \in Groups : OverrideBegin(h, c, g)

EppWork ==
    /\ UNCHANGED writes
    /\ \/ \E w \in Workers : EppWorkerStep(w)
       \/ \E h \in Handlers : OverrideAssignment(h)
       \/ ReconcileTick

EppNext == EppRequest \/ EppWork

---------------------------------------------------------------------------
\* What is read and exported.

\* The clusters with a group of the pool, those without, and the groups that
\* serve none.
buildAssignmentsView ==
    LET valid == {c \in FetchEPPClusters : \E g \in assigned[c] : g \in groups}
    IN [clusters |-> valid, unassigned |-> FetchEPPClusters \ valid,
        idle |-> groups \ UNION {assigned[c] : c \in valid}]

\* fetchEPPAssignmentAddrs: the group the data plane is sent to; a cluster
\* without one is exported as WRR.
GetAssignmentEndpoints(c) == findValidAssignment(groups, assigned, c)

compileAffinity(conf) ==
    {s \in {"prefix-scorer", "session-scorer"} :
        /\ EffectiveAffinity(conf) # "off"
        /\ s = "prefix-scorer" => Given(conf.prefix, TRUE)
        /\ s = "session-scorer" => Given(conf.session, FALSE) /\ conf.header # {}}

\* The queue threshold of the detector, a whole number; 5 below one request.
compileSaturationDetectorPlugin(conf) ==
    IF EffectiveWaitingQueueMax(conf) >= 2 THEN EffectiveWaitingQueueMax(conf) \div 2 ELSE 5

DefaultBand == 10000

\* Band 0 mirrors the global limit, or has the default one.
compileFlowControl(conf) ==
    LET fc == Given(conf.fc, [max |-> {}, ttl |-> {}, noTtl |-> {}, evict |-> {}])
        limit == {n \in fc.max : n > 0}
    IN [max |-> limit, band |-> Given(limit, DefaultBand), ttl |-> fc.ttl,
        noTtl |-> IF fc.noTtl = {} THEN fc.ttl ELSE fc.noTtl]

CompileEppConfig(conf) ==
    [scorers |-> compileAffinity(conf), waiting |-> EffectiveWaitingQueueMax(conf),
     queueDepth |-> compileSaturationDetectorPlugin(conf),
     flow |-> compileFlowControl(conf), gate |-> conf.fc # {}]

EppDataGenerator ==
    [config |-> [c \in FetchEPPClusters |-> CompileEppConfig(Row(eppRow, c))],
     assignment |-> [c \in buildAssignmentsView.clusters |-> Row(assigned, c)]]

---------------------------------------------------------------------------
\* The assignments of a cluster are at most one row, whoever writes it.
EppTypeOK ==
    /\ groups \subseteq Groups
    /\ \A c \in EppClusters : assigned[c] \subseteq Groups /\ Cardinality(assigned[c]) <= 1
    /\ \A w \in Workers : eppWorker[w].todo \subseteq EppClusters /\ eppWorker[w].pool \subseteq Groups

\* EppDataGenerator and fetchEPPAssignmentAddrs join the tables on their own:
\* epp_data has an assignment exactly for the clusters the other file sends to
\* a group, and no such group is idle.  In a compiled config the detector is
\* no laxer than the admission filter once that admits a whole request, the
\* global limit is never above that of band 0 ("band 0 mirrors the global
\* limit"), and a session scorer has its header.
EppFilesAgree ==
    /\ DOMAIN EppDataGenerator.assignment = {c \in FetchEPPClusters : GetAssignmentEndpoints(c) # {}}
    /\ \A c \in DOMAIN EppDataGenerator.assignment :
          EppDataGenerator.assignment[c] \in groups \ buildAssignmentsView.idle
    /\ \A c \in FetchEPPClusters :
          LET out == EppDataGenerator.config[c]
          IN /\ out.waiting >= 2 => 2 * out.queueDepth <= out.waiting
             /\ \A n \in out.flow.max : n <= out.flow.band
             /\ Given(Row(eppRow, c).session, FALSE) /\ EffectiveAffinity(Row(eppRow, c)) # "off"
                   => "session-scorer" \in out.scorers

\* assignClusterToEPP: "the periodic reconciler converges later".  However pool
\* changes, mode changes, overrides and failed writes interleave, once they
\* stop every cluster in EPP mode has a group that exists, if any does.
EventuallyAssigned ==
    []<>(groups # {} => \A c \in FetchEPPClusters : findValidAssignment(groups, assigned, c) # {})

\* RepairDangling: an assignment to a removed group does not last, whether or
\* not its cluster is still in EPP mode.
EventuallyRepaired == []<>(\A c \in EppClusters : assigned[c] \subseteq groups)
=============================================================================
