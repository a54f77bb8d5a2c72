------------------------------ MODULE Services ------------------------------
(***************************************************************************)
(* What goes on in the process around the requests, side by side: the      *)
(* writer of the operation log, the reconciler of the EPP pool, the        *)
(* exports that the agents of the data plane poll, the connections to the  *)
(* database, and what the batch job charges.  They share no state that     *)
(* matters here.  As in ControlPlane, a behaviour is about one of them and *)
(* the others rest; the fairness of each is the one of its own module.     *)
(***************************************************************************)
EXTENDS OperLog, EppPool, ConfigVersion, DBPool, BatchUsage

VARIABLE service  \* the part this behaviour is about

servicesVars == <<vars, eppVars, writes, versionVars, poolVars, usageVars, service>>

Undisturbed ==
    /\ UNCHANGED service
    /\ IF service = "operlog" THEN TRUE ELSE UNCHANGED vars
    /\ IF service = "epp" THEN TRUE ELSE UNCHANGED <<eppVars, writes>>
    /\ IF service = "versions" THEN TRUE ELSE UNCHANGED versionVars
    /\ IF service = "pool" THEN TRUE ELSE UNCHANGED poolVars
    /\ IF service = "charges" THEN TRUE ELSE UNCHANGED usageVars

ServicesInit ==
    /\ service \in {"operlog", "epp", "versions", "pool", "charges"}
    /\ Init /\ EppInit /\ writes = 0 /\ VersionInit /\ PoolInit /\ UsageInit
    \* one database and content are enough where the exports rest
    /\ service # "versions" =>
          backend = (CHOOSE b \in Backends : TRUE) /\ content = (CHOOSE c \in Contents : TRUE)
    /\ service # "charges" => provider = (CHOOSE p \in ProviderRecords : TRUE)

ServicesNext ==
    \/ service = "operlog" /\ Next /\ Undisturbed
    \/ service = "epp" /\ EppNext /\ Undisturbed
    \/ service = "versions" /\ VersionNext /\ Undisturbed
    \/ service = "pool" /\ PoolNext /\ Undisturbed
    \/ service = "charges" /\ UsageNext /\ Undisturbed

OperLogFairness ==
    /\ WF_servicesVars(service = "operlog" /\ WorkerStep /\ Undisturbed)
    /\ \A e \in Entries :
          /\ WF_servicesVars(service = "operlog" /\ SyncInsert(e) /\ Undisturbed)
          /\ WF_servicesVars(service = "operlog" /\ SyncInvalidate(e) /\ Undisturbed)
    /\ \A r \in Readers : WF_servicesVars(service = "operlog" /\ ReaderStep(r) /\ Undisturbed)
    /\ WF_servicesVars(service = "operlog" /\ CacheExpire(gen) /\ Undisturbed)

ReconcilerFairness ==
    /\ WF_servicesVars(service = "epp" /\ UNCHANGED writes /\ ReconcileTick /\ Undisturbed)
    /\ \A w \in Workers :
          WF_servicesVars(service = "epp" /\ UNCHANGED writes /\ EppWorkerStep(w) /\ Undisturbed)
    /\ \A h \in Handlers :
          WF_servicesVars(service = "epp" /\ UNCHANGED writes /\ OverrideAssignment(h) /\ Undisturbed)

PollFairness ==
    \A a \in Agents : WF_servicesVars(service = "versions" /\ Poll(a) /\ Undisturbed)

ChargeFairness ==
    /\ \A b \in Batches :
          /\ WF_servicesVars(service = "charges" /\ GraceEnds(b) /\ Undisturbed)
          /\ WF_servicesVars(service = "charges" /\ SettleNext(b) /\ Undisturbed)
    /\ WF_servicesVars(service = "charges" /\ ReconcileSettle /\ Undisturbed)

ServicesSpec ==
    /\ ServicesInit /\ [][ServicesNext]_servicesVars
    /\ OperLogFairness /\ ReconcilerFairness /\ PollFairness /\ ChargeFairness

\* Where agents poll, every one of them ends up with the present content, once the
\* administrators stop: no order of polls, stale snapshots, refused inserts or lost
\* answers leaves an agent with an old content (ExportConfig).
PollingAgentsCatchUp == <>[](service = "versions" => CaughtUp)

\* The parts stay within their bounds and agree with themselves: every variable in its
\* range, an entry logged once per insert, no total above the table, the two EPP files
\* in step, one content per version, distinct ids, no waiting while holding a
\* connection, no answers charged nothing, no candidate of a round forgotten.
ServicesConsistent ==
    /\ TypeOK /\ EppTypeOK /\ VersionTypeOK /\ PoolTypeOK /\ UsageTypeOK
    /\ AtMostOnce /\ TotalWithinTable /\ EppFilesAgree /\ OneContentPerVersion
    /\ DistinctIds /\ NoHoldAndWait /\ AnswersAreNotFree /\ RoundLeavesNone

\* What is queued is worked off: every recorded entry is inserted or given up with a
\* warning while the worker runs, once inserts stop the totals that are served become
\* exact, and every batch that can be charged is, unless a listing's worth are stuck.
BacklogsDrain == EventuallyLogged /\ TotalsConverge /\ EventuallyCharged

\* The reconciler of the EPP pool converges: again and again every cluster in EPP mode
\* has a group that exists, if any does, and no assignment names a removed group.
EppConverges == EventuallyAssigned /\ EventuallyRepaired
=============================================================================
