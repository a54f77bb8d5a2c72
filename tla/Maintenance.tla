---------------------------- MODULE Maintenance -----------------------------
(***************************************************************************)
(* What an instance keeps in step across whole tables: the sweep that      *)
(* re-encrypts the stored secrets, the report job that aggregates request  *)
(* logs and keeps their partitions, the batch job's copy of the file       *)
(* metadata, and the trail that requests leave in the operation log.  They *)
(* share no table; as in ControlPlane, a behaviour is about one of them    *)
(* and the others rest.                                                    *)
(***************************************************************************)
EXTENDS KeyRotate, ReportJob, BatchFiles, AuditTrail

VARIABLE running  \* the job this behaviour is about

MaintenanceInit ==
    /\ running \in {"sweep", "reports", "files", "trail"} /\ SweepInit /\ Init /\ FilesInit /\ AuditInit
    \* at rest all values are in the clear, or all were written with the keyring
    \* on; where the sweep rests the former is enough
    /\ \A c, d \in Cells : cell[c].key = cell[d].key
    /\ running # "sweep" => \A c \in Cells : cell[c].key = 0

MaintenanceNext ==
    \/ running = "sweep" /\ SweepNext /\ UNCHANGED <<vars, fileVars, auditVars, running>>
    \/ running = "reports" /\ Next /\ UNCHANGED <<sweepVars, fileVars, auditVars, running>>
    \/ running = "files" /\ FilesNext /\ UNCHANGED <<sweepVars, vars, auditVars, running>>
    \/ running = "trail" /\ AuditNext /\ UNCHANGED <<sweepVars, vars, fileVars, running>>

MaintenanceSpec == MaintenanceInit /\ [][MaintenanceNext]_<<sweepVars, vars, fileVars, auditVars, running>>

\* Every variable in its range, a task that runs holds the lock row, partitions cover
\* the days ahead, and a pass over the file hashes leaves out no file it found and
\* shows no result file as an input file.
MaintenanceConsistent ==
    /\ SweepTypeOK /\ TypeOK /\ FilesTypeOK /\ AuditTypeOK
    /\ RunningHoldsLock /\ CoveredAhead /\ PassIsComplete /\ OutputsAreOutputs
=============================================================================
