---------------------------- MODULE MCBatchTasks ----------------------------
(***************************************************************************)
(* Instances of BatchTasks for TLC, and the invariants that add up the     *)
(* reserve of several batches.                                             *)
(***************************************************************************)
EXTENDS BatchTasks, FiniteSetsExt

\* Every batch reserves one unit of every plan.
UnitReserve == [b \in Batches |-> [q \in Plans |-> 1]]

Booked(S, q) == MapThenSumSet(LAMBDA b : book[b][q], S)

\* The row agrees with what the provider did (SettleMatchesProvider), and no reserve
\* is leaked: a mirror never counts units that no book accounts for, since nothing
\* would ever take them out of it (releaseReservation).
SettlementRight ==
    /\ SettleMatchesProvider
    /\ \A q \in Plans : mirror[q] <= Booked(Batches, q)
=============================================================================
