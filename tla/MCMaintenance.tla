--------------------------- MODULE MCMaintenance ----------------------------
(* The instance of Maintenance: small instances of its parts. *)
EXTENDS Maintenance, MCReports

(* ------------------------------ the sweep ------------------------------ *)

CONSTANTS j1, j2, s1, s2

File(keys, active) == [keys |-> keys, active |-> active]
Switch == <<File({1, 2}, 1), File({1, 2}, 2), File({2}, 2)>>

Sweep(mode, dryRun, scope) == [mode |-> mode, dryRun |-> dryRun, scope |-> scope]
FullSweep == {Sweep("reencrypt", FALSE, "all")}
Symmetric == Permutations({j1, j2})

(* ------------------------ the files of batches ------------------------- *)

TwoProducts == [k \in {"a1", "a2"} |-> IF k = "a1" THEN "p1" ELSE "p2"]
Owners == [f \in {"in1", "out1", "in2"} |-> IF f = "in2" THEN "a2" ELSE "a1"]

(* ------------------------------ the trail ------------------------------ *)

CONSTANTS w1, w2

WritersSymmetric == Permutations(Writers)

\* A body with everything, one that changes the plan alone, and one that
\* repeats the policy without its list.
SomeBodies ==
    {[own |-> [name |-> 1], plan |-> {[quota |-> 1]}, policy |-> {[enabled |-> 1, tpm |-> 1]}],
     [own |-> << >>, plan |-> {[quota |-> 2, unlimited |-> 0]}, policy |-> {}],
     [own |-> [name |-> 2], plan |-> {}, policy |-> {[enabled |-> 1]}]}

(* ------------------------------ symmetry ------------------------------- *)

EitherInstance == Symmetric \cup Symmetry \cup WritersSymmetric
=============================================================================
