------------------------------- MODULE Tables -------------------------------
(***************************************************************************)
(* Conventions shared by the catalogues of the control plane: a table maps *)
(* every key to the set of the rows stored under it, which has at most one *)
(* member; an optional field of a request is a set with at most one        *)
(* member.  A write is one transaction; their number is bounded.           *)
(***************************************************************************)
EXTENDS Naturals, FiniteSets

VARIABLE writes    \* transactions so far

Given(field, default) == IF field = {} THEN default ELSE CHOOSE v \in field : TRUE
Row(table, n) == CHOOSE r \in table[n] : TRUE
Exists(table, n) == table[n] # {}
Rows(table) == UNION {table[n] : n \in DOMAIN table}
EmptyTable(keys) == [n \in keys |-> {}]

\* At most bound writes are explored.
Write(bound) == writes < bound /\ writes' = writes + 1
=============================================================================
