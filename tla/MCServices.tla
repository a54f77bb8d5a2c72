----------------------------- MODULE MCServices -----------------------------
(* The instance of Services: small instances of its parts. *)
EXTENDS Services

(* ---------------------------- the EPP pool ----------------------------- *)

Conf(aff, session, header, waiting, fc) ==
    [affinity |-> aff, prefix |-> {}, session |-> session, header |-> header,
     waiting |-> waiting, fc |-> fc]
Flow(max, ttl) == [max |-> max, ttl |-> ttl, noTtl |-> {}, evict |-> {}]

MCSomeConfigs ==
    {Conf({}, {TRUE}, {}, {}, {}), Conf({"low"}, {TRUE}, {"h"}, {3}, {}),
     Conf({}, {}, {}, {}, {Flow({DefaultBand + 1}, {60})})}

(* ----------------------------- the exports ----------------------------- *)

CONSTANTS a1, a2, c1, c2

\* MySQL at REPEATABLE READ with the driver go.mod names, whose text for error
\* 1062 lib.DuplicateEntryError does not match; and statement-level reads with a
\* recognised error, as the storager's own tests run it.
MySQLAndAutocommit ==
    {[snapshot |-> TRUE, recognised |-> FALSE], [snapshot |-> FALSE, recognised |-> TRUE]}

(* --------------------------- the connections --------------------------- *)

CONSTANTS q1, q2, k1, k2, k3

SharedRows == (q1 :> {k1, k2}) @@ (q2 :> {k1, k2, k3})

(* --------------------- what the batch job charges ---------------------- *)

Use(i, o, mo) == {[in |-> i, out |-> o, model |-> mo]}
Line(k, sz, body, top) == [kind |-> k, size |-> sz, body |-> body, top |-> top]

\* Batch 1: usage in both places, an error row, a line too long and one without a
\* model.  Batch 2: answers without usage.  Batch 3: usage at the top, not JSON.
\* Batch 4 has no result file.
FourFiles == <<
    << Line("response", 1, Use(1, 2, "none"), Use(9, 9, "m2")), Line("error", 1, {}, {}),
       Line("response", 5, Use(7, 7, "m2"), {}), Line("response", 1, Use(3, 1, "m1"), {}) >>,
    << Line("response", 1, {}, {}), Line("blank", 0, {}, {}) >>,
    << Line("bad", 1, {}, {}), Line("response", 1, {}, Use(2, 2, "m2")), Line("response", 1, {}, {}) >>,
    << >> >>
KeyPerBatch == <<"k1", "k1", "k2", "k2">>
BatchPrices == [m \in {"m1", "m2"} |-> IF m = "m1" THEN {[in |-> 2, out |-> 3]} ELSE {}]
Records == {[instances |-> <<"disabled", "enabled">>, keys |-> <<"k1", "k2">>],
            [instances |-> <<"disabled">>, keys |-> <<"k2">>],
            [instances |-> <<"enabled">>, keys |-> << >>]}
=============================================================================
