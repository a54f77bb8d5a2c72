---------------------------- MODULE MCQuotaReset ----------------------------
(***************************************************************************)
(* Instances of QuotaReset for TLC.  The days are those around the end of  *)
(* January 1970: day 30 is Saturday 31 January, day 31 the first of        *)
(* February, day 32 a Monday.                                              *)
(***************************************************************************)
EXTENDS QuotaReset, TLC

CONSTANTS r1, r2, a1, a2

MCToken == [r \in Runs |-> IF r = r1 THEN "t1" ELSE "t2"]
MCDays == {30, 31, 32}
MCMonthStarts == {0, 31, 59}

Row(q, u, per, l) ==
  [quota |-> q, unlimited |-> u, unit |-> "total_token", period |-> per, last |-> l]

Periodic == {Row(1, FALSE, "weekly", 29), Row(1, FALSE, "monthly", 29), Row(1, FALSE, "weekly", Null)}
Weekly == {Row(2, FALSE, "weekly", 30)}
Unlimited == {Row(1, TRUE, "weekly", 30)}
Mixed == {Row(2, FALSE, "none", Null), Row(1, TRUE, "none", Null)}

Body(q, u, un, per) == [quota |-> q, unlimited |-> u, unit |-> un, period |-> per]
Raise == {Body({3}, {}, {}, {})}
AllChanges == {Body({3}, {}, {}, {}), Body({1}, {}, {}, {}), Body({}, {TRUE}, {}, {}),
               Body({2}, {FALSE}, {}, {}), Body({}, {}, {"RMB"}, {}),
               Body({}, {}, {}, {"weekly"})}
AnyReset == {{}, {3}}
=============================================================================
