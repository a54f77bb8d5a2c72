---------------------------- MODULE MCModelPrice ----------------------------
(* Instances of ModelPrice. *)
EXTENDS ModelPrice

Price(model, mode, prices, tiers, discount) ==
    [provider |-> "p", model |-> model, mode |-> mode, prices |-> prices, tiers |-> tiers,
     caps |-> {}, discount |-> discount]
PricePatch(mode, prices, tiers, discount) ==
    [model |-> IF mode = "batch" THEN "m2" ELSE "", mode |-> mode, caps |-> {"tools"}, prices |-> prices, tiers |-> tiers, discount |-> discount]

MCPriceBodies == {
    Price("m1", "chat", [in |-> 3, out |-> 4], [peak |-> [in |-> 5]], {50}),
    Price("m1", "batch", [in |-> 1], <<>>, {}),
    Price("m2", "chat", [in |-> 7], <<>>, {}),
    Price("m2", "chat", [in |-> 10], <<>>, {}),
    Price("m2", "chat", [in |-> 7], [night |-> [in |-> 1]], {})}
MCPricePatches == {
    PricePatch("", [out |-> 6], [peak |-> [out |-> 9]], {}),
    PricePatch("batch", <<>>, <<>>, {}),
    PricePatch("", [other |-> 1], <<>>, {})}
MCPriceFiles == {
    <<Price("m1", "chat", [in |-> 2], <<>>, {20}), Price("m3", "chat", [in |-> 1], <<>>, {})>>,
    <<Price("m2", "chat", [in |-> 8], <<>>, {})>>,
    <<Price("m2", "chat", [in |-> 8], <<>>, {}), Price("m2", "chat", [in |-> 1], <<>>, {})>>}

PricesSpec == PricesInit /\ writes = 0 /\ [][PricesNext]_<<priceVars, writes>>
=============================================================================
