--------------------------- MODULE MCControlPlane ---------------------------
(* The instance of ControlPlane: small sets of request bodies for every catalogue. *)
EXTENDS ControlPlane, MCModelPrice

(* ----------------------- clusters and providers ------------------------ *)

i1 == [addr |-> "a", weight |-> 1]
i2 == [addr |-> "b", weight |-> 0]
MCInsts == {i1, i2}

MCTimeRanges ==
    {[days |-> {}, from |-> 0, to |-> 2], [days |-> {1}, from |-> 1, to |-> 3],
     [days |-> {1, 2}, from |-> 2, to |-> 3]}
MCTierBodies == SUBSET MCTimeRanges

Body(source, pl, name, models, keys, protocols, paths) ==
    [source |-> source, pool |-> pl, k8sName |-> name, models |-> models, keys |-> keys,
     protocols |-> protocols, paths |-> paths, tiers |-> {}]

\* Static, mirrored, and partial bodies.
MCProviderBodies ==
    {Body({}, {{i1}}, {}, {{"m1", "m2"}}, {{"k1"}}, {"openai", "anthropic"}, {{"anthropic"}}),
     Body({"instance_pool"}, {{i1, i2}}, {}, {}, {{}}, {"openai"}, {}),
     Body({"k8s_pool"}, {{i2}}, {"pool"}, {{"m1"}}, {}, {"openai"}, {{}}),
     Body({"k8s_pool"}, {}, {"pool"}, {}, {}, {"openai", "anthropic"}, {})}

MCK8sLists == {{}, {i1}, {i2}}

LLM(p, models, keys) == [provider |-> p, models |-> models, keys |-> keys]

MCClusterBodies ==
    {[llm |-> LLM("p1", {"m1"}, {"k1"}), mode |-> "WRR", cfg |-> "none", sticky |-> NoSticky],
     [llm |-> LLM("p1", {"m1", "m2"}, {}), mode |-> "EPP", cfg |-> "set", sticky |-> NoSticky]}

Patch(llm, mode, cfg, sticky) == [llm |-> llm, mode |-> mode, cfg |-> cfg, sticky |-> sticky]

MCClusterPatches ==
    {Patch({LLM("p1", {"m2"}, {})}, {}, {}, {}), Patch({LLM("p1", {"m1", "m2"}, {"k1"})}, {}, {}, {}),
     Patch({}, {"EPP"}, {}, {}), Patch({}, {}, {"empty"}, {}), Patch({}, {"WRR"}, {}, {})}

MCTargetSets == {{}} \cup {{[cluster |-> c, model |-> m]} : c \in Clusters, m \in Models}

(* ------------------------ entities and API keys ------------------------ *)

EntityBody(type, parent, allow, block, plan, limit, routes) ==
    [type |-> type, parent |-> parent, allow |-> allow, block |-> block, plan |-> plan,
     policy |-> limit, rules |-> routes]
TenantPatch(parent, allow, block, plan, limit, routes, id) ==
    [parent |-> parent, allow |-> allow, block |-> block, plan |-> plan, policy |-> limit,
     rules |-> routes, id |-> id]
KeyBody(ent, models, enabled, unlimited, plan, limit, routes) ==
    [entity |-> ent, models |-> models, enabled |-> enabled, unlimited |-> unlimited,
     plan |-> plan, policy |-> limit, rules |-> routes]

MCEntityBodies ==
    {EntityBody("dep", NoOwner, {"m1", "m2"}, {}, {FALSE}, {TRUE}, {TRUE}),
     EntityBody("dep", 1, {}, {}, {}, {}, {}),
     EntityBody("team", 1, {"m1"}, {"m2"}, {FALSE}, {TRUE}, {TRUE})}
MCEntityPatches ==
    {TenantPatch({NoOwner}, {}, {}, {TRUE}, {}, {}, {}),
     TenantPatch({2}, {"m2"}, {}, {}, {FALSE}, {FALSE}, {})}
MCKeyBodies ==
    {KeyBody({}, {}, {}, {}, {FALSE}, {TRUE}, {TRUE}), KeyBody({2}, {"m2"}, {}, {}, {}, {}, {}),
     KeyBody({1}, {}, {}, {TRUE}, {}, {}, {})}
MCKeyPatches == {KeyBody({1}, {}, {FALSE}, {}, {TRUE}, {}, {}), KeyBody({NoOwner}, {"m1"}, {TRUE}, {}, {}, {}, {TRUE})}

(* ----------------------------- rate limits ----------------------------- *)

PolicyBody(on, limits) == [on |-> on, rules |-> limits]
Tpm(n) == [name |-> n, window |-> 2, step |-> 1]
Rpm(n) == [name |-> n, window |-> 1]
Limits(tpm, rpm, conc, batch) == {[tpm |-> tpm, rpm |-> rpm, conc |-> conc, batch |-> batch]}

\* Valid and refused bodies; the rule y moves from rpm to tpm and back.
MCPolicyBodies ==
    {PolicyBody({TRUE}, Limits({Tpm("x")}, {Rpm("y")}, {5}, {1})),
     PolicyBody({TRUE}, Limits({}, {Rpm("y")}, {-1}, {0})),
     PolicyBody({TRUE}, Limits({Tpm("y")}, {}, {}, {})),
     PolicyBody({TRUE}, Limits({Tpm("x")}, {Rpm("x")}, {5}, {})),
     PolicyBody({TRUE}, Limits({[name |-> "x", window |-> 1, step |-> 2]}, {}, {5}, {})),
     PolicyBody({}, Limits({Tpm("x"), [Tpm("z") EXCEPT !.window = 3]}, {}, {}, {})),
     PolicyBody({FALSE}, {}), PolicyBody({TRUE}, {})}
SameName == [n \in RuleNames |-> n]

(* ------------------------------- access -------------------------------- *)

Rule(prefix, nets, audit) == [prefix |-> prefix, nets |-> nets, audit |-> audit]
Section(enable, listed, parses) == [enable |-> enable, rules |-> listed, parses |-> parses]

\* Two rules of which one prefix extends the other, in both orders; a rule that
\* only observes; two sections that do not compile; the whitelist switched off.
MCAccessConfs == {
    Section(FALSE, <<>>, TRUE),
    Section(TRUE, <<Rule(<<"a">>, {"in"}, FALSE), Rule(<<"a", "b">>, {"in", "out"}, FALSE)>>, TRUE),
    Section(TRUE, <<Rule(<<"a">>, {"in"}, FALSE), Rule(<<"a", "b">>, {"in"}, TRUE)>>, TRUE),
    Section(TRUE, <<Rule(<<"a", "b">>, {}, FALSE)>>, TRUE),
    Section(TRUE, <<>>, FALSE)}
MCPaths == {<<"a">>, <<"a", "b">>, <<"c">>}

(* ------------------------------ rule sets ------------------------------ *)

Named(name, cond, opts) == [name |-> name, cond |-> cond, opts |-> opts]
Moded(cond, mode, opts) == [cond |-> cond, mode |-> mode, opts |-> opts]
Mirrored(name, cond, to, opts) ==
    [name |-> name, cond |-> cond, cluster |-> to, opts |-> opts]

MCCacheBodies == {
    <<>>,
    <<Named("r1", "p", <<>>), Named("r2", "q", [ttl |-> 60, strategy |-> "disabled"])>>,
    <<Named("r2", "q", [body |-> 1, semantic |-> TRUE]), Named("r1", "p", <<>>)>>,
    <<Named("r1", "p", <<>>), Named("r2", "p", <<>>)>>,
    <<Named("r1", "p", [value |-> 0])>>}
MCSemanticBodies == {<<>>, [topK |-> 10, threshold |-> 0], [topK |-> 11]}
MCContextBodies == {
    <<Moded("p", "off", <<>>), Moded("q", "balanced", [maxTokens |-> 5])>>,
    <<Moded("p", "off", <<>>), Moded("p", "balanced", <<>>)>>,
    <<Moded("q", "other", <<>>)>>}
MCContextSettingsBodies == {
    [triggerRatio |-> 100, strength |-> "full"], [charsPerToken |-> 0]}
MCMirrorBodies == {
    <<Mirrored("r1", "p", "c1", <<>>), Mirrored("r2", "q", "c1", [removeHeaders |-> {}, setHeaders |-> {}])>>,
    <<Mirrored("r1", "q", "c1", [removeHeaders |-> {"Cookie"}, pathRewrite |-> "", percentage |-> 0,
                                 bodyRewrites |-> <<>>])>>,
    <<Mirrored("r1", "p", "c1", [pathRewrite |-> "shadow"])>>}

Question(name, type, criteria, levels) ==
    [name |-> name, type |-> type, instructions |-> "ask", criteria |-> criteria,
     levels |-> levels, confidence |-> {}]
Document(questions, confidence) == [questions |-> questions, confidence |-> confidence]

MCIntentBodies == {
    Document(<<>>, {}),
    Document(<<Question("n1", "choice", {"o"}, <<>>), Question("n2", "score", {}, <<"l1", "l2">>)>>, {0}),
    Document(<<Question("n1", "choice", {"o"}, <<"l1">>)>>, {}),
    Document(<<Question("n1", "choice", {"o|"}, <<>>)>>, {}),
    Document(<<Question("n1", "score", {}, <<"l1", "l1">>)>>, {}),
    Document(<<>>, {101})}

(* ---------------------------- certificates ----------------------------- *)

MCCertPair == {<<"crt1", "key1">>, <<"crt2", "key2">>}

(* -------------------------- what is read back -------------------------- *)

ViewRow(sort, name, exempt, quota, unlimited, unit) ==
    [sort |-> sort, name |-> name, exempt |-> exempt,
     plan |-> [quota |-> quota, unlimited |-> unlimited, unit |-> unit]]

MCViewRows ==
    {ViewRow(1, 1, FALSE, {0}, FALSE, "total_token"), ViewRow(1, 2, FALSE, {1}, FALSE, "RMB"),
     ViewRow(2, 2, TRUE, {0}, TRUE, "total_token")}

MCViewFilters == {[sort |-> {}, name |-> {}], [sort |-> {1}, name |-> {}]}
=============================================================================
