---------------------------- MODULE ControlPlane ----------------------------
(***************************************************************************)
(* The catalogues of the control plane side by side: the tables behind the *)
(* OpenAPI, each with its requests and its export.  They share no table,   *)
(* so a behaviour of the whole is an interleaving of independent ones; the *)
(* specification picks the catalogue a behaviour is about at the start and *)
(* leaves the others at rest, which reaches every state of each of them.   *)
(***************************************************************************)
EXTENDS ClusterConf, Tenancy, RateLimits, Access, Rulesets, ModelPrice, Certificate,
        OwnerViews

VARIABLE focus  \* the catalogue this behaviour is about

Catalogues ==
    {"clusters", "tenancy", "limits", "access", "rulesets", "prices", "certificates",
     "views"}

planeVars == <<catalogVars, tenancyVars, limitVars, accessVars, rulesetVars, priceVars,
               certVars, viewVars, writes, focus>>

\* Every catalogue but the one in focus stays as it is.
Rest ==
    /\ UNCHANGED focus
    /\ IF focus = "clusters" THEN TRUE ELSE UNCHANGED catalogVars
    /\ IF focus = "tenancy" THEN TRUE ELSE UNCHANGED tenancyVars
    /\ IF focus = "limits" THEN TRUE ELSE UNCHANGED limitVars
    /\ IF focus = "access" THEN TRUE ELSE UNCHANGED accessVars
    /\ IF focus = "rulesets" THEN TRUE ELSE UNCHANGED rulesetVars
    /\ IF focus = "prices" THEN TRUE ELSE UNCHANGED priceVars
    /\ IF focus = "certificates" THEN TRUE ELSE UNCHANGED certVars
    /\ IF focus = "views" THEN TRUE ELSE UNCHANGED viewVars

PlaneInit ==
    /\ focus \in Catalogues /\ writes = 0
    /\ ClusterInit /\ TenancyInit /\ LimitsInit
    /\ AccessInit /\ RulesetsInit /\ PricesInit /\ CertInit /\ ViewsInit
    \* one whitelist and one password are enough where access is at rest
    /\ focus # "access" =>
          /\ confFile = CHOOSE conf \in AccessConfs : Compiles(conf)
          /\ confirmed["admin"] = {CHOOSE p \in Passwords : TRUE}
    /\ focus # "views" => viewTable = "api_keys"

PlaneNext ==
    \/ focus = "clusters" /\ ClusterNext /\ Rest
    \/ focus = "tenancy" /\ TenancyNext /\ Rest
    \/ focus = "limits" /\ LimitsNext /\ Rest
    \/ focus = "access" /\ AccessNext /\ Rest
    \/ focus = "rulesets" /\ RulesetsNext /\ Rest
    \/ focus = "prices" /\ PricesNext /\ Rest
    \/ focus = "certificates" /\ CertNext /\ Rest
    \/ focus = "views" /\ ViewsNext /\ Rest

PlaneSpec == PlaneInit /\ [][PlaneNext]_planeVars

-----------------------------------------------------------------------------
(* Properties of the whole, put together from those of the catalogues.     *)

\* The tables fit together: every variable in its range, references between providers,
\* clusters and the rows a cluster owns, one price at a time, an EPP cluster with its
\* config, a batch price kept by hand, one default certificate.
PlaneConsistent ==
    /\ ClusterTypeOK /\ TenancyTypeOK /\ LimitsTypeOK /\ AccessTypeOK
    /\ RulesetsTypeOK /\ PricesTypeOK /\ CertTypeOK /\ ViewTypeOK
    /\ ReferencesHold /\ OwnedRowsTogether /\ MirrorAndPathsConsistent
    /\ OnePriceAtATime /\ EppConfigured /\ ManualBatchPriceWins /\ OneDefaultInTurn

\* Entities and keys own their nested rows alone whatever requests overlap, and while
\* none overlap the hierarchy has its shape and every walk up the parents ends.
TenancySound == NestedRowsOwned /\ HierarchySound /\ WalksEnd

\* The data plane gets for a key what its hierarchy grants: plans, policies and routes
\* of the key and of every entity above it, and the models all whitelists admit.
KeysExportedRight == ExportsFollowHierarchy /\ TokenModelsExact

\* Rule sets travel unharmed: the export says what the last accepted bodies said, the
\* data plane loads every file, and what GET returns can be submitted again.
RulesetsFaithful == ExportIsAsAsked /\ FilesLoad /\ ReadBackIsStable

\* What a read of keys or entities answers is right though Redis fails, owners change
\* and quota is spent between its queries: balances, the two figures, the pages.
AnswersAreRight == BalanceTellsSpending /\ FiguresAgree /\ WalkSeesStayers
=============================================================================
