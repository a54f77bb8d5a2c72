----------------------------- MODULE ModelPrice -----------------------------
(***************************************************************************)
(* The model prices: one row for each provider, model and mode, created,   *)
(* patched and deleted one by one or imported from a file, and exported as *)
(* the model tables of the clusters.  A price map is a function from price *)
(* keys to prices in 1e-8 yuan; tier prices map "peak", if present, to a   *)
(* price map; a discount is a percentage, in a set with at most one        *)
(* member.  "caps" stands for the optional fields that are written whole.  *)
(***************************************************************************)
EXTENDS Tables, Integers, Sequences, TLC

CONSTANTS PriceBodies, PricePatches, PriceFiles, \* requests, valid or not
          ValidModes, ValidPriceKeys,
          maxPriceFixedPoint,                    \* prices stay below this
          PriceAdmins,
          PageRows,                              \* rows of a default page
          MaxPriceWrites

ASSUME PricesAssumption ==
    /\ PageRows \in Nat \ {0} /\ maxPriceFixedPoint \in Nat /\ MaxPriceWrites \in Nat
    /\ "batch" \in ValidModes

VARIABLES priceRows,    \* the table, ordered by id
          priceId,      \* the next id
          pricePut      \* the PUT each admin is in the middle of

priceVars == <<priceRows, priceId, pricePut>>

-----------------------------------------------------------------------------
Key(m) == <<m.provider, m.model, m.mode>>
Scan(rows, test(_)) == {i \in DOMAIN rows : test(rows[i])}

checkPricePrecision(price) == price < maxPriceFixedPoint
PricesValid(prices) ==
    /\ DOMAIN prices # {}
    /\ \A k \in DOMAIN prices : /\ k \in ValidPriceKeys /\ prices[k] >= 0
                                /\ checkPricePrecision(prices[k])

ValidateModelPrice(m) ==
    /\ m.provider # "" /\ m.model # "" /\ m.mode \in ValidModes
    /\ PricesValid(m.prices)
    /\ \A tier \in DOMAIN m.tiers : tier = "peak" /\ PricesValid(m.tiers[tier])
    /\ \A d \in m.discount : d \in 1..100

ValidateImportFile(file) ==
    /\ \A i \in DOMAIN file : ValidateModelPrice(file[i])
    /\ \A i, j \in DOMAIN file : Key(file[i]) = Key(file[j]) => i = j

\* The row of a record.  A nil discount is not written, so that an update keeps
\* the stored one; every other column is written.
toDAOParam(m, stored) ==
    [provider |-> m.provider, model |-> m.model, mode |-> m.mode, prices |-> m.prices,
     tiers |-> m.tiers, caps |-> m.caps,
     discount |-> IF m.discount = {} THEN stored ELSE m.discount]

\* The unique key (provider, model, mode) refuses a second row.
Insert(rows, id, m) == Append(rows, [id |-> id] @@ toDAOParam(m, {}))
Insertable(rows, m) == Scan(rows, LAMBDA r : Key(r) = Key(m)) = {}
Rewrite(rows, i, m) ==
    [rows EXCEPT ![i] = [id |-> rows[i].id] @@ toDAOParam(m, rows[i].discount)]
Rewritable(rows, i, m) == Scan(rows, LAMBDA r : Key(r) = Key(m)) \subseteq {i}

\* A list with no page asked for is the first page.
FetchModelPriceList(rows) == SubSeq(rows, 1, IF Len(rows) < PageRows THEN Len(rows) ELSE PageRows)

mergePriceMap(dst, src) == src @@ dst
mergeTierPriceMap(dst, src) ==
    [tier \in DOMAIN dst \cup DOMAIN src |->
        IF tier \notin DOMAIN src THEN dst[tier]
        ELSE IF tier \notin DOMAIN dst THEN src[tier]
        ELSE mergePriceMap(dst[tier], src[tier])]

\* A patch overrides the fields it gives, except the discount.
mergeModelPrice(dst, src) ==
    [dst EXCEPT !.model = IF src.model = "" THEN @ ELSE src.model,
                !.mode = IF src.mode = "" THEN @ ELSE src.mode,
                !.caps = IF src.caps = {} THEN @ ELSE src.caps,
                !.prices = mergePriceMap(@, src.prices),
                !.tiers = mergeTierPriceMap(@, src.tiers)]

-----------------------------------------------------------------------------
NoPrice == [at |-> "none"]

CreateModelPrice(m) ==
    /\ ValidateModelPrice(m) /\ Insertable(priceRows, m) /\ Write(MaxPriceWrites)
    /\ priceRows' = Insert(priceRows, priceId, m) /\ priceId' = priceId + 1
    /\ UNCHANGED pricePut

\* PUT reads the record, merges the patch, and writes the whole record back, found
\* again by its id or by the key of the query.
UpdateAction(a, p, byId) ==
    /\ pricePut[a] = NoPrice /\ writes < MaxPriceWrites
    /\ \E i \in DOMAIN priceRows :
          pricePut' = [pricePut EXCEPT ![a] =
              [at |-> "merged", byId |-> byId, seen |-> priceRows[i],
               merged |-> mergeModelPrice(priceRows[i], p), patch |-> p]]
    /\ UNCHANGED <<priceRows, priceId, writes>>

PriceUpdateAdmitted(m) == ValidateModelPrice(m)
Matches(put, r) == IF put.byId THEN r.id = put.seen.id ELSE Key(r) = Key(put.seen)

UpdateModelPrice(a) ==
    LET put == pricePut[a]
    IN /\ put.at = "merged" /\ Write(MaxPriceWrites)
       /\ priceRows' =
            IF ~PriceUpdateAdmitted(put.merged) THEN priceRows
            ELSE [i \in DOMAIN priceRows |->
                    IF /\ Matches(put, priceRows[i])
                       /\ Rewritable(priceRows, i, put.merged)
                    THEN Rewrite(priceRows, i, put.merged)[i] ELSE priceRows[i]]
       /\ pricePut' = [pricePut EXCEPT ![a] = NoPrice]
       /\ UNCHANGED priceId

DeleteModelPrice(id) ==
    /\ Scan(priceRows, LAMBDA r : r.id = id) # {} /\ Write(MaxPriceWrites)
    /\ priceRows' = SelectSeq(priceRows, LAMBDA r : r.id # id)
    /\ UNCHANGED <<priceId, pricePut>>

\* The rows after the first n entries of a file: an entry found in "existing"
\* rewrites the row of its id, any other is inserted, and an insert the unique key
\* refuses rolls the import back (the empty set of results).
ImportEntries(file, rows, existing) ==
    LET after[n \in 0..Len(file)] ==
            IF n = 0 THEN {rows}
            ELSE LET m == file[n]
                     old == Scan(existing, LAMBDA r : Key(r) = Key(m))
                 IN IF old # {}
                    THEN {LET id == existing[CHOOSE i \in old : TRUE].id
                              i == CHOOSE j \in DOMAIN prior : prior[j].id = id
                          IN Rewrite(prior, i, m) : prior \in after[n - 1]}
                    ELSE {Insert(prior, priceId + n - 1, m) :
                             prior \in {q \in after[n - 1] : Insertable(q, m)}}
    IN after[Len(file)]

ImportModelPrices(file, mode) ==
    IF mode = "replace" THEN ImportEntries(file, <<>>, <<>>)
    ELSE ImportEntries(file, priceRows, FetchModelPriceList(priceRows))

ImportAction(file, mode) ==
    /\ ValidateImportFile(file) /\ Write(MaxPriceWrites)
    /\ priceRows' = Given(ImportModelPrices(file, mode), priceRows)
    /\ priceId' = priceId + Len(file)
    /\ UNCHANGED pricePut

-----------------------------------------------------------------------------
(* The export.                                                             *)

Scaled(x, d) == (x * d + 50) \div 100
scaleBatchPrices(prices, d) == [k \in DOMAIN prices |-> Scaled(prices[k], d)]
scaleBatchTierPrices(tiers, d) == [t \in DOMAIN tiers |-> scaleBatchPrices(tiers[t], d)]
Entry(r) == [model |-> r.model, mode |-> r.mode, prices |-> r.prices, tiers |-> r.tiers]

manualBatch(entries) == {e.model : e \in {f \in entries : f.mode = "batch"}}

buildModelTableModels(entries) ==
    {Entry(e) : e \in entries} \cup
    UNION {{[model |-> e.model, mode |-> "batch", prices |-> scaleBatchPrices(e.prices, d),
             tiers |-> scaleBatchTierPrices(e.tiers, d)] : d \in e.discount} :
           e \in {f \in entries : f.mode # "batch" /\ f.model \notin manualBatch(entries)}}

GroupByProvider(rows, p) == {rows[i] : i \in Scan(rows, LAMBDA r : r.provider = p)}
ModelTable(p) == buildModelTableModels(GroupByProvider(FetchModelPriceList(priceRows), p))

-----------------------------------------------------------------------------
PricesInit ==
    /\ priceRows = <<>> /\ priceId = 1
    /\ pricePut = [a \in PriceAdmins |-> NoPrice]

PricesNext ==
    \/ \E m \in PriceBodies : CreateModelPrice(m)
    \/ \E a \in PriceAdmins, p \in PricePatches, byId \in BOOLEAN : UpdateAction(a, p, byId)
    \/ \E a \in PriceAdmins : UpdateModelPrice(a)
    \/ \E i \in DOMAIN priceRows : DeleteModelPrice(priceRows[i].id)
    \/ \E file \in PriceFiles, mode \in {"replace", "merge"} : ImportAction(file, mode)

-----------------------------------------------------------------------------
(* Properties.                                                             *)

\* Whatever is created, patched and imported, the table holds one valid row for a
\* provider, model and mode.
PricesTypeOK ==
    /\ \A i, j \in DOMAIN priceRows :
          (Key(priceRows[i]) = Key(priceRows[j]) \/ priceRows[i].id = priceRows[j].id) => i = j
    /\ \A i \in DOMAIN priceRows : ValidateModelPrice(priceRows[i])

\* In the exported table a batch price that is maintained by hand is the only batch
\* price of its model, whatever discount the model's other rows carry.
ManualBatchPriceWins ==
    \A i \in DOMAIN priceRows :
        priceRows[i].mode = "batch" =>
            {e.prices : e \in {f \in ModelTable(priceRows[i].provider) :
                                  f.model = priceRows[i].model /\ f.mode = "batch"}}
              \subseteq {priceRows[i].prices}

\* Every stored price reaches the data plane: the exported tables have a row for
\* each record of the price table.
EveryPriceExported ==
    \A i \in DOMAIN priceRows : Entry(priceRows[i]) \in ModelTable(priceRows[i].provider)
=============================================================================
