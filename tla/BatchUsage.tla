----------------------------- MODULE BatchUsage -----------------------------
(***************************************************************************)
(* What the reconcile job charges for a finished batch.  A round lists the *)
(* completed batches whose reserve is still open, oldest first and at most *)
(* ReconcileLimit of them, drops those still in their grace period, and    *)
(* for each of the others downloads the result file, adds the usage of its *)
(* lines up, prices it and settles (model/ibatch/settle.go).  The claim    *)
(* and the single writes of a settlement are BatchTasks' subject; here a   *)
(* settlement is one step and the file, the price and the provider record  *)
(* are what may be wrong.                                                  *)
(*                                                                         *)
(* A line of a result file is blank, not JSON, an error row without a      *)
(* response, or a response that carries usage in its body, at its top, in  *)
(* both or in neither; size is its length.                                 *)
(***************************************************************************)
EXTENDS Naturals, Sequences, FiniteSets, SequencesExt, FiniteSetsExt

CONSTANTS NBatches,        \* batches 1 .. NBatches, in the order of their row ids
          KeyNames,        \* names of provider keys
          KeyOf,           \* the key name a batch was submitted with
          ResultFile,      \* the lines of a batch's result file
          HasOutput,       \* batches whose provider reported a result file
          LostFiles,       \* batches whose result file the provider dropped
          PerKey,          \* the provider shows a file only to the key that made it
          ProviderRecords, \* [instances, keys] an administrator gives the provider
          Prices,          \* model -> {} or {[in, out]}: prices of mode batch
          ReconcileLimit,  \* rows of one listing
          MaxLineBytes,    \* longer lines are dropped
          MaxUsageFaults   \* broken downloads, failing queries and edits explored

Batches == 1 .. NBatches
NoModel == "none"
Models == DOMAIN Prices

ASSUME UsageConstants ==
    /\ NBatches \in Nat /\ ReconcileLimit \in Nat \ {0} /\ MaxUsageFaults \in Nat
    /\ KeyOf \in [Batches -> KeyNames] /\ DOMAIN ResultFile = Batches
    /\ HasOutput \subseteq Batches /\ LostFiles \subseteq Batches /\ PerKey \in BOOLEAN

VARIABLES settle,       \* settle_status; "open" before the batch completes
          charged,      \* what a settled row says: [in, out, units]
          graced,       \* batches whose grace period is over
          page,         \* candidates of the running round still to do
          access,       \* accessCache: the key the round resolved, none yet or one
          provider,     \* the provider's record: instances (enabled or not), key names
          roundAims,    \* candidates the round can settle, and nothing disturbed since
          usageFaults

usageVars == <<settle, charged, graced, page, access, provider, roundAims, usageFaults>>

(* ------------------------- reading a result file ------------------------ *)

NoTotals == [in |-> 0, out |-> 0, model |-> NoModel, parsed |-> 0, noUsage |-> 0, bad |-> 0]
NoCharge == [in |-> 0, out |-> 0, units |-> 0]

\* The usage in the body wins over the one at the top of the response.
usageAndModel(row) == IF row.body # {} THEN row.body ELSE row.top

handleUsageLine(totals, row) ==
    CASE row.kind \in {"blank", "error"} -> totals
      [] row.kind = "bad" -> [totals EXCEPT !.bad = @ + 1]
      [] row.kind = "response" /\ usageAndModel(row) = {} -> [totals EXCEPT !.noUsage = @ + 1]
      [] OTHER -> LET u == CHOOSE x \in usageAndModel(row) : TRUE IN
                  [totals EXCEPT !.model = IF @ = NoModel THEN u.model ELSE @,
                                 !.in = @ + u.in, !.out = @ + u.out, !.parsed = @ + 1]

\* Lines come one at a time; a line longer than the buffer is left out.
parseJSONLUsage(lines) ==
    FoldLeft(LAMBDA totals, row : IF row.size > MaxLineBytes THEN totals
                                  ELSE handleUsageLine(totals, row),
             NoTotals, lines)

\* No price of mode batch for the model, or no model: nothing is charged.
calcSettleUnits(totals) ==
    IF totals.model = NoModel \/ Prices[totals.model] = {} THEN 0
    ELSE LET price == CHOOSE p \in Prices[totals.model] : TRUE
         IN  totals.in * price.in + totals.out * price.out

\* Answers, but not one with usage: the format is in doubt and nothing is settled.
Suspicious(totals) == totals.parsed = 0 /\ totals.noUsage > 0

(* --------------------------- reaching a provider ------------------------ *)

Keyless == "no auth"

\* The first instance that is not disabled.
pickProviderInstance == {i \in DOMAIN provider.instances : provider.instances[i] = "enabled"}

\* The key of that name, else the first of the list.
pickProviderKey(name) ==
    {IF \E i \in DOMAIN provider.keys : provider.keys[i] = name THEN name ELSE Head(provider.keys)}

\* Nothing without an instance; a provider without keys is called without one.
resolveProviderAccess(b) ==
    IF pickProviderInstance = {} THEN {}
    ELSE IF provider.keys = << >> THEN {Keyless} ELSE pickProviderKey(KeyOf[b])

\* Resolved once a round for the provider, whatever key name the next batch has.
resolveProviderAccessCached(b) == IF access # {} THEN access ELSE resolveProviderAccess(b)

\* The provider's answer to GET /files/{id}/content.
ShowsFile(key, b) ==
    /\ b \notin LostFiles
    /\ \E i \in DOMAIN provider.keys : provider.keys[i] = key
    /\ PerKey => key = KeyOf[b]

(* -------------------------------- a round ------------------------------- *)

reserved == {b \in Batches : settle[b] = "reserved"}

\* Mutant: one row at a time.
ListBatchTasks_One ==
    SubSeq(SetToSortSeq(reserved, <), 1, Min({Cardinality(reserved), 1}))

\* The oldest reserved rows up to the limit; the grace period is looked at after.
ListBatchTasks ==
    SubSeq(SetToSortSeq(reserved, <), 1, Min({Cardinality(reserved), ReconcileLimit}))
filterBySettleGrace(list) == SelectSeq(list, LAMBDA b : b \in graced)

\* What a round can settle: a batch without a file, or one whose file can be had
\* and is not suspicious.  Without keys the download fails (see batch_keyless).
Settleable(b) ==
    /\ pickProviderInstance # {}
    /\ \/ b \notin HasOutput
       \/ /\ provider.keys # << >> /\ b \notin LostFiles
          /\ ~Suspicious(parseJSONLUsage(ResultFile[b]))

UsageTypeOK ==
    /\ settle \in [Batches -> {"open", "reserved", "settled", "released"}]
    /\ \A b \in Batches : charged[b] \in [in : Nat, out : Nat, units : Nat]
    /\ graced \subseteq Batches /\ \A i \in DOMAIN page : page[i] \in graced
    /\ access \subseteq KeyNames \cup {Keyless} /\ Cardinality(access) <= 1
    /\ provider \in ProviderRecords
    /\ roundAims \subseteq Batches /\ usageFaults \in 0 .. MaxUsageFaults

UsageInit ==
    /\ settle = [b \in Batches |-> "open"] /\ charged = [b \in Batches |-> NoCharge]
    /\ graced = {} /\ page = << >> /\ access = {} /\ roundAims = {} /\ usageFaults = 0
    /\ provider \in ProviderRecords

UsageFault == usageFaults < MaxUsageFaults /\ usageFaults' = usageFaults + 1

\* AdvanceStatus found the batch completed.
BatchCompletes(b) ==
    /\ settle[b] = "open"
    /\ settle' = [settle EXCEPT ![b] = "reserved"]
    /\ UNCHANGED <<charged, graced, page, access, provider, roundAims, usageFaults>>

GraceEnds(b) ==
    /\ settle[b] = "reserved" /\ b \notin graced
    /\ graced' = graced \cup {b}
    /\ UNCHANGED <<settle, charged, page, access, provider, roundAims, usageFaults>>

\* An administrator edits the provider.
EditProvider ==
    /\ UsageFault
    /\ provider' \in ProviderRecords \ {provider}
    /\ roundAims' = {}
    /\ UNCHANGED <<settle, charged, graced, page, access>>

ReconcileSettle ==
    /\ page = << >> /\ filterBySettleGrace(ListBatchTasks) # << >>
    /\ page' = filterBySettleGrace(ListBatchTasks)
    /\ access' = {}
    /\ roundAims' = {b \in Batches : Settleable(b) /\ \E i \in DOMAIN page' : page'[i] = b}
    /\ UNCHANGED <<settle, charged, graced, provider, usageFaults>>

\* The step deals with the head of the page; another candidate is next.
Passed(b) == page # << >> /\ b = Head(page) /\ page' = Tail(page)

Skip(b) == Passed(b) /\ UNCHANGED <<settle, charged, graced, provider>>

\* The provider is gone or has no enabled instance: an error, nothing is cached.
SettleUnreachable(b) ==
    /\ Skip(b) /\ resolveProviderAccessCached(b) = {}
    /\ UNCHANGED <<access, roundAims, usageFaults>>

Reaches(b) == Passed(b) /\ access' = resolveProviderAccessCached(b) /\ access' # {}

\* Completed without a result file: the reserve is given back.
SettleNoFile(b) ==
    /\ Reaches(b) /\ b \notin HasOutput
    /\ settle' = [settle EXCEPT ![b] = "released"]
    /\ UNCHANGED <<charged, graced, provider, roundAims, usageFaults>>

Shown(b) == b \in HasOutput /\ \E k \in access' : ShowsFile(k, b)

\* A status outside 2xx, or no request without an auth header: the next round
\* tries again.
SettleRefused(b) ==
    /\ Reaches(b) /\ b \in HasOutput /\ ~Shown(b)
    /\ UNCHANGED <<settle, charged, graced, provider, roundAims, usageFaults>>

Charge(totals) == [in |-> totals.in, out |-> totals.out, units |-> calcSettleUnits(totals)]

\* The body breaks off (time-out, reset) after some lines, or the price query
\* fails: an error, what was added up is dropped.
SettleBroken_Settles(b) ==
    /\ Reaches(b) /\ Shown(b) /\ UsageFault
    /\ settle' = [settle EXCEPT ![b] = "settled"]
    /\ \E n \in 0 .. Len(ResultFile[b]) :
          charged' = [charged EXCEPT ![b] = Charge(parseJSONLUsage(SubSeq(ResultFile[b], 1, n)))]
    /\ roundAims' = roundAims \ {b}
    /\ UNCHANGED <<graced, provider>>
SettleBroken(b) ==
    /\ Reaches(b) /\ Shown(b) /\ UsageFault
    /\ roundAims' = roundAims \ {b}
    /\ UNCHANGED <<settle, charged, graced, provider>>

settleOneTask(b) ==
    LET totals == parseJSONLUsage(ResultFile[b])
    IN  /\ Reaches(b) /\ Shown(b)
        /\ IF Suspicious(totals) THEN UNCHANGED <<settle, charged>>
           ELSE /\ settle' = [settle EXCEPT ![b] = "settled"]
                /\ charged' = [charged EXCEPT ![b] = Charge(totals)]
        /\ UNCHANGED <<graced, provider, roundAims, usageFaults>>

SettleNext(b) ==
    \/ SettleUnreachable(b) \/ SettleNoFile(b) \/ SettleRefused(b)
    \/ SettleBroken(b) \/ settleOneTask(b)

UsageNext ==
    \/ \E b \in Batches : BatchCompletes(b) \/ GraceEnds(b) \/ SettleNext(b)
    \/ EditProvider
    \/ ReconcileSettle

(* ------------------------------ properties ------------------------------ *)

\* The lines of a file that carry usage and fit the buffer.
UsageLines(b) ==
    {i \in DOMAIN ResultFile[b] : LET row == ResultFile[b][i] IN
        row.size <= MaxLineBytes /\ row.kind = "response" /\ (row.body # {} \/ row.top # {})}
UsageOf(b, i) ==
    LET row == ResultFile[b][i] IN CHOOSE u \in (IF row.body = {} THEN row.top ELSE row.body) : TRUE

\* A settled row holds the usage of every line of the result file and of none
\* twice, however many downloads broke off before the one that counted, and the
\* units of the first model named in it.
ChargedForWholeFile ==
    \A b \in Batches : settle[b] = "settled" =>
        LET named == {i \in UsageLines(b) : UsageOf(b, i).model # NoModel}
            price == IF named = {} THEN {} ELSE Prices[UsageOf(b, Min(named)).model]
        IN  /\ charged[b].in = MapThenSumSet(LAMBDA i : UsageOf(b, i).in, UsageLines(b))
            /\ charged[b].out = MapThenSumSet(LAMBDA i : UsageOf(b, i).out, UsageLines(b))
            /\ charged[b].units = MapThenSumSet(LAMBDA p : charged[b].in * p.in + charged[b].out * p.out, price)

\* No batch is settled, least of all for nothing, while its file holds answers
\* none of whose usage could be read (the safety valve in settleOneTask).
AnswersAreNotFree ==
    \A b \in Batches : settle[b] = "settled" =>
        \/ UsageLines(b) # {}
        \/ ~\E i \in DOMAIN ResultFile[b] : ResultFile[b][i].size <= MaxLineBytes
                                            /\ ResultFile[b][i].kind = "response"

\* A round that nobody disturbs leaves none of the candidates it listed and could
\* settle behind: a candidate that fails does not take the others with it.
RoundLeavesNone ==
    page = << >> => \A b \in roundAims : settle[b] \in {"settled", "released"}

\* Each completed batch that can be settled is, once downloads and the provider's
\* record settle down, as long as fewer batches than one listing holds are stuck:
\* the limit is applied before anything is known about a candidate (settle.go:73).
Stuck == {b \in reserved : ~Settleable(b)}
Due(b) == settle[b] = "reserved" /\ Settleable(b) /\ Cardinality(Stuck) < ReconcileLimit
EventuallyCharged == \A b \in Batches : []<>~Due(b)
=============================================================================
