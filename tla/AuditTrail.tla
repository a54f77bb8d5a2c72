---------------------------- MODULE AuditTrail -----------------------------
(***************************************************************************)
(* What the operation log says of an entity or an API key and of the quota *)
(* plan and the rate limit policy written with it (model/entity,           *)
(* model/api_key and their operation_log.go).  The nested rows are written *)
(* in the transaction of their owner and recorded after it, under their    *)
(* own ids, from what was read before: an entity's update reads the plan   *)
(* before its transaction, an API key's inside it.  A transaction reads a  *)
(* snapshot without locking and writes later, so two of them may overlap.  *)
(* OperLog has the queue between Record and the table.                     *)
(***************************************************************************)
EXTENDS Naturals, FiniteSets

CONSTANTS
    AuditOwners,    \* ids of entities and API keys
    Entities,       \* those that are entities
    Writers,        \* concurrent requests
    WriteBodies,    \* bodies of create and update: own, plan, policy
    SnapshotFails,  \* whether reading a plan for its snapshot may fail
    MaxAudited      \* bound: requests

ASSUME EntitiesAreOwners == Entities \subseteq AuditOwners

VARIABLES
    ownerRow,   \* owner -> its row, if any
    nestedRow,  \* "plan", "policy" -> id -> columns
    lastId,     \* the auto-increment counters of the two tables
    writer,     \* request -> its local state
    trail,      \* the entries handed to the operation log
    audited,    \* requests so far
    storedIds   \* ghost: ids that were in a table at some commit

auditVars == <<ownerRow, nestedRow, lastId, writer, trail, audited, storedIds>>

Nested == {"plan", "policy"}
Only(set) == CHOOSE x \in set : TRUE

NoOne == [pc |-> "idle"]

AuditInit ==
    /\ ownerRow = [o \in AuditOwners |-> {}]
    /\ nestedRow = [t \in Nested |-> << >>]
    /\ lastId = [t \in Nested |-> 0]
    /\ writer = [w \in Writers |-> NoOne]
    /\ trail = {} /\ audited = 0 /\ storedIds = {}

----------------------------------------------------------------------------
\* What reaches the columns.  A map has the fields the request gives.

Overwritten(row, given) ==
    [k \in DOMAIN given \cup DOMAIN row |-> IF k \in DOMAIN given THEN given[k] ELSE row[k]]

PlanDefaults == [unlimited |-> 1, quota |-> 0]
quotaPlanDataToParam(row, given) == Overwritten(row, given)

\* The lists are always written: an omitted one as the empty list, 0 here.
PolicyDefaults == [enabled |-> 0, tpm |-> 0]
rateLimitPolicyDataToParam(row, given) == Overwritten(Overwritten(row, [tpm |-> 0]), given)

NestedColumns(t, row, given) ==
    IF t = "plan" THEN quotaPlanDataToParam(row, given) ELSE rateLimitPolicyDataToParam(row, given)
Defaults(t) == IF t = "plan" THEN PlanDefaults ELSE PolicyDefaults

----------------------------------------------------------------------------
\* The request.

\* UpdateEntity reads the row, and the plan if the body has one, before it
\* checks the request and begins.
ReadFirst(op, o) ==
    IF op = "update" /\ o \in Entities THEN ownerRow[o] ELSE {}

OldPlan(row, body) ==
    IF row = {} \/ body.plan = {} THEN {{}}
    ELSE LET ids == Only(row).plan \cap DOMAIN nestedRow["plan"] IN
         {{nestedRow["plan"][n] : n \in ids}} \cup (IF SnapshotFails THEN {{}} ELSE {})

Ask(w) ==
    /\ writer[w].pc = "idle" /\ audited < MaxAudited
    /\ \E op \in {"create", "update", "delete"}, o \in AuditOwners, body \in WriteBodies :
        /\ op = "delete" => body = CHOOSE b \in WriteBodies : TRUE
        /\ LET first == ReadFirst(op, o) IN
           \E plan \in OldPlan(first, body), pc \in {"asked", "refused"} :
            \* type, name, level and immutability are checked outside the
            \* transaction, of entities only
            /\ pc = "refused" => o \in Entities /\ op # "delete"
            /\ writer' = [writer EXCEPT ![w] =
                   [pc |-> pc, op |-> op, o |-> o, body |-> body, old |-> first,
                    plan |-> plan, policy |-> {}, ids |-> [t \in Nested |-> {}],
                    changed |-> [t \in Nested \cup {"own"} |-> {}], overlapped |-> FALSE]]
    /\ audited' = audited + 1
    /\ UNCHANGED <<ownerRow, nestedRow, lastId, trail, storedIds>>

\* The reads of the transaction.  The snapshot of the policy is read where the
\* policy is about to be changed or deleted, that of the plan by the update of
\* an API key and by both deletes.
TxnReads(w) ==
    LET r == writer[w]
        body == IF r.op = "delete" THEN [plan |-> {0}, policy |-> {0}] ELSE r.body
        policies(row) == IF row = {} \/ body.policy = {} THEN {}
                         ELSE Only(row).policy \cap DOMAIN nestedRow["policy"]
    IN
    /\ r.pc = "asked"
    /\ \/ /\ r.op = "create"
          /\ writer' = [writer EXCEPT ![w].pc = IF ownerRow[r.o] = {} THEN "writing" ELSE "failed"]
       \/ \* the row is missing, or cannot be read
          r.op # "create" /\ writer' = [writer EXCEPT ![w].pc = "failed"]
       \/ /\ r.op # "create" /\ ownerRow[r.o] # {}
          /\ \E plan \in OldPlan(ownerRow[r.o], body) :
               writer' = [writer EXCEPT
                   ![w].pc = "writing", ![w].old = ownerRow[r.o],
                   ![w].plan = IF r.o \in Entities /\ r.op = "update" THEN @ ELSE plan,
                   ![w].policy = {nestedRow["policy"][n] : n \in policies(ownerRow[r.o])}]
    /\ UNCHANGED <<ownerRow, nestedRow, lastId, trail, audited, storedIds>>

\* Every other request that has read and not yet written is now overlapped.
Overlap(w, others) ==
    [v \in Writers |-> IF v # w /\ others[v].pc \in {"asked", "writing"}
                       THEN [others[v] EXCEPT !.overlapped = TRUE] ELSE others[v]]

\* The nested rows the transaction of r updates, and those it inserts.
Updates(r, t) ==
    IF r.op = "update" /\ r.body[t] # {} THEN Only(r.old)[t] ELSE {}
Inserts(r, t) ==
    /\ r.op # "delete" /\ r.body[t] # {}
    /\ r.op = "create" \/ Only(r.old)[t] = {}

\* An update whose row is gone changes nothing and is no error.
NestedAfter(r, t) ==
    LET table == nestedRow[t]
        gone == IF r.op = "delete" THEN Only(r.old)[t] ELSE {}
        new == IF Inserts(r, t) THEN {lastId[t] + 1} ELSE {}
    IN [n \in (DOMAIN table \cup new) \ gone |->
           IF n \in new THEN NestedColumns(t, Defaults(t), Only(r.body[t]))
           ELSE IF n \in Updates(r, t) THEN NestedColumns(t, table[n], Only(r.body[t]))
           ELSE table[n]]

OwnerAfter(r) ==
    LET id(t) == IF Inserts(r, t) THEN {lastId[t] + 1} ELSE {}
        row == IF r.op = "create" THEN [own |-> [name |-> 0], plan |-> {}, policy |-> {}]
               ELSE Only(ownerRow[r.o])
    IN IF r.op = "delete" \/ (r.op = "update" /\ ownerRow[r.o] = {}) THEN {}
       ELSE {[own |-> Overwritten(row.own, r.body.own),
              plan |-> IF id("plan") # {} THEN id("plan") ELSE row.plan,
              policy |-> IF id("policy") # {} THEN id("policy") ELSE row.policy]}

ChangedFields(before, after) == {f \in DOMAIN after : f \in DOMAIN before => before[f] # after[f]}

\* Ghost: the fields this commit changes.
ChangedBy(r) ==
    [x \in Nested \cup {"own"} |->
        IF x = "own"
        THEN IF r.op = "update" /\ ownerRow[r.o] # {}
             THEN ChangedFields(Only(ownerRow[r.o]).own, Only(OwnerAfter(r)).own) ELSE {}
        ELSE UNION {ChangedFields(nestedRow[x][n], NestedAfter(r, x)[n]) :
                       n \in Updates(r, x) \cap DOMAIN nestedRow[x]}]

NextId(r, t) == IF Inserts(r, t) THEN lastId[t] + 1 ELSE lastId[t]

\* Unique keys stop the second of two creates of one id.
Commit(w) ==
    LET r == writer[w] IN
    /\ r.pc = "writing" /\ (r.op = "create" => ownerRow[r.o] = {})
    /\ nestedRow' = [t \in Nested |-> NestedAfter(r, t)]
    /\ ownerRow' = [ownerRow EXCEPT ![r.o] = OwnerAfter(r)]
    /\ lastId' = [t \in Nested |-> NextId(r, t)]
    /\ writer' = Overlap(w, [writer EXCEPT
           ![w].pc = "committed", ![w].changed = ChangedBy(r),
           ![w].ids = [t \in Nested |-> IF Inserts(r, t) THEN {lastId[t] + 1} ELSE {}]])
    /\ storedIds' = storedIds \cup UNION {{<<t, n>> : n \in DOMAIN nestedRow'[t]} : t \in Nested}
    /\ UNCHANGED <<trail, audited>>

\* A statement fails, or the transaction finds the request inadmissible: all is
\* rolled back.  The inserts that were done have used up their ids and leave
\* them in the local variables of the request.
Rollback(w) ==
    LET r == writer[w] IN
    /\ r.pc = "writing"
    /\ \E done \in SUBSET {t \in Nested : Inserts(r, t)} :
        /\ lastId' = [t \in Nested |-> IF t \in done THEN NextId(r, t) ELSE lastId[t]]
        /\ writer' = [writer EXCEPT ![w].pc = "failed",
               ![w].ids = [t \in Nested |-> IF t \in done THEN {lastId[t] + 1} ELSE {}]]
    /\ UNCHANGED <<ownerRow, nestedRow, trail, audited, storedIds>>

----------------------------------------------------------------------------
\* The entries.

\* Keys of after whose value before lacks or has otherwise.  Keys only before
\* has are not counted: most updates are partial.
computeDiffKeys(before, after) ==
    {k \in DOMAIN after : k \in DOMAIN before => after[k] # before[k]}

BuildChangeSummary(action, before, after) ==
    IF action = "update" THEN computeDiffKeys(before, after) ELSE {}

Entry(r, type, action, id, owner, diff) ==
    [type |-> type, action |-> action, id |-> id, owner |-> owner, ok |-> r.pc = "committed",
     diff |-> diff, changed |-> r.changed[type], overlapped |-> r.overlapped]

\* Snapshots: the fields that are set; a policy's empty list is not.
quotaPlanParamToMap(params) == IF params = {} THEN << >> ELSE Only(params)
rateLimitPolicyParamToMap(params) ==
    IF params = {} THEN << >>
    ELSE LET p == Only(params) IN [k \in {f \in DOMAIN p : f = "tpm" => p[f] # 0} |-> p[k]]
entityParamToMap(rows) == IF rows = {} THEN << >> ELSE Only(rows).own

recordQuotaPlanOperation(r, action, id, owner, before, after) ==
    {Entry(r, "plan", action, id, owner,
            BuildChangeSummary(action, quotaPlanParamToMap(before), quotaPlanParamToMap(after)))}
recordRateLimitPolicyOperation(r, action, id, owner, before, after) ==
    {Entry(r, "policy", action, id, owner,
            BuildChangeSummary(action, rateLimitPolicyParamToMap(before), rateLimitPolicyParamToMap(after)))}
Audit(r, t, action, id, owner, before, after) ==
    IF t = "plan" THEN recordQuotaPlanOperation(r, action, id, owner, before, after)
    ELSE recordRateLimitPolicyOperation(r, action, id, owner, before, after)

\* The id is passed on only when the transaction committed.
CreatedId(r, t) == IF r.pc = "committed" THEN r.ids[t] ELSE {}

\* auditNested...Create, ...Change and ...Delete: one pair of functions per
\* manager, alike but for the owner they name.
auditNestedCreate(r, t) ==
    IF r.body[t] = {} THEN {}
    ELSE Audit(r, t, "create", CreatedId(r, t), {r.o}, {}, r.body[t])
auditNestedChange_Update(r, t) ==
    IF r.body[t] = {} THEN {}
    ELSE Audit(r, t, "update", IF r.old = {} THEN {} ELSE Only(r.old)[t],
               IF r.old = {} THEN {} ELSE {r.o}, r[t], r.body[t])
auditNestedChange(r, t) ==
    LET owner == IF r.old = {} THEN {} ELSE {r.o} IN
    IF r.body[t] = {} THEN {}
    ELSE IF r.old # {} /\ Only(r.old)[t] # {}
    THEN Audit(r, t, "update", Only(r.old)[t], owner, r[t], r.body[t])
    ELSE Audit(r, t, "create", CreatedId(r, t), owner, {}, r.body[t])
auditNestedDelete(r, t) ==
    IF r.old = {} \/ Only(r.old)[t] = {} THEN {}
    ELSE Audit(r, t, "delete", Only(r.old)[t], {r.o}, r[t], {})

NestedEntries(r, t) ==
    CASE r.op = "create" -> auditNestedCreate(r, t)
      [] r.op = "update" -> auditNestedChange(r, t)
      [] r.op = "delete" -> auditNestedDelete(r, t)

\* Whose entry it is: the stored row's id, else the one addressed where the
\* request was refused before its transaction; an update's body has no id.
entityIdentifiers(r) ==
    IF r.op = "create" \/ r.old # {} \/ r.pc = "refused" THEN {r.o} ELSE {}

recordEntityOperation(r) ==
    {Entry(r, "own", r.op, {}, entityIdentifiers(r),
            BuildChangeSummary(r.op, entityParamToMap(r.old), IF r.op = "delete" THEN << >> ELSE r.body.own))}

\* Nothing is recorded of an API key that was not found.
recordAPIKeyOperation(r) ==
    IF r.op # "create" /\ r.old = {} THEN {}
    ELSE {Entry(r, "own", r.op, {}, {r.o},
                 BuildChangeSummary(r.op, entityParamToMap(r.old), IF r.op = "delete" THEN << >> ELSE r.body.own))}

\* Record only queues the entries; a request refused before its transaction
\* has no nested ones.
RecordAll(w) ==
    LET r == writer[w]
        own == IF r.o \in Entities THEN recordEntityOperation(r) ELSE recordAPIKeyOperation(r)
    IN
    /\ r.pc \in {"committed", "failed", "refused"}
    /\ trail' = trail \cup own \cup
                (IF r.pc = "refused" THEN {} ELSE UNION {NestedEntries(r, t) : t \in Nested})
    /\ writer' = [writer EXCEPT ![w] = NoOne]
    /\ UNCHANGED <<ownerRow, nestedRow, lastId, audited, storedIds>>

AuditNext == \E w \in Writers : Ask(w) \/ TxnReads(w) \/ Commit(w) \/ Rollback(w) \/ RecordAll(w)

AuditSpec == AuditInit /\ [][AuditNext]_auditVars

----------------------------------------------------------------------------
\* Properties.

NoRequest == \A w \in Writers : writer[w].pc = "idle"

\* The rows of the nested tables have ids their counters have given out, and an
\* owner names at most one row of each.
AuditTypeOK ==
    /\ \A t \in Nested : DOMAIN nestedRow[t] \subseteq 1..lastId[t]
    /\ \A o \in AuditOwners : \A r \in ownerRow[o], t \in Nested :
          Cardinality(r[t]) <= 1 /\ r[t] \subseteq 1..lastId[t]
    /\ \A e \in trail : e.type \in Nested \cup {"own"} /\ Cardinality(e.id) <= 1

\* Once every request has been recorded, the quota plans and rate limit
\* policies that exist are the ones the log reports as created and not as
\* deleted, whatever requests overlapped and whichever of them failed.
LogTellsWhatExists ==
    NoRequest => \A t \in Nested :
        DOMAIN nestedRow[t] =
            (UNION {e.id : e \in {x \in trail : x.type = t /\ x.ok /\ x.action = "create"}})
            \ (UNION {e.id : e \in {x \in trail : x.type = t /\ x.ok /\ x.action = "delete"}})

\* The log never names a plan or a policy that was never stored: the id an
\* insert used up before its transaction was rolled back is dropped.
NoInventedIds == \A e \in trail : e.type \in Nested => \A n \in e.id : <<e.type, n>> \in storedIds

\* Where no other request committed in between, the diff_keys of a successful
\* update name every field of the owner or of its quota plan that the update
\* changed, even if reading the old plan for the entry failed.
ChangesAreNamed ==
    \A e \in trail : e.ok /\ e.action = "update" /\ ~e.overlapped /\ e.type # "policy" => e.changed \subseteq e.diff

\* The trail is true: it tells which plans and policies exist, names none that was never
\* stored, and an update that nothing overlapped names what it changed.
TrailIsTrue == LogTellsWhatExists /\ NoInventedIds /\ ChangesAreNamed
=============================================================================
