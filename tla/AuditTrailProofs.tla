-------------------------- MODULE AuditTrailProofs --------------------------
(***************************************************************************)
(* Theorems about AuditTrail, for any owners, bodies, number of requests,  *)
(* and overlap of their transactions.                                      *)
(***************************************************************************)
EXTENDS AuditTrail, TLAPS

-----------------------------------------------------------------------------
(* The inductive invariant. *)

\* The record of a request that is under way.
RequestFields ==
  {"pc", "op", "o", "body", "old", "plan", "policy", "ids", "changed", "overlapped"}

IsRequest(r) ==
  /\ DOMAIN r = RequestFields
  /\ r.pc \in {"asked", "refused", "writing", "committed", "failed"}
  /\ r.op \in {"create", "update", "delete"}
  /\ r.o \in AuditOwners /\ r.overlapped \in BOOLEAN

\* The variables are functions of their index sets, the counters count.
AuditShape ==
  /\ ownerRow = [o \in AuditOwners |-> ownerRow[o]]
  /\ nestedRow = [t \in Nested |-> nestedRow[t]]
  /\ lastId \in [Nested -> Nat]
  /\ writer = [w \in Writers |-> writer[w]]
  /\ \A w \in Writers : writer[w] = NoOne \/ IsRequest(writer[w])

\* A row of an owner names at most one row of each table, one that was stored.
GoodRow(row) ==
  \A t \in Nested : \A n \in row[t] : <<t, n>> \in storedIds /\ \A m \in row[t] : m = n

\* What a request has read exists or existed, and what it has inserted is stored.
ReadsStored(r) ==
  /\ \A row \in r.old : GoodRow(row)
  /\ r.pc \in {"writing", "committed"} /\ r.op # "create" => r.old # {}
  /\ r.pc = "committed" =>
        \A t \in Nested : \A n \in r.ids[t] : Inserts(r, t) /\ <<t, n>> \in storedIds

\* Every id that is named anywhere was stored, and was given out by its counter.
IdsStored ==
  /\ \A o \in AuditOwners : \A row \in ownerRow[o] : GoodRow(row)
  /\ \A w \in Writers : writer[w].pc # "idle" => ReadsStored(writer[w])
  /\ \A t \in Nested : \A n \in DOMAIN nestedRow[t] : <<t, n>> \in storedIds
  /\ \A t \in Nested : \A n : <<t, n>> \in storedIds => n \in Nat /\ n <= lastId[t]
  /\ NoInventedIds

\* What the log, and a request that has committed and is yet to record, say of a row.
Told(action, t, n) ==
  \E e \in trail : e.type = t /\ e.ok /\ e.action = action /\ n \in e.id
ToTellCreated(r, t, n) == r.pc = "committed" /\ n \in r.ids[t]
ToTellDeleted(r, t, n) ==
  r.pc = "committed" /\ r.op = "delete" /\ r.old # {} /\ n \in Only(r.old)[t]

Created(t, n) == Told("create", t, n) \/ \E w \in Writers : ToTellCreated(writer[w], t, n)
Deleted(t, n) == Told("delete", t, n) \/ \E w \in Writers : ToTellDeleted(writer[w], t, n)

\* The rows are those created and not deleted, counting the entries that are still to come.
ExistsAsTold ==
  \A t \in Nested : \A n : n \in DOMAIN nestedRow[t] <=> Created(t, n) /\ ~Deleted(t, n)

\* An update nothing has overlapped has read what is stored; once it has committed,
\* its snapshots show what it changed.
Fresh(r) ==
  r.op = "update" /\ ~r.overlapped
      /\ (r.pc = "writing" \/ (r.pc = "asked" /\ r.o \in Entities))
    => r.old = ownerRow[r.o] /\ r.plan \in OldPlan(r.old, r.body)

Named(r) ==
  r.pc = "committed" /\ r.op = "update" /\ ~r.overlapped =>
    /\ r.changed["own"] \subseteq computeDiffKeys(entityParamToMap(r.old), r.body.own)
    /\ r.body.plan # {} => r.changed["plan"] \subseteq
          computeDiffKeys(quotaPlanParamToMap(r.plan), quotaPlanParamToMap(r.body.plan))

ChangesSeen ==
  /\ \A w \in Writers : writer[w].pc # "idle" => Fresh(writer[w]) /\ Named(writer[w])
  /\ ChangesAreNamed

AuditInv == AuditShape /\ IdsStored /\ ExistsAsTold /\ ChangesSeen

-----------------------------------------------------------------------------
(* Small facts. *)

\* CHOOSE finds a member.
LEMMA OnlyIn == \A S : S # {} => Only(S) \in S
  BY Zenon DEF Only

\* CHOOSE over a set of one finds the one.
LEMMA OnlyOne == \A x : Only({x}) = x
  BY Zenon DEF Only

\* What setting the state of a request leaves alone.
LEMMA SetPc ==
  ASSUME NEW r, IsRequest(r), NEW p \in {"writing", "failed"}
  PROVE  LET q == [r EXCEPT !.pc = p] IN
         /\ IsRequest(q) /\ q.pc = p /\ q.op = r.op /\ q.o = r.o /\ q.body = r.body
         /\ q.old = r.old /\ q.plan = r.plan /\ q.overlapped = r.overlapped
  BY DEF IsRequest, RequestFields

-----------------------------------------------------------------------------
(* The invariant holds initially, and in every step but a commit and a recording. *)

\* Nothing is stored, under way or recorded at first.
LEMMA AuditStarts == AuditInit => AuditInv
<1> SUFFICES ASSUME AuditInit PROVE AuditInv
  OBVIOUS
<1>1. /\ \A o \in AuditOwners : ownerRow[o] = {}
      /\ \A w \in Writers : writer[w] = NoOne /\ writer[w].pc = "idle"
      /\ trail = {} /\ storedIds = {}
  BY DEF AuditInit, NoOne
<1>2. \A t \in Nested : nestedRow[t] = << >> /\ DOMAIN nestedRow[t] = {}
  BY DEF AuditInit
<1>3. AuditShape
  BY <1>1 DEF AuditInit, AuditShape
<1>4. IdsStored
  BY <1>1, <1>2, Zenon DEF IdsStored, NoInventedIds
<1>5. ExistsAsTold
  BY <1>1, <1>2 DEF ExistsAsTold, Created, Told, ToTellCreated
<1>6. ChangesSeen
  BY <1>1, Zenon DEF ChangesSeen, ChangesAreNamed
<1> QED
  BY <1>3, <1>4, <1>5, <1>6, Zenon DEF AuditInv

\* The predicates on a request, put together.
RequestOK(r) == IsRequest(r) /\ ReadsStored(r) /\ Fresh(r) /\ Named(r)

\* A step of w that neither commits nor records.
QuietStep(w) ==
  /\ UNCHANGED <<ownerRow, nestedRow, trail, storedIds>>
  /\ lastId' \in [Nested -> Nat] /\ \A t \in Nested : lastId[t] <= lastId'[t]
  /\ writer' = [v \in Writers |-> writer'[v]]
  /\ \A v \in Writers \ {w} : writer'[v] = writer[v]
  /\ writer[w].pc # "committed" /\ writer'[w].pc \notin {"idle", "committed"}
  /\ RequestOK(writer'[w])

\* A step that changes one request only, and makes it tell nothing new, keeps the invariant.
LEMMA QuietKeepsInv ==
  ASSUME AuditInv, NEW w \in Writers, QuietStep(w)
  PROVE  AuditInv'
<1>0. /\ UNCHANGED <<ownerRow, nestedRow, trail, storedIds>>
      /\ \A v \in Writers \ {w} : writer'[v] = writer[v]
      /\ IsRequest(writer'[w]) /\ ReadsStored(writer'[w])
      /\ Fresh(writer'[w]) /\ Named(writer'[w])
  BY Zenon DEF QuietStep, RequestOK
<1>1. AuditShape'
  BY <1>0, Zenon DEF QuietStep, AuditInv, AuditShape, IsRequest
<1>2. IdsStored'
  <2>1. \A o \in AuditOwners : \A row \in ownerRow'[o] : GoodRow(row)'
    BY <1>0, Zenon DEF AuditInv, IdsStored, GoodRow
  <2>2. ASSUME NEW v \in Writers, writer'[v].pc # "idle" PROVE ReadsStored(writer[v])'
    <3>1. ReadsStored(writer'[v])
      BY <1>0, <2>2, Zenon DEF AuditInv, IdsStored
    <3> QED
      BY <1>0, <3>1, Zenon DEF ReadsStored, GoodRow
  <2>3. \A t \in Nested : \A n : <<t, n>> \in storedIds' => n \in Nat /\ n <= lastId'[t]
    <3> SUFFICES ASSUME NEW t \in Nested, NEW n, <<t, n>> \in storedIds
                 PROVE  n \in Nat /\ n <= lastId'[t]
      BY <1>0, Zenon
    <3>1. n \in Nat /\ n <= lastId[t]
      BY Zenon DEF AuditInv, IdsStored
    <3>2. lastId[t] \in Nat /\ lastId'[t] \in Nat /\ lastId[t] <= lastId'[t]
      BY Zenon DEF QuietStep, AuditInv, AuditShape
    <3> QED
      BY <3>1, <3>2
  <2>4. \A t \in Nested : \A n \in DOMAIN nestedRow'[t] : <<t, n>> \in storedIds'
    BY <1>0, Zenon DEF AuditInv, IdsStored
  <2>5. NoInventedIds'
    BY <1>0, Zenon DEF AuditInv, IdsStored, NoInventedIds
  <2> QED
    BY <2>1, <2>2, <2>3, <2>4, <2>5, Zenon DEF IdsStored
<1>3. ExistsAsTold'
  <2> SUFFICES ASSUME NEW t \in Nested, NEW n
               PROVE  n \in DOMAIN nestedRow'[t] <=> Created(t, n)' /\ ~Deleted(t, n)'
    BY Zenon DEF ExistsAsTold
  <2>1. n \in DOMAIN nestedRow[t] <=> Created(t, n) /\ ~Deleted(t, n)
    BY Zenon DEF AuditInv, ExistsAsTold
  <2>2. writer[w].pc # "committed" /\ writer'[w].pc # "committed"
    BY Zenon DEF QuietStep
  <2>3. Created(t, n)' <=> Created(t, n)
    BY <1>0, <2>2, Zenon DEF Created, Told, ToTellCreated
  <2>4. Deleted(t, n)' <=> Deleted(t, n)
    BY <1>0, <2>2, Zenon DEF Deleted, Told, ToTellDeleted
  <2> QED
    BY <1>0, <2>1, <2>3, <2>4, Zenon
<1>4. ChangesSeen'
  <2>1. ASSUME NEW v \in Writers, writer'[v].pc # "idle" PROVE (Fresh(writer[v]) /\ Named(writer[v]))'
    <3>1. Fresh(writer'[v]) /\ Named(writer'[v])
      BY <1>0, <2>1, Zenon DEF AuditInv, ChangesSeen
    <3>2. OldPlan(writer[v].old, writer[v].body)' = OldPlan(writer'[v].old, writer'[v].body)
      BY <1>0, Zenon DEF OldPlan
    <3>3. Fresh(writer[v])'
      BY <1>0, <3>1, <3>2, Zenon DEF Fresh
    <3>4. Named(writer[v])'
      BY <3>1, Zenon DEF Named
    <3> QED
      BY <3>3, <3>4, Zenon
  <2>2. ChangesAreNamed'
    BY <1>0, Zenon DEF AuditInv, ChangesSeen, ChangesAreNamed
  <2> QED
    BY <2>1, <2>2, Zenon DEF ChangesSeen
<1> QED
  BY <1>1, <1>2, <1>3, <1>4, Zenon DEF AuditInv

\* A request arrives: what it reads before its transaction is what is stored.
LEMMA AskKeepsInv ==
  ASSUME AuditInv, NEW w \in Writers, Ask(w)
  PROVE  AuditInv'
<1> DEFINE New(pc, op, o, body, plan) ==
          [pc |-> pc, op |-> op, o |-> o, body |-> body, old |-> ReadFirst(op, o),
           plan |-> plan, policy |-> {}, ids |-> [t \in Nested |-> {}],
           changed |-> [t \in Nested \cup {"own"} |-> {}], overlapped |-> FALSE]
<1>1. PICK op \in {"create", "update", "delete"}, o \in AuditOwners, body \in WriteBodies :
        /\ op = "delete" => body = CHOOSE b \in WriteBodies : TRUE
        /\ \E plan \in OldPlan(ReadFirst(op, o), body), pc \in {"asked", "refused"} :
              /\ pc = "refused" => o \in Entities /\ op # "delete"
              /\ writer' = [writer EXCEPT ![w] = New(pc, op, o, body, plan)]
  BY Zenon DEF Ask
<1>2. PICK plan \in OldPlan(ReadFirst(op, o), body), pc \in {"asked", "refused"} :
        writer' = [writer EXCEPT ![w] = New(pc, op, o, body, plan)]
  BY <1>1, Zenon
<1> DEFINE q == New(pc, op, o, body, plan)
<1>3. /\ IsRequest(q) /\ q.pc = pc /\ q.op = op /\ q.o = o /\ q.body = body
      /\ q.old = ReadFirst(op, o) /\ q.plan = plan
  BY DEF IsRequest, RequestFields
<1>4. writer' = [writer EXCEPT ![w] = q]
  BY <1>2, Zenon
<1> HIDE DEF q
<1>5. ReadFirst(op, o) = {} \/ ReadFirst(op, o) = ownerRow[o]
  BY Zenon DEF ReadFirst
<1>6. pc # "committed" /\ pc # "writing" /\ pc # "idle"
  OBVIOUS
<1>7. ReadsStored(q)
  <2>1. \A row \in q.old : GoodRow(row)
    BY <1>3, <1>5, Zenon DEF AuditInv, IdsStored
  <2> QED
    BY <1>3, <1>6, <2>1, Zenon DEF ReadsStored
<1>8. Fresh(q)
  <2>1. CASE op = "update" /\ o \in Entities
    <3>1. ReadFirst(op, o) = ownerRow[o]
      BY <2>1, Zenon DEF ReadFirst
    <3>2. q.old = ownerRow[q.o]
      BY <1>3, <3>1, Zenon
    <3>3. q.plan \in OldPlan(q.old, q.body)
      BY <1>2, <1>3, Zenon
    <3> QED
      BY <3>2, <3>3, Zenon DEF Fresh
  <2>2. CASE ~(op = "update" /\ o \in Entities)
    BY <1>3, <1>6, <2>2, Zenon DEF Fresh
  <2> QED
    BY <2>1, <2>2, Zenon
<1>9. Named(q)
  BY <1>3, <1>6, Zenon DEF Named
<1>10. /\ writer' = [v \in Writers |-> writer'[v]] /\ writer'[w] = q
       /\ \A v \in Writers \ {w} : writer'[v] = writer[v]
  BY <1>4, Zenon DEF AuditInv, AuditShape
<1>11. /\ UNCHANGED <<ownerRow, nestedRow, trail, storedIds, lastId>>
       /\ lastId \in [Nested -> Nat] /\ writer[w].pc # "committed"
  BY Zenon DEF Ask, AuditInv, AuditShape
<1>12. \A t \in Nested : lastId[t] <= lastId'[t]
  BY <1>11
<1>13. QuietStep(w)
  BY <1>3, <1>6, <1>7, <1>8, <1>9, <1>10, <1>11, <1>12, Zenon DEF QuietStep, RequestOK
<1> QED
  BY <1>13, QuietKeepsInv, Zenon

\* Who takes a step is a request.
LEMMA UnderWay ==
  ASSUME AuditInv, NEW w \in Writers, writer[w].pc # "idle"
  PROVE  RequestOK(writer[w])
<1>1. writer[w] # NoOne
  BY DEF NoOne
<1> QED
  BY <1>1, Zenon DEF AuditInv, AuditShape, IdsStored, ChangesSeen, RequestOK

\* The transaction reads: rows that are stored, and for an update the plan.
LEMMA ReadsKeepInv ==
  ASSUME AuditInv, NEW w \in Writers, TxnReads(w)
  PROVE  AuditInv'
<1> DEFINE r == writer[w]
<1>1. r.pc = "asked" /\ RequestOK(r)
  <2>1. r.pc = "asked"
    BY Zenon DEF TxnReads
  <2> QED
    BY <2>1, UnderWay, Zenon
<1>2. /\ UNCHANGED <<ownerRow, nestedRow, trail, storedIds, lastId>>
      /\ lastId \in [Nested -> Nat] /\ writer = [v \in Writers |-> writer[v]]
  BY Zenon DEF TxnReads, AuditInv, AuditShape
<1>3. \A t \in Nested : lastId[t] <= lastId'[t]
  BY <1>2
<1>4. ASSUME NEW q, writer' = [writer EXCEPT ![w] = q], RequestOK(q), q.pc \in {"writing", "failed"}
      PROVE  AuditInv'
  <2>1. /\ writer' = [v \in Writers |-> writer'[v]] /\ writer'[w] = q
        /\ \A v \in Writers \ {w} : writer'[v] = writer[v]
    BY <1>2, <1>4, Zenon
  <2>2. q.pc # "idle" /\ q.pc # "committed" /\ r.pc # "committed"
    BY <1>1, <1>4
  <2>3. QuietStep(w)
    BY <1>2, <1>3, <1>4, <2>1, <2>2, Zenon DEF QuietStep
  <2> QED
    BY <2>3, QuietKeepsInv, Zenon
<1>5. ASSUME NEW p \in {"writing", "failed"}, writer' = [writer EXCEPT ![w].pc = p],
             p = "writing" => r.op = "create"
      PROVE  AuditInv'
  <2> DEFINE q == [r EXCEPT !.pc = p]
  <2>1. writer' = [writer EXCEPT ![w] = q]
    BY <1>5, Zenon
  <2>2. /\ IsRequest(q) /\ q.pc = p /\ q.op = r.op /\ q.o = r.o /\ q.body = r.body
        /\ q.old = r.old /\ q.plan = r.plan /\ q.overlapped = r.overlapped
    BY <1>1, SetPc, Zenon DEF RequestOK
  <2> HIDE DEF q
  <2>3. p # "committed" /\ p # "asked" /\ p # "idle"
    OBVIOUS
  <2>4. ReadsStored(q)
    BY <1>1, <1>5, <2>2, <2>3, Zenon DEF RequestOK, ReadsStored
  <2>5. Fresh(q) /\ Named(q)
    BY <1>5, <2>2, <2>3, Zenon DEF Fresh, Named
  <2> QED
    BY <1>4, <2>1, <2>2, <2>4, <2>5, Zenon DEF RequestOK
<1>6. CASE r.op = "create"
  BY <1>5, <1>6, Zenon DEF TxnReads
<1>7. CASE r.op # "create" /\ writer' = [writer EXCEPT ![w].pc = "failed"]
  BY <1>5, <1>7, Zenon
<1>8. ASSUME r.op # "create", ownerRow[r.o] # {}, NEW plan, NEW policy,
             r.op = "update" /\ r.o \notin Entities => plan \in OldPlan(ownerRow[r.o], r.body),
             r.op = "update" /\ r.o \in Entities => plan = r.plan,
             writer' = [writer EXCEPT ![w].pc = "writing", ![w].old = ownerRow[r.o],
                                      ![w].plan = plan, ![w].policy = policy]
      PROVE  AuditInv'
  <2> DEFINE q == [r EXCEPT !.pc = "writing", !.old = ownerRow[r.o], !.plan = plan, !.policy = policy]
  <2>1. writer' = [writer EXCEPT ![w] = q]
    BY <1>2, <1>8, Zenon
  <2>2. /\ IsRequest(q) /\ q.pc = "writing" /\ q.op = r.op /\ q.o = r.o /\ q.body = r.body
        /\ q.old = ownerRow[r.o] /\ q.plan = plan /\ q.overlapped = r.overlapped
    <3>1. IsRequest(r)
      BY <1>1, Zenon DEF RequestOK
    <3> QED
      BY <3>1 DEF IsRequest, RequestFields
  <2> HIDE DEF q
  <2>3. r.o \in AuditOwners
    BY <1>1, Zenon DEF RequestOK, IsRequest
  <2>4. ReadsStored(q)
    <3>1. \A row \in q.old : GoodRow(row)
      BY <2>2, <2>3, Zenon DEF AuditInv, IdsStored
    <3> QED
      BY <1>8, <2>2, <3>1, Zenon DEF ReadsStored
  <2>5. Fresh(q)
    <3>1. q.old = ownerRow[q.o]
      BY <2>2, Zenon
    <3>2. ASSUME r.op = "update", ~r.overlapped PROVE plan \in OldPlan(ownerRow[r.o], r.body)
      <4>1. CASE r.o \notin Entities
        BY <1>8, <3>2, <4>1, Zenon
      <4>2. CASE r.o \in Entities
        BY <1>1, <1>8, <3>2, <4>2, Zenon DEF RequestOK, Fresh
      <4> QED
        BY <4>1, <4>2, Zenon
    <3> QED
      BY <2>2, <3>1, <3>2, Zenon DEF Fresh
  <2>6. Named(q)
    BY <2>2, Zenon DEF Named
  <2> QED
    BY <1>4, <2>1, <2>2, <2>4, <2>5, <2>6, Zenon DEF RequestOK
<1> QED
  BY <1>6, <1>7, <1>8, Zenon DEF TxnReads

\* A transaction is rolled back: ids may be used up, nothing else.
LEMMA RollbackKeepsInv ==
  ASSUME AuditInv, NEW w \in Writers, Rollback(w)
  PROVE  AuditInv'
<1> DEFINE r == writer[w]
<1>1. r.pc = "writing" /\ RequestOK(r)
  <2>1. r.pc = "writing"
    BY Zenon DEF Rollback
  <2> QED
    BY <2>1, UnderWay, Zenon
<1>2. PICK done : /\ lastId' = [t \in Nested |-> IF t \in done THEN NextId(r, t) ELSE lastId[t]]
                  /\ writer' = [writer EXCEPT ![w].pc = "failed",
                        ![w].ids = [t \in Nested |-> IF t \in done THEN {lastId[t] + 1} ELSE {}]]
  BY Zenon DEF Rollback
<1>3. /\ UNCHANGED <<ownerRow, nestedRow, trail, storedIds>>
      /\ lastId \in [Nested -> Nat] /\ writer = [v \in Writers |-> writer[v]]
  BY Zenon DEF Rollback, AuditInv, AuditShape
<1>4. lastId' \in [Nested -> Nat] /\ \A t \in Nested : lastId[t] <= lastId'[t]
  <2>1. \A t \in Nested : /\ lastId[t] \in Nat /\ NextId(r, t) \in Nat
                           /\ lastId[t] <= lastId[t] /\ lastId[t] <= NextId(r, t)
    BY <1>3 DEF NextId
  <2> QED
    BY <1>2, <2>1, Zenon
<1> DEFINE ids == [t \in Nested |-> IF t \in done THEN {lastId[t] + 1} ELSE {}]
           q == [r EXCEPT !.pc = "failed", !.ids = ids]
<1>5. IsRequest(q) /\ q.pc = "failed" /\ q.op = r.op /\ q.old = r.old
  <2>1. IsRequest(r)
    BY <1>1, Zenon DEF RequestOK
  <2> HIDE DEF ids
  <2> QED
    BY <2>1 DEF IsRequest, RequestFields
<1>6. writer' = [writer EXCEPT ![w] = q]
  BY <1>2, <1>3, Zenon
<1> HIDE DEF q
<1>7. /\ writer' = [v \in Writers |-> writer'[v]] /\ writer'[w] = q
      /\ \A v \in Writers \ {w} : writer'[v] = writer[v]
  BY <1>3, <1>6, Zenon
<1>8. RequestOK(q)
  <2>1. \A row \in q.old : GoodRow(row)
    BY <1>1, <1>5, Zenon DEF RequestOK, ReadsStored
  <2>2. ReadsStored(q)
    BY <1>5, <2>1, Zenon DEF ReadsStored
  <2>3. Fresh(q) /\ Named(q)
    BY <1>5, Zenon DEF Fresh, Named
  <2> QED
    BY <1>5, <2>2, <2>3, Zenon DEF RequestOK
<1>9. QuietStep(w)
  BY <1>1, <1>3, <1>4, <1>5, <1>7, <1>8, Zenon DEF QuietStep
<1> QED
  BY <1>9, QuietKeepsInv, Zenon

-----------------------------------------------------------------------------
(* Recording. *)

\* What an entry about a nested row says of the request that wrote it.
TrueEntry(e, r, t) ==
  /\ e.type = t /\ e.ok = (r.pc = "committed") /\ e.changed = r.changed[t]
  /\ e.overlapped = r.overlapped
  /\ \A n \in e.id : <<t, n>> \in storedIds
  /\ e.action = "create" => e.id = CreatedId(r, t)
  /\ e.action = "delete" => r.op = "delete" /\ r.old # {} /\ e.id = Only(r.old)[t]
  /\ e.action = "update" /\ t = "plan" =>
        /\ r.op = "update" /\ r.body.plan # {}
        /\ e.diff = computeDiffKeys(quotaPlanParamToMap(r.plan), quotaPlanParamToMap(r.body.plan))

\* The fields an entry about a nested row calls changed.
DiffOf(t, action, before, after) ==
  IF t = "plan"
  THEN BuildChangeSummary(action, quotaPlanParamToMap(before), quotaPlanParamToMap(after))
  ELSE BuildChangeSummary(action, rateLimitPolicyParamToMap(before), rateLimitPolicyParamToMap(after))

\* Audit writes one entry (recordQuotaPlanOperation, recordRateLimitPolicyOperation).
LEMMA AuditEntry ==
  ASSUME NEW r, NEW t \in Nested, NEW action, NEW id, NEW owner, NEW before, NEW after
  PROVE  Audit(r, t, action, id, owner, before, after) =
           {Entry(r, t, action, id, owner, DiffOf(t, action, before, after))}
<1>1. CASE t = "plan"
  BY <1>1, Zenon DEF Audit, recordQuotaPlanOperation, DiffOf
<1>2. CASE t # "plan"
  <2>1. t = "policy"
    BY <1>2 DEF Nested
  <2> QED
    BY <1>2, <2>1, Zenon DEF Audit, recordRateLimitPolicyOperation, DiffOf
<1> QED
  BY <1>1, <1>2, Zenon

\* The entry of a nested create, change or delete.
LEMMA EntriesTrue ==
  ASSUME NEW r, RequestOK(r), r.pc \in {"committed", "failed"}, NEW t \in Nested
  PROVE  /\ \A e \in NestedEntries(r, t) : TrueEntry(e, r, t)
         /\ r.pc = "committed" /\ Inserts(r, t) =>
               \E e \in NestedEntries(r, t) : e.action = "create"
         /\ r.op = "delete" /\ r.old # {} /\ Only(r.old)[t] # {} =>
               \E e \in NestedEntries(r, t) : e.action = "delete"
<1>0. \A n \in CreatedId(r, t) : <<t, n>> \in storedIds
  BY Zenon DEF RequestOK, ReadsStored, CreatedId
<1>00. r.old # {} => \A n \in Only(r.old)[t] : <<t, n>> \in storedIds
  BY OnlyIn, Zenon DEF RequestOK, ReadsStored, GoodRow
<1>1. CASE NestedEntries(r, t) = {} /\ ~Inserts(r, t)
           /\ ~(r.op = "delete" /\ r.old # {} /\ Only(r.old)[t] # {})
  BY <1>1, Zenon
<1>2. CASE /\ r.op # "delete"
           /\ \E owner : NestedEntries(r, t) = Audit(r, t, "create", CreatedId(r, t), owner, {}, r.body[t])
  <2>0. PICK owner : NestedEntries(r, t) = Audit(r, t, "create", CreatedId(r, t), owner, {}, r.body[t])
    BY <1>2, Zenon
  <2> DEFINE diff == DiffOf(t, "create", {}, r.body[t])
  <2>1. Audit(r, t, "create", CreatedId(r, t), owner, {}, r.body[t]) =
          {Entry(r, t, "create", CreatedId(r, t), owner, diff)}
    BY AuditEntry
  <2> DEFINE e == Entry(r, t, "create", CreatedId(r, t), owner, diff)
  <2>2. /\ e.type = t /\ e.action = "create" /\ e.id = CreatedId(r, t)
        /\ e.ok = (r.pc = "committed") /\ e.changed = r.changed[t] /\ e.overlapped = r.overlapped
    BY Zenon DEF Entry
  <2>3. NestedEntries(r, t) = {e}
    BY <2>0, <2>1, Zenon
  <2> HIDE DEF e
  <2>4. e.action # "update" /\ e.action # "delete"
    BY <2>2
  <2>5. TrueEntry(e, r, t)
    BY <1>0, <2>2, <2>4, Zenon DEF TrueEntry
  <2> QED
    BY <1>2, <2>2, <2>3, <2>5, Zenon
<1>3. CASE /\ r.op = "update" /\ r.old # {} /\ ~Inserts(r, t) /\ r.body[t] # {}
           /\ \E owner : NestedEntries(r, t) =
                            Audit(r, t, "update", Only(r.old)[t], owner, r[t], r.body[t])
  <2>0. PICK owner : NestedEntries(r, t) = Audit(r, t, "update", Only(r.old)[t], owner, r[t], r.body[t])
    BY <1>3, Zenon
  <2> DEFINE diff == DiffOf(t, "update", r[t], r.body[t])
  <2>1. Audit(r, t, "update", Only(r.old)[t], owner, r[t], r.body[t]) =
          {Entry(r, t, "update", Only(r.old)[t], owner, diff)}
    BY AuditEntry
  <2>1a. t = "plan" =>
           diff = computeDiffKeys(quotaPlanParamToMap(r[t]), quotaPlanParamToMap(r.body[t]))
    BY Zenon DEF DiffOf, BuildChangeSummary
  <2> HIDE DEF diff
  <2> DEFINE e == Entry(r, t, "update", Only(r.old)[t], owner, diff)
  <2>2. /\ e.type = t /\ e.action = "update" /\ e.id = Only(r.old)[t] /\ e.diff = diff
        /\ e.ok = (r.pc = "committed") /\ e.changed = r.changed[t] /\ e.overlapped = r.overlapped
    BY Zenon DEF Entry
  <2>3. NestedEntries(r, t) = {e}
    BY <2>0, <2>1, Zenon
  <2> HIDE DEF e
  <2>4. e.action # "create" /\ e.action # "delete" /\ r.op # "delete"
    BY <1>3, <2>2
  <2>5. TrueEntry(e, r, t)
    BY <1>00, <1>3, <2>1a, <2>2, <2>4, Zenon DEF TrueEntry
  <2> QED
    BY <1>3, <2>3, <2>4, <2>5, Zenon
<1>4. CASE /\ r.op = "delete" /\ r.old # {}
           /\ \E owner : NestedEntries(r, t) =
                            Audit(r, t, "delete", Only(r.old)[t], owner, r[t], {})
  <2>0. PICK owner : NestedEntries(r, t) = Audit(r, t, "delete", Only(r.old)[t], owner, r[t], {})
    BY <1>4, Zenon
  <2> DEFINE diff == DiffOf(t, "delete", r[t], {})
  <2>1. Audit(r, t, "delete", Only(r.old)[t], owner, r[t], {}) =
          {Entry(r, t, "delete", Only(r.old)[t], owner, diff)}
    BY AuditEntry
  <2> DEFINE e == Entry(r, t, "delete", Only(r.old)[t], owner, diff)
  <2>2. /\ e.type = t /\ e.action = "delete" /\ e.id = Only(r.old)[t]
        /\ e.ok = (r.pc = "committed") /\ e.changed = r.changed[t] /\ e.overlapped = r.overlapped
    BY Zenon DEF Entry
  <2>3. NestedEntries(r, t) = {e}
    BY <2>0, <2>1, Zenon
  <2> HIDE DEF e
  <2>4. e.action # "update" /\ e.action # "create" /\ ~Inserts(r, t)
    BY <1>4, <2>2 DEF Inserts
  <2>5. TrueEntry(e, r, t)
    BY <1>00, <1>4, <2>2, <2>4, Zenon DEF TrueEntry
  <2> QED
    BY <2>2, <2>3, <2>4, <2>5, Zenon
<1>5. CASE r.op = "create"
  <2>1. NestedEntries(r, t) = auditNestedCreate(r, t) /\ r.op # "delete"
    BY <1>5 DEF NestedEntries
  <2> QED
    BY <1>1, <1>2, <2>1, Zenon DEF auditNestedCreate, Inserts
<1>6. CASE r.op = "update"
  <2>1. NestedEntries(r, t) = auditNestedChange(r, t) /\ r.op # "delete" /\ r.op # "create"
    BY <1>6 DEF NestedEntries
  <2>2. CASE r.body[t] = {}
    BY <1>1, <2>1, <2>2, Zenon DEF auditNestedChange, Inserts
  <2>3. CASE r.body[t] # {} /\ r.old # {} /\ Only(r.old)[t] # {}
    <3>1. ~Inserts(r, t)
      BY <2>1, <2>3, Zenon DEF Inserts
    <3>2. \E owner : NestedEntries(r, t) = Audit(r, t, "update", Only(r.old)[t], owner, r[t], r.body[t])
      BY <2>1, <2>3, Zenon DEF auditNestedChange
    <3> QED
      BY <1>3, <1>6, <2>3, <3>1, <3>2, Zenon
  <2>4. CASE r.body[t] # {} /\ ~(r.old # {} /\ Only(r.old)[t] # {})
    <3>1. \E owner : NestedEntries(r, t) = Audit(r, t, "create", CreatedId(r, t), owner, {}, r.body[t])
      BY <2>1, <2>4, Zenon DEF auditNestedChange
    <3> QED
      BY <1>2, <2>1, <3>1, Zenon
  <2> QED
    BY <2>2, <2>3, <2>4, Zenon
<1>7. CASE r.op = "delete"
  <2>1. NestedEntries(r, t) = auditNestedDelete(r, t) /\ ~Inserts(r, t)
    BY <1>7 DEF NestedEntries, Inserts
  <2> QED
    BY <1>1, <1>4, <1>7, <2>1, Zenon DEF auditNestedDelete
<1> QED
  BY <1>5, <1>6, <1>7 DEF RequestOK, IsRequest

\* The entry about the owner itself.
OwnEntries(r) == IF r.o \in Entities THEN recordEntityOperation(r) ELSE recordAPIKeyOperation(r)

\* It names what the request changed, as far as the request has seen it.
LEMMA OwnEntryTrue ==
  ASSUME NEW r, Named(r), NEW e \in OwnEntries(r)
  PROVE  /\ e.type = "own"
         /\ e.ok /\ e.action = "update" /\ ~e.overlapped => e.changed \subseteq e.diff
<1> DEFINE diff == BuildChangeSummary(r.op, entityParamToMap(r.old),
                                      IF r.op = "delete" THEN << >> ELSE r.body.own)
<1>1. \E owner : e = Entry(r, "own", r.op, {}, owner, diff)
  BY Zenon DEF OwnEntries, recordEntityOperation, recordAPIKeyOperation
<1> HIDE DEF diff
<1>2. PICK owner : e = Entry(r, "own", r.op, {}, owner, diff)
  BY <1>1, Zenon
<1>3. /\ e.type = "own" /\ e.ok = (r.pc = "committed") /\ e.action = r.op
      /\ e.overlapped = r.overlapped /\ e.changed = r.changed["own"] /\ e.diff = diff
  BY <1>2, Zenon DEF Entry
<1>4. ASSUME r.pc = "committed", r.op = "update", ~r.overlapped PROVE r.changed["own"] \subseteq diff
  <2>1. diff = computeDiffKeys(entityParamToMap(r.old), r.body.own)
    BY <1>4 DEF diff, BuildChangeSummary
  <2> QED
    BY <1>4, <2>1, Zenon DEF Named
<1> QED
  BY <1>3, <1>4, Zenon

\* A request records: what it was yet to tell is told now.
LEMMA RecordKeepsInv ==
  ASSUME AuditInv, NEW w \in Writers, RecordAll(w)
  PROVE  AuditInv'
<1> DEFINE r == writer[w]
           Entries == IF r.pc = "refused" THEN {} ELSE UNION {NestedEntries(r, t) : t \in Nested}
<1>1. r.pc \in {"committed", "failed", "refused"} /\ RequestOK(r)
  <2>1. r.pc \in {"committed", "failed", "refused"}
    BY Zenon DEF RecordAll
  <2>2. r.pc # "idle"
    BY <2>1
  <2> QED
    BY <2>1, <2>2, UnderWay, Zenon
<1>2. /\ trail' = trail \cup OwnEntries(r) \cup Entries
      /\ writer' = [writer EXCEPT ![w] = NoOne]
      /\ UNCHANGED <<ownerRow, nestedRow, lastId, storedIds>>
  BY Zenon DEF RecordAll, OwnEntries
<1>3. /\ writer' = [v \in Writers |-> writer'[v]] /\ writer'[w] = NoOne
      /\ \A v \in Writers \ {w} : writer'[v] = writer[v]
  BY <1>2, Zenon DEF AuditInv, AuditShape
<1>4. writer'[w].pc = "idle"
  <2>1. NoOne.pc = "idle"
    BY Zenon DEF NoOne
  <2> QED
    BY <1>3, <2>1, Zenon
<1>5. \A e \in OwnEntries(r) : /\ e.type = "own"
                               /\ e.ok /\ e.action = "update" /\ ~e.overlapped => e.changed \subseteq e.diff
  BY <1>1, OwnEntryTrue, Zenon DEF RequestOK
<1>6. ASSUME NEW e \in Entries
      PROVE  \E t \in Nested : TrueEntry(e, r, t)
  <2>1. PICK t \in Nested : e \in NestedEntries(r, t) /\ r.pc # "refused"
    BY <1>6, Zenon
  <2>2. r.pc \in {"committed", "failed"}
    BY <1>1, <2>1
  <2> HIDE DEF r
  <2> QED
    BY <1>1, <2>1, <2>2, EntriesTrue, Zenon
<1> HIDE DEF Entries
<1>7. AuditShape'
  BY <1>2, <1>3, Zenon DEF AuditInv, AuditShape, IsRequest
<1>8. IdsStored'
  <2>1. \A o \in AuditOwners : \A row \in ownerRow'[o] : GoodRow(row)'
    BY <1>2, Zenon DEF AuditInv, IdsStored, GoodRow
  <2>2. ASSUME NEW v \in Writers, writer'[v].pc # "idle" PROVE ReadsStored(writer[v])'
    <3>1. ReadsStored(writer'[v])
      BY <1>3, <1>4, <2>2, Zenon DEF AuditInv, IdsStored
    <3> QED
      BY <1>2, <3>1, Zenon DEF ReadsStored, GoodRow
  <2>3. /\ \A t \in Nested : \A n \in DOMAIN nestedRow'[t] : <<t, n>> \in storedIds'
        /\ \A t \in Nested : \A n : <<t, n>> \in storedIds' => n \in Nat /\ n <= lastId'[t]
    BY <1>2, Zenon DEF AuditInv, IdsStored
  <2>4. ASSUME NEW e \in trail', e.type \in Nested PROVE \A n \in e.id : <<e.type, n>> \in storedIds
    <3>1. CASE e \in trail
      BY <2>4, <3>1, Zenon DEF AuditInv, IdsStored, NoInventedIds
    <3>2. CASE e \in OwnEntries(r)
      BY <1>5, <2>4, <3>2 DEF Nested
    <3>3. CASE e \in Entries
      BY <1>6, <3>3, Zenon DEF TrueEntry
    <3> QED
      BY <1>2, <2>4, <3>1, <3>2, <3>3, Zenon
  <2>5. NoInventedIds'
    BY <1>2, <2>4, Zenon DEF NoInventedIds
  <2> QED
    BY <2>1, <2>2, <2>3, <2>5, Zenon DEF IdsStored
<1>9. ExistsAsTold'
  <2> SUFFICES ASSUME NEW t \in Nested, NEW n
               PROVE  n \in DOMAIN nestedRow'[t] <=> Created(t, n)' /\ ~Deleted(t, n)'
    BY Zenon DEF ExistsAsTold
  <2>1. n \in DOMAIN nestedRow[t] <=> Created(t, n) /\ ~Deleted(t, n)
    BY Zenon DEF AuditInv, ExistsAsTold
  <2>2. t # "own"
    BY DEF Nested
  <2>3. ASSUME NEW action, Told(action, t, n)' PROVE Told(action, t, n) \/ \E e \in Entries :
                 TrueEntry(e, r, t) /\ e.action = action /\ n \in e.id /\ e.ok
    <3>1. PICK e \in trail' : e.type = t /\ e.ok /\ e.action = action /\ n \in e.id
      BY <2>3, Zenon DEF Told
    <3>2. CASE e \in trail
      BY <3>1, <3>2, Zenon DEF Told
    <3>3. CASE e \in OwnEntries(r)
      BY <1>5, <2>2, <3>1, <3>3, Zenon
    <3>4. CASE e \in Entries
      <4>1. PICK s \in Nested : TrueEntry(e, r, s)
        BY <1>6, <3>4, Zenon
      <4>2. s = t
        BY <3>1, <4>1, Zenon DEF TrueEntry
      <4> QED
        BY <3>1, <3>4, <4>1, <4>2, Zenon
    <3> QED
      BY <1>2, <3>2, <3>3, <3>4, Zenon
  <2>4. ASSUME NEW action, Told(action, t, n) PROVE Told(action, t, n)'
    BY <1>2, <2>4, Zenon DEF Told
  <2>5. ASSUME NEW e \in NestedEntries(r, t), r.pc = "committed", e.action \in {"create", "delete"}, n \in e.id
        PROVE  Told(e.action, t, n)'
    <3>1. r.pc # "refused" /\ r.pc \in {"committed", "failed"}
      BY <2>5
    <3>2. e \in Entries
      BY <3>1, Zenon DEF Entries
    <3>3. TrueEntry(e, r, t)
      <4> HIDE DEF r
      <4> QED
        BY <1>1, <3>1, EntriesTrue, Zenon
    <3>4. e \in trail' /\ e.type = t /\ e.ok
      BY <1>2, <2>5, <3>2, <3>3, Zenon DEF TrueEntry
    <3> QED
      BY <2>5, <3>4, Zenon DEF Told
  <2>6. Created(t, n)' <=> Created(t, n)
    <3>1. ASSUME Created(t, n)' PROVE Created(t, n)
      <4>1. CASE \E v \in Writers : ToTellCreated(writer[v], t, n)'
        <5>1. PICK v \in Writers : writer'[v].pc = "committed" /\ n \in writer'[v].ids[t]
          BY <4>1, Zenon DEF ToTellCreated
        <5>2. writer'[v] = writer[v]
          BY <1>3, <1>4, <5>1
        <5> QED
          BY <5>1, <5>2, Zenon DEF Created, ToTellCreated
      <4>2. CASE Told("create", t, n)'
        <5>1. CASE Told("create", t, n)
          BY <5>1, Zenon DEF Created
        <5>2. CASE \E e \in Entries : TrueEntry(e, r, t) /\ e.action = "create" /\ n \in e.id /\ e.ok
          <6>1. n \in CreatedId(r, t) /\ r.pc = "committed"
            BY <5>2, Zenon DEF TrueEntry
          <6>2. n \in r.ids[t]
            BY <6>1, Zenon DEF CreatedId
          <6> QED
            BY <6>1, <6>2, Zenon DEF Created, ToTellCreated
        <5> QED
          BY <2>3, <4>2, <5>1, <5>2, Zenon
      <4> QED
        BY <3>1, <4>1, <4>2, Zenon DEF Created
    <3>2. ASSUME Created(t, n) PROVE Created(t, n)'
      <4>1. CASE Told("create", t, n)
        BY <2>4, <4>1, Zenon DEF Created
      <4>2. ASSUME NEW v \in Writers, ToTellCreated(writer[v], t, n) PROVE Created(t, n)'
        <5>1. CASE v # w
          BY <1>3, <4>2, <5>1, Zenon DEF Created, ToTellCreated
        <5>2. CASE v = w
          <6>1. r.pc = "committed" /\ n \in r.ids[t]
            BY <4>2, <5>2, Zenon DEF ToTellCreated
          <6>2. r.pc \in {"committed", "failed"} /\ Inserts(r, t)
            BY <1>1, <6>1, Zenon DEF RequestOK, ReadsStored
          <6>3. PICK e \in NestedEntries(r, t) : e.action = "create" /\ TrueEntry(e, r, t)
            <7> HIDE DEF r
            <7> QED
              BY <1>1, <6>1, <6>2, EntriesTrue, Zenon
          <6>4. n \in e.id
            BY <6>1, <6>3, Zenon DEF TrueEntry, CreatedId
          <6>5. Told("create", t, n)'
            BY <2>5, <6>1, <6>3, <6>4, Zenon
          <6> QED
            BY <6>5, Zenon DEF Created
        <5> QED
          BY <5>1, <5>2, Zenon
      <4> QED
        BY <3>2, <4>1, <4>2, Zenon DEF Created
    <3> QED
      BY <3>1, <3>2, Zenon
  <2>7. Deleted(t, n)' <=> Deleted(t, n)
    <3>1. ASSUME Deleted(t, n)' PROVE Deleted(t, n)
      <4>1. CASE \E v \in Writers : ToTellDeleted(writer[v], t, n)'
        <5>1. PICK v \in Writers : ToTellDeleted(writer'[v], t, n)
          BY <4>1, Zenon DEF ToTellDeleted
        <5>2. writer'[v] = writer[v]
          BY <1>3, <1>4, <5>1 DEF ToTellDeleted
        <5> QED
          BY <5>1, <5>2, Zenon DEF Deleted
      <4>2. CASE Told("delete", t, n)'
        <5>1. CASE Told("delete", t, n)
          BY <5>1, Zenon DEF Deleted
        <5>2. CASE \E e \in Entries : TrueEntry(e, r, t) /\ e.action = "delete" /\ n \in e.id /\ e.ok
          <6>1. ToTellDeleted(r, t, n)
            BY <5>2, Zenon DEF TrueEntry, ToTellDeleted
          <6> QED
            BY <6>1, Zenon DEF Deleted
        <5> QED
          BY <2>3, <4>2, <5>1, <5>2, Zenon
      <4> QED
        BY <3>1, <4>1, <4>2, Zenon DEF Deleted
    <3>2. ASSUME Deleted(t, n) PROVE Deleted(t, n)'
      <4>1. CASE Told("delete", t, n)
        BY <2>4, <4>1, Zenon DEF Deleted
      <4>2. ASSUME NEW v \in Writers, ToTellDeleted(writer[v], t, n) PROVE Deleted(t, n)'
        <5>1. CASE v # w
          BY <1>3, <4>2, <5>1, Zenon DEF Deleted, ToTellDeleted
        <5>2. CASE v = w
          <6>1. r.pc = "committed" /\ r.op = "delete" /\ r.old # {} /\ n \in Only(r.old)[t]
            BY <4>2, <5>2, Zenon DEF ToTellDeleted
          <6>2. r.pc \in {"committed", "failed"} /\ Only(r.old)[t] # {}
            BY <6>1, Zenon
          <6>3. PICK e \in NestedEntries(r, t) : e.action = "delete" /\ TrueEntry(e, r, t)
            <7> HIDE DEF r
            <7> QED
              BY <1>1, <6>1, <6>2, EntriesTrue, Zenon
          <6>4. n \in e.id
            BY <6>1, <6>3, Zenon DEF TrueEntry
          <6>5. Told("delete", t, n)'
            BY <2>5, <6>1, <6>3, <6>4, Zenon
          <6> QED
            BY <6>5, Zenon DEF Deleted
        <5> QED
          BY <5>1, <5>2, Zenon
      <4> QED
        BY <3>2, <4>1, <4>2, Zenon DEF Deleted
    <3> QED
      BY <3>1, <3>2, Zenon
  <2> QED
    BY <1>2, <2>1, <2>6, <2>7, Zenon
<1>10. ChangesSeen'
  <2>1. ASSUME NEW v \in Writers, writer'[v].pc # "idle" PROVE (Fresh(writer[v]) /\ Named(writer[v]))'
    <3>1. Fresh(writer'[v]) /\ Named(writer'[v])
      BY <1>3, <1>4, <2>1, Zenon DEF AuditInv, ChangesSeen
    <3>2. OldPlan(writer[v].old, writer[v].body)' = OldPlan(writer'[v].old, writer'[v].body)
      BY <1>2, Zenon DEF OldPlan
    <3>3. Fresh(writer[v])'
      BY <1>2, <3>1, <3>2, Zenon DEF Fresh
    <3>4. Named(writer[v])'
      BY <3>1, Zenon DEF Named
    <3> QED
      BY <3>3, <3>4, Zenon
  <2>2. ASSUME NEW e \in trail', e.ok, e.action = "update", ~e.overlapped, e.type # "policy"
        PROVE  e.changed \subseteq e.diff
    <3>1. CASE e \in trail
      BY <2>2, <3>1, Zenon DEF AuditInv, ChangesSeen, ChangesAreNamed
    <3>2. CASE e \in OwnEntries(r)
      BY <1>5, <2>2, <3>2, Zenon
    <3>3. CASE e \in Entries
      <4>1. TrueEntry(e, r, "plan")
        <5>1. PICK t \in Nested : TrueEntry(e, r, t)
          BY <1>6, <3>3, Zenon
        <5>2. t = "plan"
          BY <2>2, <5>1 DEF TrueEntry, Nested
        <5> QED
          BY <5>1, <5>2, Zenon
      <4> QED
        BY <1>1, <2>2, <4>1, Zenon DEF TrueEntry, RequestOK, Named
    <3> QED
      BY <1>2, <2>2, <3>1, <3>2, <3>3, Zenon
  <2>3. ChangesAreNamed'
    BY <2>2, Zenon DEF ChangesAreNamed
  <2> QED
    BY <2>1, <2>3, Zenon DEF ChangesSeen
<1> QED
  BY <1>7, <1>8, <1>9, <1>10, Zenon DEF AuditInv

-----------------------------------------------------------------------------
(* The commit. *)

\* The rows of a table a transaction inserts and deletes.
New(r, t) == IF Inserts(r, t) THEN {lastId[t] + 1} ELSE {}
Gone(r, t) == IF r.op = "delete" THEN Only(r.old)[t] ELSE {}

\* A merge changes only what the given fields change, so comparing them is enough.
LEMMA MergeDiff ==
  ASSUME NEW before, NEW given
  PROVE  ChangedFields(before, Overwritten(before, given)) \subseteq computeDiffKeys(before, given)
  BY DEF ChangedFields, computeDiffKeys, Overwritten

\* The nested rows an owner's new row names: those inserted, or the ones it had.
LEMMA OwnerAfterNames ==
  ASSUME NEW r, IsRequest(r), NEW row \in OwnerAfter(r), NEW t \in Nested
  PROVE  row[t] = New(r, t) \/ row[t] = {} \/ \E base \in ownerRow[r.o] : row[t] = base[t]
<1> DEFINE base == IF r.op = "create" THEN [own |-> [name |-> 0], plan |-> {}, policy |-> {}]
                   ELSE Only(ownerRow[r.o])
           Id(x) == IF New(r, x) # {} THEN New(r, x) ELSE base[x]
<1>0. ~(r.op = "delete" \/ (r.op = "update" /\ ownerRow[r.o] = {}))
  BY Zenon DEF OwnerAfter
<1>1. row = [own |-> Overwritten(base.own, r.body.own), plan |-> Id("plan"), policy |-> Id("policy")]
  BY <1>0, Zenon DEF OwnerAfter, New
<1>2. row[t] = Id(t)
  <2>1. CASE t = "plan"
    BY <1>1, <2>1, Zenon
  <2>2. CASE t = "policy"
    BY <1>1, <2>2, Zenon
  <2> QED
    BY <2>1, <2>2 DEF Nested
<1>3. CASE r.op = "create"
  <2>1. base[t] = {}
    BY <1>3 DEF Nested
  <2> QED
    BY <1>2, <2>1, Zenon
<1>4. CASE r.op # "create" /\ ownerRow[r.o] # {}
  <2>1. base \in ownerRow[r.o]
    BY <1>4, OnlyIn, Zenon
  <2> QED
    BY <1>2, <2>1, Zenon
<1> QED
  BY <1>0, <1>3, <1>4, Zenon DEF IsRequest

\* What a commit does to the tables and to the requests.
LEMMA CommitEffect ==
  ASSUME AuditInv, NEW w \in Writers, Commit(w)
  PROVE  LET r == writer[w] IN
         /\ r.pc = "writing" /\ RequestOK(r) /\ trail' = trail
         /\ ownerRow' = [ownerRow EXCEPT ![r.o] = OwnerAfter(r)]
         /\ nestedRow' = [t \in Nested |-> nestedRow'[t]]
         /\ \A t \in Nested : DOMAIN nestedRow'[t] = (DOMAIN nestedRow[t] \cup New(r, t)) \ Gone(r, t)
         /\ storedIds \subseteq storedIds'
         /\ \A t \in Nested : \A n : <<t, n>> \in storedIds' <=>
                               <<t, n>> \in storedIds \/ n \in DOMAIN nestedRow'[t]
         /\ lastId' \in [Nested -> Nat]
         /\ \A t \in Nested : lastId[t] <= lastId'[t] /\ \A n \in New(r, t) : n = lastId'[t]
         /\ writer' = [v \in Writers |-> writer'[v]]
         /\ IsRequest(writer'[w])
         /\ writer'[w].pc = "committed" /\ writer'[w].op = r.op /\ writer'[w].o = r.o
         /\ writer'[w].body = r.body /\ writer'[w].old = r.old /\ writer'[w].plan = r.plan
         /\ writer'[w].overlapped = r.overlapped /\ writer'[w].changed = ChangedBy(r)
         /\ \A t \in Nested : writer'[w].ids[t] = New(r, t)
         /\ \A v \in Writers \ {w} :
               \/ writer'[v] = writer[v] /\ writer[v].pc \notin {"asked", "writing"}
               \/ writer[v].pc \in {"asked", "writing"}
                  /\ writer'[v] = [writer[v] EXCEPT !.overlapped = TRUE]
<1> DEFINE r == writer[w]
           ids == [t \in Nested |-> IF Inserts(r, t) THEN {lastId[t] + 1} ELSE {}]
           q == [r EXCEPT !.pc = "committed", !.changed = ChangedBy(r), !.ids = ids]
           all == [writer EXCEPT ![w].pc = "committed", ![w].changed = ChangedBy(r), ![w].ids = ids]
<1>1. r.pc = "writing" /\ RequestOK(r)
  <2>1. r.pc = "writing"
    BY Zenon DEF Commit
  <2> QED
    BY <2>1, UnderWay, Zenon
<1>2. /\ trail' = trail /\ ownerRow' = [ownerRow EXCEPT ![r.o] = OwnerAfter(r)]
      /\ nestedRow' = [t \in Nested |-> NestedAfter(r, t)]
      /\ lastId' = [t \in Nested |-> NextId(r, t)]
      /\ writer' = Overlap(w, all)
      /\ storedIds' = storedIds \cup UNION {{<<t, n>> : n \in DOMAIN nestedRow'[t]} : t \in Nested}
  BY Zenon DEF Commit
<1>3. /\ nestedRow' = [t \in Nested |-> nestedRow'[t]]
      /\ \A t \in Nested : nestedRow'[t] = NestedAfter(r, t)
  BY <1>2, Zenon
<1>4. \A t \in Nested : DOMAIN nestedRow'[t] = (DOMAIN nestedRow[t] \cup New(r, t)) \ Gone(r, t)
  <2>1. \A t : DOMAIN NestedAfter(r, t) = (DOMAIN nestedRow[t] \cup New(r, t)) \ Gone(r, t)
    BY Zenon DEF NestedAfter, New, Gone
  <2> QED
    BY <1>3, <2>1, Zenon
<1>5. /\ storedIds \subseteq storedIds'
      /\ \A t \in Nested : \A n : <<t, n>> \in storedIds' <=>
                               <<t, n>> \in storedIds \/ n \in DOMAIN nestedRow'[t]
  BY <1>2
<1>6. lastId \in [Nested -> Nat] /\ writer = [v \in Writers |-> writer[v]]
  BY Zenon DEF AuditInv, AuditShape
<1>7. /\ lastId' \in [Nested -> Nat]
      /\ \A t \in Nested : lastId[t] <= lastId'[t] /\ \A n \in New(r, t) : n = lastId'[t]
  <2>1. \A t \in Nested : NextId(r, t) \in Nat /\ lastId[t] <= NextId(r, t)
    BY <1>6 DEF NextId
  <2>2. \A t \in Nested : \A n \in New(r, t) : n = NextId(r, t)
    BY Zenon DEF NextId, New
  <2> QED
    BY <1>2, <2>1, <2>2, Zenon
<1>8. /\ IsRequest(q) /\ q.pc = "committed" /\ q.op = r.op /\ q.o = r.o /\ q.body = r.body
      /\ q.old = r.old /\ q.plan = r.plan /\ q.overlapped = r.overlapped
      /\ q.changed = ChangedBy(r) /\ q.ids = ids
  <2>1. IsRequest(r)
    BY <1>1, Zenon DEF RequestOK
  <2> HIDE DEF ids, r
  <2> QED
    BY <2>1 DEF IsRequest, RequestFields
<1>9. all[w] = q /\ \A v \in Writers \ {w} : all[v] = writer[v]
  <2> HIDE DEF ids
  <2> QED
    BY <1>6, Zenon
<1>10. \A t \in Nested : q.ids[t] = New(r, t)
  <2>1. \A t \in Nested : ids[t] = New(r, t)
    BY Zenon DEF New
  <2> HIDE DEF ids, q
  <2> QED
    BY <1>8, <2>1, Zenon
<1> HIDE DEF q, all, ids
<1>11. /\ writer' = [v \in Writers |-> writer'[v]]
       /\ writer'[w] = q
       /\ \A v \in Writers \ {w} :
             writer'[v] = IF writer[v].pc \in {"asked", "writing"}
                          THEN [writer[v] EXCEPT !.overlapped = TRUE] ELSE writer[v]
  BY <1>2, <1>9, Zenon DEF Overlap
<1>12. \A v \in Writers \ {w} :
          \/ writer'[v] = writer[v] /\ writer[v].pc \notin {"asked", "writing"}
          \/ writer[v].pc \in {"asked", "writing"}
             /\ writer'[v] = [writer[v] EXCEPT !.overlapped = TRUE]
  BY <1>11, Zenon
<1> QED
  BY <1>1, <1>2, <1>3, <1>4, <1>5, <1>7, <1>8, <1>10, <1>11, <1>12, Zenon

\* A request that another commit overlaps, or that is past its reads, stays as it is
\* but for the mark.
LEMMA OthersAtCommit ==
  ASSUME AuditInv, NEW w \in Writers, NEW v \in Writers \ {w},
         \/ writer'[v] = writer[v] /\ writer[v].pc \notin {"asked", "writing"}
         \/ writer[v].pc \in {"asked", "writing"}
            /\ writer'[v] = [writer[v] EXCEPT !.overlapped = TRUE]
  PROVE  /\ writer'[v] = NoOne \/ IsRequest(writer'[v])
         /\ writer'[v].pc = writer[v].pc
         /\ writer[v].pc # "idle" =>
              /\ writer'[v].op = writer[v].op /\ writer'[v].body = writer[v].body
              /\ writer'[v].old = writer[v].old /\ writer'[v].ids = writer[v].ids
         /\ writer'[v].pc \in {"asked", "writing"} => writer'[v].overlapped = TRUE
         /\ writer'[v].pc = "committed" => writer'[v] = writer[v]
<1>1. CASE writer'[v] = writer[v] /\ writer[v].pc \notin {"asked", "writing"}
  BY <1>1, Zenon DEF AuditInv, AuditShape
<1>2. CASE writer[v].pc \in {"asked", "writing"} /\ writer'[v] = [writer[v] EXCEPT !.overlapped = TRUE]
  <2>1. writer[v].pc # "idle" /\ writer[v].pc # "committed"
    BY <1>2
  <2>2. IsRequest(writer[v])
    BY <2>1, UnderWay, Zenon DEF RequestOK
  <2> DEFINE q == [writer[v] EXCEPT !.overlapped = TRUE]
  <2>3. /\ IsRequest(q) /\ q.pc = writer[v].pc /\ q.op = writer[v].op /\ q.o = writer[v].o
        /\ q.body = writer[v].body /\ q.old = writer[v].old /\ q.ids = writer[v].ids
        /\ q.overlapped = TRUE
    BY <2>2 DEF IsRequest, RequestFields
  <2>4. writer'[v] = q
    BY <1>2, Zenon
  <2> HIDE DEF q
  <2> QED
    BY <2>1, <2>3, <2>4, Zenon
<1> QED
  BY <1>1, <1>2, Zenon

\* A commit nothing overlapped: the snapshots show what it changes.
LEMMA CommitNamed ==
  ASSUME NEW r, RequestOK(r), r.pc = "writing", r.op = "update", ~r.overlapped
  PROVE  /\ ChangedBy(r)["own"] \subseteq computeDiffKeys(entityParamToMap(r.old), r.body.own)
         /\ r.body.plan # {} => ChangedBy(r)["plan"] \subseteq
               computeDiffKeys(quotaPlanParamToMap(r.plan), quotaPlanParamToMap(r.body.plan))
<1>1. r.old = ownerRow[r.o] /\ r.plan \in OldPlan(r.old, r.body)
  BY Zenon DEF RequestOK, Fresh
<1>2. r.op # "create" /\ r.op # "delete" /\ r.old # {}
  <2>1. r.op # "create" /\ r.op # "delete"
    OBVIOUS
  <2> QED
    BY <2>1, Zenon DEF RequestOK, ReadsStored
<1>3. Only(r.old) \in r.old /\ GoodRow(Only(r.old))
  BY <1>2, OnlyIn, Zenon DEF RequestOK, ReadsStored
<1>4. ChangedBy(r)["own"] \subseteq computeDiffKeys(entityParamToMap(r.old), r.body.own)
  <2>1. ChangedBy(r)["own"] = ChangedFields(Only(ownerRow[r.o]).own, Only(OwnerAfter(r)).own)
    BY <1>1, <1>2 DEF ChangedBy, Nested
  <2> DEFINE row == Only(ownerRow[r.o])
             x == [own |-> Overwritten(row.own, r.body.own),
                   plan |-> IF New(r, "plan") # {} THEN New(r, "plan") ELSE row.plan,
                   policy |-> IF New(r, "policy") # {} THEN New(r, "policy") ELSE row.policy]
  <2>2. OwnerAfter(r) = {x} /\ x.own = Overwritten(row.own, r.body.own)
    BY <1>1, <1>2, Zenon DEF OwnerAfter, New
  <2> HIDE DEF x
  <2>3. Only(OwnerAfter(r)).own = Overwritten(Only(ownerRow[r.o]).own, r.body.own)
    BY <2>2, OnlyOne, Zenon
  <2>4. entityParamToMap(r.old) = Only(ownerRow[r.o]).own
    BY <1>1, <1>2, Zenon DEF entityParamToMap
  <2> QED
    BY <2>1, <2>3, <2>4, MergeDiff, Zenon
<1>5. ASSUME r.body.plan # {}
      PROVE  ChangedBy(r)["plan"] \subseteq
               computeDiffKeys(quotaPlanParamToMap(r.plan), quotaPlanParamToMap(r.body.plan))
  <2> DEFINE given == Only(r.body.plan)
             table == nestedRow["plan"]
             named == Only(r.old).plan
  <2>1. quotaPlanParamToMap(r.body.plan) = given
    BY <1>5, Zenon DEF quotaPlanParamToMap
  <2>2. Updates(r, "plan") = named
    BY <1>5, Zenon DEF Updates
  <2>3. ASSUME NEW n \in named \cap DOMAIN table
        PROVE  ChangedFields(table[n], NestedAfter(r, "plan")[n]) \subseteq
                 computeDiffKeys(quotaPlanParamToMap(r.plan), given)
    <3>1. ~Inserts(r, "plan")
      BY <1>2, <2>3, Zenon DEF Inserts
    <3>2. NestedAfter(r, "plan")[n] = Overwritten(table[n], given)
      BY <1>2, <2>2, <2>3, <3>1, Zenon DEF NestedAfter, NestedColumns, quotaPlanDataToParam
    <3>3. ChangedFields(table[n], NestedAfter(r, "plan")[n]) \subseteq computeDiffKeys(table[n], given)
      BY <3>2, MergeDiff, Zenon
    <3>4. CASE r.plan = {}
      <4>1. quotaPlanParamToMap(r.plan) = << >>
        BY <3>4, Zenon DEF quotaPlanParamToMap
      <4>2. computeDiffKeys(<< >>, given) = DOMAIN given
        BY DEF computeDiffKeys
      <4>3. computeDiffKeys(table[n], given) \subseteq DOMAIN given
        BY Zenon DEF computeDiffKeys
      <4> QED
        BY <3>3, <4>1, <4>2, <4>3, Zenon
    <3>5. CASE r.plan # {}
      <4>1. r.plan = {table[m] : m \in named \cap DOMAIN table}
        BY <1>1, <1>2, <1>5, <3>5, Zenon DEF OldPlan
      <4>2. \A m \in named : m = n
        BY <1>3, <2>3 DEF GoodRow, Nested
      <4>3. r.plan = {table[n]}
        BY <2>3, <4>1, <4>2
      <4>4. quotaPlanParamToMap(r.plan) = table[n]
        BY <3>5, <4>3, OnlyOne, Zenon DEF quotaPlanParamToMap
      <4> QED
        BY <3>3, <4>4, Zenon
    <3> QED
      BY <3>4, <3>5, Zenon
  <2>4. ChangedBy(r)["plan"] = UNION {ChangedFields(table[n], NestedAfter(r, "plan")[n]) :
                                        n \in Updates(r, "plan") \cap DOMAIN table}
    BY DEF ChangedBy, Nested
  <2> QED
    BY <2>1, <2>2, <2>3, <2>4, Zenon
<1> QED
  BY <1>4, <1>5, Zenon

\* A request commits: from now on it has to tell what it inserted, changed and deleted.
LEMMA CommitKeepsInv ==
  ASSUME AuditInv, NEW w \in Writers, Commit(w)
  PROVE  AuditInv'
<1> DEFINE r == writer[w]
<1>1. /\ r.pc = "writing" /\ RequestOK(r) /\ trail' = trail
      /\ ownerRow' = [ownerRow EXCEPT ![r.o] = OwnerAfter(r)]
      /\ nestedRow' = [t \in Nested |-> nestedRow'[t]]
      /\ \A t \in Nested : DOMAIN nestedRow'[t] = (DOMAIN nestedRow[t] \cup New(r, t)) \ Gone(r, t)
      /\ writer' = [v \in Writers |-> writer'[v]]
  BY CommitEffect, Zenon
<1>2. /\ storedIds \subseteq storedIds'
      /\ \A t \in Nested : \A n : <<t, n>> \in storedIds' <=>
                             <<t, n>> \in storedIds \/ n \in DOMAIN nestedRow'[t]
  BY CommitEffect, Zenon
<1>3. /\ lastId' \in [Nested -> Nat]
      /\ \A t \in Nested : lastId[t] <= lastId'[t] /\ \A n \in New(r, t) : n = lastId'[t]
  BY CommitEffect, Zenon
<1>4. /\ IsRequest(writer'[w])
      /\ writer'[w].pc = "committed" /\ writer'[w].op = r.op /\ writer'[w].o = r.o
      /\ writer'[w].body = r.body /\ writer'[w].old = r.old /\ writer'[w].plan = r.plan
      /\ writer'[w].overlapped = r.overlapped /\ writer'[w].changed = ChangedBy(r)
      /\ \A t \in Nested : writer'[w].ids[t] = New(r, t)
  BY CommitEffect, Zenon
<1>5. ASSUME NEW v \in Writers \ {w}
      PROVE  /\ writer'[v] = NoOne \/ IsRequest(writer'[v])
             /\ writer'[v].pc = writer[v].pc
             /\ writer[v].pc # "idle" =>
                  /\ writer'[v].op = writer[v].op /\ writer'[v].body = writer[v].body
                  /\ writer'[v].old = writer[v].old /\ writer'[v].ids = writer[v].ids
             /\ writer'[v].pc \in {"asked", "writing"} => writer'[v].overlapped = TRUE
             /\ writer'[v].pc = "committed" => writer'[v] = writer[v]
  <2>1. \A u \in Writers \ {w} :
           \/ writer'[u] = writer[u] /\ writer[u].pc \notin {"asked", "writing"}
           \/ writer[u].pc \in {"asked", "writing"}
              /\ writer'[u] = [writer[u] EXCEPT !.overlapped = TRUE]
    BY CommitEffect, Zenon
  <2>2. \/ writer'[v] = writer[v] /\ writer[v].pc \notin {"asked", "writing"}
        \/ writer[v].pc \in {"asked", "writing"}
           /\ writer'[v] = [writer[v] EXCEPT !.overlapped = TRUE]
    BY <2>1, Zenon
  <2> QED
    BY <2>2, OthersAtCommit, Zenon
<1>6. IsRequest(r) /\ ReadsStored(r) /\ r.o \in AuditOwners /\ r.op \in {"create", "update", "delete"}
  BY <1>1, Zenon DEF RequestOK, IsRequest
<1>7. \A t \in Nested : \A n \in New(r, t) : Inserts(r, t) /\ <<t, n>> \in storedIds'
  <2> SUFFICES ASSUME NEW t \in Nested, NEW n \in New(r, t)
               PROVE  Inserts(r, t) /\ <<t, n>> \in storedIds'
    BY Zenon
  <2>1. Inserts(r, t) /\ r.op # "delete"
    BY Zenon DEF New, Inserts
  <2>2. n \notin Gone(r, t)
    BY <2>1, Zenon DEF Gone
  <2> QED
    BY <1>1, <1>2, <2>1, <2>2, Zenon
<1>8. \A row : GoodRow(row) => GoodRow(row)'
  BY <1>2, Zenon DEF GoodRow
<1>9. AuditShape'
  <2>1. ownerRow' = [o \in AuditOwners |-> ownerRow'[o]]
    BY <1>1, Zenon DEF AuditInv, AuditShape
  <2>2. ASSUME NEW v \in Writers PROVE (writer[v] = NoOne \/ IsRequest(writer[v]))'
    <3>1. writer'[v] = NoOne \/ IsRequest(writer'[v])
      BY <1>4, <1>5, Zenon
    <3> QED
      BY <3>1, Zenon DEF NoOne, IsRequest
  <2> QED
    BY <1>1, <1>3, <2>1, <2>2, Zenon DEF AuditShape
<1>10. IdsStored'
  <2>1. ASSUME NEW o \in AuditOwners, NEW row \in ownerRow'[o] PROVE GoodRow(row)'
    <3>1. CASE o # r.o
      <4>1. ownerRow'[o] = ownerRow[o]
        BY <1>1, <3>1, Zenon DEF AuditInv, AuditShape
      <4> QED
        BY <1>8, <2>1, <4>1, Zenon DEF AuditInv, IdsStored
    <3>2. CASE o = r.o
      <4>1. row \in OwnerAfter(r)
        BY <1>1, <2>1, <3>2, Zenon DEF AuditInv, AuditShape
      <4>2. ASSUME NEW t \in Nested, NEW n \in row[t]
            PROVE  <<t, n>> \in storedIds' /\ \A m \in row[t] : m = n
        <5>1. row[t] = New(r, t) \/ row[t] = {} \/ \E base \in ownerRow[r.o] : row[t] = base[t]
          <6> HIDE DEF r
          <6> QED
            BY <1>6, <4>1, OwnerAfterNames, Zenon
        <5>2. CASE row[t] = New(r, t)
          BY <1>3, <1>7, <4>2, <5>2, Zenon
        <5>3. ASSUME NEW base \in ownerRow[r.o], row[t] = base[t]
              PROVE  <<t, n>> \in storedIds' /\ \A m \in row[t] : m = n
          <6>1. GoodRow(base)
            BY <1>6, Zenon DEF AuditInv, IdsStored
          <6> QED
            BY <1>2, <4>2, <5>3, <6>1, Zenon DEF GoodRow
        <5> QED
          BY <4>2, <5>1, <5>2, <5>3, Zenon
      <4> QED
        BY <4>2, Zenon DEF GoodRow
    <3> QED
      BY <3>1, <3>2, Zenon
  <2>2. ASSUME NEW v \in Writers, writer'[v].pc # "idle" PROVE ReadsStored(writer[v])'
    <3>1. CASE v = w
      <4>1. \A row \in r.old : GoodRow(row)'
        BY <1>6, <1>8, Zenon DEF ReadsStored
      <4>2. r.op # "create" => r.old # {}
        BY <1>1, <1>6, Zenon DEF ReadsStored
      <4>3. \A t \in Nested : Inserts(writer[v], t)' <=> Inserts(r, t)
        BY <1>4, <3>1, Zenon DEF Inserts
      <4> QED
        BY <1>4, <1>7, <3>1, <4>1, <4>2, <4>3, Zenon DEF ReadsStored
    <3>2. CASE v # w
      <4>1. /\ writer'[v].pc = writer[v].pc /\ writer'[v].op = writer[v].op
            /\ writer'[v].body = writer[v].body
            /\ writer'[v].old = writer[v].old /\ writer'[v].ids = writer[v].ids
        BY <1>5, <2>2, <3>2, Zenon
      <4>2. ReadsStored(writer[v])
        BY <2>2, <4>1, Zenon DEF AuditInv, IdsStored
      <4>3. \A row \in writer[v].old : GoodRow(row)'
        BY <1>8, <4>2, Zenon DEF ReadsStored
      <4>4. \A t \in Nested : Inserts(writer[v], t)' <=> Inserts(writer[v], t)
        BY <4>1, Zenon DEF Inserts
      <4>5. writer[v].pc = "committed" =>
              \A t \in Nested : \A n \in writer[v].ids[t] : Inserts(writer[v], t) /\ <<t, n>> \in storedIds'
        BY <1>2, <4>2, Zenon DEF ReadsStored
      <4> QED
        BY <4>1, <4>2, <4>3, <4>4, <4>5, Zenon DEF ReadsStored
    <3> QED
      BY <3>1, <3>2, Zenon
  <2>3. \A t \in Nested : \A n \in DOMAIN nestedRow'[t] : <<t, n>> \in storedIds'
    BY <1>2, Zenon
  <2>4. \A t \in Nested : \A n : <<t, n>> \in storedIds' => n \in Nat /\ n <= lastId'[t]
    <3> SUFFICES ASSUME NEW t \in Nested, NEW n, <<t, n>> \in storedIds'
                 PROVE  n \in Nat /\ n <= lastId'[t]
      BY Zenon
    <3>1. <<t, n>> \in storedIds \/ n \in New(r, t)
      BY <1>1, <1>2, Zenon DEF AuditInv, IdsStored
    <3>2. lastId[t] \in Nat /\ lastId'[t] \in Nat /\ lastId[t] <= lastId'[t]
      BY <1>3, Zenon DEF AuditInv, AuditShape
    <3>3. <<t, n>> \in storedIds => n \in Nat /\ n <= lastId[t]
      BY Zenon DEF AuditInv, IdsStored
    <3>4. n \in New(r, t) => n = lastId'[t]
      BY <1>3, Zenon
    <3> QED
      BY <3>1, <3>2, <3>3, <3>4
  <2>5. NoInventedIds'
    BY <1>1, <1>2, Zenon DEF AuditInv, IdsStored, NoInventedIds
  <2> QED
    BY <2>1, <2>2, <2>3, <2>4, <2>5, Zenon DEF IdsStored
<1>11. ExistsAsTold'
  <2> SUFFICES ASSUME NEW t \in Nested, NEW n
               PROVE  n \in DOMAIN nestedRow'[t] <=> Created(t, n)' /\ ~Deleted(t, n)'
    BY Zenon DEF ExistsAsTold
  <2>1. n \in DOMAIN nestedRow[t] <=> Created(t, n) /\ ~Deleted(t, n)
    BY Zenon DEF AuditInv, ExistsAsTold
  <2>2. Told("create", t, n)' <=> Told("create", t, n)
    BY <1>1, Zenon DEF Told
  <2>3. Told("delete", t, n)' <=> Told("delete", t, n)
    BY <1>1, Zenon DEF Told
  <2>4. r.pc # "committed"
    BY <1>1
  <2>5. ASSUME NEW v \in Writers \ {w}
        PROVE  /\ ToTellCreated(writer[v], t, n)' <=> ToTellCreated(writer[v], t, n)
               /\ ToTellDeleted(writer[v], t, n)' <=> ToTellDeleted(writer[v], t, n)
    <3>1. writer'[v].pc = writer[v].pc /\ (writer'[v].pc = "committed" => writer'[v] = writer[v])
      BY <1>5, Zenon
    <3> QED
      BY <3>1, Zenon DEF ToTellCreated, ToTellDeleted
  <2>6. ToTellCreated(writer[w], t, n)' <=> n \in New(r, t)
    BY <1>4, Zenon DEF ToTellCreated
  <2>7. ToTellDeleted(writer[w], t, n)' <=> n \in Gone(r, t)
    <3>1. r.op = "delete" => r.old # {}
      BY <1>1, <1>6 DEF ReadsStored
    <3> QED
      BY <1>4, <3>1, Zenon DEF ToTellDeleted, Gone
  <2>8. Created(t, n)' <=> Created(t, n) \/ n \in New(r, t)
    BY <2>2, <2>4, <2>5, <2>6, Zenon DEF Created, ToTellCreated
  <2>9. Deleted(t, n)' <=> Deleted(t, n) \/ n \in Gone(r, t)
    BY <2>3, <2>4, <2>5, <2>7, Zenon DEF Deleted, ToTellDeleted
  <2>10. ASSUME n \in New(r, t) PROVE ~Deleted(t, n)
    <3>1. <<t, n>> \notin storedIds
      <4>1. n = lastId[t] + 1 /\ lastId[t] \in Nat
        BY <2>10, Zenon DEF New, AuditInv, AuditShape
      <4>2. <<t, n>> \in storedIds => n <= lastId[t]
        BY Zenon DEF AuditInv, IdsStored
      <4> QED
        BY <4>1, <4>2
    <3>2. ~Told("delete", t, n)
      BY <3>1, Zenon DEF Told, AuditInv, IdsStored, NoInventedIds
    <3>3. ASSUME NEW v \in Writers, ToTellDeleted(writer[v], t, n) PROVE FALSE
      <4>1. /\ writer[v].pc = "committed" /\ writer[v].old # {} /\ n \in Only(writer[v].old)[t]
        BY <3>3, Zenon DEF ToTellDeleted
      <4>2. writer[v].pc # "idle"
        BY <4>1
      <4>3. GoodRow(Only(writer[v].old))
        BY <4>1, <4>2, OnlyIn, Zenon DEF AuditInv, IdsStored, ReadsStored
      <4> QED
        BY <3>1, <4>1, <4>3, Zenon DEF GoodRow
    <3> QED
      BY <3>2, <3>3, Zenon DEF Deleted
  <2> QED
    BY <1>1, <2>1, <2>8, <2>9, <2>10, Zenon
<1>12. ChangesSeen'
  <2>1. ASSUME NEW v \in Writers, writer'[v].pc # "idle" PROVE (Fresh(writer[v]) /\ Named(writer[v]))'
    <3>1. CASE v = w
      <4>1. Fresh(writer[v])'
        BY <1>4, <3>1, Zenon DEF Fresh
      <4>2. Named(writer[v])'
        <5> SUFFICES ASSUME r.op = "update", ~r.overlapped
                     PROVE  /\ ChangedBy(r)["own"] \subseteq computeDiffKeys(entityParamToMap(r.old), r.body.own)
                            /\ r.body.plan # {} => ChangedBy(r)["plan"] \subseteq
                                 computeDiffKeys(quotaPlanParamToMap(r.plan), quotaPlanParamToMap(r.body.plan))
          BY <1>4, <3>1, Zenon DEF Named
        <5> HIDE DEF r
        <5> QED
          BY <1>1, CommitNamed, Zenon
      <4> QED
        BY <4>1, <4>2, Zenon
    <3>2. CASE v # w
      <4>1. /\ writer'[v].pc = writer[v].pc
            /\ writer'[v].pc \in {"asked", "writing"} => writer'[v].overlapped = TRUE
            /\ writer'[v].pc = "committed" => writer'[v] = writer[v]
        BY <1>5, <3>2, Zenon
      <4>2. Fresh(writer[v])'
        BY <4>1, Zenon DEF Fresh
      <4>3. Named(writer[v])'
        BY <2>1, <4>1, Zenon DEF AuditInv, ChangesSeen, Named
      <4> QED
        BY <4>2, <4>3, Zenon
    <3> QED
      BY <3>1, <3>2, Zenon
  <2>2. ChangesAreNamed'
    BY <1>1, Zenon DEF AuditInv, ChangesSeen, ChangesAreNamed
  <2> QED
    BY <2>1, <2>2, Zenon DEF ChangesSeen
<1> QED
  BY <1>9, <1>10, <1>11, <1>12, Zenon DEF AuditInv

-----------------------------------------------------------------------------
(* The theorem. *)

\* Every step of every request keeps the invariant.
LEMMA AuditStep == AuditInv /\ [AuditNext]_auditVars => AuditInv'
<1> SUFFICES ASSUME AuditInv, [AuditNext]_auditVars PROVE AuditInv'
  OBVIOUS
<1>1. CASE UNCHANGED auditVars
  <2>1. UNCHANGED <<ownerRow, nestedRow, lastId, writer, trail, storedIds>>
    BY <1>1, Zenon DEF auditVars
  <2>2. AuditShape'
    BY <2>1, Zenon DEF AuditInv, AuditShape, IsRequest, NoOne
  <2>3. IdsStored'
    BY <2>1, Zenon DEF AuditInv, IdsStored, GoodRow, ReadsStored, NoInventedIds, Inserts
  <2>4. ExistsAsTold'
    BY <2>1, Zenon DEF AuditInv, ExistsAsTold, Created, Deleted, Told, ToTellCreated, ToTellDeleted
  <2>5. ChangesSeen'
    <3>1. ASSUME NEW v \in Writers, writer[v].pc # "idle" PROVE Fresh(writer[v])'
      <4>1. OldPlan(writer[v].old, writer[v].body)' = OldPlan(writer[v].old, writer[v].body)
        BY <2>1, Zenon DEF OldPlan
      <4> QED
        BY <2>1, <3>1, <4>1, Zenon DEF AuditInv, ChangesSeen, Fresh
    <3>2. ASSUME NEW v \in Writers, writer[v].pc # "idle" PROVE Named(writer[v])'
      BY <2>1, <3>2, Zenon DEF AuditInv, ChangesSeen, Named
    <3> QED
      BY <2>1, <3>1, <3>2, Zenon DEF AuditInv, ChangesSeen, ChangesAreNamed
  <2> QED
    BY <2>2, <2>3, <2>4, <2>5, Zenon DEF AuditInv
<1>2. ASSUME NEW w \in Writers, Ask(w) \/ TxnReads(w) \/ Commit(w) \/ Rollback(w) \/ RecordAll(w)
      PROVE  AuditInv'
  BY <1>2, AskKeepsInv, ReadsKeepInv, CommitKeepsInv, RollbackKeepsInv, RecordKeepsInv, Zenon
<1> QED
  BY <1>1, <1>2, Zenon DEF AuditNext

\* With no request under way nothing is left to tell, so the log alone says what exists.
LEMMA InvTellsTruth == AuditInv => TrailIsTrue
<1> SUFFICES ASSUME AuditInv PROVE TrailIsTrue
  OBVIOUS
<1>1. LogTellsWhatExists
  <2> SUFFICES ASSUME NoRequest, NEW t \in Nested
               PROVE  DOMAIN nestedRow[t] =
                 (UNION {e.id : e \in {x \in trail : x.type = t /\ x.ok /\ x.action = "create"}})
                 \ (UNION {e.id : e \in {x \in trail : x.type = t /\ x.ok /\ x.action = "delete"}})
    BY Zenon DEF LogTellsWhatExists
  <2>1. \A n : n \in DOMAIN nestedRow[t] <=> Told("create", t, n) /\ ~Told("delete", t, n)
    <3>1. \A w \in Writers : writer[w].pc # "committed"
      BY DEF NoRequest
    <3> QED
      BY <3>1, Zenon DEF AuditInv, ExistsAsTold, Created, Deleted, ToTellCreated, ToTellDeleted
  <2> DEFINE Ids(action) == UNION {e.id : e \in {x \in trail : x.type = t /\ x.ok /\ x.action = action}}
  <2>2. \A action, n : Told(action, t, n) <=> n \in Ids(action)
    BY Zenon DEF Told
  <2>3. \A n : n \in DOMAIN nestedRow[t] <=> n \in Ids("create") \ Ids("delete")
    BY <2>1, <2>2, Zenon
  <2>4. DOMAIN nestedRow[t] = Ids("create") \ Ids("delete")
    <3> HIDE DEF Ids
    <3> QED
      BY <2>3, Zenon
  <2> QED
    BY <2>4, Zenon
<1> QED
  BY <1>1, Zenon DEF AuditInv, IdsStored, ChangesSeen, TrailIsTrue

\* Whatever requests overlap, and whichever of them fail or are refused, the operation
\* log tells which quota plans and rate limit policies exist once every request has
\* recorded (auditNestedCreate, auditNestedChange, auditNestedDelete), names none that
\* was rolled back, and an update that nothing overlapped names every field it changed
\* (computeDiffKeys), even if reading the old plan for the entry failed.
THEOREM TrailTellsTheTruth == AuditSpec => []TrailIsTrue
  BY AuditStarts, AuditStep, InvTellsTruth, PTL DEF AuditSpec

=============================================================================
