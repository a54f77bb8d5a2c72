----------------------------- MODULE OwnerViews -----------------------------
(***************************************************************************)
(* What a read of API keys or entities shows (model/api_key, model/entity  *)
(* and their GET endpoints): the rows of one transaction, the balance of   *)
(* every quota plan, read from Redis after it one group of units at a      *)
(* time, for API keys the remaining quota of each once more, and the total *)
(* of the pagination from a second query.  Nothing keeps the rows, the     *)
(* plans or the spending still meanwhile.                                  *)
(*                                                                         *)
(* Both tables are read alike, so a behaviour is about one of them.  Ids   *)
(* are given in order and the database lists rows by id.  Amounts shown    *)
(* are in units of 1/ViewScale, the least a balance in RMB can hold.       *)
(***************************************************************************)
EXTENDS Tables, Integers, Sequences, SequencesExt

CONSTANTS
    MaxViewOwners,   \* bound: ids ever given
    ViewRows,        \* the rows that requests store
    ViewFilters,     \* the filters of list requests
    ViewPageSize,    \* page_size
    ViewScale,       \* fixed-point scale of RMB amounts in Redis (1e8)
    ViewSentinel,    \* unlimitedSentinel (1e8)
    CacheFails,      \* whether a read of Redis may fail
    MaxViewWrites,   \* bound: requests that write
    MaxSpent         \* bound: units the gateway spends

ASSUME ScalePositive == ViewScale \in Nat \ {0} /\ ViewPageSize \in Nat \ {0}

VARIABLES
    viewTable,   \* the table this behaviour is about
    ownerAt,     \* its rows, with the plan of each
    nextOwner,   \* the next id
    quotaLeft,   \* QUOTA_<owner> in Redis
    toFollow,    \* owners whose write of Redis is still to follow
    view,        \* the read in progress or just answered
    spentOf,     \* ghost: spent since the last grant, as Redis counts it
    spentThen,   \* ghost: spentOf when the read began
    disturbed    \* ghost: owners written since then, or being written then

viewVars == <<viewTable, ownerAt, nextOwner, quotaLeft, toFollow, view,
              spentOf, spentThen, disturbed>>

OwnerIds == 1..MaxViewOwners
IdleView == [pc |-> "idle", ask |-> "list", filter |-> [sort |-> {}, name |-> {}],
             page |-> 0, list |-> << >>, todo |-> {}, at |-> 1, total |-> 0,
             shown |-> << >>, stayers |-> {}, gone |-> FALSE]

AtLeastZero(n) == IF n < 0 THEN 0 ELSE n

\* golibquota.PtrToRedisValue and PtrFromRedisValue.
ToCache(amount, unit) == IF unit = "RMB" THEN amount * ViewScale ELSE amount
FromCache(value, unit) == IF unit = "RMB" THEN value ELSE value * ViewScale

-----------------------------------------------------------------------------
(* The requests that write, and the gateway *)

Plan(o) == Row(ownerAt, o).plan
HasLimit(plan) == ~plan.unlimited /\ plan.quota # {}
Granted(plan) == ToCache(IF plan.unlimited THEN ViewSentinel ELSE Given(plan.quota, 0),
                         plan.unit)

\* Ghost: a read in progress overlaps a write of this owner.
Disturbs(o) == disturbed' = IF view.pc = "idle" THEN {} ELSE disturbed \cup {o}

Stores(o, rows) ==
    /\ Write(MaxViewWrites)
    /\ ownerAt' = [ownerAt EXCEPT ![o] = rows]
    /\ toFollow' = toFollow \cup {o} /\ Disturbs(o)
    /\ UNCHANGED <<viewTable, quotaLeft, spentOf, spentThen>>

AddOwner(row) ==
    /\ nextOwner \in OwnerIds
    /\ Stores(nextOwner, {row}) /\ nextOwner' = nextOwner + 1 /\ UNCHANGED view

\* An update that changes the unit of the plan grants the quota anew.
ChangeUnit(o) ==
    /\ Exists(ownerAt, o) /\ o \notin toFollow
    /\ LET other == IF Plan(o).unit = "RMB" THEN "total_token" ELSE "RMB"
       IN  Stores(o, {[Row(ownerAt, o) EXCEPT !.plan.unit = other]})
    /\ UNCHANGED <<nextOwner, view>>

RemoveOwner(o) ==
    /\ Exists(ownerAt, o) /\ o \notin toFollow
    /\ Stores(o, {}) /\ view' = [view EXCEPT !.gone = view.pc # "idle"] /\ UNCHANGED nextOwner

\* After the commit: SetRemaining, or DeleteKeys for an owner that is gone.
RedisFollows(o) ==
    /\ o \in toFollow /\ toFollow' = toFollow \ {o}
    /\ quotaLeft' = [quotaLeft EXCEPT ![o] =
                        IF ~Exists(ownerAt, o) THEN {}
                        ELSE IF Plan(o).quota = {} THEN @ ELSE {Granted(Plan(o))}]
    /\ spentOf' = [spentOf EXCEPT ![o] = 0] /\ Disturbs(o)
    /\ UNCHANGED <<viewTable, ownerAt, nextOwner, view, spentThen, writes>>

\* The gateway takes one unit; it lets the balance go below zero.
Spend(o) ==
    /\ quotaLeft[o] # {} /\ spentOf[o] < MaxSpent
    /\ quotaLeft' = [quotaLeft EXCEPT ![o] = {Given(@, 0) - 1}]
    /\ spentOf' = [spentOf EXCEPT ![o] = @ + 1]
    /\ UNCHANGED <<viewTable, ownerAt, nextOwner, toFollow, view, spentThen, disturbed, writes>>

-----------------------------------------------------------------------------
(* The rows of a read *)

Passes(value, field) == field = {} \/ value \in field
Matching(filter) ==
    SelectSeq([o \in OwnerIds |-> o],
              LAMBDA o : /\ Exists(ownerAt, o)
                         /\ Passes(Row(ownerAt, o).sort, filter.sort)
                         /\ Passes(Row(ownerAt, o).name, filter.name))

Offset(page) == (page - 1) * ViewPageSize

\* LIMIT offset, page_size; page 0 is a request without pagination.
PageOf(ids, page) ==
    IF page = 0 THEN ids
    ELSE LET last == Offset(page) + ViewPageSize
         IN  SubSeq(ids, Offset(page) + 1, IF last < Len(ids) THEN last ELSE Len(ids))

fillUnlimitedQuotaBalance == {[used |-> 0, remaining |-> ViewSentinel * ViewScale]}

\* The owner with what it refers to, read in the same transaction.  The balance of an
\* unlimited plan needs no Redis.
populateAssociatedData(o) ==
    [id |-> o, row |-> Row(ownerAt, o), figure |-> {},
     balance |-> IF Plan(o).unlimited /\ Plan(o).quota # {}
                 THEN fillUnlimitedQuotaBalance ELSE {}]

\* The groups of a list: the units of its limited plans.
UnitGroups(list) == {e.row.plan.unit : e \in {f \in Range(list) : HasLimit(f.row.plan)}}

\* The transaction of a read, and what is left to do after it.
FetchList(ask, filter, page, ids) ==
    LET list == [i \in DOMAIN ids |-> populateAssociatedData(ids[i])]
        first == page <= 1
    IN  /\ view' = [IdleView EXCEPT
                      !.pc = "balances", !.ask = ask, !.filter = filter, !.page = page,
                      !.list = list, !.todo = UnitGroups(list),
                      !.shown = IF first THEN ids ELSE view.shown \o ids,
                      !.stayers = IF first THEN Range(Matching(filter)) ELSE view.stayers,
                      !.gone = ~first /\ view.gone]
        /\ spentThen' = spentOf /\ disturbed' = toFollow
        /\ UNCHANGED <<viewTable, ownerAt, nextOwner, quotaLeft, toFollow, spentOf, writes>>

\* The client asks for the first page, for everything, or for the page after the one
\* answered, as long as the total says that there is one.
Asks(filter, page) ==
    \/ page \in {0, 1} /\ view.pc = "idle"
    \/ /\ view.pc = "answered" /\ view.ask = "list" /\ view.page > 0 /\ filter = view.filter
       /\ page = view.page + 1 /\ view.page * ViewPageSize < view.total

ListAction(filter, page) ==
    /\ viewTable = "api_keys" /\ Asks(filter, page)
    /\ FetchList("list", filter, page, PageOf(Matching(filter), page))

EntityListAction(filter, page) ==
    /\ viewTable = "entities" /\ Asks(filter, page)
    /\ FetchList("list", filter, page, PageOf(Matching(filter), page))

\* One owner; an owner that is not there is refused.
Fetch(ask, o) ==
    /\ view.pc = "idle" /\ Exists(ownerAt, o)
    /\ FetchList(ask, IdleView.filter, 0, <<o>>)

OneAction(o) == viewTable = "api_keys" /\ Fetch("one", o)
EntityOneAction(o) == viewTable = "entities" /\ Fetch("one", o)

\* The quota plan of an owner alone; an entity without one is refused.
GetQuotaPlanProcess(o) == viewTable = "api_keys" /\ Fetch("plan", o)
EntityGetQuotaPlanAction(o) ==
    viewTable = "entities" /\ Fetch("plan", o) /\ Plan(o).quota # {}

-----------------------------------------------------------------------------
(* The balances *)

GetRemaining(o, unit) == FromCache(Given(quotaLeft[o], 0), unit)

fillQuotaBalance(e, value) ==
    LET remaining == AtLeastZero(value)
    IN  [e EXCEPT !.balance =
            {[used |-> AtLeastZero(Given(e.row.plan.quota, 0) * ViewScale - remaining),
              remaining |-> remaining]}]

AfterBalances(v) ==
    IF v.todo # {} THEN "balances"
    ELSE IF viewTable = "api_keys" /\ v.ask # "plan" THEN "figures"
    ELSE IF v.page > 0 THEN "count" ELSE "answered"

InGroup(e, u) == HasLimit(e.row.plan) /\ e.row.plan.unit = u

populateQuotaBalances_OneUnit(u) ==
    [i \in DOMAIN view.list |->
        LET e == view.list[i]
        IN  IF HasLimit(e.row.plan) THEN fillQuotaBalance(e, GetRemaining(e.id, u)) ELSE e]

\* BatchGetRemaining of the owners of a group.
populateQuotaBalances(u) ==
    [i \in DOMAIN view.list |->
        LET e == view.list[i]
        IN  IF InGroup(e, u) THEN fillQuotaBalance(e, GetRemaining(e.id, u)) ELSE e]

ReadGroup(u) ==
    /\ view.pc = "balances" /\ u \in view.todo
    /\ LET v == [view EXCEPT !.list = populateQuotaBalances(u), !.todo = @ \ {u}]
       IN  view' = [v EXCEPT !.pc = AfterBalances(v)]

\* A list without limited plans; or Redis fails, which is logged and leaves the groups
\* that are not read without a balance.
NoMoreGroups ==
    /\ view.pc = "balances" /\ (view.todo = {} \/ CacheFails)
    /\ LET v == [view EXCEPT !.todo = {}] IN view' = [v EXCEPT !.pc = AfterBalances(v)]

\* The remaining_quota of an API key: one more GET.
GetRemainingQuota(e) ==
    IF e.row.exempt \/ ~HasLimit(e.row.plan) THEN {}
    ELSE {AtLeastZero(GetRemaining(e.id, e.row.plan.unit))}

\* newResponse, one API key at a time; a GET that fails fails the request.
NextFigure ==
    /\ view.pc = "figures" /\ view.at <= Len(view.list)
    /\ \/ view' = [view EXCEPT !.list[view.at].figure = GetRemainingQuota(view.list[view.at]),
                               !.at = @ + 1]
       \/ /\ CacheFails /\ HasLimit(view.list[view.at].row.plan)
          /\ ~view.list[view.at].row.exempt
          /\ view' = [view EXCEPT !.pc = "failed"]

FiguresDone ==
    /\ view.pc = "figures" /\ view.at > Len(view.list)
    /\ view' = [view EXCEPT !.pc = IF view.page > 0 THEN "count" ELSE "answered"]

\* The filter of the second query: of the filters of entities id and name are left
\* out, of those of API keys all.
CountFilter(filter) ==
    IF viewTable = "entities" THEN [filter EXCEPT !.name = {}] ELSE IdleView.filter

CountRows ==
    /\ view.pc = "count"
    /\ view' = [view EXCEPT !.pc = "answered", !.total = Len(Matching(CountFilter(view.filter)))]

\* The client is done with the answer.
Forget ==
    /\ view.pc \in {"answered", "failed"} /\ view' = IdleView
    /\ spentThen' = [o \in OwnerIds |-> 0] /\ disturbed' = {}

ReadStep ==
    /\ \/ /\ \/ \E u \in {"RMB", "total_token"} : ReadGroup(u)
             \/ NoMoreGroups \/ NextFigure \/ FiguresDone \/ CountRows
          /\ UNCHANGED <<spentThen, disturbed>>
       \/ Forget
    /\ UNCHANGED <<viewTable, ownerAt, nextOwner, quotaLeft, toFollow, spentOf, writes>>

-----------------------------------------------------------------------------
ViewsInit ==
    /\ viewTable \in {"api_keys", "entities"}
    /\ ownerAt = EmptyTable(OwnerIds) /\ nextOwner = 1
    /\ quotaLeft = EmptyTable(OwnerIds) /\ toFollow = {} /\ view = IdleView
    /\ spentOf = [o \in OwnerIds |-> 0] /\ spentThen = spentOf /\ disturbed = {}

ViewsNext ==
    \/ \E row \in ViewRows : AddOwner(row)
    \/ \E o \in OwnerIds : ChangeUnit(o) \/ RemoveOwner(o) \/ RedisFollows(o) \/ Spend(o)
    \/ \E f \in ViewFilters, page \in 0..MaxViewOwners :
          ListAction(f, page) \/ EntityListAction(f, page)
    \/ \E o \in OwnerIds : \/ OneAction(o) \/ EntityOneAction(o)
                           \/ GetQuotaPlanProcess(o) \/ EntityGetQuotaPlanAction(o)
    \/ ReadStep

-----------------------------------------------------------------------------
(* Properties *)

\* Types, the ids of rows, and where a read is in its list: a read never counts rows
\* or answers before it went through every API key of the page.
ViewTypeOK ==
    /\ \A o \in OwnerIds : /\ Cardinality(ownerAt[o]) <= 1 /\ ownerAt[o] \subseteq ViewRows \cup
                                 {[r EXCEPT !.plan.unit = u] : r \in ViewRows, u \in {"RMB", "total_token"}}
                           /\ o >= nextOwner => ownerAt[o] = {} /\ quotaLeft[o] = {}
                           /\ quotaLeft[o] \subseteq Int
    /\ view.pc \in {"idle", "balances", "figures", "count", "answered", "failed"}
    /\ view.at \in 1..(Len(view.list) + 1)
    /\ view.pc = "answered" /\ viewTable = "api_keys" /\ view.ask # "plan" => view.at = Len(view.list) + 1

\* A balance that is shown is what the owner had spent at a moment of the read, in the
\* unit of the plan shown with it, whatever other groups, failures of Redis and
\* spending came in between; only an owner written meanwhile is excepted
\* (populateQuotaBalances, BatchGetRemaining, fillQuotaBalance).
BalanceTellsSpending ==
    view.pc = "answered" =>
        \A e \in Range(view.list) :
            HasLimit(e.row.plan) /\ e.id \notin disturbed =>
                \A b \in e.balance :
                    LET quota == Given(e.row.plan.quota, 0) * ViewScale
                    IN  /\ b.used + b.remaining = quota
                        /\ \E s \in spentThen[e.id]..spentOf[e.id] :
                              b.remaining = AtLeastZero(quota - FromCache(s, e.row.plan.unit))

\* The two figures that an answer has for an API key do not contradict each other: the
\* remaining quota is read after the balance, so it is at most the balance, and never
\* below zero, unless the owner was written meanwhile (newResponse, GetRemainingQuota).
FiguresAgree ==
    view.pc = "answered" =>
        \A e \in Range(view.list) :
            e.id \notin disturbed =>
                \A f \in e.figure, b \in e.balance : 0 <= f /\ f <= b.remaining

\* A client that asks for page after page until the total is reached has seen every
\* owner that matched from the first page on exactly once, though others are created
\* in between, as long as none is deleted (ListAction, EntityListAction).
WalkSeesStayers ==
    view.pc = "answered" /\ view.ask = "list" /\ ~view.gone
      /\ (view.page = 0 \/ view.page * ViewPageSize >= view.total) =>
        /\ view.stayers \subseteq Range(view.shown)
        /\ IsInjective(view.shown)
=============================================================================
