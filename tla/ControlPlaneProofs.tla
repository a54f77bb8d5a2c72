------------------------- MODULE ControlPlaneProofs -------------------------
(***************************************************************************)
(* Theorems about what the data plane is given (the versions of exported   *)
(* configuration, the rate limit counters it shares, the files of          *)
(* certificates) and about who is let in to the control plane (accounts,   *)
(* logins and the whitelist).                                              *)
(*                                                                         *)
(* The first is that the export implements its promise, for any number of  *)
(* agents, contents, changes and faults and any clocks, on a database      *)
(* whose duplicate key error lib.DuplicateEntryError does not recognise    *)
(* (MySQL with the driver of go.mod): a refused insert then fails the      *)
(* export.  With a recognised error an export can end without a version,   *)
(* and the theorem does not hold (README, section 3).                      *)
(***************************************************************************)
EXTENDS ConfigVersion, RateLimits, Certificate, Access, FiniteSetTheorems,
        WellFoundedInduction, TLAPS

Started == [pc : {"lookup", "insert", "commit"}, content : Contents, snap : SUBSET VersionRows,
            version : Nat, insert : BOOLEAN, tries : Nat]
Answers == [pc : {"answer"}, content : Contents, version : Nat]
PollStates == {NoPoll} \cup {[pc |-> "duplicate"]} \cup Started \cup Answers

Pair(p) == [version |-> p.version, content |-> p.content]

Typed ==
    /\ content \in Contents
    /\ rows \in SUBSET VersionRows
    /\ poll \in [Agents -> PollStates]
    /\ agent \in [Agents -> {Nothing} \cup VersionRows]

\* A version names one row.
Functional == \A x, y \in rows : x.version = y.version => x = y

\* What a poll has read is committed; what it is about to insert is new; what
\* it answers is committed.
PollSound(p) ==
    /\ p.pc \in {"lookup", "insert"} => p.snap \subseteq rows /\ ~p.insert
    /\ p.pc = "insert" => p.version # 0
    /\ p.pc = "commit" /\ p.insert => p.version # 0 /\ p.version \notin Versions(rows)
    /\ p.pc = "commit" /\ ~p.insert => Pair(p) \in rows
    /\ p.pc = "answer" => Pair(p) \in rows

\* Two open transactions never insert the same version.
InsertsDiffer ==
    \A a, b \in Agents :
        /\ a # b /\ poll[a].pc = "commit" /\ poll[a].insert
        /\ poll[b].pc = "commit" /\ poll[b].insert
        => poll[a].version # poll[b].version

IInv ==
    /\ Typed /\ Functional /\ InsertsDiffer
    /\ ~backend.recognised
    /\ \A a \in Agents : PollSound(poll[a])
    /\ \A a \in Agents : agent[a] = Nothing \/ agent[a] \in rows

----------------------------------------------------------------------------

\* latestConfigVersion: all rows it can return carry the version that is picked.
LEMMA LatestVersion ==
    ASSUME NEW rs \in SUBSET VersionRows, NEW r \in latestConfigVersion(rs)
    PROVE  /\ r \in rs
           /\ (CHOOSE v \in Versions(latestConfigVersion(rs)) : TRUE) = r.version
<1> DEFINE V == Versions(latestConfigVersion(rs))
<1>1. r \in rs /\ r.version \in V
  BY DEF latestConfigVersion, Versions
<1>2. \A v \in V : v = r.version
  <2> SUFFICES ASSUME NEW s \in latestConfigVersion(rs) PROVE s.version = r.version
    BY DEF Versions
  <2>1. r \in rs /\ s \in rs /\ r.version \in Nat /\ s.version \in Nat
    BY DEF latestConfigVersion, VersionRows
  <2>2. s.version <= r.version /\ r.version <= s.version
    BY <2>1 DEF latestConfigVersion
  <2> QED BY <2>1, <2>2
<1>3. (CHOOSE v \in V : TRUE) \in V
  BY <1>1
<1> QED BY <1>1, <1>2, <1>3

\* Decide: the version of an unchanged content is a committed pair; a new
\* version is a positive number.
LEMMA DecideSound ==
    ASSUME NEW p \in Started, p.pc = "lookup", ~p.insert,
           NEW rs \in SUBSET VersionRows, NEW clock \in Nat \ {0}
    PROVE  LET q == Decide(p, latestConfigVersion(rs), clock)
           IN /\ q \in Started
              /\ q.snap = p.snap /\ ~q.insert
              /\ \/ q.pc = "commit" /\ Pair(q) \in rs
                 \/ q.pc = "insert" /\ q.version # 0
<1> DEFINE L == latestConfigVersion(rs)
           q == Decide(p, L, clock)
<1>1. CASE \E r \in L : r.content = p.content
  <2>1. PICK r \in L : r.content = p.content BY <1>1
  <2>2. r \in rs /\ (CHOOSE v \in Versions(L) : TRUE) = r.version
    BY <2>1, LatestVersion
  <2>3. r \in VersionRows BY <2>2
  <2>4. r.version \in Nat /\ r = [version |-> r.version, content |-> r.content]
    BY <2>3 DEF VersionRows
  <2>5. q = [p EXCEPT !.pc = "commit", !.version = r.version]
    BY <1>1, <2>2, Zenon DEF Decide
  <2>6. q \in Started /\ q.snap = p.snap /\ q.insert = p.insert /\ q.pc = "commit"
        /\ q.version = r.version /\ q.content = p.content
    BY <2>5, <2>4, Zenon DEF Started
  <2>7. Pair(q) = r
    BY <2>6, <2>1, <2>4 DEF Pair
  <2> QED BY <2>6, <2>7, <2>2
<1>2. CASE ~\E r \in L : r.content = p.content
  <2> DEFINE v == IF L = {} THEN clock ELSE bumpVersion(CHOOSE w \in Versions(L) : TRUE, clock)
  <2>1. v \in Nat \ {0}
    <3>1. CASE L = {} BY <3>1
    <3>2. CASE L # {}
      <4>1. PICK r : r \in L BY <3>2
      <4>2. r \in rs /\ (CHOOSE w \in Versions(L) : TRUE) = r.version
        BY <4>1, LatestVersion
      <4>3. r.version \in Nat BY <4>2 DEF VersionRows
      <4>4. v = bumpVersion(r.version, clock) BY <3>2, <4>2, Zenon
      <4> QED BY <4>3, <4>4 DEF bumpVersion
    <3> QED BY <3>1, <3>2
  <2>2. q = [p EXCEPT !.pc = "insert", !.version = v]
    BY <1>2 DEF Decide
  <2> HIDE DEF v
  <2> QED BY <2>1, <2>2, Zenon DEF Started
<1> QED BY <1>1, <1>2

----------------------------------------------------------------------------

\* A poll's own step keeps the invariant when it leaves rows and agents alone and
\* its new state is sound and claims no version another transaction inserts.
LEMMA PollStep ==
    ASSUME IInv, NEW a \in Agents, NEW q \in PollStates,
           poll' = [poll EXCEPT ![a] = q],
           UNCHANGED <<backend, content, rows, agent>>,
           PollSound(q),
           q.pc = "commit" /\ q.insert => q.version \notin Inserting(a)
    PROVE  IInv'
<1>1. /\ poll \in [Agents -> PollStates] /\ poll'[a] = q
      /\ \A b \in Agents : b # a => poll'[b] = poll[b]
  BY DEF IInv, Typed
<1>2. Typed' /\ Functional'
  BY <1>1 DEF IInv, Typed, Functional, VersionRows
<1>3. \A b \in Agents : PollSound(poll[b])'
  <2> SUFFICES ASSUME NEW b \in Agents PROVE PollSound(poll[b])'
    OBVIOUS
  <2>1. CASE b = a BY <2>1, <1>1 DEF PollSound, Versions, Pair
  <2>2. CASE b # a BY <2>2, <1>1 DEF IInv, PollSound, Versions, Pair
  <2> QED BY <2>1, <2>2
<1>4. InsertsDiffer'
  <2> SUFFICES ASSUME NEW b \in Agents, NEW c \in Agents, b # c,
                      poll'[b].pc = "commit", poll'[b].insert,
                      poll'[c].pc = "commit", poll'[c].insert
               PROVE  poll'[b].version # poll'[c].version
    BY DEF InsertsDiffer
  <2>1. CASE b = a BY <2>1, <1>1 DEF Inserting
  <2>2. CASE c = a BY <2>2, <1>1 DEF Inserting
  <2>3. CASE b # a /\ c # a BY <2>3, <1>1 DEF IInv, InsertsDiffer
  <2> QED BY <2>1, <2>2, <2>3
<1> QED BY <1>2, <1>3, <1>4 DEF IInv

LEMMA InitInv ==
    ASSUME \A b \in Backends : ~b.recognised, VersionInit PROVE IInv
<1>1. poll \in [Agents -> PollStates] /\ \A a \in Agents : poll[a].pc = "idle"
  BY DEF VersionInit, PollStates, NoPoll
<1> QED BY <1>1 DEF VersionInit, IInv, Typed, Functional, InsertsDiffer, PollSound

LEMMA GenerateInv == ASSUME IInv, NEW a \in Agents, Generate(a) PROVE IInv'
<1> DEFINE q == [pc |-> "lookup", content |-> content, snap |-> rows,
                 version |-> NoVersion, insert |-> FALSE, tries |-> 0]
<1>1. q \in PollStates /\ q.pc = "lookup" /\ q.snap = rows /\ q.insert = FALSE
  BY DEF IInv, Typed, PollStates, Started, NoVersion
<1>2. PollSound(q) BY <1>1 DEF PollSound
<1> QED BY <1>1, <1>2, PollStep, Zenon DEF Generate

LEMMA StartedPoll ==
    ASSUME IInv, NEW a \in Agents, poll[a].pc \in {"lookup", "insert", "commit"}
    PROVE  poll[a] \in Started /\ PollSound(poll[a]) /\ rows \in SUBSET VersionRows
BY DEF IInv, Typed, PollStates, NoPoll, Started, Answers

LEMMA LookupInv == ASSUME IInv, NEW a \in Agents, Lookup(a) PROVE IInv'
<1>1. poll[a] \in Started /\ poll[a].pc = "lookup" /\ ~poll[a].insert
      /\ poll[a].snap \subseteq rows /\ rows \in SUBSET VersionRows
  BY StartedPoll DEF Lookup, PollSound
<1>2. PICK clock \in 1..MaxClock :
         poll' = [poll EXCEPT ![a] = Decide(poll[a], latestConfigVersion(Visible(a)), clock)]
  BY Zenon DEF Lookup
<1> DEFINE q == Decide(poll[a], latestConfigVersion(Visible(a)), clock)
<1>3. Visible(a) \subseteq rows /\ Visible(a) \in SUBSET VersionRows
  BY <1>1 DEF Visible
<1>4. clock \in Nat \ {0} BY <1>2
<1>5. /\ q \in Started /\ q.snap = poll[a].snap /\ ~q.insert
      /\ \/ q.pc = "commit" /\ Pair(q) \in Visible(a)
         \/ q.pc = "insert" /\ q.version # 0
  BY <1>1, <1>3, <1>4, DecideSound
<1> HIDE DEF q
<1>6. PollSound(q) /\ q \in PollStates
  BY <1>1, <1>3, <1>5 DEF PollSound, PollStates
<1>7. poll' = [poll EXCEPT ![a] = q] BY <1>2 DEF q
<1> QED BY <1>5, <1>6, <1>7, PollStep, Zenon DEF Lookup

LEMMA InsertInv == ASSUME IInv, NEW a \in Agents, InsertVersion(a) PROVE IInv'
<1> DEFINE q == [poll[a] EXCEPT !.pc = "commit", !.insert = TRUE]
<1>1. poll[a] \in Started /\ poll[a].version # 0
  BY StartedPoll DEF InsertVersion, PollSound
<1>2. q \in Started /\ q.pc = "commit" /\ q.insert /\ q.version = poll[a].version
  BY <1>1, Zenon DEF Started
<1>3. poll' = [poll EXCEPT ![a] = q]
  BY Zenon DEF InsertVersion, IInv, Typed
<1> HIDE DEF q
<1>4. PollSound(q) /\ q \in PollStates /\ q.version \notin Inserting(a)
  BY <1>1, <1>2 DEF InsertVersion, PollSound, PollStates
<1> QED BY <1>3, <1>4, PollStep, Zenon DEF InsertVersion

LEMMA RefusedInv ==
    ASSUME IInv, NEW a \in Agents,
           InsertDuplicate(a) \/ InsertFails(a) \/ ReportDuplicate(a) \/ PollFails(a)
    PROVE  IInv'
<1>1. ~InsertDuplicate(a) BY DEF IInv, InsertDuplicate
<1>2. PICK q \in {NoPoll, [pc |-> "duplicate"]} : poll' = [poll EXCEPT ![a] = q]
  BY <1>1 DEF InsertFails, ReportDuplicate, PollFails
<1>3. q \in PollStates /\ PollSound(q) /\ q.pc # "commit"
  BY DEF PollStates, PollSound, NoPoll
<1>4. UNCHANGED <<backend, content, rows, agent>>
  BY <1>1 DEF InsertFails, ReportDuplicate, PollFails
<1> QED BY <1>2, <1>3, <1>4, PollStep, Zenon

\* A commit adds a pair whose version was free, and no other transaction's.
LEMMA CommitInv == ASSUME IInv, NEW a \in Agents, Commit(a) PROVE IInv'
<1> DEFINE p == poll[a]
           q == [pc |-> "answer", content |-> p.content, version |-> p.version]
<1>1. p \in Started /\ PollSound(p) /\ p.pc = "commit" /\ rows \in SUBSET VersionRows
  BY StartedPoll DEF Commit
<1>2. Pair(p) \in rows' /\ rows \subseteq rows' /\ rows' \subseteq rows \cup {Pair(p)}
  BY <1>1 DEF Commit, PollSound, Pair
<1>3. q \in Answers /\ q.pc = "answer" /\ Pair(q) = Pair(p)
  BY <1>1 DEF Answers, Started, Pair
<1>4. /\ poll' = [poll EXCEPT ![a] = q] /\ poll \in [Agents -> PollStates]
      /\ UNCHANGED <<backend, content, agent>>
  BY DEF Commit, IInv, Typed
<1>5. p.insert => Pair(p) \in VersionRows
  BY <1>1 DEF PollSound, Started, VersionRows, Pair
<1>6. rows' \in SUBSET VersionRows
  BY <1>1, <1>5 DEF Commit, Pair
<1>7. poll'[a] = q /\ \A b \in Agents : b # a => poll'[b] = poll[b]
  BY <1>4
<1> HIDE DEF q
<1>8. Typed'
  BY <1>3, <1>4, <1>6 DEF IInv, Typed, PollStates, VersionRows
<1>9. Functional'
  <2>1. CASE ~p.insert
    BY <2>1, <1>1 DEF Commit, IInv, Functional
  <2>2. CASE p.insert
    <3>1. p.version \notin Versions(rows) BY <2>2, <1>1 DEF PollSound
    <3>2. \A r \in rows : r.version # p.version BY <3>1 DEF Versions
    <3>3. Pair(p).version = p.version BY DEF Pair
    <3> QED BY <3>2, <3>3, <1>2 DEF IInv, Functional
  <2> QED BY <2>1, <2>2
<1>10. InsertsDiffer'
  <2> SUFFICES ASSUME NEW b \in Agents, NEW c \in Agents, b # c,
                      poll'[b].pc = "commit", poll'[b].insert,
                      poll'[c].pc = "commit", poll'[c].insert
               PROVE  poll'[b].version # poll'[c].version
    BY DEF InsertsDiffer
  <2>1. b # a /\ c # a BY <1>3, <1>7
  <2> QED BY <2>1, <1>7 DEF IInv, InsertsDiffer
<1>11. \A b \in Agents : PollSound(poll[b])'
  <2> SUFFICES ASSUME NEW b \in Agents PROVE PollSound(poll[b])'
    OBVIOUS
  <2>1. CASE b = a
    <3>1. poll'[b] = q BY <2>1, <1>7
    <3> QED BY <3>1, <1>2, <1>3 DEF PollSound, Pair
  <2>2. CASE b # a
    <3>1. poll'[b] = poll[b] /\ PollSound(poll[b]) BY <2>2, <1>7 DEF IInv
    <3>2. CASE poll[b].pc = "commit" /\ poll[b].insert
      <4>1. poll[b].version \notin Versions(rows) BY <3>1, <3>2 DEF PollSound
      <4>2. p.insert => p.version # poll[b].version
        BY <2>2, <3>2, <1>1 DEF IInv, InsertsDiffer
      <4>3. p.insert \/ rows' = rows BY DEF Commit
      <4>4. Pair(p).version = p.version BY DEF Pair
      <4>5. poll[b].version \notin Versions(rows')
        BY <4>1, <4>2, <4>3, <4>4, <1>2 DEF Versions
      <4> QED BY <3>1, <3>2, <4>5 DEF PollSound, Versions
    <3>3. CASE ~(poll[b].pc = "commit" /\ poll[b].insert)
      BY <3>1, <3>3, <1>2 DEF PollSound, Pair
    <3> QED BY <3>2, <3>3
  <2> QED BY <2>1, <2>2
<1>12. \A b \in Agents : agent'[b] = Nothing \/ agent'[b] \in rows'
  BY <1>2, <1>4 DEF IInv
<1> QED BY <1>4, <1>8, <1>9, <1>10, <1>11, <1>12 DEF IInv

\* An agent takes a committed pair, or keeps what it has.
LEMMA AnswerShows ==
    ASSUME IInv, NEW a \in Agents, Answer(a)
    PROVE  /\ UNCHANGED rows
           /\ \/ UNCHANGED agent
              \/ \E e \in rows : agent' = [agent EXCEPT ![a] = e]
<1>1. PollSound(poll[a]) /\ poll[a].pc = "answer" BY DEF Answer, IInv
<1>2. Pair(poll[a]) \in rows BY <1>1 DEF PollSound
<1> QED BY <1>2 DEF Answer, Pair

LEMMA AnswerInv == ASSUME IInv, NEW a \in Agents, Answer(a) PROVE IInv'
<1>1. /\ poll' = [poll EXCEPT ![a] = NoPoll] /\ UNCHANGED <<backend, content, rows>>
      /\ poll \in [Agents -> PollStates] /\ agent \in [Agents -> {Nothing} \cup VersionRows]
      /\ rows \in SUBSET VersionRows
  BY DEF Answer, IInv, Typed
<1>2. \/ UNCHANGED agent
      \/ \E e \in rows : agent' = [agent EXCEPT ![a] = e]
  BY AnswerShows
<1>3. agent' \in [Agents -> {Nothing} \cup VersionRows]
  BY <1>1, <1>2
<1>4. \A b \in Agents : agent'[b] = Nothing \/ agent'[b] \in rows
  BY <1>1, <1>2 DEF IInv
<1>5. poll'[a].pc = "idle" /\ \A b \in Agents : b # a => poll'[b] = poll[b]
  BY <1>1 DEF NoPoll
<1>6. Typed' /\ Functional'
  BY <1>1, <1>3, Zenon DEF IInv, Typed, Functional, PollStates, VersionRows
<1>7. \A b \in Agents : PollSound(poll[b])'
  <2> SUFFICES ASSUME NEW b \in Agents PROVE PollSound(poll[b])'
    OBVIOUS
  <2>1. CASE b = a BY <2>1, <1>5 DEF PollSound
  <2>2. CASE b # a BY <2>2, <1>1, <1>5 DEF IInv, PollSound, Versions, Pair
  <2> QED BY <2>1, <2>2
<1>8. InsertsDiffer'
  <2> SUFFICES ASSUME NEW b \in Agents, NEW c \in Agents, b # c,
                      poll'[b].pc = "commit", poll'[b].insert,
                      poll'[c].pc = "commit", poll'[c].insert
               PROVE  poll'[b].version # poll'[c].version
    BY Zenon DEF InsertsDiffer
  <2>1. poll'[b] = poll[b] /\ poll'[c] = poll[c]
    BY <1>5, Zenon
  <2>2. InsertsDiffer
    BY Zenon DEF IInv
  <2> QED
    BY <2>1, <2>2 DEF InsertsDiffer
<1> QED BY <1>1, <1>4, <1>6, <1>7, <1>8 DEF IInv

LEMMA NextInv == ASSUME IInv, [VersionNext]_versionVars PROVE IInv'
<1>1. CASE ChangeConfig
  BY <1>1 DEF ChangeConfig, IInv, Typed, Functional, InsertsDiffer, PollSound, Versions, Pair
<1>2. CASE \E a \in Agents : Poll(a) \/ PollFails(a)
  <2>1. PICK a \in Agents : Poll(a) \/ PollFails(a) BY <1>2
  <2> QED BY <2>1, GenerateInv, LookupInv, InsertInv, RefusedInv, CommitInv, AnswerInv
          DEF Poll
<1>3. CASE UNCHANGED versionVars
  BY <1>3 DEF versionVars, IInv, Typed, Functional, InsertsDiffer, PollSound, Versions, Pair
<1> QED BY <1>1, <1>2, <1>3 DEF VersionNext

----------------------------------------------------------------------------

LEMMA InvImpliesOneContent == ASSUME IInv PROVE OneContentPerVersion
<1> DEFINE held == {agent[a] : a \in {a \in Agents : agent[a] # Nothing}}
           answers == {[version |-> poll[a].version, content |-> poll[a].content] :
                           a \in {a \in Agents : poll[a].pc = "answer"}}
<1>1. held \subseteq rows BY DEF IInv
<1>2. answers \subseteq rows BY DEF IInv, PollSound, Pair
<1>3. \A x, y \in rows : x.version = y.version => x.content = y.content
  BY DEF IInv, Functional
<1> QED BY <1>1, <1>2, <1>3 DEF OneContentPerVersion

\* A version stands for one content for ever, in config_versions, in the answers
\* under way and in every agent, whatever the clocks, the order of the polls and
\* the failures (ExportConfig, UpsertConfigLastExportedVersion).
THEOREM VersionSafety ==
    ASSUME \A b \in Backends : ~b.recognised
    PROVE  VersionSpec => []OneContentPerVersion
<1>1. VersionInit => IInv BY InitInv
<1>2. IInv /\ [VersionNext]_versionVars => IInv' BY NextInv
<1>3. IInv => OneContentPerVersion BY InvImpliesOneContent
<1> QED BY <1>1, <1>2, <1>3, PTL DEF VersionSpec

\* Every step of the export is a step of the promise or changes nothing it shows.
LEMMA StepRefines ==
    ASSUME IInv, [VersionNext]_versionVars
    PROVE  Promise!Next \/ UNCHANGED <<rows, agent>>
<1>1. ASSUME NEW a \in Agents, Commit(a), poll[a].insert PROVE Promise!Publish
  <2> DEFINE e == Pair(poll[a])
  <2>1. poll[a] \in Started /\ PollSound(poll[a]) /\ poll[a].pc = "commit"
    BY <1>1, StartedPoll DEF Commit
  <2>2. e \in Promise!Published
    BY <2>1, <1>1 DEF PollSound, Started, Pair, Promise!Published
  <2>3. \A old \in rows : old.version # e.version
    BY <2>1, <1>1 DEF PollSound, Versions, Pair
  <2>4. rows' = rows \cup {e} /\ UNCHANGED agent
    BY <1>1 DEF Commit, Pair
  <2> HIDE DEF e
  <2> QED BY <2>2, <2>3, <2>4 DEF Promise!Publish
<1>2. ASSUME NEW a \in Agents, Answer(a) PROVE Promise!Show(a) \/ UNCHANGED <<rows, agent>>
  BY <1>2, AnswerShows DEF Promise!Show
<1>3. ASSUME NEW a \in Agents, Poll(a) \/ PollFails(a), ~Answer(a),
             ~(Commit(a) /\ poll[a].insert)
      PROVE  UNCHANGED <<rows, agent>>
  BY <1>3 DEF Poll, PollFails, Generate, Lookup, InsertVersion, InsertDuplicate, InsertFails,
              ReportDuplicate, Commit
<1>4. ChangeConfig \/ UNCHANGED versionVars => UNCHANGED <<rows, agent>>
  BY DEF ChangeConfig, versionVars
<1> QED BY <1>1, <1>2, <1>3, <1>4 DEF VersionNext, Promise!Next

\* The export implements the promise of ExportedVersions: a published pair never
\* changes and agents only ever hold published pairs.
THEOREM ExportImplementsPromise ==
    ASSUME \A b \in Backends : ~b.recognised
    PROVE  VersionSpec => ImplementsPromise
<1>1. VersionInit => IInv BY InitInv
<1>2. IInv /\ [VersionNext]_versionVars => IInv' BY NextInv
<1>3. VersionInit => Promise!Init BY DEF VersionInit, Promise!Init, Nothing, Promise!Nothing, NoVersion
<1>4. IInv /\ [VersionNext]_versionVars => [Promise!Next]_<<rows, agent>> BY StepRefines
<1> QED BY <1>1, <1>2, <1>3, <1>4, PTL DEF VersionSpec, ImplementsPromise, Promise!Spec
-----------------------------------------------------------------------------
(* The counters of rate limits.                                            *)

\* The last name in a Redis key is the name it was built with: it holds for the rule
\* names without the text "_rlp-", by which extractRateLimitNameFromKey splits a key.
NamesReadBack == \A n \in RuleNames : extractRateLimitNameFromKey[n] = n

RowFields == {"id", "on", "conc", "tpm", "rpm", "batch"}
LimitRow(r) == DOMAIN r = RowFields /\ Names(r.tpm) \subseteq RuleNames /\ Names(r.rpm) \subseteq RuleNames

\* An owner has one policy or none.
OneEach == \A o \in LimitOwners : policy[o] = {} \/ \E r : policy[o] = {r} /\ LimitRow(r)

LimitInv ==
    /\ policy = [o \in LimitOwners |-> policy[o]]
    /\ OneEach
    /\ CountersFollowRules

\* What an update writes: a row with the id of the old one and rules of the body.
LEMMA RowWritten ==
  ASSUME NEW old, DOMAIN old = RowFields, NEW p,
         \A r \in p.rules : Names(r.tpm) \cup Names(r.rpm) \subseteq RuleNames
  PROVE  /\ LimitRow(rateLimitPolicyDataToParam(old, p))
         /\ rateLimitPolicyDataToParam(old, p).id = old.id
<1> DEFINE rules == Given(p.rules, NoRules)
           new == [old EXCEPT !.on = Given(p.on, @), !.conc = Given(rules.conc, @),
                              !.tpm = rules.tpm, !.rpm = rules.rpm, !.batch = rules.batch]
<1>1. rateLimitPolicyDataToParam(old, p) = new
  BY Zenon DEF rateLimitPolicyDataToParam
<1>2. Names(rules.tpm) \subseteq RuleNames /\ Names(rules.rpm) \subseteq RuleNames
  <2>1. CASE p.rules = {}
    <3>1. rules = NoRules
      BY <2>1, Zenon DEF Given
    <3>2. NoRules.tpm = {} /\ NoRules.rpm = {}
      BY DEF NoRules
    <3> QED
      BY <3>1, <3>2, Zenon DEF Names
  <2>2. CASE p.rules # {}
    <3>1. rules \in p.rules
      BY <2>2, Zenon DEF Given
    <3> QED
      BY <3>1, Zenon
  <2> QED
    BY <2>1, <2>2
<1> HIDE DEF rules
<1>3. DOMAIN new = RowFields /\ new.id = old.id /\ new.tpm = rules.tpm /\ new.rpm = rules.rpm
  BY DEF RowFields
<1> HIDE DEF new
<1> QED
  BY <1>1, <1>2, <1>3, Zenon DEF LimitRow

\* A counter of the old rules that an update neither deletes nor finds moved to the
\* other kind is one of the new rules.
LEMMA CounterKept ==
  ASSUME NamesReadBack, NEW old, NEW new, LimitRow(old), LimitRow(new), new.id = old.id,
         NEW k \in BuildRateLimitRedisKeys(old),
         k \notin DiffRateLimitRedisKeys(old, new), k \notin MovedKeys(old, new)
  PROVE  k \in BuildRateLimitRedisKeys(new)
<1>1. ASSUME NEW n \in RuleNames, k \in buildTpmRpmRateLimitRedisKeys(old), k.name = {n}
      PROVE  n \in Names(new.tpm) \cup Names(new.rpm)
  <2>1. extractRateLimitNameFromKey[n] = n
    BY Zenon DEF NamesReadBack
  <2> QED
    BY <1>1, <2>1, Zenon DEF DiffRateLimitRedisKeys
<1>2. ASSUME NEW n \in Names(old.tpm), k = BuildBFERateLimitRedisKey(old.id, "RL_TPM", n)
      PROVE  k \in BuildRateLimitRedisKeys(new)
  <2>1. n \in RuleNames /\ k.name = {n} /\ k \in buildTpmRpmRateLimitRedisKeys(old)
    <3>1. k.name = {n}
      BY <1>2 DEF BuildBFERateLimitRedisKey
    <3> QED
      BY <1>2, <3>1, Zenon DEF LimitRow, buildTpmRpmRateLimitRedisKeys
  <2>2. n \notin Names(new.rpm)
    BY <1>2, Zenon DEF MovedKeys
  <2>3. n \in Names(new.tpm)
    BY <1>1, <2>1, <2>2, Zenon
  <2> QED
    BY <1>2, <2>3, Zenon DEF BuildRateLimitRedisKeys, buildTpmRpmRateLimitRedisKeys
<1>3. ASSUME NEW n \in Names(old.rpm), k = BuildBFERateLimitRedisKey(old.id, "RL_RPM", n)
      PROVE  k \in BuildRateLimitRedisKeys(new)
  <2>1. n \in RuleNames /\ k.name = {n} /\ k \in buildTpmRpmRateLimitRedisKeys(old)
    <3>1. k.name = {n}
      BY <1>3 DEF BuildBFERateLimitRedisKey
    <3> QED
      BY <1>3, <3>1, Zenon DEF LimitRow, buildTpmRpmRateLimitRedisKeys
  <2>2. n \notin Names(new.tpm)
    BY <1>3, Zenon DEF MovedKeys
  <2>3. n \in Names(new.rpm)
    BY <1>1, <2>1, <2>2, Zenon
  <2> QED
    BY <1>3, <2>3, Zenon DEF BuildRateLimitRedisKeys, buildTpmRpmRateLimitRedisKeys
<1>4. CASE k = BuildBatchRateLimitRedisKey(old.id) /\ BatchRateLimitEnabled(old)
  <2>1. BatchRateLimitEnabled(new)
    BY <1>4, Zenon DEF DiffRateLimitRedisKeys
  <2> QED
    BY <1>4, <2>1, Zenon DEF BuildRateLimitRedisKeys
<1> QED
  BY <1>2, <1>3, <1>4, Zenon DEF BuildRateLimitRedisKeys, buildTpmRpmRateLimitRedisKeys
\* The stored rows are those of the owners.
LEMMA RowsStored ==
  ASSUME NEW T, T = [o \in LimitOwners |-> T[o]]
  PROVE  \A r : r \in Rows(T) <=> \E o \in LimitOwners : r \in T[o]
<1>1. DOMAIN T = LimitOwners
  OBVIOUS
<1> QED
  BY <1>1, Zenon DEF Rows

\* A write that leaves an owner with the given rows, and every counter that is not
\* exempt with one of the rows it had or the new one, keeps the invariant.
LEMMA LimitWritten ==
  ASSUME LimitInv, NEW o \in LimitOwners, NEW S, policy' = [policy EXCEPT ![o] = S],
         S = {} \/ \E r : S = {r} /\ LimitRow(r),
         \A k \in counters' \ moved' :
            \/ \E q \in LimitOwners \ {o} : \E r \in policy[q] : k \in BuildRateLimitRedisKeys(r)
            \/ \E r \in S : k \in BuildRateLimitRedisKeys(r)
  PROVE  LimitInv'
<1>1. policy = [q \in LimitOwners |-> policy[q]] /\ OneEach
  BY Zenon DEF LimitInv
<1>2. policy' = [q \in LimitOwners |-> policy'[q]]
  BY <1>1
<1>3. policy'[o] = S /\ \A q \in LimitOwners \ {o} : policy'[q] = policy[q]
  BY <1>1
<1>4. OneEach'
  <2> SUFFICES ASSUME NEW q \in LimitOwners
               PROVE  policy'[q] = {} \/ \E r : policy'[q] = {r} /\ LimitRow(r)
    BY Zenon DEF OneEach, LimitRow
  <2>1. CASE q = o
    BY <1>3, <2>1, Zenon
  <2>2. CASE q # o
    BY <1>1, <1>3, <2>2, Zenon DEF OneEach
  <2> QED
    BY <2>1, <2>2
<1>5. \A r : r \in Rows(policy') <=> \E q \in LimitOwners : r \in policy'[q]
  BY <1>2, RowsStored, Zenon
<1>6. CountersFollowRules'
  <2> SUFFICES ASSUME NEW k \in counters' \ moved'
               PROVE  \E r \in Rows(policy') : k \in BuildRateLimitRedisKeys(r)
    BY Zenon DEF CountersFollowRules
  <2>1. CASE \E q \in LimitOwners \ {o} : \E r \in policy[q] : k \in BuildRateLimitRedisKeys(r)
    BY <1>3, <1>5, <2>1, Zenon
  <2>2. CASE \E r \in S : k \in BuildRateLimitRedisKeys(r)
    BY <1>3, <1>5, <2>2, Zenon
  <2> QED
    BY <2>1, <2>2, Zenon
<1> QED
  BY <1>2, <1>4, <1>6, Zenon DEF LimitInv

\* Where the counters of the stored rules are.
LEMMA CounterOwned ==
  ASSUME LimitInv, NEW k \in counters \ moved
  PROVE  \E q \in LimitOwners : \E r \in policy[q] : k \in BuildRateLimitRedisKeys(r)
<1>1. \A r : r \in Rows(policy) <=> \E o \in LimitOwners : r \in policy[o]
  BY RowsStored, Zenon DEF LimitInv
<1> QED
  BY <1>1, Zenon DEF LimitInv, CountersFollowRules

\* Every request and every counted request keeps LimitInv: a create adds a policy, an
\* update keeps the counters of the rules it keeps, a deletion takes the counters of
\* the rules it deletes along, and the data plane counts under keys of stored rules.
LEMMA LimitStep ==
  ASSUME NamesReadBack, LimitInv, [LimitsNext]_<<limitVars, writes>>
  PROVE  LimitInv'
<1>0. /\ policy = [o \in LimitOwners |-> policy[o]]
      /\ \A o \in LimitOwners : policy[o] = {} \/ \E r : policy[o] = {r} /\ LimitRow(r)
  BY Zenon DEF LimitInv, OneEach
<1>1. CASE UNCHANGED <<limitVars, writes>>
  <2>1. policy' = policy /\ counters' = counters /\ moved' = moved
    BY <1>1, Zenon DEF limitVars
  <2>2. OneEach'
    BY <1>0, <2>1, Zenon DEF OneEach, LimitRow
  <2>3. CountersFollowRules'
    BY <2>1, Zenon DEF LimitInv, CountersFollowRules
  <2> QED
    BY <1>0, <2>1, <2>2, <2>3, Zenon DEF LimitInv
<1>2. ASSUME NEW o \in LimitOwners, NEW body \in {{}} \cup {{p} : p \in PolicyBodies},
             CreateOwner(o, body)
      PROVE  LimitInv'
  <2> DEFINE new == rateLimitPolicyDataToParam(ColumnDefaults(nextPolicy), Given(body, DefaultPolicy))
  <2>1. /\ policy' = [policy EXCEPT ![o] = {new}] /\ counters' = counters /\ moved' = moved
        /\ policy[o] = {}
    BY <1>2, Zenon DEF CreateOwner, Exists
  <2>2. LimitRow(new)
    <3> DEFINE p == Given(body, DefaultPolicy)
    <3>1. p = DefaultPolicy \/ p \in PolicyBodies
      <4>1. CASE body = {}
        BY <4>1, Zenon DEF Given
      <4>2. ASSUME NEW b \in PolicyBodies, body = {b} PROVE p = b
        BY <4>2, Zenon DEF Given
      <4> QED
        BY <4>1, <4>2, Zenon
    <3>2. \A r \in DefaultPolicy.rules : Names(r.tpm) \cup Names(r.rpm) \subseteq RuleNames
      <4>1. DefaultPolicy.rules = {[NoRules EXCEPT !.conc = {0}]}
        BY DEF DefaultPolicy
      <4>2. [NoRules EXCEPT !.conc = {0}].tpm = {} /\ [NoRules EXCEPT !.conc = {0}].rpm = {}
        BY DEF NoRules
      <4> QED
        BY <4>1, <4>2, Zenon DEF Names
    <3>3. \A r \in p.rules : Names(r.tpm) \cup Names(r.rpm) \subseteq RuleNames
      BY <3>1, <3>2, LimitsAssumption, Zenon
    <3>4. DOMAIN ColumnDefaults(nextPolicy) = RowFields
      BY DEF ColumnDefaults, RowFields
    <3> HIDE DEF p
    <3>5. LimitRow(rateLimitPolicyDataToParam(ColumnDefaults(nextPolicy), p))
      BY <3>3, <3>4, RowWritten, Zenon
    <3> QED
      BY <3>5, Zenon DEF p
  <2> HIDE DEF new
  <2>3. \A k \in counters' \ moved' :
           \E q \in LimitOwners \ {o} : \E r \in policy[q] : k \in BuildRateLimitRedisKeys(r)
    BY <2>1, CounterOwned, Zenon
  <2> QED
    BY <2>1, <2>2, <2>3, LimitWritten, Zenon
<1>3. ASSUME NEW o \in LimitOwners, NEW p \in PolicyBodies, UpdatePolicy(o, p)
      PROVE  LimitInv'
  <2>1. PICK old \in policy[o] :
          /\ policy' = [policy EXCEPT ![o] = {rateLimitPolicyDataToParam(old, p)}]
          /\ counters' = counters \ DiffRateLimitRedisKeys(old, rateLimitPolicyDataToParam(old, p))
          /\ moved' = moved \cup MovedKeys(old, rateLimitPolicyDataToParam(old, p))
    BY <1>3, Zenon DEF UpdatePolicy
  <2> DEFINE new == rateLimitPolicyDataToParam(old, p)
  <2>2. policy[o] = {old} /\ LimitRow(old)
    BY <1>0, <2>1, Zenon
  <2>3. LimitRow(new) /\ new.id = old.id
    BY <2>2, RowWritten, LimitsAssumption, Zenon DEF LimitRow
  <2> HIDE DEF new
  <2>4. ASSUME NEW k \in counters' \ moved'
        PROVE  \/ \E q \in LimitOwners \ {o} : \E r \in policy[q] : k \in BuildRateLimitRedisKeys(r)
               \/ \E r \in {new} : k \in BuildRateLimitRedisKeys(r)
    <3>1. /\ k \in counters \ moved /\ k \notin DiffRateLimitRedisKeys(old, new)
          /\ k \notin MovedKeys(old, new)
      BY <2>1, <2>4, Zenon DEF new
    <3>2. PICK q \in LimitOwners : \E r \in policy[q] : k \in BuildRateLimitRedisKeys(r)
      BY <3>1, CounterOwned, Zenon
    <3>3. CASE q # o
      BY <3>2, <3>3, Zenon
    <3>4. CASE q = o
      <4>1. k \in BuildRateLimitRedisKeys(old)
        BY <2>2, <3>2, <3>4, Zenon
      <4>2. k \in BuildRateLimitRedisKeys(new)
        BY <2>2, <2>3, <3>1, <4>1, CounterKept, Zenon
      <4> QED
        BY <4>2, Zenon
    <3> QED
      BY <3>3, <3>4
  <2>5. policy' = [policy EXCEPT ![o] = {new}]
    BY <2>1, Zenon DEF new
  <2> QED
    BY <2>3, <2>4, <2>5, LimitWritten, Zenon
<1>4. ASSUME NEW o \in LimitOwners, DeleteOwner(o) PROVE LimitInv'
  <2>1. /\ policy' = [policy EXCEPT ![o] = {}] /\ moved' = moved
        /\ counters' = counters \ BuildRateLimitRedisKeys(Row(policy, o)) /\ policy[o] # {}
    BY <1>4, Zenon DEF DeleteOwner, Exists
  <2>2. policy[o] = {Row(policy, o)}
    BY <1>0, <2>1, Zenon DEF Row
  <2>3. ASSUME NEW k \in counters' \ moved'
        PROVE  \E q \in LimitOwners \ {o} : \E r \in policy[q] : k \in BuildRateLimitRedisKeys(r)
    <3>1. k \in counters \ moved /\ k \notin BuildRateLimitRedisKeys(Row(policy, o))
      BY <2>1, <2>3, Zenon
    <3>2. PICK q \in LimitOwners : \E r \in policy[q] : k \in BuildRateLimitRedisKeys(r)
      BY <3>1, CounterOwned, Zenon
    <3>3. q # o
      BY <2>2, <3>1, <3>2, Zenon
    <3> QED
      BY <3>2, <3>3, Zenon
  <2> QED
    BY <2>1, <2>3, LimitWritten, Zenon
<1>5. CASE CountRequest
  <2>1. PICK k \in RateLimitPolicyGenerator \ counters :
          counters' = counters \cup {k} /\ UNCHANGED <<policy, nextPolicy, moved, writes>>
    BY <1>5, Zenon DEF CountRequest
  <2>2. \E r \in Rows(policy) : k \in BuildRateLimitRedisKeys(r)
    <3>1. PICK r \in Rows(policy) : k \in buildTpmRpmRateLimitRedisKeys(r) \cup exportBatchLimits(r)
      BY <2>1, Zenon DEF RateLimitPolicyGenerator
    <3>2. k \in BuildRateLimitRedisKeys(r)
      BY <3>1, Zenon DEF BuildRateLimitRedisKeys, exportBatchLimits, BatchRateLimitEnabled
    <3> QED
      BY <3>1, <3>2, Zenon
  <2>3. policy' = policy /\ moved' = moved
    BY <2>1, Zenon
  <2>4. CountersFollowRules'
    <3> SUFFICES ASSUME NEW j \in counters' \ moved'
                 PROVE  \E r \in Rows(policy') : j \in BuildRateLimitRedisKeys(r)
      BY Zenon DEF CountersFollowRules
    <3>1. j = k \/ j \in counters \ moved
      BY <2>1, <2>3, Zenon
    <3>2. Rows(policy') = Rows(policy)
      BY <2>3, Zenon
    <3> QED
      BY <2>2, <3>1, <3>2, Zenon DEF LimitInv, CountersFollowRules
  <2> QED
    BY <1>0, <2>3, <2>4, Zenon DEF LimitInv, OneEach, LimitRow
<1> QED
  BY <1>1, <1>2, <1>3, <1>4, <1>5, Zenon DEF LimitsNext

\* For every set of owners, bodies and rule names whose keys can be read back: however
\* requests and counting interleave, no counter stays in Redis without a rule or batch
\* limit of a stored policy behind it, but for those of rules that moved between tpm
\* and rpm under one name (DiffRateLimitRedisKeys, BuildRateLimitRedisKeys).
THEOREM CountersFollowStoredRules ==
  ASSUME NamesReadBack
  PROVE  LimitsSpec => []CountersFollowRules
<1>1. LimitsInit => LimitInv
  <2> SUFFICES ASSUME LimitsInit PROVE LimitInv
    OBVIOUS
  <2>1. policy = [o \in LimitOwners |-> {}] /\ counters = {}
    BY Zenon DEF LimitsInit, EmptyTable
  <2>2. \A o \in LimitOwners : policy[o] = {}
    BY <2>1, Zenon
  <2>3. policy = [o \in LimitOwners |-> policy[o]]
    BY <2>1
  <2> QED
    BY <2>1, <2>2, <2>3, Zenon DEF LimitInv, OneEach, CountersFollowRules
<1>2. LimitInv /\ [LimitsNext]_<<limitVars, writes>> => LimitInv'
  BY LimitStep, Zenon
<1>3. LimitInv => CountersFollowRules
  BY Zenon DEF LimitInv
<1> QED
  BY <1>1, <1>2, <1>3, PTL DEF LimitsSpec
-----------------------------------------------------------------------------
(* The certificates and their files.                                       *)

CertFields == {"isDefault", "certFile", "keyFile"}
CertRowOf(r, n) ==
    DOMAIN r = CertFields /\ r.certFile = CertFilePath(n) /\ r.keyFile = KeyFilePath(n)

\* The tables agree on a name: no certificate and no file, or one certificate and two
\* files that belong together.
Agrees(T, F, n) ==
    \/ T[n] = {} /\ F[CertFilePath(n)] = {} /\ F[KeyFilePath(n)] = {}
    \/ \E r, c, k : /\ T[n] = {r} /\ CertRowOf(r, n) /\ <<c, k>> \in CertPair
                    /\ F[CertFilePath(n)] = {c} /\ F[KeyFilePath(n)] = {k}

\* A request is about a certificate name, and what a create carries was validated.
RequestSound(q) ==
    /\ q.at \in {"create", "delete", "default", "switch"} => q.name \in CertNames
    /\ q.at = "create" => <<q.cert, q.key>> \in CertPair

FilePaths == CertNames \X {"crt", "key"}

CertInv ==
    /\ certs = [n \in CertNames |-> certs[n]]
    /\ extraFiles = [f \in FilePaths |-> extraFiles[f]]
    /\ certReq = [a \in CertAdmins |-> certReq[a]]
    /\ \A n \in CertNames : Agrees(certs, extraFiles, n)
    /\ \A a \in CertAdmins : RequestSound(certReq[a])

\* The paths of the files: each belongs to one certificate and is of one sort.
LEMMA PathsDistinct ==
  ASSUME NEW n \in CertNames
  PROVE  /\ CertFilePath(n) \in FilePaths /\ KeyFilePath(n) \in FilePaths
         /\ \A m \in CertNames : /\ CertFilePath(m) # KeyFilePath(n)
                                 /\ m # n => CertFilePath(m) # CertFilePath(n)
                                 /\ m # n => KeyFilePath(m) # KeyFilePath(n)
  BY DEF CertFilePath, KeyFilePath, FilePaths

\* Agreement on a name is about the row and the two files of that name.
LEMMA AgreesSame ==
  ASSUME NEW T, NEW F, NEW U, NEW G, NEW n, Agrees(T, F, n), U[n] = T[n],
         G[CertFilePath(n)] = F[CertFilePath(n)], G[KeyFilePath(n)] = F[KeyFilePath(n)]
  PROVE  Agrees(U, G, n)
<1>1. CASE T[n] = {} /\ F[CertFilePath(n)] = {} /\ F[KeyFilePath(n)] = {}
  BY <1>1, Zenon DEF Agrees
<1>2. ASSUME NEW r, NEW c, NEW k, T[n] = {r}, CertRowOf(r, n), <<c, k>> \in CertPair,
             F[CertFilePath(n)] = {c}, F[KeyFilePath(n)] = {k}
      PROVE  Agrees(U, G, n)
  <2>1. U[n] = {r} /\ G[CertFilePath(n)] = {c} /\ G[KeyFilePath(n)] = {k}
    BY <1>2, Zenon
  <2> QED
    BY <1>2, <2>1, Zenon DEF Agrees
<1> QED
  BY <1>1, <1>2, Zenon DEF Agrees

\* Clearing defaults and setting one keep the tables functions on the names
LEMMA DefaultsTables ==
  ASSUME NEW T, T = [n \in CertNames |-> T[n]], NEW names, NEW m \in CertNames
  PROVE  /\ Cleared(T, names) = [n \in CertNames |-> Cleared(T, names)[n]]
         /\ MadeDefault(T, m) = [n \in CertNames |-> MadeDefault(T, m)[n]]
  BY Zenon DEF Cleared, MadeDefault

\* and change no file name.
LEMMA DefaultsMove ==
  ASSUME NEW T, T = [n \in CertNames |-> T[n]], NEW F, NEW n \in CertNames, Agrees(T, F, n)
  PROVE  /\ \A names : Agrees(Cleared(T, names), F, n)
         /\ \A m \in CertNames : Agrees(MadeDefault(T, m), F, n)
<1>1. ASSUME NEW r, CertRowOf(r, n), NEW d \in BOOLEAN
      PROVE  CertRowOf([r EXCEPT !.isDefault = d], n)
  <2>1. /\ DOMAIN [r EXCEPT !.isDefault = d] = CertFields
        /\ [r EXCEPT !.isDefault = d].certFile = r.certFile
        /\ [r EXCEPT !.isDefault = d].keyFile = r.keyFile
    BY <1>1 DEF CertRowOf, CertFields
  <2> QED
    BY <1>1, <2>1, Zenon DEF CertRowOf
<1>2. ASSUME NEW U, \/ U[n] = T[n]
                    \/ \E d \in BOOLEAN : U[n] = {[r EXCEPT !.isDefault = d] : r \in T[n]}
      PROVE  Agrees(U, F, n)
  <2>1. CASE U[n] = T[n]
    BY <2>1, Zenon DEF Agrees
  <2>2. ASSUME NEW d \in BOOLEAN, U[n] = {[r EXCEPT !.isDefault = d] : r \in T[n]}
        PROVE  Agrees(U, F, n)
    <3>1. CASE T[n] = {} /\ F[CertFilePath(n)] = {} /\ F[KeyFilePath(n)] = {}
      <4>1. U[n] = {}
        BY <2>2, <3>1, Zenon
      <4> QED
        BY <3>1, <4>1, Zenon DEF Agrees
    <3>2. ASSUME NEW r, NEW c, NEW k, T[n] = {r}, CertRowOf(r, n), <<c, k>> \in CertPair,
                 F[CertFilePath(n)] = {c}, F[KeyFilePath(n)] = {k}
          PROVE  Agrees(U, F, n)
      <4>1. U[n] = {[r EXCEPT !.isDefault = d]}
        BY <2>2, <3>2, Zenon
      <4>2. CertRowOf([r EXCEPT !.isDefault = d], n)
        BY <1>1, <3>2, Zenon
      <4> QED
        BY <3>2, <4>1, <4>2, Zenon DEF Agrees
    <3> QED
      BY <3>1, <3>2, Zenon DEF Agrees
  <2> QED
    BY <1>2, <2>1, <2>2, Zenon
<1>3. ASSUME NEW names PROVE Agrees(Cleared(T, names), F, n)
  <2>1. \/ Cleared(T, names)[n] = T[n]
        \/ Cleared(T, names)[n] = {[r EXCEPT !.isDefault = FALSE] : r \in T[n]}
    BY Zenon DEF Cleared
  <2> QED
    BY <1>2, <2>1, Zenon
<1>4. ASSUME NEW m \in CertNames PROVE Agrees(MadeDefault(T, m), F, n)
  <2>1. \/ MadeDefault(T, m)[n] = T[n]
        \/ MadeDefault(T, m)[n] = {[r EXCEPT !.isDefault = TRUE] : r \in T[n]}
    BY Zenon DEF MadeDefault
  <2> QED
    BY <1>2, <2>1, Zenon
<1> QED
  BY <1>3, <1>4, Zenon

\* Two files are put among the others.
LEMMA TwoPut ==
  ASSUME NEW S, NEW F, F = [f \in S |-> F[f]], NEW x \in S, NEW y \in S, x # y, NEW u, NEW v,
         NEW G, G = [F EXCEPT ![x] = u, ![y] = v]
  PROVE  /\ G = [f \in S |-> G[f]] /\ G[x] = u /\ G[y] = v
         /\ \A f \in S \ {x, y} : G[f] = F[f]
<1> DEFINE H == [F EXCEPT ![x] = u]
<1>1. G = [H EXCEPT ![y] = v]
  OBVIOUS
<1>2. H = [f \in S |-> H[f]] /\ H[x] = u /\ \A f \in S \ {x} : H[f] = F[f]
  BY Zenon
<1> HIDE DEF H
<1>3. G = [f \in S |-> G[f]] /\ G[y] = v /\ \A f \in S \ {y} : G[f] = H[f]
  BY <1>1, <1>2, Zenon
<1> QED
  BY <1>2, <1>3, Zenon

\* The step of a request that moves on to a sound state and touches no table.
LEMMA RequestMoves ==
  ASSUME CertInv, NEW a \in CertAdmins, NEW q, RequestSound(q), CertStep(a, q)
  PROVE  /\ certReq' = [b \in CertAdmins |-> certReq'[b]]
         /\ \A b \in CertAdmins : RequestSound(certReq'[b])
<1>1. certReq' = [certReq EXCEPT ![a] = q] /\ certReq = [b \in CertAdmins |-> certReq[b]]
  BY Zenon DEF CertStep, CertInv
<1>2. certReq' = [b \in CertAdmins |-> certReq'[b]]
  BY <1>1
<1>3. \A b \in CertAdmins : certReq'[b] = q \/ certReq'[b] = certReq[b]
  BY <1>1
<1> QED
  BY <1>2, <1>3, Zenon DEF CertInv

\* An ended request is sound.
LEMMA NoRequestSound == RequestSound(NoCertReq)
  BY DEF RequestSound, NoCertReq

\* A create that is not rolled back adds one row and its two files.
LEMMA CertCreated ==
  ASSUME CertInv, NEW a \in CertAdmins, CreateCommits(a)
  PROVE  CertInv'
<1> DEFINE q == certReq[a]
           row == [isDefault |-> q.isDefault, certFile |-> CertFilePath(q.name),
                   keyFile |-> KeyFilePath(q.name)]
           crt == CertFilePath(q.name)
           key == KeyFilePath(q.name)
<1>1. q.at = "create" /\ CertStep(a, NoCertReq)
  BY Zenon DEF CreateCommits
<1>2. q.name \in CertNames /\ <<q.cert, q.key>> \in CertPair
  BY <1>1, Zenon DEF CertInv, RequestSound
<1>3. /\ certReq' = [b \in CertAdmins |-> certReq'[b]]
      /\ \A b \in CertAdmins : RequestSound(certReq'[b])
  BY <1>1, RequestMoves, NoRequestSound, Zenon
<1>4. CASE UNCHANGED <<certs, extraFiles>>
  BY <1>3, <1>4, Zenon DEF CertInv
<1>5. ASSUME NEW names, certs' = [Cleared(certs, names) EXCEPT ![q.name] = {row}],
             extraFiles' = [extraFiles EXCEPT ![crt] = {q.cert}, ![key] = {q.key}]
      PROVE  CertInv'
  <2> DEFINE T == Cleared(certs, names)
  <2>1. T = [n \in CertNames |-> T[n]] /\ \A n \in CertNames : Agrees(T, extraFiles, n)
    <3>1. certs = [n \in CertNames |-> certs[n]] /\ \A n \in CertNames : Agrees(certs, extraFiles, n)
      BY Zenon DEF CertInv
    <3>2. T = [n \in CertNames |-> T[n]]
      BY <1>2, <3>1, DefaultsTables, Zenon
    <3>3. ASSUME NEW n \in CertNames PROVE Agrees(T, extraFiles, n)
      BY <3>1, DefaultsMove, Zenon
    <3> QED
      BY <3>2, <3>3
  <2>2. CertRowOf(row, q.name)
    BY DEF CertRowOf, CertFields
  <2> HIDE DEF T, row
  <2>3. /\ certs' = [n \in CertNames |-> certs'[n]] /\ certs'[q.name] = {row}
        /\ \A n \in CertNames : n # q.name => certs'[n] = T[n]
    <3>1. certs' = [T EXCEPT ![q.name] = {row}]
      BY <1>5, Zenon DEF T
    <3> QED
      BY <1>2, <2>1, <3>1, Zenon
  <2>4. /\ crt \in FilePaths /\ key \in FilePaths /\ crt # key
        /\ \A n \in CertNames : n # q.name =>
              /\ CertFilePath(n) \notin {crt, key} /\ KeyFilePath(n) \notin {crt, key}
              /\ CertFilePath(n) \in FilePaths /\ KeyFilePath(n) \in FilePaths
    BY <1>2, PathsDistinct, Zenon
  <2>5. extraFiles = [f \in FilePaths |-> extraFiles[f]]
    BY Zenon DEF CertInv
  <2> HIDE DEF crt, key, q
  <2>6. /\ extraFiles' = [f \in FilePaths |-> extraFiles'[f]]
        /\ extraFiles'[crt] = {q.cert} /\ extraFiles'[key] = {q.key}
        /\ \A f \in FilePaths \ {crt, key} : extraFiles'[f] = extraFiles[f]
    BY <1>5, <2>4, <2>5, TwoPut, Zenon
  <2>7. ASSUME NEW n \in CertNames PROVE Agrees(certs', extraFiles', n)
    <3>1. CASE n = q.name
      <4>1. /\ certs'[n] = {row} /\ CertRowOf(row, n)
            /\ extraFiles'[CertFilePath(n)] = {q.cert} /\ extraFiles'[KeyFilePath(n)] = {q.key}
        BY <2>2, <2>3, <2>6, <3>1, Zenon DEF crt, key
      <4> QED
        BY <1>2, <4>1, Zenon DEF Agrees
    <3>2. CASE n # q.name
      <4>1. /\ extraFiles'[CertFilePath(n)] = extraFiles[CertFilePath(n)]
            /\ extraFiles'[KeyFilePath(n)] = extraFiles[KeyFilePath(n)]
        BY <2>4, <2>6, <3>2, Zenon
      <4> QED
        BY <2>1, <2>3, <3>2, <4>1, AgreesSame, Zenon
    <3> QED
      BY <3>1, <3>2
  <2> QED
    BY <1>3, <2>3, <2>6, <2>7, Zenon DEF CertInv
<1> QED
  BY <1>4, <1>5, Zenon DEF CreateCommits

\* A deletion removes the row together with both files, or nothing.
LEMMA CertDeleted ==
  ASSUME CertInv, NEW a \in CertAdmins, DeleteCertificate(a)
  PROVE  CertInv'
<1> DEFINE d == certReq[a].name
<1>1. certReq[a].at = "delete" /\ CertStep(a, NoCertReq)
  BY Zenon DEF DeleteCertificate
<1>2. d \in CertNames
  BY <1>1, Zenon DEF CertInv, RequestSound
<1>3. /\ certReq' = [b \in CertAdmins |-> certReq'[b]]
      /\ \A b \in CertAdmins : RequestSound(certReq'[b])
  BY <1>1, RequestMoves, NoRequestSound, Zenon
<1>4. CASE UNCHANGED <<certs, extraFiles>>
  BY <1>3, <1>4, Zenon DEF CertInv
<1>5. CASE /\ certs' = [certs EXCEPT ![d] = {}]
           /\ extraFiles' = [f \in DOMAIN extraFiles |->
                                IF f \in DeletedFiles(d) THEN {} ELSE extraFiles[f]]
  <2> HIDE DEF d
  <2>1. /\ certs = [n \in CertNames |-> certs[n]]
        /\ extraFiles = [f \in FilePaths |-> extraFiles[f]] /\ DOMAIN extraFiles = FilePaths
    <3>1. extraFiles = [f \in FilePaths |-> extraFiles[f]] /\ certs = [n \in CertNames |-> certs[n]]
      BY Zenon DEF CertInv
    <3>2. DOMAIN extraFiles = FilePaths
      BY <3>1
    <3> QED
      BY <3>1, <3>2
  <2>2. /\ certs' = [n \in CertNames |-> certs'[n]] /\ certs'[d] = {}
        /\ \A n \in CertNames : n # d => certs'[n] = certs[n]
    BY <1>2, <1>5, <2>1
  <2>3. /\ extraFiles' = [f \in FilePaths |-> extraFiles'[f]]
        /\ \A f \in FilePaths : extraFiles'[f] = IF f \in DeletedFiles(d) THEN {} ELSE extraFiles[f]
    BY <1>5, <2>1
  <2>4. ASSUME NEW n \in CertNames PROVE Agrees(certs', extraFiles', n)
    <3>0. CertFilePath(n) \in FilePaths /\ KeyFilePath(n) \in FilePaths
      BY PathsDistinct, Zenon
    <3>1. CASE n = d
      <4>1. CertFilePath(n) \in DeletedFiles(d) /\ KeyFilePath(n) \in DeletedFiles(d)
        BY <3>1, Zenon DEF DeletedFiles
      <4> QED
        BY <2>2, <2>3, <3>0, <3>1, <4>1, Zenon DEF Agrees
    <3>2. CASE n # d
      <4>1. CertFilePath(n) \notin DeletedFiles(d) /\ KeyFilePath(n) \notin DeletedFiles(d)
        BY <1>2, <3>2, PathsDistinct, Zenon DEF DeletedFiles
      <4>2. /\ extraFiles'[CertFilePath(n)] = extraFiles[CertFilePath(n)]
            /\ extraFiles'[KeyFilePath(n)] = extraFiles[KeyFilePath(n)]
        BY <2>3, <3>0, <4>1, Zenon
      <4>3. Agrees(certs, extraFiles, n)
        BY Zenon DEF CertInv
      <4> QED
        BY <2>2, <3>2, <4>2, <4>3, AgreesSame, Zenon
    <3> QED
      BY <3>1, <3>2
  <2> QED
    BY <1>3, <2>2, <2>3, <2>4, Zenon DEF CertInv
<1> QED
  BY <1>4, <1>5, Zenon DEF DeleteCertificate

\* Making a certificate the default one moves a flag between rows.
LEMMA CertSwitched ==
  ASSUME CertInv, NEW a \in CertAdmins, UpdateAsDefaultCertificate(a)
  PROVE  CertInv'
<1> DEFINE d == certReq[a].name
<1>1. certReq[a].at = "switch" /\ CertStep(a, NoCertReq) /\ extraFiles' = extraFiles
  BY Zenon DEF UpdateAsDefaultCertificate
<1>2. d \in CertNames
  BY <1>1, Zenon DEF CertInv, RequestSound
<1>3. /\ certReq' = [b \in CertAdmins |-> certReq'[b]]
      /\ \A b \in CertAdmins : RequestSound(certReq'[b])
  BY <1>1, RequestMoves, NoRequestSound, Zenon
<1>4. PICK first : certs' = MadeDefault(Cleared(certs, first), d)
  BY Zenon DEF UpdateAsDefaultCertificate
<1> DEFINE T == Cleared(certs, first)
<1>5. T = [n \in CertNames |-> T[n]] /\ \A n \in CertNames : Agrees(T, extraFiles, n)
  <2>1. certs = [n \in CertNames |-> certs[n]] /\ \A n \in CertNames : Agrees(certs, extraFiles, n)
    BY Zenon DEF CertInv
  <2>2. T = [n \in CertNames |-> T[n]]
    BY <1>2, <2>1, DefaultsTables, Zenon
  <2>3. ASSUME NEW n \in CertNames PROVE Agrees(T, extraFiles, n)
    BY <2>1, DefaultsMove, Zenon
  <2> QED
    BY <2>2, <2>3
<1> HIDE DEF T
<1>6. /\ MadeDefault(T, d) = [n \in CertNames |-> MadeDefault(T, d)[n]]
      /\ \A n \in CertNames : Agrees(MadeDefault(T, d), extraFiles, n)
  <2>1. MadeDefault(T, d) = [n \in CertNames |-> MadeDefault(T, d)[n]]
    BY <1>2, <1>5, DefaultsTables, Zenon
  <2>2. ASSUME NEW n \in CertNames PROVE Agrees(MadeDefault(T, d), extraFiles, n)
    BY <1>2, <1>5, DefaultsMove, Zenon
  <2> QED
    BY <2>1, <2>2
<1>7. certs' = MadeDefault(T, d)
  BY <1>4, Zenon DEF T
<1> QED
  BY <1>1, <1>3, <1>6, <1>7, Zenon DEF CertInv

\* Every step of every admin's request keeps CertInv.
LEMMA CertNextStep == ASSUME CertInv, [CertNext]_<<certVars, writes>> PROVE CertInv'
<1>1. CASE UNCHANGED <<certVars, writes>>
  BY <1>1, Zenon DEF certVars, CertInv
<1>2. ASSUME NEW a \in CertAdmins, NEW q, RequestSound(q), CertStep(a, q),
             UNCHANGED <<certs, extraFiles>>
      PROVE  CertInv'
  BY <1>2, RequestMoves, Zenon DEF CertInv
<1>3. ASSUME NEW a \in CertAdmins, NEW n \in CertNames, NEW c, NEW k, NEW d,
             CreateCertificate(a, n, c, k, d)
      PROVE  CertInv'
  <2> DEFINE q == [at |-> "create", name |-> n, cert |-> c, key |-> k,
                   isDefault |-> d, defaults |-> Defaults(certs)]
  <2>1. <<c, k>> \in CertPair /\ CertStep(a, q) /\ UNCHANGED <<certs, extraFiles>>
    BY <1>3, Zenon DEF CreateCertificate, validateCertPair
  <2>2. q.name = n /\ q.cert = c /\ q.key = k
    OBVIOUS
  <2> HIDE DEF q
  <2>3. RequestSound(q)
    BY <2>1, <2>2, Zenon DEF RequestSound
  <2> QED
    BY <1>2, <2>1, <2>3, Zenon
<1>4. ASSUME NEW a \in CertAdmins, NEW n \in CertNames, NEW op \in {"delete", "default"},
             FetchCertificate(a, op, n)
      PROVE  CertInv'
  <2> DEFINE q == [at |-> op, name |-> n, isDefault |-> Row(certs, n).isDefault]
  <2>1. CertStep(a, q) /\ UNCHANGED <<certs, extraFiles>>
    BY <1>4, Zenon DEF FetchCertificate
  <2>2. q.name = n /\ q.at = op
    OBVIOUS
  <2> HIDE DEF q
  <2>3. RequestSound(q)
    BY <2>2 DEF RequestSound
  <2> QED
    BY <1>2, <2>1, <2>3, Zenon
<1>5. ASSUME NEW a \in CertAdmins, DefaultBegins(a) PROVE CertInv'
  <2> DEFINE q == [at |-> "switch", name |-> certReq[a].name, defaults |-> Defaults(certs)]
  <2>1. certReq[a].at = "default" /\ CertStep(a, q) /\ UNCHANGED <<certs, extraFiles>>
    BY <1>5, Zenon DEF DefaultBegins
  <2>2. certReq[a].name \in CertNames
    BY <2>1, Zenon DEF CertInv, RequestSound
  <2>3. q.name = certReq[a].name /\ q.at = "switch"
    OBVIOUS
  <2> HIDE DEF q
  <2>4. RequestSound(q)
    BY <2>2, <2>3 DEF RequestSound
  <2> QED
    BY <1>2, <2>1, <2>4, Zenon
<1>6. ASSUME NEW a \in CertAdmins, DefaultAlready(a) PROVE CertInv'
  BY <1>2, <1>6, NoRequestSound, Zenon DEF DefaultAlready
<1> QED
  BY <1>1, <1>3, <1>4, <1>5, <1>6, CertCreated, CertDeleted, CertSwitched, Zenon DEF CertNext

\* For any names, contents and number of admins whose requests overlap: the data plane
\* can fetch both files of every exported certificate, they belong together, and no
\* file of a deleted certificate is left (CreateCertificate, DeleteCertificate,
\* UpdateAsDefaultCertificate, certificateGenerator).
THEOREM ExportedFilesServed == CertSpec => []ExportedPairsServed
<1>1. CertInit => CertInv
  <2> SUFFICES ASSUME CertInit PROVE CertInv
    OBVIOUS
  <2>1. certs = [n \in CertNames |-> {}] /\ extraFiles = [f \in FilePaths |-> {}]
        /\ certReq = [a \in CertAdmins |-> NoCertReq]
    BY Zenon DEF CertInit, EmptyTable, FilePaths
  <2>2. /\ certs = [n \in CertNames |-> certs[n]] /\ extraFiles = [f \in FilePaths |-> extraFiles[f]]
        /\ certReq = [a \in CertAdmins |-> certReq[a]]
    BY <2>1
  <2>3. ASSUME NEW n \in CertNames PROVE Agrees(certs, extraFiles, n)
    <3>1. CertFilePath(n) \in FilePaths /\ KeyFilePath(n) \in FilePaths
      BY PathsDistinct, Zenon
    <3> QED
      BY <2>1, <3>1, Zenon DEF Agrees
  <2>4. \A a \in CertAdmins : RequestSound(certReq[a])
    BY <2>1, NoRequestSound, Zenon
  <2> QED
    BY <2>2, <2>3, <2>4, Zenon DEF CertInv
<1>2. CertInv /\ [CertNext]_<<certVars, writes>> => CertInv'
  BY CertNextStep, Zenon
<1>3. CertInv => ExportedPairsServed
  <2> SUFFICES ASSUME CertInv PROVE ExportedPairsServed
    OBVIOUS
  <2> DEFINE D == {m \in CertNames : Exists(certs, m)}
             conf == [n \in D |-> <<Row(certs, n).certFile, Row(certs, n).keyFile>>]
  <2>1. certificateGenerator.certConf = conf
    BY DEF certificateGenerator
  <2>2. DOMAIN conf = D /\ \A n \in D : /\ conf[n][1] = Row(certs, n).certFile
                                        /\ conf[n][2] = Row(certs, n).keyFile
    OBVIOUS
  <2> HIDE DEF conf
  <2>3. ASSUME NEW n \in D
        PROVE  \E c \in extraFiles[conf[n][1]], k \in extraFiles[conf[n][2]] : <<c, k>> \in CertPair
    <3>1. n \in CertNames /\ certs[n] # {}
      BY Zenon DEF Exists
    <3>2. PICK r, c, k : /\ certs[n] = {r} /\ CertRowOf(r, n) /\ <<c, k>> \in CertPair
                         /\ extraFiles[CertFilePath(n)] = {c} /\ extraFiles[KeyFilePath(n)] = {k}
      BY <3>1, Zenon DEF CertInv, Agrees
    <3>3. Row(certs, n) = r
      BY <3>2, Zenon DEF Row
    <3>4. conf[n][1] = CertFilePath(n) /\ conf[n][2] = KeyFilePath(n)
      BY <2>2, <3>2, <3>3, Zenon DEF CertRowOf
    <3> QED
      BY <3>2, <3>4, Zenon
  <2>4. ASSUME NEW n \in CertNames \ D
        PROVE  extraFiles[CertFilePath(n)] = {} /\ extraFiles[KeyFilePath(n)] = {}
    <3>1. n \in CertNames /\ certs[n] = {}
      BY Zenon DEF Exists
    <3> QED
      BY <3>1, Zenon DEF CertInv, Agrees
  <2> QED
    BY <2>1, <2>2, <2>3, <2>4, Zenon DEF ExportedPairsServed
<1> QED
  BY <1>1, <1>2, <1>3, PTL DEF CertSpec

-----------------------------------------------------------------------------
(* Access: the whitelist.                                                  *)

\* sort.SliceStable: rule i is not after rule j in the compiled order.
Precedes(rs, i, j) ==
    \/ Len(rs[i].prefix) > Len(rs[j].prefix)
    \/ Len(rs[i].prefix) = Len(rs[j].prefix) /\ i <= j

RuleRecords == [prefix : Seq(STRING), nets : SUBSET Addresses, audit : BOOLEAN]
SectionRules == Seq(RuleRecords)

\* The compiled order is a total order of the rules of a section.
LEMMA RulesOrdered ==
  ASSUME NEW rs \in SectionRules
  PROVE  /\ IsFiniteSet(DOMAIN rs) /\ DOMAIN rs \subseteq Nat
         /\ \A i \in DOMAIN rs : Precedes(rs, i, i)
         /\ \A i, j \in DOMAIN rs : Precedes(rs, i, j) \/ Precedes(rs, j, i)
         /\ \A i, j \in DOMAIN rs : Precedes(rs, i, j) /\ Precedes(rs, j, i) => i = j
         /\ \A i, j, k \in DOMAIN rs : Precedes(rs, i, j) /\ Precedes(rs, j, k) => Precedes(rs, i, k)
<1>1. DOMAIN rs = 1..Len(rs) /\ Len(rs) \in Nat
  BY DEF SectionRules
<1>2. \A i \in DOMAIN rs : Len(rs[i].prefix) \in Nat /\ i \in Nat
  <2>1. \A i \in DOMAIN rs : rs[i] \in RuleRecords
    BY <1>1 DEF SectionRules
  <2>2. \A i \in DOMAIN rs : rs[i].prefix \in Seq(STRING)
    BY <2>1, Zenon DEF RuleRecords
  <2> QED
    BY <1>1, <2>2
<1> DEFINE len(i) == Len(rs[i].prefix)
<1>3. \A i \in DOMAIN rs : len(i) \in Nat /\ i \in Nat
  BY <1>2
<1>4. \A i, j \in DOMAIN rs : Precedes(rs, i, j) <=> (len(i) > len(j) \/ (len(i) = len(j) /\ i <= j))
  BY DEF Precedes
<1> HIDE DEF len
<1>5. IsFiniteSet(DOMAIN rs)
  BY <1>1, FS_Interval
<1>6. \A i \in DOMAIN rs : Precedes(rs, i, i)
  BY <1>3, <1>4
<1>7. \A i, j \in DOMAIN rs : Precedes(rs, i, j) \/ Precedes(rs, j, i)
  BY <1>3, <1>4
<1>8. \A i, j \in DOMAIN rs : Precedes(rs, i, j) /\ Precedes(rs, j, i) => i = j
  BY <1>3, <1>4
<1>9. \A i, j, k \in DOMAIN rs : Precedes(rs, i, j) /\ Precedes(rs, j, k) => Precedes(rs, i, k)
  BY <1>3, <1>4
<1> QED
  BY <1>3, <1>5, <1>6, <1>7, <1>8, <1>9, Zenon

\* A rule that comes before another one has a smaller place.
LEMMA PlacesOrdered ==
  ASSUME NEW rs \in SectionRules, NEW i \in DOMAIN rs, NEW j \in DOMAIN rs
  PROVE  /\ SortedAt(rs, i) \in DOMAIN rs
         /\ Precedes(rs, i, j) => SortedAt(rs, i) <= SortedAt(rs, j)
         /\ SortedAt(rs, i) = SortedAt(rs, j) => i = j
<1> DEFINE upTo(k) == {m \in DOMAIN rs : Precedes(rs, m, k)}
           size(k) == Cardinality(upTo(k))
<1>1. \A k \in DOMAIN rs : SortedAt(rs, k) = size(k)
  BY Zenon DEF SortedAt, Precedes
<1>2. \A k \in DOMAIN rs : upTo(k) \in SUBSET DOMAIN rs /\ k \in upTo(k)
  BY RulesOrdered, Zenon
<1>3. \A k \in DOMAIN rs : IsFiniteSet(upTo(k)) /\ size(k) <= Cardinality(DOMAIN rs)
  BY <1>2, RulesOrdered, FS_Subset, Zenon
<1>4. \A k, m \in DOMAIN rs : Precedes(rs, k, m) => upTo(k) \in SUBSET upTo(m)
  BY RulesOrdered, Zenon
<1>5. \A k, m \in DOMAIN rs : Precedes(rs, k, m) =>
         size(k) <= size(m) /\ (size(m) = size(k) => upTo(m) = upTo(k))
  BY <1>3, <1>4, FS_Subset, Zenon
<1>6. \A k, m \in DOMAIN rs : Precedes(rs, k, m) /\ size(m) = size(k) => k = m
  <2> SUFFICES ASSUME NEW k \in DOMAIN rs, NEW m \in DOMAIN rs, Precedes(rs, k, m), upTo(m) = upTo(k)
               PROVE  k = m
    BY <1>5, Zenon
  <2>1. m \in upTo(k)
    BY <1>2, Zenon
  <2> QED
    BY <2>1, RulesOrdered, Zenon
<1>7. size(i) = size(j) => i = j
  BY <1>6, RulesOrdered, Zenon
<1>8. size(i) \in DOMAIN rs
  <2>1. size(i) \in Nat
    BY <1>3, FS_CardinalityType, Zenon
  <2>2. size(i) # 0
    BY <1>2, <1>3, FS_EmptySet, Zenon
  <2>3. DOMAIN rs = 1..Len(rs) /\ Len(rs) \in Nat
    BY DEF SectionRules
  <2>4. Cardinality(DOMAIN rs) = Len(rs)
    <3>1. Cardinality(1..Len(rs)) = IF 1 > Len(rs) THEN 0 ELSE Len(rs) - 1 + 1
      BY <2>3, FS_Interval
    <3> QED
      BY <3>1, <2>3
  <2>5. size(i) <= Len(rs)
    BY <1>3, <2>4, Zenon
  <2> HIDE DEF size
  <2> QED
    BY <2>1, <2>2, <2>3, <2>5
<1>9. SortedAt(rs, i) = size(i) /\ SortedAt(rs, j) = size(j)
  BY <1>1, Zenon
<1>10. Precedes(rs, i, j) => size(i) <= size(j)
  BY <1>5, Zenon
<1> HIDE DEF size
<1> QED
  BY <1>7, <1>8, <1>9, <1>10, Zenon

\* Every place of the compiled section holds a rule of the section: the one that sorts there.
LEMMA PlacesFilled ==
  ASSUME NEW rs \in SectionRules, NEW k \in DOMAIN rs
  PROVE  \E i \in DOMAIN rs : SortedAt(rs, i) = k
<1> DEFINE f == [i \in DOMAIN rs |-> SortedAt(rs, i)]
<1>1. f \in Injection(DOMAIN rs, DOMAIN rs)
  BY PlacesOrdered, Zenon DEF Injection, IsInjective
<1>2. f \in Surjection(DOMAIN rs, DOMAIN rs)
  BY <1>1, RulesOrdered, FS_Injection, Zenon
<1> QED
  BY <1>2, Zenon DEF Surjection

LEMMA LeastNat ==
  ASSUME NEW T \in SUBSET Nat, T # {}
  PROVE  \E x \in T : \A y \in T : x <= y
<1>1. \E x \in T : \A y \in T : ~ (<<y, x>> \in OpToRel(<, Nat))
  BY WFMin, NatLessThanWellFounded, Zenon
<1>2. PICK x \in T : \A y \in T : ~ (y < x)
  BY <1>1, Zenon DEF OpToRel
<1> QED
  BY <1>2

\* matchRule on the compiled section finds the rule with the longest matching
\* prefix, the first of the section among equals.
LEMMA MatchIsLongest ==
  ASSUME NEW conf \in AccessConfs, NEW path
  PROVE  matchRule(CompileAccessControl(conf), path) = {conf.rules[i] : i \in Longest(conf, path)}
<1> DEFINE rs == conf.rules
           at(k) == CHOOSE i \in DOMAIN rs : SortedAt(rs, i) = k
           hit(i) == IsPrefixOf(rs[i].prefix, path)
           hits == {k \in DOMAIN rs : hit(at(k))}
<1>1. rs \in SectionRules
  BY AccessAssumption, Zenon DEF SectionRules, RuleRecords
<1>2. \A k \in DOMAIN rs : at(k) \in DOMAIN rs /\ SortedAt(rs, at(k)) = k
  BY <1>1, PlacesFilled, Zenon
<1>3. \A i \in DOMAIN rs : SortedAt(rs, i) \in DOMAIN rs /\ at(SortedAt(rs, i)) = i
  <2> SUFFICES ASSUME NEW i \in DOMAIN rs
               PROVE  SortedAt(rs, i) \in DOMAIN rs /\ at(SortedAt(rs, i)) = i
    BY Zenon
  <2> DEFINE back == at(SortedAt(rs, i))
  <2>1. SortedAt(rs, i) \in DOMAIN rs
    BY <1>1, PlacesOrdered, Zenon
  <2>2. back \in DOMAIN rs /\ SortedAt(rs, back) = SortedAt(rs, i)
    BY <1>2, <2>1, Zenon
  <2> HIDE DEF back
  <2>3. back = i
    BY <1>1, <2>2, PlacesOrdered, Zenon
  <2> QED
    BY <2>1, <2>3, Zenon DEF back
<1>4. Longest(conf, path) =
        {i \in DOMAIN rs : hit(i) /\ \A j \in DOMAIN rs : hit(j) => Precedes(rs, i, j)}
  <2>1. \A i, j \in DOMAIN rs : Precedes(rs, i, j) <=>
          \/ Len(rs[j].prefix) < Len(rs[i].prefix)
          \/ Len(rs[j].prefix) = Len(rs[i].prefix) /\ i <= j
    BY DEF Precedes
  <2> QED
    BY <2>1, Zenon DEF Longest
<1>5. CompileAccessControl(conf).rules = [k \in DOMAIN rs |-> rs[at(k)]]
  BY Zenon DEF CompileAccessControl, SortRules
<1>6. matchRule(CompileAccessControl(conf), path) =
        IF hits = {} THEN {} ELSE {rs[at(CHOOSE k \in hits : \A j \in hits : k <= j)]}
  <2> DEFINE sorted == CompileAccessControl(conf).rules
             found == {k \in DOMAIN sorted : IsPrefixOf(sorted[k].prefix, path)}
  <2>1. DOMAIN sorted = DOMAIN rs /\ \A k \in DOMAIN rs : sorted[k] = rs[at(k)]
    BY <1>5, Zenon
  <2>2. found = hits
    BY <2>1, Zenon
  <2>3. matchRule(CompileAccessControl(conf), path) =
          IF found = {} THEN {} ELSE {sorted[CHOOSE k \in found : \A j \in found : k <= j]}
    BY Zenon DEF matchRule
  <2> HIDE DEF found, sorted, at, hit
  <2>4. matchRule(CompileAccessControl(conf), path) =
          IF hits = {} THEN {} ELSE {sorted[CHOOSE k \in hits : \A j \in hits : k <= j]}
    BY <2>2, <2>3, Zenon
  <2>5. hits # {} => (CHOOSE k \in hits : \A j \in hits : k <= j) \in DOMAIN rs
    <3>1. hits \in SUBSET Nat
      BY <1>1, RulesOrdered, Zenon
    <3> QED
      BY <3>1, LeastNat, Zenon
  <2> QED
    BY <2>1, <2>4, <2>5, Zenon
<1> HIDE DEF at, hit
<1>7. CASE hits = {}
  <2>1. \A i \in DOMAIN rs : ~ hit(i)
    BY <1>3, <1>7, Zenon
  <2> QED
    BY <2>1, <1>4, <1>6, <1>7, Zenon
<1>8. CASE hits # {}
  <2> DEFINE k == CHOOSE x \in hits : \A j \in hits : x <= j
  <2>1. hits \in SUBSET Nat
    BY <1>1, RulesOrdered, Zenon
  <2>2. k \in hits /\ \A j \in hits : k <= j
    BY <2>1, <1>8, LeastNat, Zenon
  <2> HIDE DEF k
  <2>3. at(k) \in DOMAIN rs /\ hit(at(k)) /\ SortedAt(rs, at(k)) = k
    BY <2>2, <1>2, Zenon
  <2>4. \A j \in DOMAIN rs : hit(j) => Precedes(rs, at(k), j)
    <3> SUFFICES ASSUME NEW j \in DOMAIN rs, hit(j) PROVE Precedes(rs, at(k), j)
      OBVIOUS
    <3>1. SortedAt(rs, j) \in hits
      BY <1>3, Zenon
    <3>2. k <= SortedAt(rs, j)
      BY <2>2, <3>1, Zenon
    <3>3. CASE Precedes(rs, j, at(k))
      <4>1. SortedAt(rs, j) <= k
        BY <3>3, <2>3, <1>1, PlacesOrdered, Zenon
      <4>2. SortedAt(rs, j) \in Nat /\ k \in Nat
        BY <3>1, <2>1, <2>2, Zenon
      <4>3. SortedAt(rs, j) = k
        <5>1. \A x, y \in Nat : x <= y /\ y <= x => x = y
          OBVIOUS
        <5> QED
          BY <4>1, <4>2, <3>2, <5>1, Zenon
      <4>4. j = at(k)
        BY <4>3, <1>3, Zenon
      <4> QED
        BY <4>4, <3>3, Zenon
    <3> QED
      BY <3>3, <2>3, <1>1, RulesOrdered, Zenon
  <2>5. Longest(conf, path) = {at(k)}
    <3>1. at(k) \in Longest(conf, path)
      BY <2>3, <2>4, <1>4, Zenon
    <3>2. ASSUME NEW i \in Longest(conf, path) PROVE i = at(k)
      <4>1. i \in DOMAIN rs /\ hit(i) /\ Precedes(rs, i, at(k))
        BY <3>2, <2>3, <1>4, Zenon
      <4>2. Precedes(rs, at(k), i)
        BY <4>1, <2>4, Zenon
      <4> QED
        BY <4>1, <4>2, <2>3, <1>1, RulesOrdered, Zenon
    <3> QED
      BY <3>1, <3>2, Zenon
  <2>6. matchRule(CompileAccessControl(conf), path) = {rs[at(k)]}
    BY <1>6, <1>8, Zenon DEF k
  <2> QED
    BY <2>5, <2>6, Zenon
<1> QED
  BY <1>7, <1>8, Zenon

\* IPProbeAction on a compiled section answers by the longest matching prefix.
LEMMA ProbeByLongest ==
  ASSUME NEW conf \in AccessConfs, NEW path, NEW ip
  PROVE  IPProbeAction(CompileAccessControl(conf), path, ip) <=>
            (conf.enable => \A i \in Longest(conf, path) :
                ip \in conf.rules[i].nets \/ conf.rules[i].audit)
<1>1. CompileAccessControl(conf).enabled = conf.enable
  BY Zenon DEF CompileAccessControl
<1>2. (\A r \in matchRule(CompileAccessControl(conf), path) : ip \in r.nets \/ r.audit)
        <=> \A i \in Longest(conf, path) : ip \in conf.rules[i].nets \/ conf.rules[i].audit
  <2>1. \A r : r \in matchRule(CompileAccessControl(conf), path)
              <=> \E i \in Longest(conf, path) : r = conf.rules[i]
    <3>1. matchRule(CompileAccessControl(conf), path) = {conf.rules[i] : i \in Longest(conf, path)}
      BY MatchIsLongest
    <3> QED
      BY <3>1, Zenon
  <2> DEFINE M == matchRule(CompileAccessControl(conf), path)
             L == Longest(conf, path)
             ok(r) == ip \in r.nets \/ r.audit
  <2>2. \A r : r \in M <=> \E i \in L : r = conf.rules[i]
    BY <2>1, Zenon
  <2> HIDE DEF M, L, ok
  <2>3. (\A r \in M : ok(r)) <=> \A i \in L : ok(conf.rules[i])
    BY <2>2, Zenon
  <2> QED
    BY <2>3, Zenon DEF M, L, ok
<1> QED
  BY <1>1, <1>2, Zenon DEF IPProbeAction

-----------------------------------------------------------------------------
(* Access: accounts.                                                       *)

VisitStates ==
    [scopes : SUBSET {System, SystemReadonly, Support},
     name : Usernames \cup TokenNames \cup {""}, op : {"none", "arrived", "role"},
     seen : 0..MaxKeys + MaxAccessWrites]
LoginStates == {NoLogin} \cup [name : Usernames, with : Passwords, row : {{r} : r \in UserRow}]

\* A table of users: none or one row under a name.
UserTables == [Usernames -> {{}} \cup {{r} : r \in UserRow}]

TokenTables == [TokenNames -> {{}} \cup {{r} : r \in TokenRow}]

CountsTyped == drawn \in 0..MaxKeys /\ writes \in 0..MaxAccessWrites
VisitsTyped ==
    /\ visits \in [Clients -> VisitStates]
    /\ \A c \in Clients : visits[c].op = "role" => visits[c].name \in Usernames

\* The whitelist in force was compiled from a section that compiles.
CompiledInForce ==
    \E conf \in AccessConfs : Compiles(conf) /\ whitelist = CompileAccessControl(conf)

AccessInv ==
    /\ users \in UserTables /\ confirmed \in [Usernames -> SUBSET Passwords]
    /\ tokens \in TokenTables /\ logins \in [Clients -> LoginStates]
    /\ CountsTyped /\ VisitsTyped /\ confFile \in AccessConfs
    /\ CompiledInForce /\ BuiltInStaysAdmin

\* No row holds its password in clear, and no login has read one that does.
RowsHashed == \A n \in Usernames : \A r \in users[n] : r.password.hashed
LoginsHashed == \A c \in Clients : logins[c] # NoLogin => \A r \in logins[c].row : r.password.hashed

HashedInv == AccessInv /\ RowsHashed /\ LoginsHashed /\ PasswordChangeKept

\* A name without and a name with a row.
LEMMA UserFound ==
  ASSUME NEW table \in UserTables, NEW n \in Usernames
  PROVE  /\ ~Exists(table, n) => table[n] = {}
         /\ Exists(table, n) => Row(table, n) \in UserRow /\ table[n] = {Row(table, n)}
<1>1. table[n] = {} \/ \E r \in UserRow : table[n] = {r}
  BY Zenon DEF UserTables
<1>2. ASSUME NEW r \in UserRow, table[n] = {r} PROVE Row(table, n) = r
  <2>1. Row(table, n) \in table[n]
    BY <1>2, Zenon DEF Row
  <2> QED
    BY <1>2, <2>1, Zenon
<1>3. \A r \in UserRow : table[n] = {r} => Row(table, n) = r
  BY <1>2, Zenon
<1>4. table[n] # {} => Row(table, n) \in UserRow /\ table[n] = {Row(table, n)}
  BY <1>1, <1>3, Zenon
<1> QED
  BY <1>4, Zenon DEF Exists

\* A row is stored under a name.
LEMMA UserStored ==
  ASSUME users \in UserTables, NEW n \in Usernames, NEW r \in UserRow, users' = [users EXCEPT ![n] = {r}]
  PROVE  /\ users' \in UserTables
         /\ \A m \in Usernames : users'[m] = IF m = n THEN {r} ELSE users[m]
<1>1. users \in [Usernames -> {{}} \cup {{x} : x \in UserRow}]
  BY Zenon DEF UserTables
<1>2. {r} \in {{}} \cup {{x} : x \in UserRow}
  BY Zenon
<1>3. users' \in [Usernames -> {{}} \cup {{x} : x \in UserRow}]
  BY <1>1, <1>2, Zenon
<1>4. \A m \in Usernames : users'[m] = IF m = n THEN {r} ELSE users[m]
  BY <1>1, Zenon
<1> QED
  BY <1>3, <1>4, Zenon DEF UserTables

\* The row of a name is removed.
LEMMA UserGone ==
  ASSUME users \in UserTables, NEW n \in Usernames, users' = [users EXCEPT ![n] = {}]
  PROVE  /\ users' \in UserTables
         /\ \A m \in Usernames : users'[m] = IF m = n THEN {} ELSE users[m]
<1>1. users \in [Usernames -> {{}} \cup {{x} : x \in UserRow}]
  BY Zenon DEF UserTables
<1>2. {} \in {{}} \cup {{x} : x \in UserRow}
  BY Zenon
<1>3. users' \in [Usernames -> {{}} \cup {{x} : x \in UserRow}]
  BY <1>1, <1>2, Zenon
<1>4. \A m \in Usernames : users'[m] = IF m = n THEN {} ELSE users[m]
  BY <1>1, Zenon
<1> QED
  BY <1>3, <1>4, Zenon DEF UserTables

\* The rows that a logout, a change of the password and one of the role store, from
\* the row that is stored now.
LEMMA NoKey == 0 \in 0..MaxKeys
  BY AccessAssumption

LEMMA LoggedOut ==
  ASSUME NEW r \in UserRow
  PROVE  /\ [r EXCEPT !.session = 0] \in UserRow
         /\ [r EXCEPT !.session = 0].scopes = r.scopes
         /\ [r EXCEPT !.session = 0].password = r.password
  BY NoKey DEF UserRow

LEMMA PasswordGiven ==
  ASSUME NEW r \in UserRow, NEW w \in [of : Passwords, hashed : BOOLEAN]
  PROVE  /\ [r EXCEPT !.password = w, !.session = 0] \in UserRow
         /\ [r EXCEPT !.password = w, !.session = 0].scopes = r.scopes
         /\ [r EXCEPT !.password = w, !.session = 0].password = w
  BY NoKey, Zenon DEF UserRow

LEMMA RoleGiven ==
  ASSUME NEW r \in UserRow, NEW s \in SUBSET {System, SystemReadonly}
  PROVE  /\ [r EXCEPT !.scopes = s] \in UserRow
         /\ [r EXCEPT !.scopes = s].scopes = s
         /\ [r EXCEPT !.scopes = s].password = r.password
  BY DEF UserRow

-----------------------------------------------------------------------------
(* Access: what one step makes of the accounts.                            *)

\* A row is stored as it was confirmed, hashed; or its password stays, where no
\* password in clear is involved; the built-in user keeps its scope.
StoredRow(n, r) ==
    /\ users' = [users EXCEPT ![n] = {r}]
    /\ n = "admin" => r.scopes = {System}
    /\ \/ confirmed' = [confirmed EXCEPT ![n] = {r.password.of}] /\ r.password.hashed
       \/ /\ confirmed' = confirmed /\ Exists(users, n)
          /\ RowsHashed /\ LoginsHashed => r.password = Row(users, n).password

AccountStep ==
    \/ users' = users /\ confirmed' = confirmed
    \/ \E n \in Usernames : users' = [users EXCEPT ![n] = {}] /\ confirmed' = [confirmed EXCEPT ![n] = {}]
    \/ \E n \in Usernames, r \in UserRow : StoredRow(n, r)

\* A step keeps the types of the rest, and a login it leaves open read hashed rows
\* if the rows are hashed.
AccessStep ==
    /\ AccountStep
    /\ tokens' \in TokenTables /\ logins' \in [Clients -> LoginStates]
    /\ CountsTyped' /\ VisitsTyped' /\ confFile' \in AccessConfs /\ CompiledInForce'
    /\ RowsHashed /\ LoginsHashed => LoginsHashed'

\* A request moves on.
LEMMA VisitMoves ==
  ASSUME VisitsTyped, NEW c \in Clients, NEW v \in VisitStates,
         v.op = "role" => v.name \in Usernames, visits' = [visits EXCEPT ![c] = v]
  PROVE  VisitsTyped'
<1>1. \A d \in Clients : visits'[d] = IF d = c THEN v ELSE visits[d]
  BY Zenon DEF VisitsTyped
<1>2. visits' \in [Clients -> VisitStates]
  BY Zenon DEF VisitsTyped
<1> QED
  BY <1>1, <1>2, Zenon DEF VisitsTyped

LEMMA NoVisitTyped == NoVisit \in VisitStates /\ NoVisit.op # "role"
<1>1. 0 \in 0..MaxKeys + MaxAccessWrites
  BY AccessAssumption
<1> QED
  BY <1>1 DEF NoVisit, VisitStates

LEMMA VisitEnds ==
  ASSUME VisitsTyped, NEW c \in Clients, visits' = [visits EXCEPT ![c] = NoVisit]
  PROVE  VisitsTyped'
  BY NoVisitTyped, VisitMoves, Zenon

\* Counting a write, and a key.
LEMMA Counted ==
  ASSUME CountsTyped
  PROVE  /\ drawn' = drawn /\ writes' = writes => CountsTyped'
         /\ drawn' = drawn /\ Write(MaxAccessWrites) => CountsTyped'
         /\ Draw /\ Write(MaxAccessWrites) => CountsTyped' /\ drawn' \in 1..MaxKeys
  BY AccessAssumption DEF CountsTyped, Write, Draw

\* A login is opened or closed.
LEMMA LoginMoves ==
  ASSUME logins \in [Clients -> LoginStates], NEW c \in Clients, NEW l \in LoginStates,
         logins' = [logins EXCEPT ![c] = l]
  PROVE  /\ logins' \in [Clients -> LoginStates]
         /\ LoginsHashed /\ (l # NoLogin => \A r \in l.row : r.password.hashed) => LoginsHashed'
<1>1. \A d \in Clients : logins'[d] = IF d = c THEN l ELSE logins[d]
  BY Zenon
<1>2. logins' \in [Clients -> LoginStates]
  BY Zenon
<1> QED
  BY <1>1, <1>2, Zenon DEF LoginsHashed

LEMMA LoginReadStep ==
  ASSUME AccessInv, NEW c \in Clients, NEW n \in Usernames, NEW p \in Passwords, LoginRead(c, n, p)
  PROVE  AccessStep
<1> DEFINE l == [name |-> n, with |-> p, row |-> users[n]]
<1>1. users[n] \in {{r} : r \in UserRow}
  BY UserFound, Zenon DEF AccessInv, LoginRead
<1>2. l \in LoginStates /\ l.row = users[n]
  BY <1>1, Zenon DEF LoginStates
<1>3. logins' = [logins EXCEPT ![c] = l]
  BY Zenon DEF LoginRead
<1> HIDE DEF l
<1>4. logins' \in [Clients -> LoginStates] /\ (RowsHashed /\ LoginsHashed => LoginsHashed')
  BY <1>2, <1>3, LoginMoves, Zenon DEF AccessInv, RowsHashed
<1>5. VisitsTyped' /\ CountsTyped' /\ CompiledInForce'
  BY Counted, Zenon DEF AccessInv, VisitsTyped, CompiledInForce, LoginRead
<1> QED
  BY <1>4, <1>5, Zenon DEF AccessStep, AccountStep, AccessInv, LoginRead

LEMMA LoginStep ==
  ASSUME AccessInv, NEW c \in Clients, authTypePassword(c)
  PROVE  AccessStep
<1> DEFINE l == logins[c]
           read == CHOOSE r \in l.row : TRUE
           now == Row(users, l.name)
           kept == PasswordToWrite(read, l.with, now.password)
           row == [now EXCEPT !.session = drawn', !.password = kept]
<1>1. /\ l # NoLogin /\ Write(MaxAccessWrites) /\ Draw
      /\ IF Exists(users, l.name) THEN UpdateUser(l.name, read.id, row) ELSE users' = users
      /\ logins' = [logins EXCEPT ![c] = NoLogin]
      /\ tokens' = tokens /\ visits' = visits /\ whitelist' = whitelist
      /\ confFile' = confFile /\ confirmed' = confirmed
  BY DEF authTypePassword
<1>2. l.name \in Usernames /\ l.with \in Passwords /\ \E r \in UserRow : l.row = {r}
  BY <1>1, Zenon DEF AccessInv, LoginStates
<1>3. read \in l.row /\ read \in UserRow
  BY <1>2, Zenon
<1>4. CountsTyped' /\ drawn' \in 1..MaxKeys
  BY <1>1, Counted, Zenon DEF AccessInv
<1>5. AccountStep
  <2>1. CASE users' = users
    BY <1>1, <2>1, Zenon DEF AccountStep
  <2>2. CASE users' # users
    <3>1. Exists(users, l.name) /\ users' = [users EXCEPT ![l.name] = {row}]
      BY <1>1, <2>2, Zenon DEF UpdateUser
    <3>2. now \in UserRow /\ users[l.name] = {now}
      BY <1>2, <3>1, UserFound, Zenon DEF AccessInv
    <3>3. now.password \in [of : Passwords, hashed : BOOLEAN]
      BY <3>2, Zenon DEF UserRow
    <3>4. kept \in [of : Passwords, hashed : BOOLEAN]
      BY <3>3, <1>2, Zenon DEF PasswordToWrite
    <3>5. drawn' \in 0..MaxKeys
      BY <1>4 DEF CountsTyped
    <3>6. row \in UserRow /\ row.scopes = now.scopes /\ row.password = kept
      <4>1. PICK k \in 0..MaxKeys : drawn' = k
        BY <3>5, Zenon
      <4>2. row = [now EXCEPT !.session = k, !.password = kept]
        BY <4>1, Zenon
      <4> HIDE DEF kept, now, row
      <4> QED
        BY <3>2, <3>4, <4>1, <4>2, Zenon DEF UserRow
    <3>7. l.name = "admin" => now.scopes = {System}
      BY <3>2, Zenon DEF AccessInv, BuiltInStaysAdmin
    <3>8. LoginsHashed => kept = now.password
      <4>1. LoginsHashed => read.password.hashed
        BY <1>1, <1>3, Zenon DEF LoginsHashed
      <4> QED
        BY <4>1, Zenon DEF PasswordToWrite, needMigrate
    <3> HIDE DEF row, kept, now
    <3>9. StoredRow(l.name, row)
      BY <1>1, <3>1, <3>6, <3>7, <3>8, Zenon DEF StoredRow, now
    <3> QED
      BY <1>2, <3>6, <3>9, Zenon DEF AccountStep
  <2> QED
    BY <2>1, <2>2, Zenon
<1>6. logins' \in [Clients -> LoginStates] /\ (RowsHashed /\ LoginsHashed => LoginsHashed')
  BY <1>1, LoginMoves, Zenon DEF AccessInv, LoginStates
<1>7. VisitsTyped' /\ CompiledInForce'
  BY <1>1, Zenon DEF AccessInv, VisitsTyped, CompiledInForce
<1> QED
  BY <1>1, <1>4, <1>5, <1>6, <1>7, Zenon DEF AccessStep, AccessInv

LEMMA LogoutStep ==
  ASSUME AccessInv, NEW n \in Usernames, DestroySessionKey(n)
  PROVE  AccessStep
<1> DEFINE now == Row(users, n)
           row == [now EXCEPT !.session = 0]
<1>1. now \in UserRow /\ users[n] = {now} /\ Exists(users, n)
  BY UserFound, Zenon DEF AccessInv, DestroySessionKey
<1>2. users' = [users EXCEPT ![n] = {[r EXCEPT !.session = 0] : r \in {now}}]
  BY <1>1, Zenon DEF DestroySessionKey
<1> HIDE DEF now
<1>3. users' = [users EXCEPT ![n] = {row}]
  BY <1>2, Zenon
<1>4. row \in UserRow /\ row.scopes = now.scopes /\ row.password = now.password
  BY <1>1, LoggedOut, Zenon
<1>5. n = "admin" => now.scopes = {System}
  BY <1>1, Zenon DEF AccessInv, BuiltInStaysAdmin
<1> HIDE DEF row
<1>6. StoredRow(n, row)
  BY <1>1, <1>3, <1>4, <1>5, Zenon DEF StoredRow, now, DestroySessionKey
<1>7. CountsTyped'
  BY Counted, Zenon DEF AccessInv, DestroySessionKey
<1>8. VisitsTyped' /\ CompiledInForce' /\ (LoginsHashed => LoginsHashed')
  BY Zenon DEF AccessInv, VisitsTyped, CompiledInForce, LoginsHashed, DestroySessionKey
<1> QED
  BY <1>4, <1>6, <1>7, <1>8, Zenon DEF AccessStep, AccountStep, AccessInv, DestroySessionKey

\* A step that only moves a request on.
LEMMA RequestStep ==
  ASSUME AccessInv, VisitsTyped',
         UNCHANGED <<users, tokens, drawn, logins, whitelist, confFile, confirmed, writes>>
  PROVE  AccessStep
<1>1. CountsTyped' /\ CompiledInForce' /\ (LoginsHashed => LoginsHashed')
  BY Zenon DEF AccessInv, CountsTyped, CompiledInForce, LoginsHashed
<1> QED
  BY <1>1, Zenon DEF AccessStep, AccountStep, AccessInv

LEMMA ProbeStep ==
  ASSUME AccessInv, NEW c \in Clients, NEW path, NEW ip, UserProbeAction(c, path, ip)
  PROVE  AccessStep
<1>1. PICK v \in Visitors :
        visits' = [visits EXCEPT ![c] = [NoVisit EXCEPT !.scopes = v.scopes, !.name = v.name,
                                                        !.op = "arrived"]]
  BY Zenon DEF UserProbeAction
<1>2. v.scopes \in SUBSET {System, SystemReadonly, Support} /\ v.name \in Usernames \cup TokenNames
  <2>1. CASE \E n \in Usernames : Exists(users, n) /\ v = [scopes |-> Row(users, n).scopes, name |-> n]
    <3>1. PICK n \in Usernames : Exists(users, n) /\ v = [scopes |-> Row(users, n).scopes, name |-> n]
      BY <2>1, Zenon
    <3>2. Row(users, n) \in UserRow
      BY <3>1, UserFound, Zenon DEF AccessInv
    <3>3. Row(users, n).scopes \in SUBSET {System, SystemReadonly}
      BY <3>2, Zenon DEF UserRow
    <3> QED
      BY <3>1, <3>3, Zenon
  <2>2. CASE \E t \in TokenNames : Exists(tokens, t) /\ v = [scopes |-> {Row(tokens, t).scope}, name |-> t]
    <3>1. PICK t \in TokenNames : Exists(tokens, t) /\ v = [scopes |-> {Row(tokens, t).scope}, name |-> t]
      BY <2>2, Zenon
    <3>2. PICK r \in TokenRow : tokens[t] = {r}
      BY <3>1, Zenon DEF AccessInv, TokenTables, Exists
    <3>3. Row(tokens, t) \in tokens[t]
      BY <3>2, Zenon DEF Row
    <3>4. Row(tokens, t).scope \in {System, Support}
      BY <3>2, <3>3, Zenon DEF TokenRow
    <3> QED
      BY <3>1, <3>4, Zenon
  <2> QED
    BY <2>1, <2>2, Zenon DEF Visitors
<1> DEFINE w == [NoVisit EXCEPT !.scopes = v.scopes, !.name = v.name, !.op = "arrived"]
<1>3. w \in VisitStates /\ w.op = "arrived"
  BY <1>2, NoVisitTyped DEF VisitStates
<1>4. VisitsTyped'
  <2> HIDE DEF w
  <2>1. visits' = [visits EXCEPT ![c] = w]
    BY <1>1, Zenon DEF w
  <2> QED
    BY <1>3, <2>1, VisitMoves, Zenon DEF AccessInv
<1> QED
  BY <1>4, RequestStep, Zenon DEF UserProbeAction

LEMMA AnsweredStep == ASSUME AccessInv, NEW c \in Clients, Answered(c) PROVE AccessStep
<1>1. VisitsTyped'
  BY VisitEnds, Zenon DEF Answered, AccessInv
<1> QED
  BY <1>1, RequestStep, Zenon DEF Answered

LEMMA RoleReadStep ==
  ASSUME AccessInv, NEW c \in Clients, NEW n \in Usernames, RoleRead(c, n)
  PROVE  AccessStep
<1> DEFINE v == visits[c]
           id == Row(users, n).id
           w == [v EXCEPT !.op = "role", !.name = n, !.seen = id]
<1>1. id \in 0..MaxKeys + MaxAccessWrites
  <2>1. Row(users, n) \in UserRow
    BY UserFound, Zenon DEF AccessInv, RoleRead
  <2> QED
    BY <2>1, Zenon DEF UserRow
<1>2. v \in VisitStates
  BY Zenon DEF AccessInv, VisitsTyped
<1>3. visits' = [visits EXCEPT ![c] = w]
  BY DEF RoleRead, AccessInv, VisitsTyped
<1>4. w \in VisitStates /\ w.name = n
  <2> HIDE DEF v, id
  <2> QED
    BY <1>1, <1>2 DEF VisitStates
<1> HIDE DEF w
<1>5. VisitsTyped'
  BY <1>3, <1>4, VisitMoves, Zenon DEF AccessInv
<1> QED
  BY <1>5, RequestStep, Zenon DEF RoleRead

\* A request that is authorised and done.
LEMMA Handled ==
  ASSUME AccessInv, NEW c \in Clients, NEW f, NEW a, Handling(c, f, a)
  PROVE  /\ VisitsTyped' /\ logins' \in [Clients -> LoginStates] /\ confFile' \in AccessConfs
         /\ CompiledInForce' /\ (LoginsHashed => LoginsHashed')
<1>1. VisitsTyped'
  BY VisitEnds, Zenon DEF Handling, AccessInv
<1> QED
  BY <1>1, Zenon DEF Handling, AccessInv, CompiledInForce, LoginsHashed

LEMMA CreateUserStep ==
  ASSUME AccessInv, NEW c \in Clients, NEW n \in Usernames, NEW p \in Passwords, NEW role \in Roles,
         CreateUser(c, n, p, role)
  PROVE  AccessStep
<1>1. PICK w \in 1..MaxAccessWrites : writes' = w
  <2>1. writes \in 0..MaxAccessWrites /\ writes < MaxAccessWrites /\ writes' = writes + 1
    BY Zenon DEF CreateUser, Write, AccessInv, CountsTyped
  <2>2. MaxAccessWrites \in Nat
    BY Zenon, AccessAssumption
  <2> QED
    BY <2>1, <2>2
<1> DEFINE row == [id |-> MaxKeys + w, scopes |-> RoleToScopes(role),
                   password |-> [of |-> p, hashed |-> TRUE], session |-> 0]
<1>2. MaxKeys + w \in 0..MaxKeys + MaxAccessWrites
  BY AccessAssumption
<1>3. RoleToScopes(role) \in SUBSET {System, SystemReadonly}
  BY Zenon DEF RoleToScopes
<1>4. row \in UserRow /\ row.password.of = p /\ row.password.hashed
  BY <1>2, <1>3, NoKey DEF UserRow
<1>5. /\ users' = [users EXCEPT ![n] = {row}] /\ n # "admin"
      /\ confirmed' = [confirmed EXCEPT ![n] = {p}] /\ tokens' = tokens /\ drawn' = drawn
  BY <1>1, Zenon DEF CreateUser, InsertUser
<1> HIDE DEF row
<1>6. StoredRow(n, row)
  BY <1>4, <1>5, Zenon DEF StoredRow
<1>7. CountsTyped'
  BY <1>5, Counted, Zenon DEF AccessInv, CreateUser
<1> QED
  BY <1>4, <1>5, <1>6, <1>7, Handled, Zenon DEF AccessStep, AccountStep, AccessInv, CreateUser

LEMMA DeleteUserStep ==
  ASSUME AccessInv, NEW c \in Clients, NEW n \in Usernames, DeleteUser(c, n)
  PROVE  AccessStep
<1>1. CountsTyped'
  BY Counted, Zenon DEF AccessInv, DeleteUser
<1> QED
  BY <1>1, Handled, Zenon DEF AccessStep, AccountStep, AccessInv, DeleteUser

LEMMA UpdatePasswordStep ==
  ASSUME AccessInv, NEW c \in Clients, NEW n \in Usernames, NEW old, NEW p \in Passwords,
         UpdateUserPassword(c, n, old, p)
  PROVE  AccessStep
<1> DEFINE now == Row(users, n)
           w == [of |-> p, hashed |-> TRUE]
           row == [now EXCEPT !.password = w, !.session = 0]
<1>1. now \in UserRow /\ users[n] = {now}
  BY UserFound, Zenon DEF AccessInv, UpdateUserPassword
<1>2. /\ users' = [users EXCEPT ![n] = {[r EXCEPT !.password = w, !.session = 0] : r \in {now}}]
      /\ confirmed' = [confirmed EXCEPT ![n] = {p}] /\ tokens' = tokens /\ drawn' = drawn
  BY <1>1, Zenon DEF UpdateUserPassword
<1>3. w \in [of : Passwords, hashed : BOOLEAN] /\ w.of = p /\ w.hashed
  BY Zenon
<1> HIDE DEF now, w
<1>4. users' = [users EXCEPT ![n] = {row}]
  BY <1>2, Zenon
<1>5. row \in UserRow /\ row.scopes = now.scopes /\ row.password = w
  BY <1>1, <1>3, PasswordGiven, Zenon
<1>6. n = "admin" => now.scopes = {System}
  BY <1>1, Zenon DEF AccessInv, BuiltInStaysAdmin
<1> HIDE DEF row
<1>7. StoredRow(n, row)
  BY <1>2, <1>3, <1>4, <1>5, <1>6, Zenon DEF StoredRow
<1>8. CountsTyped'
  BY <1>2, Counted, Zenon DEF AccessInv, UpdateUserPassword
<1> QED
  BY <1>2, <1>5, <1>7, <1>8, Handled, Zenon DEF AccessStep, AccountStep, AccessInv, UpdateUserPassword

LEMMA UpdateRoleStep ==
  ASSUME AccessInv, NEW c \in Clients, NEW role \in Roles, UpdateUserRole(c, role)
  PROVE  AccessStep
<1> DEFINE n == visits[c].name
           now == Row(users, n)
           row == [now EXCEPT !.scopes = RoleToScopes(role)]
<1>1. /\ visits[c].op = "role" /\ RoleAdmitted(n, role) /\ Write(MaxAccessWrites)
      /\ IF Exists(users, n) THEN UpdateUser(n, visits[c].seen, row) ELSE users' = users
      /\ visits' = [visits EXCEPT ![c] = NoVisit]
      /\ tokens' = tokens /\ drawn' = drawn /\ logins' = logins /\ whitelist' = whitelist
      /\ confFile' = confFile /\ confirmed' = confirmed
  BY Zenon DEF UpdateUserRole
<1>2. n \in Usernames
  BY <1>1, Zenon DEF AccessInv, VisitsTyped
<1>3. RoleToScopes(role) \in SUBSET {System, SystemReadonly}
  BY Zenon DEF RoleToScopes
<1>4. n = "admin" => RoleToScopes(role) = {System}
  BY <1>1, Zenon DEF RoleToScopes, RoleAdmitted
<1>5. AccountStep
  <2>1. CASE users' = users
    BY <1>1, <2>1, Zenon DEF AccountStep
  <2>2. CASE users' # users
    <3>1. Exists(users, n) /\ users' = [users EXCEPT ![n] = {row}]
      BY <1>1, <2>2, Zenon DEF UpdateUser
    <3>2. now \in UserRow
      BY <1>2, <3>1, UserFound, Zenon DEF AccessInv
    <3> HIDE DEF now
    <3>3. row \in UserRow /\ row.scopes = RoleToScopes(role) /\ row.password = now.password
      BY <1>3, <3>2, RoleGiven, Zenon
    <3> HIDE DEF row
    <3>4. StoredRow(n, row)
      BY <1>1, <1>4, <3>1, <3>3, Zenon DEF StoredRow, now
    <3> QED
      BY <1>2, <3>3, <3>4, Zenon DEF AccountStep
  <2> QED
    BY <2>1, <2>2, Zenon
<1>6. CountsTyped'
  BY <1>1, Counted, Zenon DEF AccessInv
<1>7. VisitsTyped'
  BY <1>1, VisitEnds, Zenon DEF AccessInv
<1>8. CompiledInForce' /\ (LoginsHashed => LoginsHashed')
  BY <1>1, Zenon DEF AccessInv, CompiledInForce, LoginsHashed
<1> QED
  BY <1>1, <1>5, <1>6, <1>7, <1>8, Zenon DEF AccessStep, AccessInv

LEMMA TokenStep ==
  ASSUME AccessInv, NEW c \in Clients, NEW t \in TokenNames,
         \/ \E s \in {System, Support} : CreateToken(c, t, s)
         \/ DeleteToken(c, t)
  PROVE  AccessStep
<1>1. ASSUME NEW s \in {System, Support}, CreateToken(c, t, s) PROVE AccessStep
  <2>1. CountsTyped' /\ drawn' \in 1..MaxKeys
    BY <1>1, Counted, Zenon DEF AccessInv, CreateToken
  <2>2. [value |-> drawn', scope |-> s] \in TokenRow
    BY <2>1, Zenon DEF TokenRow
  <2>3. tokens' \in TokenTables
    BY <1>1, <2>2, Zenon DEF AccessInv, TokenTables, CreateToken
  <2> QED
    BY <1>1, <2>1, <2>3, Handled, Zenon DEF AccessStep, AccountStep, AccessInv, CreateToken
<1>2. ASSUME DeleteToken(c, t) PROVE AccessStep
  <2>1. CountsTyped'
    BY <1>2, Counted, Zenon DEF AccessInv, DeleteToken
  <2>2. tokens' \in TokenTables
    BY <1>2, Zenon DEF AccessInv, TokenTables, DeleteToken
  <2> QED
    BY <1>2, <2>1, <2>2, Handled, Zenon DEF AccessStep, AccountStep, AccessInv, DeleteToken
<1> QED
  BY <1>1, <1>2, Zenon

LEMMA ConfStep ==
  ASSUME AccessInv, ReloadAccessControl \/ \E conf \in AccessConfs : EditConf(conf)
  PROVE  AccessStep
<1>1. ASSUME NEW conf \in AccessConfs, EditConf(conf) PROVE AccessStep
  <2>1. CountsTyped'
    BY <1>1, Counted, Zenon DEF AccessInv, EditConf
  <2>2. VisitsTyped' /\ CompiledInForce' /\ (LoginsHashed => LoginsHashed')
    BY <1>1, Zenon DEF AccessInv, VisitsTyped, CompiledInForce, LoginsHashed, EditConf
  <2> QED
    BY <1>1, <2>1, <2>2, Zenon DEF AccessStep, AccountStep, AccessInv, EditConf
<1>2. ASSUME ReloadAccessControl PROVE AccessStep
  <2>1. CompiledInForce'
    BY <1>2, Zenon DEF AccessInv, CompiledInForce, ReloadAccessControl
  <2>2. CountsTyped' /\ VisitsTyped' /\ (LoginsHashed => LoginsHashed')
    BY <1>2, Zenon DEF AccessInv, CountsTyped, VisitsTyped, LoginsHashed, ReloadAccessControl
  <2> QED
    BY <1>2, <2>1, <2>2, Zenon DEF AccessStep, AccountStep, AccessInv, ReloadAccessControl
<1> QED
  BY <1>1, <1>2, Zenon

LEMMA AccessNextStep == ASSUME AccessInv, [AccessNext]_<<accessVars, writes>> PROVE AccessStep
<1>1. CASE UNCHANGED <<accessVars, writes>>
  <2>1. VisitsTyped'
    BY <1>1, Zenon DEF AccessInv, VisitsTyped, accessVars
  <2> QED
    BY <1>1, <2>1, RequestStep, Zenon DEF accessVars
<1>2. CASE AccessNext
  BY <1>2, LoginReadStep, LoginStep, LogoutStep, ProbeStep, AnsweredStep, CreateUserStep,
     DeleteUserStep, UpdatePasswordStep, RoleReadStep, UpdateRoleStep, TokenStep, ConfStep,
     Zenon DEF AccessNext
<1> QED
  BY <1>1, <1>2, Zenon

\* The tables after a step.
LEMMA AccountsAfter ==
  ASSUME AccessInv, AccountStep
  PROVE  /\ users' \in UserTables /\ confirmed' \in [Usernames -> SUBSET Passwords]
         /\ BuiltInStaysAdmin'
<1>1. users \in UserTables /\ confirmed \in [Usernames -> SUBSET Passwords] /\ BuiltInStaysAdmin
      /\ "admin" \in Usernames
  BY Zenon, AccessAssumption DEF AccessInv
<1>2. CASE users' = users /\ confirmed' = confirmed
  BY <1>1, <1>2, Zenon DEF BuiltInStaysAdmin
<1>3. ASSUME NEW n \in Usernames, users' = [users EXCEPT ![n] = {}],
             confirmed' = [confirmed EXCEPT ![n] = {}]
      PROVE  /\ users' \in UserTables /\ confirmed' \in [Usernames -> SUBSET Passwords]
             /\ BuiltInStaysAdmin'
  <2>1. users' \in UserTables /\ \A m \in Usernames : users'[m] = IF m = n THEN {} ELSE users[m]
    BY <1>1, <1>3, UserGone, Zenon
  <2>2. confirmed' \in [Usernames -> SUBSET Passwords]
    BY <1>1, <1>3, Zenon
  <2> QED
    BY <1>1, <2>1, <2>2, Zenon DEF BuiltInStaysAdmin
<1>4. ASSUME NEW n \in Usernames, NEW r \in UserRow, StoredRow(n, r)
      PROVE  /\ users' \in UserTables /\ confirmed' \in [Usernames -> SUBSET Passwords]
             /\ BuiltInStaysAdmin'
  <2>1. users' \in UserTables /\ \A m \in Usernames : users'[m] = IF m = n THEN {r} ELSE users[m]
    <3>1. users' = [users EXCEPT ![n] = {r}]
      BY <1>4, Zenon DEF StoredRow
    <3> QED
      BY <1>1, <3>1, UserStored, Zenon
  <2>2. r.password.of \in Passwords
    BY Zenon DEF UserRow
  <2>3. confirmed' \in [Usernames -> SUBSET Passwords]
    BY <1>1, <1>4, <2>2, Zenon DEF StoredRow
  <2>4. BuiltInStaysAdmin'
    <3>1. users'["admin"] = IF n = "admin" THEN {r} ELSE users["admin"]
      BY <1>1, <2>1, Zenon
    <3>2. n = "admin" => r.scopes = {System}
      BY <1>4, Zenon DEF StoredRow
    <3>3. \A x \in users'["admin"] : x.scopes = {System}
      BY <1>1, <3>1, <3>2, Zenon DEF BuiltInStaysAdmin
    <3> QED
      BY <3>3, Zenon DEF BuiltInStaysAdmin
  <2> QED
    BY <2>1, <2>3, <2>4, Zenon
<1> QED
  BY <1>2, <1>3, <1>4, Zenon DEF AccountStep

\* Where no password in clear is involved, the rows keep what was confirmed.
LEMMA HashedAfter ==
  ASSUME HashedInv, AccountStep
  PROVE  RowsHashed' /\ PasswordChangeKept'
<1>1. /\ users \in UserTables /\ confirmed \in [Usernames -> SUBSET Passwords]
      /\ RowsHashed /\ LoginsHashed
      /\ \A m \in Usernames : {r.password.of : r \in users[m]} = confirmed[m]
  BY Zenon DEF AccessInv, HashedInv, PasswordChangeKept
<1>2. CASE users' = users /\ confirmed' = confirmed
  BY <1>1, <1>2, Zenon DEF RowsHashed, PasswordChangeKept
<1>3. ASSUME NEW n \in Usernames, users' = [users EXCEPT ![n] = {}],
             confirmed' = [confirmed EXCEPT ![n] = {}]
      PROVE  RowsHashed' /\ PasswordChangeKept'
  <2>1. \A m \in Usernames : users'[m] = IF m = n THEN {} ELSE users[m]
    BY <1>1, <1>3, UserGone, Zenon
  <2>2. \A m \in Usernames : confirmed'[m] = IF m = n THEN {} ELSE confirmed[m]
    BY <1>1, <1>3, Zenon
  <2>3. \A m \in Usernames : {r.password.of : r \in users'[m]} = confirmed'[m]
    BY <1>1, <2>1, <2>2, Zenon
  <2> QED
    BY <1>1, <2>1, <2>3, Zenon DEF RowsHashed, PasswordChangeKept
<1>4. ASSUME NEW n \in Usernames, NEW r \in UserRow, StoredRow(n, r)
      PROVE  RowsHashed' /\ PasswordChangeKept'
  <2>1. \A m \in Usernames : users'[m] = IF m = n THEN {r} ELSE users[m]
    <3>1. users' = [users EXCEPT ![n] = {r}]
      BY <1>4, Zenon DEF StoredRow
    <3> QED
      BY <1>1, <3>1, UserStored, Zenon
  <2>2. r.password.hashed /\ confirmed'[n] = {r.password.of}
        /\ \A m \in Usernames \ {n} : confirmed'[m] = confirmed[m]
    <3>1. CASE confirmed' = [confirmed EXCEPT ![n] = {r.password.of}] /\ r.password.hashed
      BY <1>1, <3>1, Zenon
    <3>2. CASE confirmed' = confirmed /\ Exists(users, n) /\ r.password = Row(users, n).password
      <4>1. users[n] = {Row(users, n)}
        BY <1>1, <3>2, UserFound, Zenon
      <4>2. Row(users, n).password.hashed
        BY <1>1, <4>1, Zenon DEF RowsHashed
      <4>3. confirmed[n] = {x.password.of : x \in {Row(users, n)}}
        BY <1>1, <4>1, Zenon
      <4>4. confirmed[n] = {Row(users, n).password.of}
        BY <4>3, Zenon
      <4> QED
        BY <3>2, <4>2, <4>4, Zenon
    <3> QED
      BY <1>1, <1>4, <3>1, <3>2, Zenon DEF StoredRow
  <2>3. \A m \in Usernames : {x.password.of : x \in users'[m]} = confirmed'[m]
    <3> SUFFICES ASSUME NEW m \in Usernames PROVE {x.password.of : x \in users'[m]} = confirmed'[m]
      OBVIOUS
    <3>1. CASE m = n
      <4>1. {x.password.of : x \in {r}} = {r.password.of}
        BY Zenon
      <4> QED
        BY <2>1, <2>2, <3>1, <4>1, Zenon
    <3>2. CASE m # n
      <4>1. users'[m] = users[m] /\ confirmed'[m] = confirmed[m]
        BY <2>1, <2>2, <3>2, Zenon
      <4> QED
        BY <1>1, <4>1, Zenon
    <3> QED
      BY <3>1, <3>2, Zenon
  <2>4. \A m \in Usernames : \A x \in users'[m] : x.password.hashed
    BY <1>1, <2>1, <2>2, Zenon DEF RowsHashed
  <2> QED
    BY <2>3, <2>4, Zenon DEF RowsHashed, PasswordChangeKept
<1> QED
  BY <1>2, <1>3, <1>4, Zenon DEF AccountStep

LEMMA AccessInvStep == ASSUME AccessInv, [AccessNext]_<<accessVars, writes>> PROVE AccessInv'
<1>1. AccessStep
  BY AccessNextStep, Zenon
<1>2. /\ users' \in UserTables /\ confirmed' \in [Usernames -> SUBSET Passwords]
      /\ BuiltInStaysAdmin'
  BY <1>1, AccountsAfter, Zenon DEF AccessStep
<1> QED
  BY <1>1, <1>2, Zenon DEF AccessInv, AccessStep

LEMMA HashedInvStep == ASSUME HashedInv, [AccessNext]_<<accessVars, writes>> PROVE HashedInv'
<1>1. AccessInv /\ RowsHashed /\ LoginsHashed
  BY Zenon DEF HashedInv
<1>2. AccessStep /\ AccessInv'
  BY <1>1, AccessNextStep, AccessInvStep, Zenon
<1>3. RowsHashed' /\ PasswordChangeKept'
  BY <1>2, HashedAfter, Zenon DEF AccessStep
<1> QED
  BY <1>1, <1>2, <1>3, Zenon DEF HashedInv, AccessStep

LEMMA AccessInitially ==
  ASSUME AccessInit, writes = 0
  PROVE  AccessInv /\ ("admin" \notin Legacy => HashedInv)
<1>1. PICK p \in Passwords :
        /\ users = [n \in Usernames |-> IF n = "admin"
                     THEN {[id |-> 0, scopes |-> {System}, session |-> 0,
                            password |-> [of |-> p, hashed |-> "admin" \notin Legacy]]}
                     ELSE {}]
        /\ confirmed = [n \in Usernames |-> IF n = "admin" THEN {p} ELSE {}]
  BY Zenon DEF AccessInit
<1> DEFINE hashed == "admin" \notin Legacy
           row == [id |-> 0, scopes |-> {System}, session |-> 0, password |-> [of |-> p, hashed |-> hashed]]
<1>2. row \in UserRow /\ row.scopes = {System} /\ row.password.of = p /\ row.password.hashed = hashed
  <2>1. 0 \in 0..MaxKeys + MaxAccessWrites /\ 0 \in 0..MaxKeys /\ 0 \in 0..MaxAccessWrites
    BY AccessAssumption
  <2>2. hashed \in BOOLEAN
    BY Zenon
  <2> HIDE DEF hashed
  <2> QED
    BY <2>1, <2>2, Zenon DEF UserRow
<1>3. users = [n \in Usernames |-> IF n = "admin" THEN {row} ELSE {}]
  BY <1>1, Zenon
<1> HIDE DEF row
<1>4. \A n \in Usernames : users[n] = (IF n = "admin" THEN {row} ELSE {})
  BY <1>3, Zenon
<1>5. users \in UserTables
  <2>1. \A n \in Usernames : (IF n = "admin" THEN {row} ELSE {}) \in {{}} \cup {{r} : r \in UserRow}
    BY <1>2, Zenon
  <2> QED
    BY <1>3, <2>1, Zenon DEF UserTables
<1>6. confirmed \in [Usernames -> SUBSET Passwords]
  BY <1>1, Zenon
<1>7. tokens \in TokenTables
  BY Zenon DEF AccessInit, EmptyTable, TokenTables
<1>8. logins \in [Clients -> LoginStates] /\ LoginsHashed
  BY Zenon DEF AccessInit, LoginStates, LoginsHashed
<1>9. CountsTyped
  <2>1. MaxAccessWrites \in Nat
    BY AccessAssumption, Zenon
  <2>2. 0 \in 0..MaxAccessWrites
    BY <2>1
  <2> QED
    BY <2>2, NoKey, Zenon DEF AccessInit, CountsTyped
<1>10. VisitsTyped
  BY NoVisitTyped, Zenon DEF AccessInit, VisitsTyped
<1>11. confFile \in AccessConfs /\ CompiledInForce
  BY Zenon DEF AccessInit, CompiledInForce
<1>12. BuiltInStaysAdmin
  <2>1. users["admin"] = {row}
    BY <1>4, Zenon, AccessAssumption
  <2> QED
    BY <1>2, <2>1, Zenon DEF BuiltInStaysAdmin
<1>13. hashed => RowsHashed
  BY <1>2, <1>4, Zenon DEF RowsHashed
<1>14. PasswordChangeKept
  <2> SUFFICES ASSUME NEW n \in Usernames PROVE {r.password.of : r \in users[n]} = confirmed[n]
    BY Zenon DEF PasswordChangeKept
  <2>1. confirmed[n] = IF n = "admin" THEN {p} ELSE {}
    BY <1>1, Zenon
  <2>2. CASE n = "admin"
    <3>1. users[n] = {row} /\ confirmed[n] = {p}
      BY <1>4, <2>1, <2>2, Zenon
    <3>2. {r.password.of : r \in {row}} = {p}
      BY <1>2, Zenon
    <3> QED
      BY <3>1, <3>2, Zenon
  <2>3. CASE n # "admin"
    <3>1. users[n] = {} /\ confirmed[n] = {}
      BY <1>4, <2>1, <2>3, Zenon
    <3> QED
      BY <3>1, Zenon
  <2> QED
    BY <2>2, <2>3, Zenon
<1>15. AccessInv
  BY <1>5, <1>6, <1>7, <1>8, <1>9, <1>10, <1>11, <1>12, Zenon DEF AccessInv
<1> QED
  BY <1>8, <1>13, <1>14, <1>15, Zenon DEF HashedInv

LEMMA WhitelistFollows == ASSUME AccessInv PROVE WhitelistDecides
<1>1. PICK conf \in AccessConfs : Compiles(conf) /\ whitelist = CompileAccessControl(conf)
  BY Zenon DEF AccessInv, CompiledInForce
<1>2. \A path \in Paths, ip \in Addresses :
        IPProbeAction(whitelist, path, ip) <=>
            (conf.enable => \A i \in Longest(conf, path) :
                ip \in conf.rules[i].nets \/ conf.rules[i].audit)
  BY <1>1, ProbeByLongest, Zenon
<1> QED
  BY <1>1, <1>2, Zenon DEF WhitelistDecides

\* Of no or one row.
LEMMA AtMostOne ==
  ASSUME NEW T, NEW S, S = {} \/ \E r \in T : S = {r}
  PROVE  S \subseteq T /\ Cardinality(S) <= 1
<1>1. CASE S = {}
  <2>1. Cardinality(S) = 0
    BY <1>1, FS_EmptySet, Zenon
  <2> QED
    BY <1>1, <2>1
<1>2. ASSUME NEW r \in T, S = {r} PROVE S \subseteq T /\ Cardinality(S) <= 1
  <2>1. Cardinality(S) = 1
    BY <1>2, FS_Singleton, Zenon
  <2> QED
    BY <1>2, <2>1
<1> QED
  BY <1>1, <1>2, Zenon

\* The types: at most one row under a name (the unique key of users), keys that were
\* drawn, for any clients, requests and sections and whether rows are hashed or not.
THEOREM AccessTypes == AccessSpec => []AccessTypeOK
<1>1. AccessInit /\ writes = 0 => AccessInv
  BY AccessInitially, Zenon
<1>2. AccessInv /\ [AccessNext]_<<accessVars, writes>> => AccessInv'
  BY AccessInvStep, Zenon
<1>3. AccessInv => AccessTypeOK
  <2> SUFFICES ASSUME AccessInv PROVE AccessTypeOK
    OBVIOUS
  <2>1. ASSUME NEW n \in Usernames PROVE users[n] \subseteq UserRow /\ Cardinality(users[n]) <= 1
    <3>1. users[n] = {} \/ \E r \in UserRow : users[n] = {r}
      BY Zenon DEF AccessInv, UserTables
    <3> QED
      BY <3>1, AtMostOne, Zenon
  <2>2. ASSUME NEW t \in TokenNames PROVE tokens[t] \subseteq TokenRow /\ Cardinality(tokens[t]) <= 1
    <3>1. tokens[t] = {} \/ \E r \in TokenRow : tokens[t] = {r}
      BY Zenon DEF AccessInv, TokenTables
    <3> QED
      BY <3>1, AtMostOne, Zenon
  <2>3. \A c \in Clients : visits[c].op \in {"none", "arrived", "role"}
    BY Zenon DEF AccessInv, VisitsTyped, VisitStates
  <2> QED
    BY <2>1, <2>2, <2>3, Zenon DEF AccessTypeOK, AccessInv, CountsTyped
<1> QED
  BY <1>1, <1>2, <1>3, PTL DEF AccessSpec

\* Whatever logins, changes of passwords and roles and reloads overlap, the built-in
\* user keeps the scope System, the whitelist in force answers as a section that
\* compiles does by its longest matching prefix, and, where the row of the built-in user
\* does not hold its password in clear at the start, every account has the password
\* that was confirmed last: no login writes an older one back.
THEOREM AccessIsSound ==
  ASSUME "admin" \notin Legacy
  PROVE  AccessSpec => []AccessSound
<1>1. AccessInit /\ writes = 0 => HashedInv
  BY AccessInitially, Zenon
<1>2. HashedInv /\ [AccessNext]_<<accessVars, writes>> => HashedInv'
  BY HashedInvStep, Zenon
<1>3. HashedInv => AccessSound
  BY WhitelistFollows, Zenon DEF HashedInv, AccessInv, AccessSound
<1> QED
  BY <1>1, <1>2, <1>3, PTL DEF AccessSpec

\* The same without the passwords, whether rows are hashed or not.
THEOREM AdmissionIsSound == AccessSpec => [](BuiltInStaysAdmin /\ WhitelistDecides)
<1>1. AccessInit /\ writes = 0 => AccessInv
  BY AccessInitially, Zenon
<1>2. AccessInv /\ [AccessNext]_<<accessVars, writes>> => AccessInv'
  BY AccessInvStep, Zenon
<1>3. AccessInv => BuiltInStaysAdmin /\ WhitelistDecides
  BY WhitelistFollows, Zenon DEF AccessInv
<1> QED
  BY <1>1, <1>2, <1>3, PTL DEF AccessSpec
=============================================================================
