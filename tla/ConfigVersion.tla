--------------------------- MODULE ConfigVersion ---------------------------
(***************************************************************************)
(* Export of a configuration topic to the data plane.  Agents poll with    *)
(* the version they hold; ExportConfig generates the content, looks up the *)
(* topic's last version in config_versions and inserts a new one when the  *)
(* content changed, all in one transaction; the answer is empty when the   *)
(* version is the one the agent sent.  Polls of several agents, and the    *)
(* administrators' changes of the content, interleave.                     *)
(*                                                                         *)
(* Topics do not meet: every statement selects on the topic's name, so one *)
(* topic is modelled.  Versions are wall clock seconds, as numbers; 0 is   *)
(* the empty string.  A content stands for its md5 signature.              *)
(***************************************************************************)
EXTENDS Naturals, FiniteSets

CONSTANTS
    Agents,         \* data plane agents, each with at most one poll in flight
    Contents,       \* contents the topic can have
    Backends,       \* the databases considered, see backend
    MaxDuplicates,  \* insert attempts (maxDuplicateRetries)
    MaxClock,       \* bound: seconds the clocks of the instances may show
    MaxChanges,     \* bound: changes of the content
    MaxPollFaults       \* bound: failed statements and lost answers

VARIABLES
    backend,    \* [snapshot, recognised]: a transaction reads from the snapshot of
                \* its first read; lib.DuplicateEntryError knows the driver's error
    content,    \* committed content of the topic
    rows,       \* committed rows of config_versions
    poll,       \* the export request each agent has in flight
    agent,      \* what each agent holds
    used        \* changes and faults so far

versionVars == <<backend, content, rows, poll, agent, used>>

NoVersion == 0
Nothing == [version |-> NoVersion]
VersionRows == [version : Nat \ {0}, content : Contents]
NoPoll == [pc |-> "idle"]

VersionInit ==
    /\ backend \in Backends
    /\ content \in Contents
    /\ rows = {}
    /\ poll = [a \in Agents |-> NoPoll]
    /\ agent = [a \in Agents |-> Nothing]
    /\ used = [changes |-> 0, faults |-> 0]

----------------------------------------------------------------------------
(* Reads and writes of the storager.                                       *)

\* The rows a statement of a's transaction reads.
Visible(a) == IF backend.snapshot THEN poll[a].snap ELSE rows

\* ORDER BY version DESC LIMIT 1, as a set of at most one row.
latestConfigVersion(rs) == {r \in rs : \A s \in rs : s.version <= r.version}

\* Mutant: a second change within the same second reuses the version.
bumpVersion_Same(latest, candidate) == IF candidate < latest THEN latest ELSE candidate

bumpVersion(latest, candidate) ==
    IF candidate < latest + 1 THEN latest + 1 ELSE candidate

Versions(rs) == {r.version : r \in rs}

\* A version an open transaction has inserted makes another insert of it wait.
Inserting(a) == {poll[b].version : b \in {b \in Agents \ {a} :
                    poll[b].pc = "commit" /\ poll[b].insert}}

----------------------------------------------------------------------------
(* The administrators and the polls.                                       *)

ChangeConfig ==
    /\ used.changes < MaxChanges
    /\ \E c \in Contents \ {content} : content' = c
    /\ used' = [used EXCEPT !.changes = @ + 1]
    /\ UNCHANGED <<backend, rows, poll, agent>>

\* ExportConfig begins: the generator reads the tables, UpdateVersion(ZeroVersion)
\* takes the version out of what is signed.
Generate(a) ==
    /\ poll[a].pc = "idle"
    /\ poll' = [poll EXCEPT ![a] = [pc |-> "lookup", content |-> content, snap |-> rows,
                    version |-> NoVersion, insert |-> FALSE, tries |-> 0]]
    /\ UNCHANGED <<backend, content, rows, agent, used>>

\* Mutant: the version of the latest row is returned without comparing contents.
Decide_AnyContent(p, latest, candidate) ==
    IF latest # {}
    THEN [p EXCEPT !.pc = "commit", !.version = CHOOSE v \in Versions(latest) : TRUE]
    ELSE [p EXCEPT !.pc = "insert", !.version = candidate]

\* What the poll does next once the latest visible row is known: the version of an
\* unchanged content is final, else the candidate is moved past the latest one.
Decide(p, latest, candidate) ==
    IF \E r \in latest : r.content = p.content
    THEN [p EXCEPT !.pc = "commit", !.version = CHOOSE v \in Versions(latest) : TRUE]
    ELSE [p EXCEPT !.pc = "insert",
                   !.version = IF latest = {} THEN candidate
                               ELSE bumpVersion(CHOOSE v \in Versions(latest) : TRUE, candidate)]

\* UpsertConfigLastExportedVersion up to the first insert.
Lookup(a) ==
    /\ poll[a].pc = "lookup"
    /\ \E clock \in 1..MaxClock :
          poll' = [poll EXCEPT ![a] = Decide(poll[a], latestConfigVersion(Visible(a)), clock)]
    /\ UNCHANGED <<backend, content, rows, agent, used>>

\* The insert succeeds: no committed row and no open insert has the version.
InsertVersion(a) ==
    /\ poll[a].pc = "insert" /\ poll[a].version \notin Versions(rows) \cup Inserting(a)
    /\ poll' = [poll EXCEPT ![a].pc = "commit", ![a].insert = TRUE]
    /\ UNCHANGED <<backend, content, rows, agent, used>>

\* The unique key (name, version) refuses it.  An error that is recognised leads to
\* a new lookup; the attempts used up, or no row found, the version stays empty
\* and the error of the insert has been overwritten with the lookup's nil.
InsertDuplicate(a) ==
    LET p == poll[a]
        latest == latestConfigVersion(Visible(a))
        next == Decide([p EXCEPT !.tries = @ + 1], latest, p.version)
    IN /\ p.pc = "insert" /\ p.version \in Versions(rows) /\ backend.recognised
       /\ poll' = [poll EXCEPT ![a] =
              IF latest = {} \/ (next.pc = "insert" /\ next.tries = MaxDuplicates)
              THEN [next EXCEPT !.pc = "commit", !.version = NoVersion]
              ELSE next]
       /\ UNCHANGED <<backend, content, rows, agent, used>>

\* Any other error of the insert fails the export; so does a duplicate that is
\* not recognised.  The transaction is rolled back, the agent polls again later.
InsertFails(a) ==
    /\ poll[a].pc = "insert" /\ poll[a].version \in Versions(rows) /\ ~backend.recognised
    /\ poll' = [poll EXCEPT ![a] = [pc |-> "duplicate"]]
    /\ UNCHANGED <<backend, content, rows, agent, used>>

ReportDuplicate(a) ==
    /\ poll[a].pc = "duplicate"
    /\ poll' = [poll EXCEPT ![a] = NoPoll]
    /\ UNCHANGED <<backend, content, rows, agent, used>>

\* A statement fails, or the answer does not reach the agent.
PollFails(a) ==
    /\ poll[a].pc \in {"lookup", "insert", "commit", "answer"} /\ used.faults < MaxPollFaults
    /\ poll' = [poll EXCEPT ![a] = NoPoll]
    /\ used' = [used EXCEPT !.faults = @ + 1]
    /\ UNCHANGED <<backend, content, rows, agent>>

\* Mutant: the answer is given although the transaction is rolled back.
Commit_RolledBack(a) ==
    /\ poll[a].pc = "commit"
    /\ poll' = [poll EXCEPT ![a] =
           [pc |-> "answer", content |-> poll[a].content, version |-> poll[a].version]]
    /\ UNCHANGED <<backend, content, rows, agent, used>>

\* The transaction commits, and the version is put into the content.
Commit(a) ==
    LET p == poll[a]
    IN /\ p.pc = "commit"
       /\ rows' = IF p.insert THEN rows \cup {[version |-> p.version, content |-> p.content]}
                  ELSE rows
       /\ poll' = [poll EXCEPT ![a] =
              [pc |-> "answer", content |-> p.content, version |-> p.version]]
       /\ UNCHANGED <<backend, content, agent, used>>

\* ConfigExport answers null when the agent already has the version.
Answer(a) ==
    LET p == poll[a]
    IN /\ p.pc = "answer"
       /\ agent' = IF p.version = agent[a].version THEN agent
                   ELSE [agent EXCEPT ![a] = [version |-> p.version, content |-> p.content]]
       /\ poll' = [poll EXCEPT ![a] = NoPoll]
       /\ UNCHANGED <<backend, content, rows, used>>

Poll(a) ==
    \/ Generate(a) \/ Lookup(a) \/ InsertVersion(a) \/ InsertDuplicate(a) \/ InsertFails(a)
    \/ ReportDuplicate(a) \/ Commit(a) \/ Answer(a)

VersionNext == ChangeConfig \/ \E a \in Agents : Poll(a) \/ PollFails(a)

VersionSpec == VersionInit /\ [][VersionNext]_versionVars

----------------------------------------------------------------------------
(* Properties.                                                             *)

\* The type invariant of the tables, the polls and the agents.
VersionTypeOK ==
    /\ content \in Contents /\ rows \subseteq VersionRows
    /\ \A a \in Agents : agent[a] = Nothing \/ agent[a] \in [version : Nat, content : Contents]
    /\ \A a \in Agents : poll[a].pc \in
          {"idle", "lookup", "insert", "commit", "answer", "duplicate"}

\* UpsertConfigLastExportedVersion: a version stands for one content for ever, in
\* the table, in the answers under way and in the agents, so an agent that is told
\* "not modified" really holds the content of that version.
OneContentPerVersion ==
    \A x, y \in rows \cup {agent[a] : a \in {a \in Agents : agent[a] # Nothing}}
                    \cup {[version |-> poll[a].version, content |-> poll[a].content] :
                              a \in {a \in Agents : poll[a].pc = "answer"}} :
        x.version = y.version => x.content = y.content

\* ExportConfig implements the promise of ExportedVersions: committed rows are
\* the book, what the agents hold is what they were shown.
Promise == INSTANCE ExportedVersions WITH book <- rows, shown <- agent
ImplementsPromise == Promise!Spec

\* Every agent holds the present content.
CaughtUp == \A a \in Agents : agent[a] # Nothing /\ agent[a].content = content
=============================================================================
