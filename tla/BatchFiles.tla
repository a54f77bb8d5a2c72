----------------------------- MODULE BatchFiles -----------------------------
(***************************************************************************)
(* The metadata of batch files.  The data plane writes a BATCH_FILE hash   *)
(* for each file that passes the gateway; it lives 48 hours.  The          *)
(* reconcile job copies the hashes into batch_files (model/ibatch/sync.go) *)
(* and, on its own, registers the result file of a batch it finds          *)
(* completed (advance.go); both merge with the row already there.  A query *)
(* answers from the table and, for a file not stored yet, from the hash.   *)
(*                                                                         *)
(* A hash is [key, dir, facts, ver]: facts are the fields it has values    *)
(* for, the file's name and its number of lines and bytes, and dir may be  *)
(* missing.  ver numbers the writes of the data plane; a row remembers the *)
(* one it was copied from.                                                 *)
(***************************************************************************)
EXTENDS Naturals, FiniteSets

CONSTANTS Files,          \* (provider, file id) pairs
          FileKeys,       \* API keys
          ProductOf,      \* the product of an API key
          KeyOfFile,      \* the API key a file belongs to
          Outputs,        \* files that are results of a batch
          DirWritten,     \* what the data plane writes into dir: "yes" or "no"
          FileJobs,       \* job runs that may overlap
          FileFacts,      \* fields the data plane may learn later
          MaxHashWrites, MaxFileFaults

Products == {ProductOf[k] : k \in FileKeys}

ASSUME FileConstants ==
    /\ ProductOf \in [FileKeys -> Products] /\ KeyOfFile \in [Files -> FileKeys]
    /\ Outputs \subseteq Files /\ MaxHashWrites \in Nat /\ MaxFileFaults \in Nat

VARIABLES hash,        \* file -> {} or {hash}
          stored,      \* file -> {} or {row of batch_files}
          liveKeys,    \* API keys in the table
          scanned,     \* job -> files its SCAN returned and it has not done yet
          lookups,     \* job -> API key -> answers apiKeyResolveCache holds
          merging,     \* job -> {} or {the file entity about to be merged}
          aims,        \* job -> file -> {} or {hash version the pass must reach}
          hashWrites, fileFaults

fileVars == <<hash, stored, liveKeys, scanned, lookups, merging, aims, hashWrites, fileFaults>>

Hashes == [key : FileKeys, dir : {"none", "input", "output"}, facts : SUBSET FileFacts,
           ver : 1 .. MaxHashWrites]
StoredFiles == [product : Products, dir : {"input", "output"}, facts : SUBSET FileFacts,
                ver : 0 .. MaxHashWrites]

FilesTypeOK ==
    /\ \A f \in Files : /\ hash[f] \subseteq Hashes /\ Cardinality(hash[f]) <= 1
                        /\ stored[f] \subseteq StoredFiles /\ Cardinality(stored[f]) <= 1
    /\ liveKeys \subseteq FileKeys /\ fileFaults \in 0 .. MaxFileFaults
    /\ hashWrites \in 0 .. MaxHashWrites
    /\ \A j \in FileJobs : /\ scanned[j] \subseteq Files
                           /\ \A k \in FileKeys : Cardinality(lookups[j][k]) <= 1
                           /\ Cardinality(merging[j]) <= 1

FilesInit ==
    /\ hash = [f \in Files |-> {}] /\ stored = [f \in Files |-> {}]
    /\ liveKeys = FileKeys /\ fileFaults = 0 /\ hashWrites = 0
    /\ scanned = [j \in FileJobs |-> {}] /\ merging = [j \in FileJobs |-> {}]
    /\ lookups = [j \in FileJobs |-> [k \in FileKeys |-> {}]]
    /\ aims = [j \in FileJobs |-> [f \in Files |-> {}]]

FileFault == fileFaults < MaxFileFaults /\ fileFaults' = fileFaults + 1
Disturbed(f) == [j \in FileJobs |-> [aims[j] EXCEPT ![f] = {}]]

(* ------------------------------- data plane ----------------------------- *)

\* HSET of the file's fields; what is known once stays known.
DataPlaneFile(f) ==
    /\ hashWrites < MaxHashWrites /\ hashWrites' = hashWrites + 1
    /\ \E facts \in SUBSET FileFacts :
          /\ \A h \in hash[f] : h.facts \subseteq facts
          /\ hash' = [hash EXCEPT ![f] =
                {[key |-> KeyOfFile[f], facts |-> facts, ver |-> hashWrites',
                  dir |-> IF DirWritten = "no" THEN "none"
                          ELSE IF f \in Outputs THEN "output" ELSE "input"]}]
    /\ UNCHANGED <<stored, liveKeys, scanned, lookups, merging, aims, fileFaults>>

\* After 48 hours without a write.
HashExpires(f) ==
    /\ FileFault /\ hash[f] # {}
    /\ hash' = [hash EXCEPT ![f] = {}] /\ aims' = Disturbed(f)
    /\ UNCHANGED <<stored, liveKeys, scanned, lookups, merging, hashWrites>>

DeleteKey(k) ==
    /\ FileFault /\ k \in liveKeys
    /\ liveKeys' = liveKeys \ {k}
    /\ aims' = [j \in FileJobs |-> [f \in Files |-> IF KeyOfFile[f] = k THEN {} ELSE aims[j][f]]]
    /\ UNCHANGED <<hash, stored, scanned, lookups, merging, hashWrites>>

(* --------------------------------- merge -------------------------------- *)

\* The answer of the api_keys query, kept for the rest of the pass.
resolve(j, k) == IF lookups[j][k] # {} THEN lookups[j][k] ELSE {k \in liveKeys}

\* The file entity of a hash; a missing direction reads as input.
applyFileView(h) ==
    [product |-> ProductOf[h.key], dir |-> IF h.dir = "none" THEN "input" ELSE h.dir,
     facts |-> h.facts, ver |-> h.ver]

\* What the hash does not say is kept from the row.
mergeFileForSync_Incoming(existing, incoming) == incoming
mergeFileForSync(existing, incoming) ==
    [incoming EXCEPT !.facts = @ \cup UNION {e.facts : e \in existing}]

\* INSERT ... ON DUPLICATE KEY UPDATE: an empty filename does not overwrite.
UpsertByFileProvider(f, merged) ==
    LET kept == {"name"} \cap UNION {e.facts : e \in stored[f]}
    IN  [stored EXCEPT ![f] = {[merged EXCEPT !.facts = @ \cup kept]}]

(* ------------------------------- sync pass ------------------------------ *)

\* SCAN returns each key present throughout; a pass owes a row for those whose
\* API key exists.
SyncStart(j) ==
    /\ scanned[j] = {} /\ merging[j] = {} /\ \E f \in Files : hash[f] # {}
    /\ scanned' = [scanned EXCEPT ![j] = {f \in Files : hash[f] # {}}]
    /\ lookups' = [lookups EXCEPT ![j] = [k \in FileKeys |-> {}]]
    /\ aims' = [aims EXCEPT ![j] =
           [f \in Files |-> {h.ver : h \in {x \in hash[f] : x.key \in liveKeys}}]]
    /\ UNCHANGED <<hash, stored, liveKeys, merging, fileFaults, hashWrites>>

\* SCAN fails: the pass ends, the next one starts over.
SyncScanFails(j) ==
    /\ FileFault /\ scanned[j] # {} /\ merging[j] = {}
    /\ scanned' = [scanned EXCEPT ![j] = {}]
    /\ aims' = [aims EXCEPT ![j] = [f \in Files |-> {}]]
    /\ UNCHANGED <<hash, stored, liveKeys, lookups, merging, hashWrites>>

Visits(j, f) == f \in scanned[j] /\ merging[j] = {} /\ scanned' = [scanned EXCEPT ![j] = @ \ {f}]

\* HGETALL and the owner's lookup; a vanished hash or an unknown key is skipped.
SyncRead(j, f) ==
    /\ Visits(j, f)
    /\ \/ hash[f] = {} /\ UNCHANGED <<lookups, merging>>
       \/ \E h \in hash[f] :
             /\ lookups' = [lookups EXCEPT ![j][h.key] = resolve(j, h.key)]
             /\ merging' = [merging EXCEPT ![j] =
                    IF resolve(j, h.key) = {TRUE} THEN {[file |-> f, entity |-> applyFileView(h)]} ELSE {}]
    /\ UNCHANGED <<hash, stored, liveKeys, aims, fileFaults, hashWrites>>

\* HGETALL or the lookup fails: this file waits for the next pass, nothing is
\* cached.
SyncReadFails(j, f) ==
    /\ FileFault /\ Visits(j, f)
    /\ aims' = [aims EXCEPT ![j][f] = {}]
    /\ UNCHANGED <<hash, stored, liveKeys, lookups, merging, hashWrites>>

syncOneFile(j) ==
    \E g \in merging[j] :
        /\ merging' = [merging EXCEPT ![j] = {}]
        /\ stored' = UpsertByFileProvider(g.file, mergeFileForSync(stored[g.file], g.entity))
        /\ UNCHANGED <<hash, liveKeys, scanned, lookups, aims, fileFaults, hashWrites>>

\* The query for the row, or the upsert, fails.
SyncUpsertFails(j) ==
    \E g \in merging[j] :
        /\ FileFault
        /\ merging' = [merging EXCEPT ![j] = {}]
        /\ aims' = [aims EXCEPT ![j][g.file] = {}]
        /\ UNCHANGED <<hash, stored, liveKeys, scanned, lookups, hashWrites>>

\* AdvanceStatus or BackfillTerminalArtifacts finds the batch's result file.  Runs
\* of a job do not overlap with themselves: the pass before is over.
Seen(f) == IF stored[f] = {} THEN 0 ELSE (CHOOSE r \in stored[f] : TRUE).ver
registerOutputFile(j, f) ==
    /\ f \in Outputs /\ scanned[j] = {} /\ merging[j] = {}
    /\ stored' = UpsertByFileProvider(f, mergeFileForSync(stored[f],
           [product |-> ProductOf[KeyOfFile[f]], dir |-> "output", facts |-> {}, ver |-> Seen(f)]))
    /\ stored' # stored
    /\ UNCHANGED <<hash, liveKeys, scanned, lookups, merging, aims, fileFaults, hashWrites>>

FilesNext ==
    \/ \E f \in Files : DataPlaneFile(f) \/ HashExpires(f)
    \/ \E k \in FileKeys : DeleteKey(k)
    \/ \E j \in FileJobs :
          \/ SyncStart(j) \/ SyncScanFails(j) \/ syncOneFile(j) \/ SyncUpsertFails(j)
          \/ \E f \in Files : SyncRead(j, f) \/ SyncReadFails(j, f) \/ registerOutputFile(j, f)

FilesSpec == FilesInit /\ [][FilesNext]_fileVars

(* -------------------------------- queries ------------------------------- *)

\* The row if it is that product's, else the hash if its key's product is.
FetchFile(f, product) ==
    LET row == {r \in stored[f] : r.product = product}
    IN  IF row # {} THEN row
        ELSE {e \in {applyFileView(h) : h \in {x \in hash[f] : x.key \in liveKeys}} : e.product = product}

contractPurpose(e) == IF e.dir = "input" THEN "batch_input" ELSE "batch_output"

(* ------------------------------ properties ------------------------------ *)

\* When a pass is over, each file it found with an existing key is shown to the
\* product of that key, as recent as the pass found it, and to no other product;
\* a file whose lookup or write failed does not take another one with it.
PassIsComplete ==
    \A j \in FileJobs : scanned[j] = {} /\ merging[j] = {} =>
        \A f \in Files : \A v \in aims[j][f] : \A p \in Products :
            LET shown == FetchFile(f, p)
            IN  IF p = ProductOf[KeyOfFile[f]] THEN \E e \in shown : e.ver >= v ELSE shown = {}

\* Neither a later copy of the hash nor the registration of a result file takes
\* back what batch_files knows: the owner, the direction a query reports as
\* purpose, the file's name and its number of lines.
StoredFactsKept ==
    [][\A f \in Files : \A r \in stored[f] : \E s \in stored'[f] :
          /\ s.product = r.product /\ contractPurpose(s) = contractPurpose(r)
          /\ r.facts \subseteq s.facts]_fileVars

\* A result file is never shown as an input file.
OutputsAreOutputs ==
    \A f \in Outputs : \A p \in Products : \A e \in FetchFile(f, p) : contractPurpose(e) = "batch_output"
=============================================================================
