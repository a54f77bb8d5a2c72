---------------------------- MODULE Certificate -----------------------------
(***************************************************************************)
(* The TLS certificates: created with a certificate file and a key file,   *)
(* made the default one, deleted, and exported.  A request reads the       *)
(* certificate of its URL, then runs one transaction, whose reads see the  *)
(* snapshot taken when it starts; requests of several admins overlap.      *)
(***************************************************************************)
EXTENDS Tables

CONSTANTS CertNames, CertContents, KeyContents,
          CertPair,          \* the pairs of contents that belong together
          CertAdmins, MaxCertWrites

ASSUME CertAssumption == CertPair \subseteq CertContents \X KeyContents /\ MaxCertWrites \in Nat

VARIABLES certs,      \* certificates: name -> at most one row
          extraFiles, \* extra_files: path -> at most one content
          certReq,    \* what each admin's request has read
          certRaced   \* whether two requests have overlapped

certVars == <<certs, extraFiles, certReq, certRaced>>

CertFilePath(n) == <<n, "crt">>
KeyFilePath(n) == <<n, "key">>
CertRow == [isDefault : BOOLEAN, certFile : CertNames \X {"crt"}, keyFile : CertNames \X {"key"}]

-----------------------------------------------------------------------------
NoCertReq == [at |-> "none"]
Defaults(table) == {n \in CertNames : Exists(table, n) /\ Row(table, n).isDefault}

CertStep(a, next) ==
    /\ certReq' = [certReq EXCEPT ![a] = next]
    /\ certRaced' = (certRaced \/ (next # NoCertReq /\ \E b \in CertAdmins \ {a} : certReq[b] # NoCertReq))

\* One of the defaults a list holds, if it holds any.
OneOf(names) == IF names = {} THEN {{}} ELSE {{n} : n \in names}

Cleared(table, names) ==
    [n \in CertNames |-> IF n \in names THEN {[r EXCEPT !.isDefault = FALSE] : r \in table[n]} ELSE table[n]]

\* UPDATE ... WHERE cert_name: nothing happens if the row is gone.
MadeDefault(table, name) ==
    [table EXCEPT ![name] = {[r EXCEPT !.isDefault = TRUE] : r \in @}]

\* The first certificate has to be the default one.
CreateAdmitted(seen, name, isDefault) ==
    ~Exists(seen, name) /\ (Defaults(seen) # {} \/ isDefault)

validateCertPair(cert, key) == <<cert, key>> \in CertPair

\* The transaction of a create starts, and lists the certificates.
CreateCertificate(a, name, cert, key, isDefault) ==
    /\ certReq[a] = NoCertReq /\ writes < MaxCertWrites
    /\ validateCertPair(cert, key) /\ CreateAdmitted(certs, name, isDefault)
    /\ CertStep(a, [at |-> "create", name |-> name, cert |-> cert, key |-> key,
                    isDefault |-> isDefault, defaults |-> Defaults(certs)])
    /\ UNCHANGED <<certs, extraFiles, writes>>

\* It clears the last default it saw and inserts the files and the certificate, or the
\* unique keys of the two tables roll it back.
CreateCommits(a) ==
    LET q == certReq[a]
        row == [isDefault |-> q.isDefault, certFile |-> CertFilePath(q.name),
                keyFile |-> KeyFilePath(q.name)]
    IN /\ q.at = "create" /\ Write(MaxCertWrites)
       /\ IF Exists(certs, q.name) THEN UNCHANGED <<certs, extraFiles>>
          ELSE /\ \E last \in OneOf(q.defaults) :
                     certs' = [Cleared(certs, IF q.isDefault THEN last ELSE {})
                                 EXCEPT ![q.name] = {row}]
               /\ extraFiles' = [extraFiles EXCEPT ![CertFilePath(q.name)] = {q.cert},
                                                   ![KeyFilePath(q.name)] = {q.key}]
       /\ CertStep(a, NoCertReq)

\* The endpoints of PATCH and DELETE read the certificate they are about.
FetchCertificate(a, op, name) ==
    /\ certReq[a] = NoCertReq /\ writes < MaxCertWrites /\ Exists(certs, name)
    /\ CertStep(a, [at |-> op, name |-> name, isDefault |-> Row(certs, name).isDefault])
    /\ UNCHANGED <<certs, extraFiles, writes>>

\* Mutant: the key's file is left.
DeletedFiles_CertOnly(name) == {CertFilePath(name)}

DeletedFiles(name) == {CertFilePath(name), KeyFilePath(name)}

DeleteAdmitted(q) == ~q.isDefault

DeleteCertificate(a) ==
    LET q == certReq[a]
    IN /\ q.at = "delete" /\ Write(MaxCertWrites) /\ CertStep(a, NoCertReq)
       /\ IF ~DeleteAdmitted(q) THEN UNCHANGED <<certs, extraFiles>>
          ELSE /\ certs' = [certs EXCEPT ![q.name] = {}]
               /\ extraFiles' = [f \in DOMAIN extraFiles |->
                                   IF f \in DeletedFiles(q.name) THEN {} ELSE extraFiles[f]]

\* The transaction of UpdateAsDefaultCertificate lists the defaults ...
DefaultBegins(a) ==
    LET q == certReq[a]
    IN /\ q.at = "default" /\ ~q.isDefault
       /\ CertStep(a, [at |-> "switch", name |-> q.name, defaults |-> Defaults(certs)])
       /\ UNCHANGED <<certs, extraFiles, writes>>

\* ... or there is nothing to do ...
DefaultAlready(a) ==
    /\ certReq[a].at = "default" /\ certReq[a].isDefault
    /\ CertStep(a, NoCertReq) /\ UNCHANGED <<certs, extraFiles, writes>>

\* ... and clears the first of them and sets the certificate.
UpdateAsDefaultCertificate(a) ==
    LET q == certReq[a]
    IN /\ q.at = "switch" /\ Write(MaxCertWrites) /\ CertStep(a, NoCertReq)
       /\ \E first \in OneOf(q.defaults) :
             certs' = MadeDefault(Cleared(certs, first), q.name)
       /\ UNCHANGED extraFiles

\* The exported file: its default certificate, and the files of every certificate.
certificateGenerator ==
    [default |-> Defaults(certs),
     certConf |-> [n \in {m \in CertNames : Exists(certs, m)} |->
                     <<Row(certs, n).certFile, Row(certs, n).keyFile>>]]

-----------------------------------------------------------------------------
CertInit ==
    /\ certs = EmptyTable(CertNames)
    /\ extraFiles = EmptyTable(CertNames \X {"crt", "key"})
    /\ certReq = [a \in CertAdmins |-> NoCertReq] /\ certRaced = FALSE

CertNext ==
    \E a \in CertAdmins :
        \/ \E n \in CertNames, c \in CertContents, k \in KeyContents, d \in BOOLEAN :
              CreateCertificate(a, n, c, k, d)
        \/ CreateCommits(a)
        \/ \E n \in CertNames, op \in {"delete", "default"} : FetchCertificate(a, op, n)
        \/ DeleteCertificate(a)
        \/ DefaultBegins(a) \/ DefaultAlready(a) \/ UpdateAsDefaultCertificate(a)

CertSpec == CertInit /\ writes = 0 /\ [][CertNext]_<<certVars, writes>>

-----------------------------------------------------------------------------
(* Properties.                                                             *)

\* Both tables have the rows the code can write.
CertTypeOK ==
    /\ \A n \in CertNames : Cardinality(certs[n]) <= 1 /\ certs[n] \subseteq CertRow
    /\ \A f \in DOMAIN extraFiles :
          Cardinality(extraFiles[f]) <= 1 /\ extraFiles[f] \subseteq CertContents \cup KeyContents

\* However requests overlap, the data plane can fetch both files of every exported
\* certificate, they belong together, and no file of a deleted one is left over.
ExportedPairsServed ==
    LET conf == certificateGenerator.certConf
    IN /\ \A n \in DOMAIN conf :
             \E c \in extraFiles[conf[n][1]], k \in extraFiles[conf[n][2]] : <<c, k>> \in CertPair
       /\ \A n \in CertNames \ DOMAIN conf :
             extraFiles[CertFilePath(n)] = {} /\ extraFiles[KeyFilePath(n)] = {}

\* "There must be exactly one default certificate" (the documentation of the
\* certificates), once there is a certificate.
OneDefault ==
    \A n \in CertNames : Exists(certs, n) => Cardinality(certificateGenerator.default) = 1

\* Unless two requests have overlapped, there is exactly one.
OneDefaultInTurn == ~certRaced => OneDefault
=============================================================================
