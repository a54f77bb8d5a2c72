------------------------------- MODULE Access -------------------------------
(***************************************************************************)
(* Accounts and admission to the management API: users, their passwords   *)
(* and session keys, tokens, the role of a user, the permission table of   *)
(* the scopes, and the address whitelist with its hot reload.              *)
(*                                                                         *)
(* A request passes the whitelist (IPProbeAction), is authenticated        *)
(* (UserProbeAction), which takes a copy of the visitor's scopes, and is   *)
(* authorised with that copy when its handler runs.  A login reads the     *)
(* account and writes it back later in its transaction: the read takes no  *)
(* lock, so another transaction may commit in between.                     *)
(*                                                                         *)
(* Abstracted: key material (a session key or a token value is the number  *)
(* it was drawn as), hashing (a stored password is the password and        *)
(* whether it is hashed), the name grammar (Usernames are well formed),    *)
(* the features of the other catalogues (one stands for all).              *)
(***************************************************************************)
EXTENDS Tables, Integers, Sequences

CONSTANTS
    Usernames,       \* names a user may have; "admin" is the built-in one
    TokenNames,
    Passwords,       \* passwords that pass validate.Password
    Legacy,          \* users whose row still holds the password in clear
    Clients,         \* callers of the API, each with one request in flight
    Addresses,       \* client addresses
    Paths,           \* request paths, as sequences of segments
    AccessConfs,     \* contents the [AccessControl] section may get
    MaxAccessWrites, \* bound on writes and reloads
    MaxKeys          \* bound on the keys drawn

ASSUME AccessAssumption ==
    /\ "admin" \in Usernames
    /\ Legacy \subseteq Usernames
    /\ \A conf \in AccessConfs :
          conf.rules \in Seq([prefix : Seq(STRING), nets : SUBSET Addresses, audit : BOOLEAN])
    /\ MaxAccessWrites \in Nat
    /\ MaxKeys \in Nat

VARIABLES
    users,       \* users, rows of type 0
    tokens,      \* users, rows of type 1
    drawn,       \* keys drawn so far
    visits,      \* client -> its request in flight
    logins,      \* client -> the account its login has read
    whitelist,   \* compiledAC, the whitelist in force
    confFile,    \* the [AccessControl] section of the server config file
    confirmed    \* user -> password of the last change that was confirmed

accessVars == <<users, tokens, drawn, visits, logins, whitelist, confFile, confirmed>>

System == "System"
SystemReadonly == "SystemReadonly"
Support == "Support"
Roles == {"system_admin", "system_admin_readonly"}

\* RoleToScopes.
RoleToScopes(role) == IF role = "system_admin" THEN {System} ELSE {SystemReadonly}

\* A row of users: of type 0 for a user, of type 1 for a token.
UserRow == [id : 0..MaxKeys + MaxAccessWrites, scopes : SUBSET {System, SystemReadonly},
            password : [of : Passwords, hashed : BOOLEAN], session : 0..MaxKeys]
TokenRow == [value : 1..MaxKeys, scope : {System, Support}]

\* Actions of actionAll.  "User" and "Token" are features of their own, "Config"
\* stands for a feature of the catalogues.
AllActions == {"Deny", "Read", "ReadAll", "Update", "Create", "Delete", "Export"}

\* actionReadonly.
ReadonlyGrants == {"Read", "ReadAll"}

\* The actions each scope is granted on each feature.
scope2permission ==
    [s \in {System, SystemReadonly, Support} |->
        [f \in {"User", "Token", "Config"} |->
            CASE s = System -> AllActions
              [] s = SystemReadonly -> ReadonlyGrants
              [] s = Support -> IF f = "Config" THEN {"Export"} ELSE {}]]

\* Visitor.IsAdmin of a user (userD2M: the parsed scopes contain System) and of a token.
IsAdmin(scopes) == System \in scopes

Authorizate(scopes, feature, action) ==
    \/ IsAdmin(scopes)
    \/ \E s \in scopes : action \in scope2permission[s][feature]
-----------------------------------------------------------------------------
(* The address whitelist.  A compiled rule is [prefix, nets, audit].        *)

IsPrefixOf(p, path) == Len(p) <= Len(path) /\ SubSeq(path, 1, Len(p)) = p

\* sort.SliceStable by descending length of the prefix: the position of rule i.
SortedAt(rules, i) ==
    Cardinality({j \in DOMAIN rules :
        \/ Len(rules[j].prefix) > Len(rules[i].prefix)
        \/ Len(rules[j].prefix) = Len(rules[i].prefix) /\ j <= i})

SortRules(rules) ==
    [k \in DOMAIN rules |-> rules[CHOOSE i \in DOMAIN rules : SortedAt(rules, i) = k]]

\* CompileAccessControl refuses a section that is enabled and has a rule without
\* subnets; validateAccessControl refuses one that does not parse.
Compiles(conf) ==
    /\ conf.parses
    /\ conf.enable => \A i \in DOMAIN conf.rules : conf.rules[i].nets # {}

\* The compiled section, its rules sorted.
CompileAccessControl(conf) == [enabled |-> conf.enable, rules |-> SortRules(conf.rules)]

\* matchRule: the first rule of the compiled order whose prefix matches.
matchRule(cc, path) ==
    LET hits == {i \in DOMAIN cc.rules : IsPrefixOf(cc.rules[i].prefix, path)} IN
    IF hits = {} THEN {} ELSE {cc.rules[CHOOSE i \in hits : \A j \in hits : i <= j]}

\* IPProbeAction for a client whose address was resolved.
IPProbeAction(cc, path, ip) ==
    cc.enabled => \A r \in matchRule(cc, path) : ip \in r.nets \/ r.audit
-----------------------------------------------------------------------------
NoVisit == [scopes |-> {}, name |-> "", op |-> "none", seen |-> 0]
NoLogin == [name |-> "", with |-> "", row |-> {}]

\* db_ddl.sql stores the user admin with the System scope; the whitelist is
\* compiled at startup.
AccessInit ==
    /\ \E p \in Passwords :
        /\ users = [n \in Usernames |-> IF n = "admin"
                     THEN {[id |-> 0, scopes |-> {System}, session |-> 0,
                            password |-> [of |-> p, hashed |-> "admin" \notin Legacy]]}
                     ELSE {}]
        /\ confirmed = [n \in Usernames |-> IF n = "admin" THEN {p} ELSE {}]
    /\ tokens = EmptyTable(TokenNames)
    /\ drawn = 0
    /\ visits = [c \in Clients |-> NoVisit]
    /\ logins = [c \in Clients |-> NoLogin]
    /\ confFile \in {conf \in AccessConfs : Compiles(conf)}
    /\ whitelist = CompileAccessControl(confFile)

Idling(c) == visits[c] = NoVisit /\ logins[c] = NoLogin
Draw == drawn < MaxKeys /\ drawn' = drawn + 1

\* xcrypto.CheckPassword: the password matches, and is still in clear or not.
CheckPassword(stored, plaintext) == stored.of = plaintext
needMigrate(stored) == ~stored.hashed

\* authTypePassword up to its first query: the account is read and verified.
LoginRead(c, n, p) ==
    /\ Idling(c)
    /\ Exists(users, n) /\ CheckPassword(Row(users, n).password, p)
    /\ logins' = [logins EXCEPT ![c] = [name |-> n, with |-> p, row |-> users[n]]]
    /\ UNCHANGED <<users, tokens, drawn, visits, whitelist, confFile, confirmed, writes>>

\* UpdateUser writes the given columns of the row with the id that was read.
UpdateUser(n, id, row) ==
    users' = IF Exists(users, n) /\ Row(users, n).id = id
             THEN [users EXCEPT ![n] = {row}] ELSE users

\* Mutant: the password read is always written back.
PasswordToWrite_Read(read, given, stored) == read.password

\* The password column after a login: written only when the row read needs it.
PasswordToWrite(read, given, stored) ==
    IF needMigrate(read.password) THEN [of |-> given, hashed |-> TRUE] ELSE stored

\* The rest of the transaction: a fresh session key is stored, and the password
\* as verified, hashed, if the row read still held it in clear.
authTypePassword(c) ==
    LET l == logins[c]
        read == CHOOSE r \in l.row : TRUE
        now == Row(users, l.name)
    IN  /\ l # NoLogin
        /\ Write(MaxAccessWrites) /\ Draw
        /\ IF Exists(users, l.name)
           THEN UpdateUser(l.name, read.id,
                  [now EXCEPT !.session = drawn',
                              !.password = PasswordToWrite(read, l.with, @)])
           ELSE UNCHANGED users
        /\ logins' = [logins EXCEPT ![c] = NoLogin]
        /\ UNCHANGED <<tokens, visits, whitelist, confFile, confirmed>>

\* DestroySessionKey: the row with this key gets the empty key.
DestroySessionKey(n) ==
    /\ Exists(users, n) /\ Row(users, n).session # 0
    /\ Write(MaxAccessWrites)
    /\ users' = [users EXCEPT ![n] = {[r EXCEPT !.session = 0] : r \in @}]
    /\ UNCHANGED <<tokens, drawn, visits, logins, whitelist, confFile, confirmed>>
-----------------------------------------------------------------------------
(* Requests: authenticated first, authorised when the handler runs.         *)

Visitors ==
    {[scopes |-> Row(users, n).scopes, name |-> n] :
        n \in {m \in Usernames : Exists(users, m) /\ Row(users, m).session # 0}}
    \cup {[scopes |-> {Row(tokens, t).scope}, name |-> t] :
        t \in {m \in TokenNames : Exists(tokens, m)}}

\* IPProbeAction and UserProbeAction: the visitor's scopes are copied.
UserProbeAction(c, path, ip) ==
    /\ Idling(c)
    /\ IPProbeAction(whitelist, path, ip)
    /\ \E v \in Visitors :
        visits' = [visits EXCEPT ![c] = [NoVisit EXCEPT !.scopes = v.scopes, !.name = v.name,
                                                        !.op = "arrived"]]
    /\ UNCHANGED <<users, tokens, drawn, logins, whitelist, confFile, confirmed, writes>>

Handling(c, feature, action) ==
    /\ visits[c].op = "arrived"
    /\ Authorizate(visits[c].scopes, feature, action)
    /\ visits' = [visits EXCEPT ![c] = NoVisit]
    /\ UNCHANGED <<logins, whitelist, confFile>>

\* The request ends without a write: refused, or a read.
Answered(c) ==
    /\ visits[c].op # "none"
    /\ visits' = [visits EXCEPT ![c] = NoVisit]
    /\ UNCHANGED <<users, tokens, drawn, logins, whitelist, confFile, confirmed, writes>>

\* The transaction of CreateUser: no user has the name, a row is inserted.
InsertUser(n, row) == ~Exists(users, n) /\ users' = [users EXCEPT ![n] = {row}]

\* userCreateActionProcess and CreateUser; validate.UserName refuses reserved names.
CreateUser(c, n, p, role) ==
    /\ Handling(c, "User", "Create")
    /\ n # "admin"
    /\ Write(MaxAccessWrites)
    /\ InsertUser(n, [id |-> MaxKeys + writes', scopes |-> RoleToScopes(role),
                      password |-> [of |-> p, hashed |-> TRUE], session |-> 0])
    /\ confirmed' = [confirmed EXCEPT ![n] = {p}]
    /\ UNCHANGED <<tokens, drawn>>

\* DeleteUser; the built-in user is not excepted.
DeleteUser(c, n) ==
    /\ Handling(c, "User", "Delete")
    /\ Exists(users, n)
    /\ Write(MaxAccessWrites)
    /\ users' = [users EXCEPT ![n] = {}]
    /\ confirmed' = [confirmed EXCEPT ![n] = {}]
    /\ UNCHANGED <<tokens, drawn>>

\* userUpdatePasswordActionProcess and UpdateUserPassword: a change of one's own
\* password gives the old one; the new one is stored hashed, the session ends.
UpdateUserPassword(c, n, old, p) ==
    /\ Handling(c, "User", "Update")
    /\ visits[c].name = n => old # {}
    /\ Exists(users, n)
    /\ \A o \in old : CheckPassword(Row(users, n).password, o)
    /\ Write(MaxAccessWrites)
    /\ users' = [users EXCEPT ![n] = {[r EXCEPT !.password = [of |-> p, hashed |-> TRUE],
                                                !.session = 0] : r \in @}]
    /\ confirmed' = [confirmed EXCEPT ![n] = {p}]
    /\ UNCHANGED <<tokens, drawn>>

\* userUpdateRoleActionProcess reads the user in one transaction ...
RoleRead(c, n) ==
    /\ visits[c].op = "arrived"
    /\ Authorizate(visits[c].scopes, "User", "Update")
    /\ Exists(users, n)
    /\ visits' = [visits EXCEPT ![c].op = "role", ![c].name = n, ![c].seen = Row(users, n).id]
    /\ UNCHANGED <<users, tokens, drawn, logins, whitelist, confFile, confirmed, writes>>

\* The role of the built-in account is fixed.
RoleAdmitted(n, role) == n = "admin" => role = "system_admin"

\* ... and UpdateUserRole writes its scopes in another.
UpdateUserRole(c, role) ==
    LET n == visits[c].name IN
    /\ visits[c].op = "role"
    /\ RoleAdmitted(n, role)
    /\ Write(MaxAccessWrites)
    /\ IF Exists(users, n)
       THEN UpdateUser(n, visits[c].seen, [Row(users, n) EXCEPT !.scopes = RoleToScopes(role)])
       ELSE UNCHANGED users
    /\ visits' = [visits EXCEPT ![c] = NoVisit]
    /\ UNCHANGED <<tokens, drawn, logins, whitelist, confFile, confirmed>>

\* CreateToken: the name is free, the value is fresh; the request's tag admits
\* the scopes System and Support.
CreateToken(c, t, scope) ==
    /\ Handling(c, "Token", "Create")
    /\ ~Exists(tokens, t)
    /\ Write(MaxAccessWrites) /\ Draw
    /\ tokens' = [tokens EXCEPT ![t] = {[value |-> drawn', scope |-> scope]}]
    /\ UNCHANGED <<users, confirmed>>

\* TokenDestroyActionProcess and DeleteToken.
DeleteToken(c, t) ==
    /\ Handling(c, "Token", "Delete")
    /\ Exists(tokens, t)
    /\ Write(MaxAccessWrites)
    /\ tokens' = [tokens EXCEPT ![t] = {}]
    /\ UNCHANGED <<users, drawn, confirmed>>

\* An operator edits the section; nothing in the process changes.
EditConf(conf) ==
    /\ confFile' = conf /\ conf # confFile
    /\ Write(MaxAccessWrites)
    /\ UNCHANGED <<users, tokens, drawn, visits, logins, whitelist, confirmed>>

\* ReloadAccessControl: a section that fails leaves the whitelist in force.
ReloadAccessControl ==
    /\ Compiles(confFile)
    /\ whitelist' = CompileAccessControl(confFile)
    /\ whitelist' # whitelist
    /\ UNCHANGED <<users, tokens, drawn, visits, logins, confFile, confirmed, writes>>

AccessNext ==
    \/ \E c \in Clients, n \in Usernames, p \in Passwords : LoginRead(c, n, p)
    \/ \E c \in Clients : authTypePassword(c)
    \/ \E n \in Usernames : DestroySessionKey(n)
    \/ \E c \in Clients, path \in Paths, ip \in Addresses : UserProbeAction(c, path, ip)
    \/ \E c \in Clients : Answered(c)
    \/ \E c \in Clients, n \in Usernames, p \in Passwords, r \in Roles : CreateUser(c, n, p, r)
    \/ \E c \in Clients, n \in Usernames : DeleteUser(c, n)
    \/ \E c \in Clients, n \in Usernames, p \in Passwords :
        \E old \in {{}} \cup {{o} : o \in Passwords} : UpdateUserPassword(c, n, old, p)
    \/ \E c \in Clients, n \in Usernames : RoleRead(c, n)
    \/ \E c \in Clients, r \in Roles : UpdateUserRole(c, r)
    \/ \E c \in Clients, t \in TokenNames, s \in {System, Support} : CreateToken(c, t, s)
    \/ \E c \in Clients, t \in TokenNames : DeleteToken(c, t)
    \/ \E conf \in AccessConfs : EditConf(conf)
    \/ ReloadAccessControl

AccessSpec == AccessInit /\ writes = 0 /\ [][AccessNext]_<<accessVars, writes>>
-----------------------------------------------------------------------------
\* Types: at most one row per name and type, as the unique key of users has it.
AccessTypeOK ==
    /\ \A n \in Usernames : users[n] \subseteq UserRow /\ Cardinality(users[n]) <= 1
    /\ \A t \in TokenNames : tokens[t] \subseteq TokenRow /\ Cardinality(tokens[t]) <= 1
    /\ drawn \in 0..MaxKeys
    /\ confFile \in AccessConfs
    /\ \A c \in Clients : visits[c].op \in {"none", "arrived", "role"}

\* The account stored under a name has the password of the last change that was
\* confirmed for it: a login that read the row before the change and writes it
\* after writes no password (authTypePassword, UpdateUserPassword).  Stated for
\* rows that are hashed; the lazy migration of a row in clear writes it back.
PasswordChangeKept ==
    \A n \in Usernames : {r.password.of : r \in users[n]} = confirmed[n]

\* The built-in user, while it exists, keeps the scope System through every
\* change of roles, also one that was prepared before another (UpdateUserRole).
BuiltInStaysAdmin == \A r \in users["admin"] : r.scopes = {System}

\* What the whitelist answers, from the section alone: the rule with the longest
\* matching prefix decides, the first of the section among equals.
Longest(conf, path) ==
    {i \in DOMAIN conf.rules :
        /\ IsPrefixOf(conf.rules[i].prefix, path)
        /\ \A j \in DOMAIN conf.rules : IsPrefixOf(conf.rules[j].prefix, path) =>
            \/ Len(conf.rules[j].prefix) < Len(conf.rules[i].prefix)
            \/ Len(conf.rules[j].prefix) = Len(conf.rules[i].prefix) /\ i <= j}

\* Whatever was edited and reloaded, in whatever order, the whitelist in force
\* answers as some section that compiles does, read by the longest-prefix rule:
\* a section that fails never takes part (CompileAccessControl, IPProbeAction).
WhitelistDecides ==
    \E conf \in {x \in AccessConfs : Compiles(x)} : \A path \in Paths, ip \in Addresses :
        IPProbeAction(whitelist, path, ip) <=>
            (conf.enable => \A i \in Longest(conf, path) :
                ip \in conf.rules[i].nets \/ conf.rules[i].audit)

\* Overlapping logins, changes of passwords and roles and reloads of the whitelist lose
\* no confirmed password, leave the built-in user its scope, and only ever put a section
\* that compiles in force.
AccessSound == PasswordChangeKept /\ BuiltInStaysAdmin /\ WhitelistDecides
=============================================================================
