----------------------- MODULE AdministrationProofs -----------------------
(***************************************************************************)
(* The proofs about what the API administers and the program records: user *)
(* accounts, status pages, dashboards, checks, the MongoDB mirror, chats   *)
(* and logs.  Each component has its own specification, invariant and      *)
(* theorem, in a section of its own; no proof uses another's.              *)
(***************************************************************************)
EXTENDS UserAccounts, StatusPages, Dashboards, CheckStore, HybridStore, Chat, Logs,
        FiniteSetTheorems, SequenceTheorems, TLAPS

(***************************************************************************)
(* User accounts.  On MongoDB names are unique unless one was created      *)
(* twice, and a deletion that nothing overtook still leaves an             *)
(* administrator of another name; on the file store the same is said of    *)
(* the map and of the file.  A token of an administrator expires at most   *)
(* its life after its user was last one.                                   *)
(***************************************************************************)
Accounts    == [key : Keys, spelling : Spellings \cup {0}, role : Roles, pass : Nat]
Insertions  == [op : {"insert"}, doc : Accounts]
RoleChanges == [op : {"update"}, key : Keys, role : Roles \cup {""}, pass : Nat]
Deletions   == [op : {"count", "delete"}, key : Keys, overtaken : BOOLEAN]
AdminsOf(accounts) == {u \in accounts : u.role = "admin"}

RequestsTypeOK == req \in [Requests -> {NoReq} \cup Insertions \cup RoleChanges \cup Deletions]

AccountsTypeOK ==
    /\ users \subseteq Accounts /\ file \subseteq Accounts
    /\ RequestsTypeOK /\ (store = "file" \/ ~upUsers => \A r \in Requests : req[r] = NoReq)
    /\ lastAdmin \in [Keys -> Nat] /\ clock \in Nat /\ store \in {"mongo", "file"}

\* What is known of the tokens.
TokensExpire ==
    /\ \A k \in Keys : lastAdmin[k] <= clock
    /\ \A u \in Admins : lastAdmin[u.key] = clock
    /\ \A t \in tokens : /\ t.key \in Keys /\ t.exp \in Nat
                         /\ t.role = "admin" => t.exp <= lastAdmin[t.key] + TokenTTL

MongoMishap == mishaps \cap {"demoted", "overtaken", "duplicate"} # {}
FileMishap  == mishaps \cap {"demoted", "replaced"} # {}

OneAccountEach == "duplicate" \notin mishaps => \A u, v \in users : u.key = v.key => u = v

\* Whoever deletes without having been overtaken leaves another administrator.
Survivor(k) == MongoMishap \/ \E a \in Admins : a.key # k

MongoKept ==
    /\ OneAccountEach
    /\ upUsers \/ users # {} => MongoMishap \/ Admins # {}
    /\ \A r \in Requests : (req[r].op = "delete" /\ ~req[r].overtaken) => Survivor(req[r].key)

FileKept ==
    /\ upUsers => FileMishap \/ Admins # {}
    /\ file = {} \/ FileMishap \/ AdminsOf(file) # {}

UsersInv ==
    /\ AccountsTypeOK /\ TokensExpire
    /\ store = "mongo" => MongoKept
    /\ store = "file" => FileKept

LEMMA RequestKinds ==
    /\ NoReq.op = "idle"
    /\ \A q \in Insertions : q.op = "insert" /\ q.doc \in Accounts
    /\ \A q \in RoleChanges : q.op = "update" /\ q.key \in Keys
    /\ \A q \in Deletions : q.op \in {"count", "delete"} /\ q.key \in Keys
BY DEF NoReq, Insertions, RoleChanges, Deletions

\* A change of the accounts, and the tokens that are out.
LEMMA HoldStep ==
    ASSUME AccountsTypeOK, TokensExpire, NEW new \in SUBSET Accounts, Hold(new), UNCHANGED <<clock, tokens>>
    PROVE  users' = new /\ Admins' = AdminsOf(new) /\ lastAdmin' \in [Keys -> Nat] /\ TokensExpire'
<1>1. users' = new /\ Admins' = AdminsOf(new)
  BY DEF Hold, Admins, AdminsOf
<1>2. /\ \A k \in Keys : lastAdmin'[k] = clock \/ lastAdmin'[k] = lastAdmin[k]
      /\ \A u \in new : u.role = "admin" => lastAdmin'[u.key] = clock
      /\ \A k \in Keys : lastAdmin'[k] \in Nat /\ lastAdmin[k] <= lastAdmin'[k] /\ lastAdmin'[k] <= clock
  <2>1. \A k \in Keys : lastAdmin'[k] = clock \/ lastAdmin'[k] = lastAdmin[k]
    BY DEF Hold
  <2>2. ASSUME NEW u \in new, u.role = "admin" PROVE lastAdmin'[u.key] = clock
    <3>1. u.key \in Keys
      BY DEF Accounts
    <3> QED
      BY <2>2, <3>1 DEF Hold
  <2>3. \A k \in Keys : lastAdmin'[k] \in Nat /\ lastAdmin[k] <= lastAdmin'[k] /\ lastAdmin'[k] <= clock
    BY <2>1 DEF AccountsTypeOK, TokensExpire
  <2> QED
    BY <2>1, <2>2, <2>3
<1>3. lastAdmin' \in [Keys -> Nat]
  <2>1. DOMAIN lastAdmin' = Keys /\ lastAdmin' = [k \in Keys |-> lastAdmin'[k]]
    BY DEF Hold
  <2> QED
    BY <1>2, <2>1
<1>4. \A u \in Admins' : lastAdmin'[u.key] = clock'
  BY <1>1, <1>2 DEF AdminsOf
<1>5. ASSUME NEW x \in tokens'
      PROVE  x.key \in Keys /\ x.exp \in Nat /\ (x.role = "admin" => x.exp <= lastAdmin'[x.key] + TokenTTL)
  <2>1. x.key \in Keys /\ x.exp \in Nat /\ (x.role = "admin" => x.exp <= lastAdmin[x.key] + TokenTTL)
    BY DEF TokensExpire
  <2>2. lastAdmin[x.key] \in Nat /\ lastAdmin'[x.key] \in Nat /\ lastAdmin[x.key] <= lastAdmin'[x.key]
    BY <1>2, <2>1 DEF AccountsTypeOK
  <2> QED
    BY <2>1, <2>2, UserAssumption
<1> QED
  BY <1>1, <1>2, <1>3, <1>4, <1>5 DEF TokensExpire

\* The same, with the file that is written.
LEMMA PutStep ==
    ASSUME AccountsTypeOK, TokensExpire, NEW new \in SUBSET Accounts, Put(new), UNCHANGED <<clock, tokens, store>>
    PROVE  /\ users' = new /\ Admins' = AdminsOf(new) /\ lastAdmin' \in [Keys -> Nat] /\ TokensExpire'
           /\ file' \subseteq Accounts /\ file' \in {new, file, {}}
           /\ RequestsTypeOK' /\ (store = "file" \/ ~upUsers' => \A r \in Requests : req'[r] = NoReq) => AccountsTypeOK'
<1>1. Hold(new) /\ save(new)
  BY DEF Put
<1>2. file' \in {new, file, {}}
  BY <1>1 DEF save
<1>3. file' \subseteq Accounts
  BY <1>2 DEF AccountsTypeOK
<1>4. users' = new /\ Admins' = AdminsOf(new) /\ lastAdmin' \in [Keys -> Nat] /\ TokensExpire'
  BY <1>1, HoldStep
<1> QED
  BY <1>2, <1>3, <1>4 DEF AccountsTypeOK

\* On the file store a write is safe when it leaves an administrator, or what
\* happened to the last one is on record.
LEMMA FileStep ==
    ASSUME FileKept, NEW new, Admins' = AdminsOf(new), file' \in {new, file, {}}, mishaps \subseteq mishaps',
           FileMishap' \/ AdminsOf(new) # {}
    PROVE  FileKept'
BY DEF FileKept, FileMishap

\* A step that leaves the accounts alone.
LEMMA AccountsSame ==
    ASSUME UsersInv, UNCHANGED <<store, users, file, lastAdmin, clock>>,
           tokens' = tokens, mishaps \subseteq mishaps', mishaps' \cap {"duplicate"} \subseteq mishaps
    PROVE  /\ TokensExpire' /\ users' \subseteq Accounts /\ file' \subseteq Accounts
           /\ (store = "file" /\ (upUsers' => upUsers)) => FileKept'
           /\ store = "mongo" => /\ OneAccountEach'
                                 /\ (upUsers' => upUsers) => (upUsers' \/ users' # {} => MongoMishap' \/ Admins' # {})
                                 /\ \A k \in Keys : Survivor(k) => Survivor(k)'
<1>1. Admins' = Admins
  BY DEF Admins
<1>2. (MongoMishap => MongoMishap') /\ (FileMishap => FileMishap')
  BY DEF MongoMishap, FileMishap
<1>3. TokensExpire' /\ users' \subseteq Accounts /\ file' \subseteq Accounts
  BY <1>1 DEF UsersInv, TokensExpire, AccountsTypeOK
<1>4. (store = "file" /\ (upUsers' => upUsers)) => FileKept'
  BY <1>1, <1>2 DEF UsersInv, FileKept
<1>5. store = "mongo" => /\ OneAccountEach'
                         /\ (upUsers' => upUsers) => (upUsers' \/ users' # {} => MongoMishap' \/ Admins' # {})
                         /\ \A k \in Keys : Survivor(k) => Survivor(k)'
  BY <1>1, <1>2 DEF UsersInv, MongoKept, OneAccountEach, Survivor
<1> QED
  BY <1>3, <1>4, <1>5

\* Replacing a document by one with its key.
LEMMA ReplaceAccount ==
    ASSUME OneAccountEach, NEW u \in users, NEW v, v.key = u.key,
           users' = (users \ {u}) \cup {v}, "duplicate" \in mishaps => "duplicate" \in mishaps'
    PROVE  OneAccountEach'
BY DEF OneAccountEach

LEMMA UsersInitInv == UsersInit => UsersInv
<1> SUFFICES ASSUME UsersInit PROVE UsersInv
  OBVIOUS
<1>1. AccountsTypeOK
  BY UserAssumption DEF UsersInit, AccountsTypeOK, RequestsTypeOK
<1>2. Admins = {} /\ users = {} /\ ~upUsers
  BY DEF UsersInit, Admins
<1>3. TokensExpire
  BY <1>2 DEF UsersInit, TokensExpire
<1>4. \A r \in Requests : req[r].op # "delete"
  BY RequestKinds DEF UsersInit
<1> QED
  BY <1>1, <1>2, <1>3, <1>4 DEF UsersInv, UsersInit, MongoKept, FileKept, OneAccountEach

LEMMA StartStep == UsersInv /\ StartUsers => UsersInv'
<1> SUFFICES ASSUME UsersInv, StartUsers PROVE UsersInv'
  OBVIOUS
<1>1. /\ ~upUsers /\ upUsers' = TRUE /\ UNCHANGED <<store, clock, tokens, req, mishaps>>
      /\ StartMongo \/ NewUserStore
      /\ AccountsTypeOK /\ TokensExpire
  BY DEF StartUsers, UsersInv
<1>2. /\ RequestsTypeOK' /\ (store = "file" \/ ~upUsers' => \A r \in Requests : req'[r] = NoReq)
      /\ \A r \in Requests : req'[r].op # "delete"
  BY <1>1, RequestKinds DEF AccountsTypeOK, RequestsTypeOK
<1>3. (FileMishap' <=> FileMishap) /\ (MongoMishap' <=> MongoMishap)
  BY <1>1 DEF FileMishap, MongoMishap
<1>4. ASSUME NEW pass \in Passwords, NEW forceReset \in BOOLEAN, BootstrapAdmin(pass, forceReset), store = "mongo"
      PROVE  UsersInv'
  <2> DEFINE adm == [key |-> "admin", spelling |-> 0, role |-> "admin", pass |-> pass]
  <2>1. adm \in Accounts /\ pass \in Nat
    BY UserAssumption DEF Accounts, Roles
  <2>2. CASE Of("admin") = {}
    <3>1. Put(users \cup {adm}) /\ users \cup {adm} \in SUBSET Accounts
      BY <1>1, <1>4, <2>1, <2>2 DEF BootstrapAdmin, AccountsTypeOK
    <3>2. users' = users \cup {adm} /\ adm \in Admins' /\ TokensExpire' /\ AccountsTypeOK'
      BY <1>1, <1>2, <3>1, PutStep DEF AdminsOf
    <3>3. OneAccountEach'
      BY <1>1, <1>4, <2>2, <3>2 DEF UsersInv, MongoKept, OneAccountEach, Of
    <3> QED
      BY <1>1, <1>2, <1>4, <3>2, <3>3 DEF UsersInv, MongoKept
  <2>3. CASE Of("admin") # {} /\ ~forceReset
    <3>1. UNCHANGED <<users, file, lastAdmin>>
      BY <1>4, <2>3 DEF BootstrapAdmin
    <3>2. users # {}
      BY <2>3 DEF Of
    <3>3. Admins' = Admins /\ TokensExpire' /\ OneAccountEach' /\ AccountsTypeOK'
      BY <1>1, <1>2, <1>4, <3>1 DEF UsersInv, MongoKept, OneAccountEach, TokensExpire, AccountsTypeOK, Admins
    <3> QED
      BY <1>1, <1>2, <1>3, <1>4, <3>2, <3>3 DEF UsersInv, MongoKept
  <2>4. CASE Of("admin") # {} /\ forceReset
    <3>1. PICK u \in Of("admin") : Put((users \ {u}) \cup {[u EXCEPT !.role = "admin", !.pass = pass]})
      BY <1>4, <2>4 DEF BootstrapAdmin
    <3> DEFINE v == [u EXCEPT !.role = "admin", !.pass = pass]
               new == (users \ {u}) \cup {v}
    <3>2. u \in users /\ u \in Accounts
      BY <1>1 DEF Of, AccountsTypeOK
    <3>3. v \in Accounts /\ v.key = u.key /\ v.role = "admin"
      BY <2>1, <3>2 DEF Accounts, Roles
    <3>4. new \in SUBSET Accounts
      BY <1>1, <3>3 DEF AccountsTypeOK
    <3> HIDE DEF v
    <3>5. users' = new /\ Admins' = AdminsOf(new) /\ TokensExpire' /\ AccountsTypeOK'
      <4>1. Put(new)
        BY <3>1 DEF v
      <4> QED
        BY <1>1, <1>2, <3>4, <4>1, PutStep
    <3>6. v \in Admins'
      BY <3>3, <3>5 DEF AdminsOf
    <3>7. OneAccountEach'
      BY <1>1, <1>4, <3>2, <3>3, <3>5, ReplaceAccount DEF UsersInv, MongoKept
    <3> QED
      BY <1>1, <1>2, <1>4, <3>5, <3>6, <3>7 DEF UsersInv, MongoKept
  <2> QED
    BY <2>2, <2>3, <2>4
<1>5. CASE StartMongo
  <2>1. store = "mongo"
    BY <1>5 DEF StartMongo
  <2>2. CASE Of("admin") # {} /\ UNCHANGED <<users, file, lastAdmin>>
    <3>1. users # {}
      BY <2>2 DEF Of
    <3>2. Admins' = Admins /\ TokensExpire' /\ OneAccountEach' /\ AccountsTypeOK'
      BY <1>1, <1>2, <2>1, <2>2 DEF UsersInv, MongoKept, OneAccountEach, TokensExpire, AccountsTypeOK, Admins
    <3> QED
      BY <1>1, <1>2, <1>3, <2>1, <3>1, <3>2 DEF UsersInv, MongoKept
  <2> QED
    BY <1>4, <1>5, <2>1, <2>2 DEF StartMongo
<1>6. CASE NewUserStore
  <2>1. store = "file"
    BY <1>6 DEF NewUserStore
  <2>2. CASE file = {}
    <3>1. {DefaultAdmin} \in SUBSET Accounts /\ DefaultAdmin \in AdminsOf({DefaultAdmin})
      BY UserAssumption DEF Accounts, DefaultAdmin, AdminsOf, Roles
    <3>2. Put({DefaultAdmin})
      BY <1>6, <2>2 DEF NewUserStore
    <3>3. /\ Admins' = AdminsOf({DefaultAdmin}) /\ file' \in {{DefaultAdmin}, file, {}}
          /\ TokensExpire' /\ AccountsTypeOK'
      BY <1>1, <1>2, <3>1, <3>2, PutStep
    <3>4. FileKept'
      BY <1>1, <2>1, <3>1, <3>3, FileStep DEF UsersInv
    <3> QED
      BY <1>1, <2>1, <3>3, <3>4 DEF UsersInv
  <2>3. CASE file # {}
    <3>1. Hold(file) /\ file' = file /\ file \in SUBSET Accounts
      BY <1>1, <1>6, <2>3 DEF NewUserStore, AccountsTypeOK
    <3>2. users' = file /\ Admins' = AdminsOf(file) /\ lastAdmin' \in [Keys -> Nat] /\ TokensExpire'
      BY <1>1, <3>1, HoldStep
    <3>3. AccountsTypeOK'
      BY <1>1, <1>2, <3>1, <3>2 DEF AccountsTypeOK
    <3>4. FileMishap \/ AdminsOf(file) # {}
      BY <2>1, <2>3 DEF UsersInv, FileKept
    <3>5. FileKept'
      BY <1>1, <1>3, <2>1, <3>1, <3>2, <3>4 DEF FileKept
    <3> QED
      BY <1>1, <2>1, <3>2, <3>3, <3>5 DEF UsersInv
  <2> QED
    BY <2>2, <2>3
<1> QED
  BY <1>1, <1>5, <1>6

\* A request of MongoDB's server moves on without touching the accounts.
LEMMA RequestMoves ==
    ASSUME UsersInv, NEW r \in Requests, store = "mongo", upUsers,
           UNCHANGED <<store, users, file, upUsers, lastAdmin, clock, tokens, mishaps>>,
           NEW q \in {NoReq} \cup Insertions \cup RoleChanges \cup Deletions,
           req' = [req EXCEPT ![r] = q],
           (q.op = "delete" /\ ~q.overtaken) => Survivor(q.key)
    PROVE  UsersInv'
<1>1. req' \in [Requests -> {NoReq} \cup Insertions \cup RoleChanges \cup Deletions]
  BY DEF UsersInv, AccountsTypeOK, RequestsTypeOK
<1>2. AccountsTypeOK'
  BY <1>1, AccountsSame DEF UsersInv, AccountsTypeOK, RequestsTypeOK
<1>3. ASSUME NEW s \in Requests, req'[s].op = "delete", ~req'[s].overtaken,
             NEW k, k = req'[s].key
      PROVE  Survivor(k)'
  <2>1. req'[r] = q /\ (s # r => req'[s] = req[s])
    BY DEF UsersInv, AccountsTypeOK, RequestsTypeOK
  <2>2. req'[s] \in Deletions
    BY <1>1, <1>3, RequestKinds
  <2>3. Survivor(k) /\ k \in Keys
    BY <1>3, <2>1, <2>2, RequestKinds DEF UsersInv, MongoKept
  <2>4. \A l \in Keys : Survivor(l) => Survivor(l)'
    BY AccountsSame
  <2> QED
    BY <2>3, <2>4
<1>4. TokensExpire' /\ OneAccountEach' /\ (upUsers' \/ users' # {} => MongoMishap' \/ Admins' # {})
  BY AccountsSame
<1>5. \A s \in Requests : (req'[s].op = "delete" /\ ~req'[s].overtaken) => Survivor(req[s].key)'
  BY <1>3 DEF Survivor
<1> QED
  BY <1>2, <1>4, <1>5 DEF UsersInv, MongoKept

\* A write of request r on MongoDB, after which it is done.
LEMMA RequestWrites ==
    ASSUME UsersInv, NEW r \in Requests, store = "mongo", upUsers,
           NEW new \in SUBSET Accounts, Put(new), UNCHANGED <<store, upUsers, clock, tokens>>,
           req' \in [Requests -> {NoReq} \cup Insertions \cup RoleChanges \cup Deletions],
           OneAccountEach', MongoMishap' \/ Admins' # {},
           \A s \in Requests : (req'[s].op = "delete" /\ ~req'[s].overtaken) =>
               /\ s # r /\ req'[s] = req[s]
               /\ \A k : Survivor(k) => Survivor(k)'
    PROVE  UsersInv'
<1>1. AccountsTypeOK' /\ TokensExpire'
  BY PutStep DEF UsersInv, RequestsTypeOK
<1>2. \A s \in Requests : (req'[s].op = "delete" /\ ~req'[s].overtaken) => Survivor(req[s].key)'
  <2> SUFFICES ASSUME NEW s \in Requests, req'[s].op = "delete", ~req'[s].overtaken, NEW k, k = req[s].key
               PROVE  Survivor(k)'
    BY DEF Survivor
  <2> QED
    BY DEF UsersInv, MongoKept
<1> QED
  BY <1>1, <1>2 DEF UsersInv, MongoKept

LEMMA CreateStep == ASSUME UsersInv, NEW r \in Requests, CreateRequest(r) \/ Insert(r) PROVE UsersInv'
<1> USE DEF UsersInv
<1>1. CASE CreateRequest(r)
  <2>1. PICK n \in Names, role \in Roles, pass \in Passwords :
          req' = [req EXCEPT ![r] = [op |-> "insert", doc |-> [key |-> n.key, spelling |-> 0, role |-> role, pass |-> pass]]]
    BY <1>1 DEF CreateRequest
  <2> DEFINE q == [op |-> "insert", doc |-> [key |-> n.key, spelling |-> 0, role |-> role, pass |-> pass]]
  <2>2. q \in Insertions
    BY UserAssumption DEF Insertions, Accounts, Names
  <2>3. q.op # "delete"
    OBVIOUS
  <2> HIDE DEF q
  <2>4. req' = [req EXCEPT ![r] = q]
    BY <2>1 DEF q
  <2>5. store = "mongo" /\ upUsers /\ UNCHANGED <<store, users, file, upUsers, lastAdmin, clock, tokens, mishaps>>
    BY <1>1 DEF CreateRequest
  <2> QED
    BY <2>2, <2>3, <2>4, <2>5, RequestMoves
<1>2. CASE Insert(r)
  <2> DEFINE doc == req[r].doc
  <2>1. /\ upUsers /\ req[r].op = "insert" /\ UNCHANGED <<store, upUsers, clock, tokens>>
        /\ req' = [req EXCEPT ![r] = NoReq]
    BY <1>2 DEF Insert
  <2>2. store = "mongo" /\ doc \in Accounts
    BY <2>1, RequestKinds DEF AccountsTypeOK, RequestsTypeOK
  <2>3. CASE index /\ Of(doc.key) # {}
    <3>1. UNCHANGED <<users, file, lastAdmin, mishaps>>
      BY <1>2, <2>3 DEF Insert
    <3> QED
      BY <2>1, <2>2, <3>1, RequestKinds, RequestMoves
  <2>4. CASE ~(index /\ Of(doc.key) # {})
    <3>1. /\ Put(users \cup {doc})
          /\ mishaps' = IF ~index /\ Of(doc.key) # {} THEN mishaps \cup {"duplicate"} ELSE mishaps
      BY <1>2, <2>4 DEF Insert
    <3>2. users \cup {doc} \in SUBSET Accounts
      BY <2>2 DEF AccountsTypeOK
    <3>3. users' = users \cup {doc} /\ Admins \subseteq Admins'
      BY <2>1, <3>1, <3>2, PutStep DEF Admins, AdminsOf
    <3>4. req' \in [Requests -> {NoReq} \cup Insertions \cup RoleChanges \cup Deletions]
      BY <2>1 DEF AccountsTypeOK, RequestsTypeOK
    <3>5. OneAccountEach'
      <4>1. CASE Of(doc.key) # {}
        BY <2>4, <3>1, <4>1 DEF OneAccountEach
      <4>2. CASE Of(doc.key) = {}
        <5>1. \A u \in users : u.key # doc.key
          BY <4>2 DEF Of
        <5> QED
          BY <2>2, <3>1, <3>3, <4>2, <5>1 DEF MongoKept, OneAccountEach
      <4> QED
        BY <4>1, <4>2
    <3>6. (MongoMishap => MongoMishap') /\ (MongoMishap' \/ Admins' # {})
      BY <2>1, <2>2, <3>1, <3>3 DEF MongoKept, MongoMishap
    <3>7. \A s \in Requests : req'[s].op = "delete" => s # r /\ req'[s] = req[s]
      BY <2>1, RequestKinds DEF AccountsTypeOK, RequestsTypeOK
    <3>8. \A k : Survivor(k) => Survivor(k)'
      BY <3>3, <3>6 DEF Survivor
    <3> QED
      BY <2>1, <2>2, <3>1, <3>2, <3>4, <3>5, <3>6, <3>7, <3>8, RequestWrites
  <2> QED
    BY <2>3, <2>4
<1> QED
  BY <1>1, <1>2

\* What an update makes of the administrators.
LEMMA Demotion ==
    ASSUME UsersInv, NEW u \in users, NEW role \in Roles \cup {""}, NEW pass \in Nat, NEW least \in Nat,
           NoteDemotion(u, role), users' = (users \ {u}) \cup {Changed(u, role, pass, least)}
    PROVE  /\ mishaps \subseteq mishaps' /\ mishaps' \subseteq mishaps \cup {"demoted"}
           /\ Changed(u, role, pass, least) \in Accounts /\ Changed(u, role, pass, least).key = u.key
           /\ \/ "demoted" \in mishaps'
              \/ \A a \in Admins : \E b \in Admins' : b.key = a.key
<1> DEFINE v == Changed(u, role, pass, least)
<1>1. u \in Accounts
  BY DEF UsersInv, AccountsTypeOK
<1>2. v \in Accounts /\ v.key = u.key /\ v.role = IF role = "" THEN u.role ELSE role
  BY <1>1 DEF Changed, Accounts
<1> HIDE DEF v
<1>3. users' = (users \ {u}) \cup {v}
  BY DEF v
<1>4. mishaps \subseteq mishaps' /\ mishaps' \subseteq mishaps \cup {"demoted"}
  BY DEF NoteDemotion
<1>5. CASE u.role = "admin" /\ role = "ops"
  BY <1>2, <1>4, <1>5 DEF NoteDemotion, v
<1>6. CASE ~(u.role = "admin" /\ role = "ops")
  <2>1. u.role = "admin" => v.role = "admin"
    BY <1>1, <1>2, <1>6 DEF Roles
  <2>2. \A a \in Admins : \E b \in Admins' : b.key = a.key
    BY <1>2, <1>3, <2>1 DEF Admins
  <2> QED
    BY <1>2, <1>4, <2>2 DEF v
<1> QED
  BY <1>5, <1>6

LEMMA UpdateStep == ASSUME UsersInv, NEW r \in Requests, UpdateRequest(r) \/ UpdateOne(r) PROVE UsersInv'
<1> USE DEF UsersInv
<1>1. CASE UpdateRequest(r)
  <2>1. PICK k \in Keys, role \in Roles \cup {""}, pass \in Passwords \cup {0} :
          req' = [req EXCEPT ![r] = [op |-> "update", key |-> k, role |-> role, pass |-> pass]]
    BY <1>1 DEF UpdateRequest
  <2> DEFINE q == [op |-> "update", key |-> k, role |-> role, pass |-> pass]
  <2>2. q \in RoleChanges /\ q.op # "delete"
    <3>1. pass \in Nat
      <4>1. CASE pass \in Passwords
        BY <4>1, UserAssumption
      <4>2. CASE pass = 0
        BY <4>2
      <4> QED
        BY <4>1, <4>2
    <3> QED
      BY <3>1 DEF RoleChanges
  <2> HIDE DEF q
  <2>3. req' = [req EXCEPT ![r] = q]
    BY <2>1 DEF q
  <2>4. store = "mongo" /\ upUsers /\ UNCHANGED <<store, users, file, upUsers, lastAdmin, clock, tokens, mishaps>>
    BY <1>1 DEF UpdateRequest
  <2> QED
    BY <2>2, <2>3, <2>4, RequestMoves
<1>2. CASE UpdateOne(r)
  <2>1. /\ upUsers /\ req[r].op = "update" /\ UNCHANGED <<store, upUsers, clock, tokens>>
        /\ req' = [req EXCEPT ![r] = NoReq]
    BY <1>2 DEF UpdateOne
  <2>2. store = "mongo" /\ req[r].role \in Roles \cup {""} /\ req[r].pass \in Nat
    <3>1. req[r] \in RoleChanges
      BY <2>1, RequestKinds DEF AccountsTypeOK, RequestsTypeOK
    <3> QED
      BY <2>1, <3>1, RequestKinds DEF AccountsTypeOK, RequestsTypeOK, RoleChanges
  <2>3. CASE UNCHANGED <<users, file, lastAdmin, mishaps>>
    BY <2>1, <2>2, <2>3, RequestKinds, RequestMoves
  <2>4. ASSUME NEW u \in Of(req[r].key),
               Put((users \ {u}) \cup {Changed(u, req[r].role, req[r].pass, 8)}), NoteDemotion(u, req[r].role)
        PROVE  UsersInv'
    <3> DEFINE v   == Changed(u, req[r].role, req[r].pass, 8)
               new == (users \ {u}) \cup {v}
    <3>1. u \in users /\ users' = new
      BY <2>4 DEF Of, Put, Hold
    <3>2. /\ mishaps \subseteq mishaps' /\ mishaps' \subseteq mishaps \cup {"demoted"}
          /\ v \in Accounts /\ v.key = u.key
          /\ "demoted" \in mishaps' \/ \A a \in Admins : \E b \in Admins' : b.key = a.key
      BY <2>2, <2>4, <3>1, Demotion
    <3> HIDE DEF v
    <3>3. new \in SUBSET Accounts /\ Put(new)
      BY <2>4, <3>2 DEF AccountsTypeOK, v
    <3>4. OneAccountEach'
      BY <2>2, <3>1, <3>2, ReplaceAccount DEF MongoKept
    <3>5. (MongoMishap => MongoMishap') /\ ("demoted" \in mishaps' => MongoMishap')
      BY <3>2 DEF MongoMishap
    <3>6. \A k : Survivor(k) => Survivor(k)'
      BY <3>2, <3>5 DEF Survivor
    <3>7. MongoMishap' \/ Admins' # {}
      BY <2>1, <2>2, <3>2, <3>5 DEF MongoKept
    <3>8. req' \in [Requests -> {NoReq} \cup Insertions \cup RoleChanges \cup Deletions]
      BY <2>1 DEF AccountsTypeOK, RequestsTypeOK
    <3>9. \A s \in Requests : req'[s].op = "delete" => s # r /\ req'[s] = req[s]
      BY <2>1, RequestKinds DEF AccountsTypeOK, RequestsTypeOK
    <3> QED
      BY <2>1, <2>2, <3>3, <3>4, <3>6, <3>7, <3>8, <3>9, RequestWrites
  <2> QED
    BY <1>2, <2>3, <2>4 DEF UpdateOne
<1> QED
  BY <1>1, <1>2

LEMMA TwoAdmins == ~LastOne(Cardinality(Admins)) => \E a, b \in Admins : a # b
<1> SUFFICES ASSUME ~LastOne(Cardinality(Admins)), \A a, b \in Admins : a = b PROVE FALSE
  OBVIOUS
<1>1. CASE Admins = {}
  BY <1>1, FS_EmptySet DEF LastOne
<1>2. CASE Admins # {}
  <2>1. PICK a : Admins = {a}
    BY <1>2
  <2>2. Cardinality({a}) = 1
    BY FS_Singleton
  <2> QED
    BY <2>1, <2>2 DEF LastOne
<1> QED
  BY <1>1, <1>2

LEMMA FindStep == ASSUME UsersInv, NEW r \in Requests, FindToDelete(r) \/ CountAdmins(r) PROVE UsersInv'
<1> USE DEF UsersInv
<1>1. CASE FindToDelete(r)
  <2>1. PICK u \in users :
          req' = [req EXCEPT ![r] = [op |-> IF u.role = "admin" THEN "count" ELSE "delete", key |-> u.key, overtaken |-> FALSE]]
    BY <1>1 DEF FindToDelete
  <2> DEFINE q == [op |-> IF u.role = "admin" THEN "count" ELSE "delete", key |-> u.key, overtaken |-> FALSE]
  <2>2. q \in Deletions /\ q.key = u.key /\ (q.op = "delete" => u.role # "admin")
    BY DEF AccountsTypeOK, Accounts, Deletions
  <2> HIDE DEF q
  <2>3. req' = [req EXCEPT ![r] = q]
    BY <2>1 DEF q
  <2>4. store = "mongo" /\ upUsers /\ UNCHANGED <<store, users, file, upUsers, lastAdmin, clock, tokens, mishaps>>
    BY <1>1 DEF FindToDelete
  <2>5. q.op = "delete" => Survivor(u.key)
    <3> SUFFICES ASSUME q.op = "delete", ~MongoMishap PROVE \E a \in Admins : a.key # u.key
      BY DEF Survivor
    <3>1. PICK a \in Admins : TRUE
      BY <2>4 DEF MongoKept
    <3>2. "duplicate" \notin mishaps
      BY DEF MongoMishap
    <3> QED
      BY <2>2, <2>4, <3>1, <3>2 DEF MongoKept, OneAccountEach, Admins
  <2> QED
    BY <2>2, <2>3, <2>4, <2>5, RequestMoves
<1>2. CASE CountAdmins(r)
  <2> DEFINE q == IF LastOne(Cardinality(Admins)) THEN NoReq ELSE [req[r] EXCEPT !.op = "delete"]
  <2>1. /\ upUsers /\ req[r].op = "count" /\ req' = [req EXCEPT ![r] = q]
        /\ UNCHANGED <<store, users, file, upUsers, lastAdmin, clock, tokens, mishaps>>
    BY <1>2 DEF CountAdmins
  <2>2. req[r] \in Deletions
    BY <2>1, RequestKinds DEF AccountsTypeOK, RequestsTypeOK
  <2>3. store = "mongo"
    BY <2>1, RequestKinds DEF AccountsTypeOK
  <2>4. q \in {NoReq} \cup Deletions /\ (q.op = "delete" => ~LastOne(Cardinality(Admins)))
    BY <2>2, RequestKinds DEF Deletions
  <2> HIDE DEF q
  <2>5. q.op = "delete" => Survivor(q.key)
    <3> SUFFICES ASSUME q.op = "delete" PROVE Survivor(q.key)
      OBVIOUS
    <3>1. PICK a \in Admins, b \in Admins : a # b
      BY <2>4, TwoAdmins
    <3>2. MongoMishap \/ a.key # b.key
      BY <2>3, <3>1 DEF MongoKept, OneAccountEach, Admins, MongoMishap
    <3> QED
      BY <3>1, <3>2 DEF Survivor
  <2> QED
    BY <2>1, <2>3, <2>4, <2>5, RequestMoves
<1> QED
  BY <1>1, <1>2

LEMMA DeleteUserStep == ASSUME UsersInv, NEW r \in Requests, DeleteOne(r) PROVE UsersInv'
<1> USE DEF UsersInv
<1> DEFINE k == req[r].key
<1>1. /\ upUsers /\ req[r].op = "delete" /\ UNCHANGED <<store, upUsers, clock, tokens>>
      /\ req' = [q \in Requests |-> IF q = r THEN NoReq
                                    ELSE IF req[q].op = "delete" THEN [req[q] EXCEPT !.overtaken = TRUE] ELSE req[q]]
      /\ mishaps' = IF Admins # {} /\ req[r].overtaken /\ {u \in users' : u.role = "admin"} = {}
                    THEN mishaps \cup {"overtaken"} ELSE mishaps
  BY DEF DeleteOne
<1>2. req[r] \in Deletions /\ store = "mongo"
  BY <1>1, RequestKinds DEF AccountsTypeOK, RequestsTypeOK
<1>3. /\ mishaps \subseteq mishaps' /\ mishaps' \cap {"duplicate"} \subseteq mishaps
      /\ MongoMishap => MongoMishap'
  BY <1>1 DEF MongoMishap
<1>4. req' \in [Requests -> {NoReq} \cup Insertions \cup RoleChanges \cup Deletions]
  <2>1. ASSUME NEW q \in Requests PROVE req'[q] \in {NoReq} \cup Insertions \cup RoleChanges \cup Deletions
    <3>1. req[q].op = "delete" => req[q] \in Deletions
      BY RequestKinds DEF AccountsTypeOK, RequestsTypeOK
    <3>2. req[q].op = "delete" => [req[q] EXCEPT !.overtaken = TRUE] \in Deletions
      BY <3>1 DEF Deletions
    <3> QED
      BY <1>1, <3>2 DEF AccountsTypeOK, RequestsTypeOK
  <2> QED
    BY <1>1, <2>1
<1>5. \A q \in Requests : req'[q].op = "delete" => req'[q].overtaken
  <2> SUFFICES ASSUME NEW q \in Requests, req'[q].op = "delete" PROVE req'[q].overtaken
    OBVIOUS
  <2>1. q # r /\ req'[q] = IF req[q].op = "delete" THEN [req[q] EXCEPT !.overtaken = TRUE] ELSE req[q]
    BY <1>1, RequestKinds
  <2>2. req[q].op = "delete"
    BY <2>1
  <2>3. req[q] \in Deletions
    BY <2>2, RequestKinds DEF AccountsTypeOK, RequestsTypeOK
  <2>4. [req[q] EXCEPT !.overtaken = TRUE].overtaken = TRUE
    BY <2>3 DEF Deletions
  <2> QED
    BY <2>1, <2>2, <2>4
<1>6. CASE UNCHANGED <<users, file, lastAdmin>>
  <2>1. TokensExpire' /\ OneAccountEach' /\ (upUsers' \/ users' # {} => MongoMishap' \/ Admins' # {})
    BY <1>1, <1>2, <1>3, <1>6, AccountsSame
  <2>2. AccountsTypeOK'
    BY <1>1, <1>2, <1>4, <1>6 DEF AccountsTypeOK, RequestsTypeOK
  <2> QED
    BY <1>1, <1>2, <1>5, <2>1, <2>2 DEF MongoKept
<1>7. ASSUME NEW u \in Of(k), Put(users \ {u}) PROVE UsersInv'
  <2>1. u \in users /\ u.key = k /\ users \ {u} \in SUBSET Accounts
    BY DEF Of, AccountsTypeOK
  <2>2. users' = users \ {u} /\ Admins' = AdminsOf(users')
    BY <1>1, <1>7, <2>1, PutStep
  <2>3. OneAccountEach'
    BY <1>2, <1>3, <2>2 DEF MongoKept, OneAccountEach
  <2>4. MongoMishap' \/ Admins' # {}
    <3>1. CASE Admins = {} \/ MongoMishap
      BY <1>1, <1>2, <1>3, <3>1 DEF MongoKept
    <3>2. CASE Admins # {} /\ req[r].overtaken
      BY <1>1, <2>2, <3>2 DEF MongoMishap, AdminsOf
    <3>3. CASE ~MongoMishap /\ ~req[r].overtaken
      <4>1. PICK a \in Admins : a.key # k
        BY <1>1, <1>2, <3>3 DEF MongoKept, Survivor
      <4> QED
        BY <2>1, <2>2, <4>1 DEF Admins, AdminsOf
    <3> QED
      BY <3>1, <3>2, <3>3
  <2> QED
    BY <1>1, <1>2, <1>4, <1>5, <1>7, <2>1, <2>3, <2>4, RequestWrites
<1> QED
  BY <1>6, <1>7 DEF DeleteOne

\* An operation of the file store.
LEMMA FileWrites ==
    ASSUME UsersInv, store = "file", NEW new \in SUBSET Accounts, Put(new),
           UNCHANGED <<store, upUsers, clock, tokens, req>>, mishaps \subseteq mishaps',
           FileMishap' \/ AdminsOf(new) # {}
    PROVE  UsersInv'
<1>1. AccountsTypeOK' /\ TokensExpire' /\ Admins' = AdminsOf(new) /\ file' \in {new, file, {}}
  <2>1. RequestsTypeOK' /\ (store = "file" \/ ~upUsers' => \A r \in Requests : req'[r] = NoReq)
    BY DEF UsersInv, AccountsTypeOK, RequestsTypeOK
  <2> QED
    BY <2>1, PutStep DEF UsersInv
<1> QED
  BY <1>1, FileStep DEF UsersInv

LEMMA FileOperations == ASSUME UsersInv, CreateInFile \/ UpdateInFile \/ DeleteInFile PROVE UsersInv'
<1> USE DEF UsersInv
<1>1. CASE CreateInFile
  <2>1. PICK n \in Names, role \in Roles, pass \in Passwords :
          /\ Put((users \ Of(n.key)) \cup {[key |-> n.key, spelling |-> n.spelling, role |-> role, pass |-> pass]})
          /\ mishaps' = IF Of(n.key) \cap Admins # {} /\ role # "admin" THEN mishaps \cup {"replaced"} ELSE mishaps
    BY <1>1 DEF CreateInFile
  <2> DEFINE v   == [key |-> n.key, spelling |-> n.spelling, role |-> role, pass |-> pass]
             new == (users \ Of(n.key)) \cup {v}
  <2>2. store = "file" /\ upUsers /\ UNCHANGED <<store, upUsers, clock, tokens, req>>
    BY <1>1 DEF CreateInFile
  <2>3. v \in Accounts /\ v.role = role
    BY UserAssumption DEF Accounts, Names
  <2> HIDE DEF v
  <2>4. new \in SUBSET Accounts /\ Put(new)
    BY <2>1, <2>3 DEF AccountsTypeOK, v
  <2>5. FileMishap' \/ AdminsOf(new) # {}
    <3>1. CASE FileMishap \/ (Of(n.key) \cap Admins # {} /\ role # "admin")
      BY <2>1, <3>1 DEF FileMishap
    <3>2. CASE role = "admin"
      BY <2>3, <3>2 DEF AdminsOf
    <3>3. CASE ~FileMishap /\ Of(n.key) \cap Admins = {}
      BY <2>2, <3>3 DEF FileKept, Admins, AdminsOf
    <3> QED
      BY <3>1, <3>2, <3>3
  <2>6. mishaps \subseteq mishaps'
    BY <2>1
  <2> QED
    BY <2>2, <2>4, <2>5, <2>6, FileWrites
<1>2. CASE UpdateInFile
  <2>1. PICK u \in users, role \in Roles \cup {""}, pass \in Passwords \cup {0} :
          Put((users \ {u}) \cup {Changed(u, role, pass, 4)}) /\ NoteDemotion(u, role)
    BY <1>2 DEF UpdateInFile
  <2> DEFINE v   == Changed(u, role, pass, 4)
             new == (users \ {u}) \cup {v}
  <2>2. store = "file" /\ upUsers /\ UNCHANGED <<store, upUsers, clock, tokens, req>> /\ users' = new
    BY <1>2, <2>1 DEF UpdateInFile, Put, Hold
  <2>3. pass \in Nat
    <3>1. CASE pass \in Passwords
      BY <3>1, UserAssumption
    <3>2. CASE pass = 0
      BY <3>2
    <3> QED
      BY <3>1, <3>2
  <2>4. /\ mishaps \subseteq mishaps' /\ v \in Accounts
        /\ "demoted" \in mishaps' \/ \A a \in Admins : \E b \in Admins' : b.key = a.key
    BY <2>1, <2>2, <2>3, Demotion
  <2> HIDE DEF v
  <2>5. new \in SUBSET Accounts /\ Put(new)
    BY <2>1, <2>4 DEF AccountsTypeOK, v
  <2>6. FileMishap' \/ AdminsOf(new) # {}
    <3>1. FileMishap \/ Admins # {}
      BY <2>2 DEF FileKept
    <3>2. Admins' = AdminsOf(new)
      BY <2>2 DEF Admins, AdminsOf
    <3> QED
      BY <2>4, <3>1, <3>2 DEF FileMishap
  <2> QED
    BY <2>2, <2>4, <2>5, <2>6, FileWrites
<1>3. CASE DeleteInFile
  <2>1. PICK u \in users : ~(u.role = "admin" /\ LastOne(Cardinality(Admins))) /\ Put(users \ {u})
    BY <1>3 DEF DeleteInFile
  <2>2. store = "file" /\ upUsers /\ UNCHANGED <<store, upUsers, clock, tokens, req, mishaps>>
    BY <1>3 DEF DeleteInFile
  <2>3. users \ {u} \in SUBSET Accounts
    BY DEF AccountsTypeOK
  <2>4. FileMishap' \/ AdminsOf(users \ {u}) # {}
    <3>1. CASE FileMishap
      BY <2>2, <3>1 DEF FileMishap
    <3>2. CASE u.role # "admin" /\ Admins # {}
      BY <3>2 DEF Admins, AdminsOf
    <3>3. CASE u.role = "admin"
      <4>1. PICK a \in Admins, b \in Admins : a # b
        BY <2>1, <3>3, TwoAdmins
      <4> QED
        BY <4>1 DEF Admins, AdminsOf
    <3> QED
      BY <2>2, <3>1, <3>2, <3>3 DEF FileKept
  <2> QED
    BY <2>1, <2>2, <2>3, <2>4, FileWrites
<1> QED
  BY <1>1, <1>2, <1>3

LEMMA StopStep == ASSUME UsersInv, StopUsers PROVE UsersInv'
<1> USE DEF UsersInv
<1>1. /\ ~upUsers' /\ req' = [r \in Requests |-> NoReq] /\ users' = IF store = "file" THEN {} ELSE users
      /\ upUsers /\ UNCHANGED <<store, file, clock, tokens, lastAdmin, mishaps>>
  BY DEF StopUsers
<1>2. Admins' \subseteq Admins /\ (store = "mongo" => Admins' = Admins)
  BY <1>1 DEF Admins
<1>3. AccountsTypeOK' /\ TokensExpire'
  BY <1>1, <1>2 DEF AccountsTypeOK, RequestsTypeOK, TokensExpire
<1>4. store = "file" => FileKept'
  BY <1>1 DEF FileKept, FileMishap
<1>5. store = "mongo" => MongoKept'
  <2>1. \A r \in Requests : req'[r].op # "delete"
    BY <1>1, RequestKinds
  <2> QED
    BY <1>1, <1>2, <2>1 DEF MongoKept, OneAccountEach, MongoMishap
<1> QED
  BY <1>1, <1>3, <1>4, <1>5

LEMMA TickStep == ASSUME UsersInv, TickUsers PROVE UsersInv'
<1> USE DEF UsersInv
<1>1. /\ clock' = clock + 1 /\ UNCHANGED <<store, users, file, upUsers, tokens, req, mishaps>>
      /\ lastAdmin' = [k \in Keys |-> IF \E u \in Admins : u.key = k THEN clock' ELSE lastAdmin[k]]
  BY DEF TickUsers
<1>2. Admins' = Admins /\ \A u \in Admins : u.key \in Keys
  BY <1>1 DEF Admins, AccountsTypeOK, Accounts
<1>3. \A k \in Keys : lastAdmin'[k] \in Nat /\ lastAdmin[k] <= lastAdmin'[k] /\ lastAdmin'[k] <= clock'
  BY <1>1 DEF AccountsTypeOK, TokensExpire
<1>4. AccountsTypeOK'
  BY <1>1, <1>3 DEF AccountsTypeOK, RequestsTypeOK
<1>5. ASSUME NEW x \in tokens'
      PROVE  x.key \in Keys /\ x.exp \in Nat /\ (x.role = "admin" => x.exp <= lastAdmin'[x.key] + TokenTTL)
  <2>1. x.key \in Keys /\ x.exp \in Nat /\ (x.role = "admin" => x.exp <= lastAdmin[x.key] + TokenTTL)
    BY <1>1 DEF TokensExpire
  <2>2. lastAdmin[x.key] \in Nat /\ lastAdmin'[x.key] \in Nat /\ lastAdmin[x.key] <= lastAdmin'[x.key]
    BY <1>3, <2>1 DEF AccountsTypeOK
  <2> QED
    BY <2>1, <2>2, UserAssumption
<1>6. \A u \in Admins' : lastAdmin'[u.key] = clock'
  BY <1>1, <1>2
<1>7. TokensExpire'
  BY <1>3, <1>5, <1>6 DEF TokensExpire
<1>8. (store = "file" => FileKept') /\ (store = "mongo" => MongoKept')
  BY <1>1, <1>2 DEF FileKept, FileMishap, MongoKept, MongoMishap, OneAccountEach, Survivor
<1> QED
  BY <1>1, <1>4, <1>7, <1>8

LEMMA LoginStep == ASSUME UsersInv, HandleLogin PROVE UsersInv'
<1> USE DEF UsersInv
<1>1. /\ UNCHANGED <<store, users, file, upUsers, clock, req, lastAdmin, mishaps>>
      /\ \E u \in users : tokens' \subseteq tokens \cup {signJWT(u)}
  BY DEF HandleLogin, Authenticate
<1>2. PICK u \in users : tokens' \subseteq tokens \cup {signJWT(u)}
  BY <1>1
<1>3. /\ u.key \in Keys /\ (u.role = "admin" => lastAdmin[u.key] = clock) /\ Admins' = Admins
  BY <1>1 DEF AccountsTypeOK, Accounts, TokensExpire, Admins
<1>4. /\ signJWT(u).key = u.key /\ signJWT(u).role = u.role
      /\ signJWT(u).exp = clock + TokenTTL /\ signJWT(u).exp \in Nat
  BY UserAssumption DEF signJWT, AccountsTypeOK
<1>5. \A x \in tokens' : x.key \in Keys /\ x.exp \in Nat /\ (x.role = "admin" => x.exp <= lastAdmin[x.key] + TokenTTL)
  BY <1>2, <1>3, <1>4 DEF TokensExpire
<1>6. TokensExpire'
  BY <1>1, <1>3, <1>5 DEF TokensExpire
<1>7. AccountsTypeOK'
  BY <1>1 DEF AccountsTypeOK, RequestsTypeOK
<1>8. (store = "file" => FileKept') /\ (store = "mongo" => MongoKept')
  BY <1>1, <1>3 DEF FileKept, FileMishap, MongoKept, MongoMishap, OneAccountEach, Survivor
<1> QED
  BY <1>1, <1>6, <1>7, <1>8

LEMMA UsersStepInv == UsersInv /\ [UsersNext]_userVars => UsersInv'
<1>1. ASSUME UsersInv, UNCHANGED userVars PROVE UsersInv'
  <2> USE <1>1 DEF userVars, UsersInv
  <2>1. Admins' = Admins
    BY DEF Admins
  <2>2. AccountsTypeOK' /\ TokensExpire'
    BY <2>1 DEF AccountsTypeOK, RequestsTypeOK, TokensExpire
  <2>3. (store = "file" => FileKept') /\ (store = "mongo" => MongoKept')
    BY <2>1 DEF FileKept, FileMishap, MongoKept, MongoMishap, OneAccountEach, Survivor
  <2> QED
    BY <2>2, <2>3
<1> QED
  BY <1>1, StartStep, StopStep, TickStep, LoginStep, FileOperations, CreateStep, UpdateStep, FindStep, DeleteUserStep
  DEF UsersNext

LEMMA UsersInvSound == UsersInv => AuthoritySound
<1> SUFFICES ASSUME UsersInv PROVE AdministratorsKept /\ StaleAuthorityExpires
  BY DEF AuthoritySound
<1>1. AdministratorsKept
  BY DEF UsersInv, AccountsTypeOK, MongoKept, FileKept, MongoMishap, FileMishap, AdministratorsKept
<1>2. StaleAuthorityExpires
  <2> SUFFICES ASSUME NEW x \in tokens, verifyJWT(x), x.role = "admin" PROVE clock <= lastAdmin[x.key] + TokenTTL
    BY DEF StaleAuthorityExpires
  <2>1. x.key \in Keys /\ x.exp \in Nat /\ x.exp <= lastAdmin[x.key] + TokenTTL /\ clock <= x.exp
    BY DEF UsersInv, TokensExpire, verifyJWT
  <2>2. lastAdmin[x.key] \in Nat /\ clock \in Nat
    BY <2>1 DEF UsersInv, AccountsTypeOK
  <2> QED
    BY <2>1, <2>2, UserAssumption
<1> QED
  BY <1>1, <1>2

\* An administrator is left after any deletions unless one of the named mishaps
\* happened, and the role in a token outlives the user's by at most the life of the
\* token (users.go Delete, mongo_user_repository.go, verifyJWT).
THEOREM AuthorityTheorem == UsersSpec => []AuthoritySound
<1>1. UsersSpec => []UsersInv
  BY UsersInitInv, UsersStepInv, PTL DEF UsersSpec
<1> QED
  BY <1>1, UsersInvSound, PTL

-----------------------------------------------------------------------------
(***************************************************************************)
(* Status pages.  The two stores keep the slugs apart by themselves; what  *)
(* a restart needs is that the file, when it can be read, does so too, and *)
(* holds what is in memory unless a call ended in an error.                *)
(***************************************************************************)
PageMaps == [PageIDs -> PageCfgs \cup {NoPage}]
Distinct(map) == \A i, j \in PageIDs : (map[i] # NoPage /\ map[j] # NoPage /\ map[i].slug = map[j].slug) => i = j

PagesInv ==
    /\ pageKind \in {"mongo", "file"}
    /\ pages \in PageMaps /\ Distinct(pages)
    /\ pagesFile = TornPages \/ (pagesFile \in PageMaps /\ Distinct(pagesFile))
    /\ FileCurrent /\ ShownHonestly

\* What a save leaves behind.
LEMMA SaveStep ==
    ASSUME PagesInv, NEW ok \in BOOLEAN, pages' \in PageMaps, Distinct(pages)', savePages(pages', ok),
           UNCHANGED <<pageKind, visit>>
    PROVE  PagesInv'
<1>1. pagesFile' \in {pagesFile, TornPages, pages'}
  BY DEF savePages
<1>2. FileCurrent'
  BY DEF savePages, FileCurrent
<1>3. pagesFile' = TornPages \/ (pagesFile' \in PageMaps /\ Distinct(pagesFile)')
  BY <1>1 DEF PagesInv, Distinct
<1>4. ShownHonestly'
  BY DEF PagesInv, ShownHonestly
<1> QED
  BY <1>2, <1>3, <1>4 DEF PagesInv

\* A step that changes neither store.
LEMMA PagesSame ==
    ASSUME PagesInv, UNCHANGED <<pageKind, pages, pagesFile, pagesUnsaved>>, ShownHonestly'
    PROVE  PagesInv'
BY DEF PagesInv, Distinct, FileCurrent

\* One page written under a slug nobody else has.
LEMMA SlugFree ==
    ASSUME PagesInv, NEW i \in PageIDs, NEW p \in PageCfgs \cup {NoPage},
           p = NoPage \/ \A j \in ExistingPages \ {i} : pages[j].slug # p.slug,
           pages' = [pages EXCEPT ![i] = p]
    PROVE  pages' \in PageMaps /\ Distinct(pages)'
<1>1. pages' \in PageMaps
  BY DEF PagesInv, PageMaps
<1>2. pages'[i] = p /\ \A j \in PageIDs \ {i} : pages'[j] = pages[j]
  BY DEF PagesInv, PageMaps
<1>3. ASSUME NEW j \in PageIDs, NEW k \in PageIDs,
             pages'[j] # NoPage, pages'[k] # NoPage, pages'[j].slug = pages'[k].slug
      PROVE  j = k
  <2>1. \A l \in PageIDs \ {i} : pages'[l] # NoPage => l \in ExistingPages \ {i}
    BY <1>2 DEF ExistingPages
  <2>2. CASE j = i \/ k = i
    BY <1>2, <1>3, <2>1, <2>2
  <2>3. CASE j # i /\ k # i
    BY <1>2, <1>3, <2>3 DEF PagesInv, Distinct
  <2> QED
    BY <2>2, <2>3
<1> QED
  BY <1>1, <1>3 DEF Distinct

LEMMA CreatePageStep == ASSUME PagesInv, handleStatusPagesCreate PROVE PagesInv'
<1>1. PICK cfg \in PageCfgs, i \in PageIDs : mongoCreate(i, cfg) \/ \E ok \in BOOLEAN : fileCreate(i, cfg, ok)
  BY DEF handleStatusPagesCreate
<1>2. UNCHANGED <<pageKind, visit>>
  BY DEF handleStatusPagesCreate
<1>3. ~SlugTaken(0, cfg.slug) => \A j \in ExistingPages : pages[j].slug # cfg.slug
  BY PagesAssumption DEF SlugTaken, ExistingPages
<1>4. CASE mongoCreate(i, cfg)
  <2>1. pages' \in PageMaps /\ Distinct(pages)'
    BY <1>3, <1>4, SlugFree DEF mongoCreate
  <2>2. savePages(pages', TRUE)
    BY <1>4 DEF mongoCreate, savePages
  <2> QED
    BY <1>2, <2>1, <2>2, SaveStep
<1>5. ASSUME NEW ok \in BOOLEAN, fileCreate(i, cfg, ok) PROVE PagesInv'
  <2>1. pages' \in PageMaps /\ Distinct(pages)'
    BY <1>3, <1>5, SlugFree DEF fileCreate
  <2> QED
    BY <1>2, <1>5, <2>1, SaveStep DEF fileCreate
<1> QED
  BY <1>1, <1>4, <1>5

LEMMA UpdatePageStep == ASSUME PagesInv, handleStatusPageUpdate PROVE PagesInv'
<1>1. PICK cfg \in PageCfgs, i \in PageIDs :
         mongoUpdatePartial(i, cfg) \/ \E ok \in BOOLEAN : fileUpdatePartial(i, cfg, ok)
  BY DEF handleStatusPageUpdate
<1>2. UNCHANGED <<pageKind, visit>>
  BY DEF handleStatusPageUpdate
<1>3. ~SlugTaken(i, cfg.slug) => \A j \in ExistingPages \ {i} : pages[j].slug # cfg.slug
  BY DEF SlugTaken
<1>4. CASE mongoUpdatePartial(i, cfg)
  <2>1. pages' \in PageMaps /\ Distinct(pages)'
    BY <1>3, <1>4, SlugFree DEF mongoUpdatePartial
  <2>2. savePages(pages', TRUE)
    BY <1>4 DEF mongoUpdatePartial, savePages
  <2> QED
    BY <1>2, <2>1, <2>2, SaveStep
<1>5. ASSUME NEW ok \in BOOLEAN, fileUpdatePartial(i, cfg, ok) PROVE PagesInv'
  <2>1. CASE ~SlugTaken(i, cfg.slug)
    <3>1. pages' = [pages EXCEPT ![i] = cfg] /\ savePages(pages', ok)
      BY <1>5, <2>1 DEF fileUpdatePartial
    <3>2. pages' \in PageMaps /\ Distinct(pages)'
      BY <1>3, <2>1, <3>1, SlugFree
    <3> QED
      BY <1>2, <3>1, <3>2, SaveStep
  <2>2. CASE SlugTaken(i, cfg.slug)
    <3> DEFINE p == [pages[i] EXCEPT !.name = cfg.name]
    <3>1. i \in ExistingPages /\ pages' = [pages EXCEPT ![i] = p] /\ pagesUnsaved' = TRUE /\ pagesFile' = pagesFile
      BY <1>5, <2>2 DEF fileUpdatePartial
    <3>2. pages[i] \in PageCfgs
      BY <3>1 DEF PagesInv, PageMaps, ExistingPages
    <3>3. p \in PageCfgs /\ p.slug = pages[i].slug
      BY <3>2 DEF PageCfgs
    <3> HIDE DEF p
    <3>4. \A j \in ExistingPages \ {i} : pages[j].slug # p.slug
      BY <3>1, <3>3 DEF PagesInv, Distinct, ExistingPages
    <3>5. pages' \in PageMaps /\ Distinct(pages)'
      BY <3>1, <3>3, <3>4, SlugFree
    <3>6. savePages(pages', FALSE) \/ pageKind = "mongo"
      BY <3>1 DEF savePages
    <3>7. pageKind = "file"
      BY <1>5 DEF fileUpdatePartial
    <3> QED
      BY <1>2, <3>5, <3>6, <3>7, SaveStep
  <2> QED
    BY <2>1, <2>2
<1> QED
  BY <1>1, <1>4, <1>5

LEMMA DeletePageStep == ASSUME PagesInv, handleStatusPageDelete PROVE PagesInv'
<1>1. PICK i \in ExistingPages, ok \in BOOLEAN : pages' = [pages EXCEPT ![i] = NoPage] /\ savePages(pages', ok)
  BY DEF handleStatusPageDelete
<1>2. i \in PageIDs
  BY DEF ExistingPages
<1>3. pages' \in PageMaps /\ Distinct(pages)'
  BY <1>1, <1>2, SlugFree
<1> QED
  BY <1>1, <1>3, SaveStep DEF handleStatusPageDelete

LEMMA RestartPagesStep == ASSUME PagesInv, RestartPages PROVE PagesInv'
<1>1. pagesFile' = pagesFile /\ pageKind' = pageKind /\ pagesFile # TornPages /\ visit' = NoVisit
  BY DEF RestartPages
<1>2. ShownHonestly'
  BY <1>1 DEF ShownHonestly, NoVisit
<1>3. CASE pageKind = "mongo"
  BY <1>1, <1>2, <1>3, PagesSame DEF RestartPages
<1>4. CASE pageKind # "mongo"
  <2>1. pages' = pagesFile
    BY <1>4 DEF RestartPages
  <2> QED
    BY <1>1, <1>2, <2>1 DEF PagesInv, Distinct, FileCurrent
<1> QED
  BY <1>3, <1>4

\* One component: operational exactly when nothing failed and nothing is in
\* maintenance, a major outage exactly when everything failed.
LEMMA ComponentState ==
    ASSUME NEW comp, IsFiniteSet(comp), comp # {}, NEW snap
    PROVE  LET s == resolveComponentState(comp, snap) IN
           /\ (s = "operational") <=> \A c \in comp : snap.result[c] # "bad" /\ c \notin snap.maint
           /\ (s = "major_outage") <=> \A c \in comp : snap.result[c] = "bad" /\ c \notin snap.maint
<1> DEFINE failed == {c \in comp : snap.result[c] = "bad"}
           bad    == Cardinality(failed)
           all    == Cardinality(comp)
<1>1. IsFiniteSet(failed) /\ bad \in Nat /\ all \in Nat /\ bad <= all /\ (bad = all <=> failed = comp)
  BY FS_Subset, FS_CardinalityType
<1>2. (bad = 0 <=> failed = {}) /\ all # 0
  BY <1>1, FS_EmptySet
<1>3. /\ failed = {} <=> \A c \in comp : snap.result[c] # "bad"
      /\ failed = comp <=> \A c \in comp : snap.result[c] = "bad"
  OBVIOUS
<1>4. resolveComponentState(comp, snap) =
          IF comp \cap snap.maint # {} THEN "under_maintenance"
          ELSE IF bad = 0 THEN "operational"
          ELSE IF bad = all THEN "major_outage"
          ELSE IF 2 * bad > all THEN "partial_outage" ELSE "degraded"
  BY DEF resolveComponentState
<1> HIDE DEF failed, bad, all
<1>5. CASE comp \cap snap.maint # {}
  BY <1>4, <1>5
<1>6. CASE comp \cap snap.maint = {}
  <2>1. \A c \in comp : c \notin snap.maint
    BY <1>6
  <2>2. (resolveComponentState(comp, snap) = "operational") <=> (bad = 0)
    BY <1>1, <1>4, <1>6
  <2>3. (resolveComponentState(comp, snap) = "major_outage") <=> (bad = all)
    BY <1>1, <1>2, <1>4, <1>6
  <2> QED
    BY <1>1, <1>2, <1>3, <2>1, <2>2, <2>3
<1> QED
  BY <1>5, <1>6

LEMMA AnswerPageStep == ASSUME PagesInv, VisitAnswer PROVE PagesInv'
<1>1. PICK snap \in PageSnapshots, comps \in {{}, {PageChecks}, {{c} : c \in PageChecks}} :
          visit' = [phase |-> "shown",
                    indicator |-> buildPublicResponse({resolveComponentState(k, snap) : k \in comps}),
                    clean |-> \A c \in UNION comps : snap.result[c] # "bad" /\ c \notin snap.maint,
                    down |-> \E k \in comps : \A c \in k : snap.result[c] = "bad" /\ c \notin snap.maint]
  BY DEF VisitAnswer
<1> DEFINE Up(k)     == \A c \in k : snap.result[c] # "bad" /\ c \notin snap.maint
           Down(k)   == \A c \in k : snap.result[c] = "bad" /\ c \notin snap.maint
           states    == {resolveComponentState(k, snap) : k \in comps}
           indicator == buildPublicResponse(states)
<1>2. \A k \in comps : IsFiniteSet(k) /\ k # {}
  <2>1. \A c \in PageChecks : IsFiniteSet({c})
    BY FS_Singleton
  <2> QED
    BY <2>1, PagesAssumption
<1>3. \A k \in comps : /\ (resolveComponentState(k, snap) = "operational") <=> Up(k)
                       /\ (resolveComponentState(k, snap) = "major_outage") <=> Down(k)
  BY <1>2, ComponentState
<1>4. \A k \in comps : ~(Up(k) /\ Down(k))
  BY <1>2
<1>5. /\ "major_outage" \in states <=> \E k \in comps : Down(k)
      /\ states \ {"operational"} = {} <=> \A k \in comps : Up(k)
  <2>1. "major_outage" \in states <=> \E k \in comps : resolveComponentState(k, snap) = "major_outage"
    OBVIOUS
  <2>2. states \ {"operational"} = {} <=> \A k \in comps : resolveComponentState(k, snap) = "operational"
    OBVIOUS
  <2> QED
    BY <1>3, <2>1, <2>2
<1>6. /\ indicator = "major" <=> \E k \in comps : Down(k)
      /\ indicator = "none" <=> \A k \in comps : Up(k)
  <2> HIDE DEF states, Up, Down
  <2> QED
    BY <1>4, <1>5 DEF buildPublicResponse
<1>7. (\A c \in UNION comps : snap.result[c] # "bad" /\ c \notin snap.maint) <=> \A k \in comps : Up(k)
  OBVIOUS
<1>8. /\ visit'.indicator = indicator
      /\ visit'.clean = (\A k \in comps : Up(k))
      /\ visit'.down = (\E k \in comps : Down(k))
  BY <1>1, <1>7
<1>9. ShownHonestly'
  BY <1>6, <1>8 DEF ShownHonestly
<1> QED
  BY <1>9, PagesSame DEF VisitAnswer

LEMMA PagesStepInv == PagesInv /\ [StatusPagesNext]_pageVars => PagesInv'
<1> SUFFICES ASSUME PagesInv, [StatusPagesNext]_pageVars PROVE PagesInv'
  OBVIOUS
<1>1. CASE VisitRead
  <2>1. ShownHonestly'
    BY <1>1 DEF VisitRead, ShownHonestly
  <2> QED
    BY <1>1, <2>1, PagesSame DEF VisitRead
<1>2. CASE renderPublicStatusPage
  <2>1. ShownHonestly'
    BY <1>2 DEF renderPublicStatusPage, ShownHonestly, NoVisit
  <2> QED
    BY <1>2, <2>1, PagesSame DEF renderPublicStatusPage
<1>3. CASE UNCHANGED pageVars
  <2>1. ShownHonestly'
    BY <1>3 DEF PagesInv, pageVars, ShownHonestly
  <2> QED
    BY <1>3, <2>1, PagesSame DEF pageVars
<1> QED
  BY <1>1, <1>2, <1>3, CreatePageStep, UpdatePageStep, DeletePageStep, RestartPagesStep, AnswerPageStep
  DEF StatusPagesNext

LEMMA PagesInitInv == StatusPagesInit => PagesInv
BY PagesAssumption DEF StatusPagesInit, PagesInv, PageMaps, NoPages, Distinct, FileCurrent, ShownHonestly, NoVisit

\* Two status pages never share a slug, a restart shows the pages that were shown
\* before unless a save failed, and the indicator of a page tells the truth about
\* the checks of its components (status_page.go, status_page_api.go buildPublicResponse).
THEOREM StatusPagesTheorem == StatusPagesSpec => []StatusPagesSound
<1>1. StatusPagesSpec => []PagesInv
  BY PagesInitInv, PagesStepInv, PTL DEF StatusPagesSpec
<1>2. PagesInv => StatusPagesSound
  BY DEF PagesInv, StatusPagesSound, SlugsUnique, Distinct
<1> QED
  BY <1>1, <1>2, PTL

-----------------------------------------------------------------------------
(***************************************************************************)
(* Dashboards.  Whoever was allowed to change a dashboard that is not      *)
(* disputed is allowed to still: every step that could give it another     *)
(* owner while a request on it is in flight makes it disputed.  A caller   *)
(* without a name is always allowed, and so is everybody when the          *)
(* dashboard has no owner.                                                 *)
(***************************************************************************)
BoardDocs == [owner : People, visibility : Visibilities]
Decided   == [op : {"update", "delete", "duplicate"}, id : DashIDs, who : People, owner : People]
Handing   == [op : {"own"}, id : DashIDs, who : Owners, visibility : Visibilities]
MayTouch(who, owner) == who = Anonymous \/ owner \in {Anonymous, who}

BoardsTypeOK ==
    /\ dashKind \in {"mongo", "file"} /\ dashNext \in Nat
    /\ boards \in [DashIDs -> BoardDocs \cup {NoDash}] /\ boardsFile \in [DashIDs -> BoardDocs \cup {NoDash}]
    /\ calls \in [Callers -> Decided \cup Handing \cup {NoCall}]
    /\ entitled \in [DashIDs -> People] /\ disputed \subseteq DashIDs

\* What is known of the request c.
CallKept(c) ==
    LET i == calls[c].id IN
    (calls[c].op \in {"update", "delete"} /\ i \in Boards \ disputed) => MayTouch(calls[c].who, boards[i].owner)

DashInv == BoardsTypeOK /\ OwnedByCreator /\ \A c \in Callers : CallKept(c)

LEMMA DashConstants ==
    /\ NoCall.op = "idle"
    /\ \A d \in Decided : d.op \in {"update", "delete", "duplicate"} /\ d.id \in DashIDs /\ d.who \in People /\ d.owner \in People
    /\ \A h \in Handing : h.op = "own" /\ h.id \in DashIDs /\ h.who \in Owners /\ h.visibility \in Visibilities
    /\ \A i \in DashIDs : i \in Nat
    /\ Owners \subseteq People /\ Anonymous \in People /\ Anonymous \notin Owners
BY DashboardAssumption DEF NoCall, Decided, Handing, People

\* The new contents of both copies of the dashboards, one of them changed.
LEMMA BoardWritten ==
    ASSUME BoardsTypeOK, NEW i \in DashIDs, NEW d \in BoardDocs \cup {NoDash}, NEW ok,
           boards' = [boards EXCEPT ![i] = d], saveBoards(boards', ok)
    PROVE  /\ boards' \in [DashIDs -> BoardDocs \cup {NoDash}] /\ boardsFile' \in [DashIDs -> BoardDocs \cup {NoDash}]
           /\ boards'[i] = d /\ \A j \in DashIDs \ {i} : boards'[j] = boards[j]
           /\ \A j \in DashIDs \ {i} : j \in Boards' <=> j \in Boards
<1>1. boards' \in [DashIDs -> BoardDocs \cup {NoDash}]
  BY DEF BoardsTypeOK
<1>2. boards'[i] = d /\ \A j \in DashIDs \ {i} : boards'[j] = boards[j]
  BY DEF BoardsTypeOK
<1>3. boardsFile' = boards' \/ boardsFile' = boardsFile
  BY DEF saveBoards
<1> QED
  BY <1>1, <1>2, <1>3 DEF BoardsTypeOK, Boards

\* The requests but c, when only the dashboard k changes, and what is known of k
\* is said.
LEMMA OtherCalls ==
    ASSUME DashInv, NEW k \in DashIDs, NEW e \in Callers, calls'[e] = calls[e],
           \A j \in DashIDs \ {k} : boards'[j] = boards[j],
           \A j \in DashIDs \ {k} : j \in Boards' <=> j \in Boards,
           \A j \in DashIDs \ {k} : j \in disputed' <=> j \in disputed,
           (calls[e].op \in {"update", "delete"} /\ calls[e].id = k /\ k \in Boards' \ disputed') =>
               MayTouch(calls[e].who, boards'[k].owner)
    PROVE  CallKept(e)'
<1>1. calls[e] = NoCall \/ calls[e].id \in DashIDs
  BY DashConstants DEF DashInv, BoardsTypeOK
<1>2. CASE calls[e] = NoCall
  BY <1>2, DashConstants DEF CallKept
<1>3. CASE calls[e].id \in DashIDs
  <2> DEFINE i == calls[e].id
  <2>1. CallKept(e)
    BY DEF DashInv
  <2>2. (calls[e].op \in {"update", "delete"} /\ i \in Boards' \ disputed') => MayTouch(calls[e].who, boards'[i].owner)
    <3>1. CASE i = k
      BY <3>1
    <3>2. CASE i # k
      BY <1>3, <2>1, <3>2 DEF CallKept
    <3> QED
      BY <3>1, <3>2
  <2> QED
    BY <2>2 DEF CallKept
<1> QED
  BY <1>1, <1>2, <1>3

LEMMA DashInitInv == DashboardsInit => DashInv
<1> SUFFICES ASSUME DashboardsInit PROVE DashInv
  OBVIOUS
<1>1. BoardsTypeOK
  BY DashboardAssumption, DashConstants DEF DashboardsInit, BoardsTypeOK, NoBoards
<1>2. Boards = {}
  BY DEF DashboardsInit, Boards, NoBoards
<1>3. \A c \in Callers : CallKept(c)
  BY <1>2, DashConstants DEF DashboardsInit, CallKept
<1> QED
  BY <1>1, <1>2, <1>3 DEF DashInv, OwnedByCreator

LEMMA CreateDashStep == ASSUME DashInv, createDashboard PROVE DashInv'
<1>1. PICK i \in DashIDs, who \in People, v \in Visibilities, ok \in BOOLEAN :
          /\ \/ FreshID(i) /\ dashNext' = i + 1
             \/ GivenID(i) /\ UNCHANGED dashNext
          /\ boards' = IF ok THEN CreateBoard(i, who, v) ELSE DeleteBoard(i)
          /\ saveBoards(boards', ok)
          /\ entitled' = [entitled EXCEPT ![i] = who]
          /\ disputed' = IF InFlight(i) THEN disputed \cup {i} ELSE disputed \ {i}
  BY DEF createDashboard
<1>2. dashKind' = dashKind /\ calls' = calls /\ BoardsTypeOK
  BY DEF createDashboard, DashInv
<1> DEFINE d == IF ok THEN [owner |-> who, visibility |-> v] ELSE NoDash
<1>3. d \in BoardDocs \cup {NoDash} /\ boards' = [boards EXCEPT ![i] = d] /\ (d # NoDash => d.owner = who)
  BY <1>1 DEF BoardDocs, CreateBoard, DeleteBoard
<1> HIDE DEF d
<1>4. /\ boards' \in [DashIDs -> BoardDocs \cup {NoDash}] /\ boardsFile' \in [DashIDs -> BoardDocs \cup {NoDash}]
      /\ boards'[i] = d /\ \A j \in DashIDs \ {i} : boards'[j] = boards[j]
      /\ \A j \in DashIDs \ {i} : j \in Boards' <=> j \in Boards
  BY <1>1, <1>2, <1>3, BoardWritten
<1>5. dashNext' \in Nat
  BY <1>1, <1>2, DashConstants DEF BoardsTypeOK
<1>6. /\ entitled'[i] = who /\ \A j \in DashIDs \ {i} : entitled'[j] = entitled[j]
      /\ entitled' \in [DashIDs -> People]
  BY <1>1, <1>2 DEF BoardsTypeOK
<1>7. /\ disputed' \subseteq DashIDs /\ \A j \in DashIDs \ {i} : j \in disputed' <=> j \in disputed
      /\ InFlight(i) => i \in disputed'
  BY <1>1, <1>2 DEF BoardsTypeOK
<1>8. BoardsTypeOK'
  BY <1>2, <1>4, <1>5, <1>6, <1>7 DEF BoardsTypeOK
<1>9. OwnedByCreator'
  <2> SUFFICES ASSUME NEW j \in Boards', j \notin disputed' PROVE boards'[j].owner = entitled'[j]
    BY DEF OwnedByCreator
  <2>1. j \in DashIDs /\ boards'[j] # NoDash
    BY DEF Boards
  <2>2. CASE j = i
    BY <1>3, <1>4, <1>6, <2>1, <2>2
  <2>3. CASE j # i
    BY <1>4, <1>6, <1>7, <2>1, <2>3 DEF DashInv, OwnedByCreator
  <2> QED
    BY <2>2, <2>3
<1>10. ASSUME NEW e \in Callers PROVE CallKept(e)'
  <2>1. (calls[e].op \in {"update", "delete"} /\ calls[e].id = i) => InFlight(i)
    BY DashConstants DEF InFlight
  <2> QED
    BY <1>2, <1>4, <1>7, <2>1, OtherCalls
<1> QED
  BY <1>8, <1>9, <1>10 DEF DashInv

LEMMA ReadForStep ==
    ASSUME DashInv, NEW c \in Callers, NEW op \in {"update", "delete", "duplicate"}, ReadFor(c, op)
    PROVE  DashInv'
<1>1. PICK i \in Boards, who \in People :
          /\ IF op = "duplicate" THEN canViewDashboard(boards[i], who) ELSE canModifyDashboard(boards[i], who)
          /\ calls' = [calls EXCEPT ![c] = [op |-> op, id |-> i, who |-> who, owner |-> boards[i].owner]]
  BY DEF ReadFor
<1>2. UNCHANGED <<dashKind, boards, boardsFile, dashNext, entitled, disputed>> /\ BoardsTypeOK /\ Boards' = Boards
  BY DEF ReadFor, DashInv, Boards
<1> DEFINE q == [op |-> op, id |-> i, who |-> who, owner |-> boards[i].owner]
<1>3. i \in DashIDs /\ boards[i] \in BoardDocs /\ boards[i].owner \in People
  BY <1>2 DEF BoardsTypeOK, Boards, BoardDocs
<1>4. q \in Decided /\ q.op = op /\ q.id = i /\ q.who = who
  BY <1>3 DEF Decided
<1> HIDE DEF q
<1>5. calls' \in [Callers -> Decided \cup Handing \cup {NoCall}] /\ calls'[c] = q /\ \A e \in Callers \ {c} : calls'[e] = calls[e]
  BY <1>1, <1>2, <1>4 DEF BoardsTypeOK, q
<1>6. BoardsTypeOK'
  BY <1>2, <1>5 DEF BoardsTypeOK
<1>7. OwnedByCreator'
  BY <1>2 DEF DashInv, OwnedByCreator
<1>8. CallKept(c)'
  <2>1. op \in {"update", "delete"} => MayTouch(who, boards[i].owner)
    BY <1>1 DEF canModifyDashboard, MayTouch
  <2> QED
    BY <1>2, <1>4, <1>5, <2>1 DEF CallKept
<1>9. ASSUME NEW e \in Callers \ {c} PROVE CallKept(e)'
  BY <1>2, <1>5 DEF DashInv, CallKept
<1> QED
  BY <1>6, <1>7, <1>8, <1>9 DEF DashInv

\* A request ends and changes at most the dashboard k, whose new owner, if it has
\* one that is not disputed, is the rightful one for everybody.
EndsWell(c, k, d) ==
    /\ calls' = [calls EXCEPT ![c] = NoCall] /\ UNCHANGED <<dashKind, dashNext, entitled>>
    /\ \/ boards' = boards
       \/ k \in Boards /\ boards' = [boards EXCEPT ![k] = d]
    /\ boardsFile' = boards' \/ boardsFile' = boardsFile
    /\ disputed' = disputed \/ disputed' = disputed \cup {k} \/ disputed' = disputed \ {k}
    /\ (k \in Boards' /\ k \notin disputed') => boards'[k].owner = entitled[k]
    /\ \A e \in Callers \ {c} : (calls[e].op \in {"update", "delete"} /\ calls[e].id = k /\ k \in Boards' \ disputed')
           => MayTouch(calls[e].who, boards'[k].owner)

LEMMA RequestEnds ==
    ASSUME DashInv, NEW c \in Callers, NEW k \in DashIDs, NEW d \in BoardDocs \cup {NoDash}, EndsWell(c, k, d)
    PROVE  DashInv'
<1> USE DEF EndsWell
<1>1. BoardsTypeOK
  BY DEF DashInv
<1>2. /\ boards' \in [DashIDs -> BoardDocs \cup {NoDash}]
      /\ \A j \in DashIDs \ {k} : boards'[j] = boards[j]
  BY <1>1 DEF BoardsTypeOK
<1>3. \A j \in DashIDs \ {k} : j \in Boards' <=> j \in Boards
  BY <1>2 DEF Boards
<1>4. disputed' \subseteq DashIDs /\ \A j \in DashIDs \ {k} : j \in disputed' <=> j \in disputed
  BY <1>1 DEF BoardsTypeOK
<1>5. /\ calls' \in [Callers -> Decided \cup Handing \cup {NoCall}]
      /\ calls'[c] = NoCall /\ \A e \in Callers \ {c} : calls'[e] = calls[e]
  BY <1>1 DEF BoardsTypeOK
<1>6. boardsFile' \in [DashIDs -> BoardDocs \cup {NoDash}]
  BY <1>1, <1>2 DEF BoardsTypeOK
<1>7. BoardsTypeOK'
  BY <1>1, <1>2, <1>4, <1>5, <1>6 DEF BoardsTypeOK
<1>8. OwnedByCreator'
  <2> SUFFICES ASSUME NEW j \in Boards', j \notin disputed' PROVE boards'[j].owner = entitled'[j]
    BY DEF OwnedByCreator
  <2>1. j \in DashIDs
    BY DEF Boards
  <2>2. CASE j = k
    BY <2>2
  <2>3. CASE j # k
    BY <1>2, <1>3, <1>4, <2>1, <2>3 DEF DashInv, OwnedByCreator
  <2> QED
    BY <2>2, <2>3
<1>9. CallKept(c)'
  BY <1>5, DashConstants DEF CallKept
<1>10. ASSUME NEW e \in Callers \ {c} PROVE CallKept(e)'
  <2> QED
    BY <1>2, <1>3, <1>4, <1>5, OtherCalls
<1> QED
  BY <1>7, <1>8, <1>9, <1>10 DEF DashInv

LEMMA UpdateDashStep == ASSUME DashInv, NEW c \in Callers, updateDashboard(c) PROVE DashInv'
<1> DEFINE i == calls[c].id
<1>1. calls[c] \in Decided /\ i \in DashIDs /\ calls[c].owner \in People
  BY DashConstants DEF updateDashboard, DashInv, BoardsTypeOK
<1>2. PICK v \in Visibilities :
          \/ i \notin Boards /\ UNCHANGED <<boards, boardsFile, disputed>>
          \/ /\ i \in Boards
             /\ boards' = UpdateBoard(i, calls[c].owner, v)
             /\ \E ok \in BOOLEAN : saveBoards(boards', ok)
             /\ disputed' = IF boards[i].owner = calls[c].owner THEN disputed ELSE disputed \cup {i}
  BY DEF updateDashboard, Visibilities
<1> DEFINE o == IF calls[c].owner = Anonymous /\ dashKind = "mongo" THEN boards[i].owner ELSE calls[c].owner
<1> DEFINE d == IF i \in Boards THEN [owner |-> o, visibility |-> v] ELSE NoDash
<1>3. d \in BoardDocs \cup {NoDash} /\ (i \in Boards => d \in BoardDocs /\ d.owner = o)
  <2>1. i \in Boards => boards[i].owner \in People
    BY <1>1 DEF Boards, BoardDocs, DashInv, BoardsTypeOK
  <2> QED
    BY <1>1, <2>1 DEF BoardDocs
<1>4. i \in Boards => UpdateBoard(i, calls[c].owner, v) = [boards EXCEPT ![i] = d]
  BY <1>1 DEF UpdateBoard, DashInv, BoardsTypeOK
<1>6. calls' = [calls EXCEPT ![c] = NoCall] /\ UNCHANGED <<dashKind, dashNext, entitled>>
  BY DEF updateDashboard
<1>5. boards[i].owner = calls[c].owner => o = boards[i].owner
  OBVIOUS
<1> HIDE DEF d, o
<1>7. boardsFile' = boards' \/ boardsFile' = boardsFile
  BY <1>2 DEF saveBoards
<1>8. boards' = boards \/ (i \in Boards /\ boards' = [boards EXCEPT ![i] = d])
  BY <1>2, <1>4
<1>9. CASE i \notin Boards
  <2>1. UNCHANGED <<boards, boardsFile, disputed>> /\ i \notin Boards'
    BY <1>2, <1>9 DEF Boards
  <2> HIDE DEF i
  <2>2. EndsWell(c, i, d)
    BY <1>1, <1>3, <1>6, <2>1 DEF EndsWell
  <2> QED
    BY <1>1, <1>2, <1>3, <2>2, RequestEnds
<1>10. CASE i \in Boards
  <2>1. boards' = [boards EXCEPT ![i] = d] /\ boards'[i] = d
    BY <1>1, <1>2, <1>4, <1>10 DEF DashInv, BoardsTypeOK
  <2>2. disputed' = IF boards[i].owner = calls[c].owner THEN disputed ELSE disputed \cup {i}
    BY <1>2, <1>10
  <2>3. i \notin disputed' => i \notin disputed /\ boards[i].owner = d.owner
    BY <1>3, <1>5, <1>10, <2>2
  <2>4. (i \in Boards' /\ i \notin disputed') => boards'[i].owner = entitled[i]
    BY <1>10, <2>1, <2>3 DEF DashInv, OwnedByCreator
  <2>5. \A e \in Callers \ {c} : (calls[e].op \in {"update", "delete"} /\ calls[e].id = i /\ i \in Boards' \ disputed')
               => MayTouch(calls[e].who, boards'[i].owner)
    <3> SUFFICES ASSUME NEW e \in Callers \ {c}, calls[e].op \in {"update", "delete"}, calls[e].id = i, i \notin disputed'
                 PROVE  MayTouch(calls[e].who, boards'[i].owner)
      OBVIOUS
    <3>1. CallKept(e)
      BY DEF DashInv
    <3> QED
      BY <1>10, <2>1, <2>3, <3>1 DEF CallKept
  <2>6. disputed' = disputed \/ disputed' = disputed \cup {i}
    BY <2>2
  <2> HIDE DEF i
  <2>7. EndsWell(c, i, d)
    BY <1>1, <1>3, <1>6, <1>7, <1>8, <2>4, <2>5, <2>6 DEF EndsWell
  <2> QED
    BY <1>1, <1>2, <1>3, <2>7, RequestEnds
<1> QED
  BY <1>9, <1>10

LEMMA DeleteDashStep == ASSUME DashInv, NEW c \in Callers, deleteDashboard(c) PROVE DashInv'
<1> DEFINE i == calls[c].id
<1>1. calls[c] \in Decided /\ i \in DashIDs
  BY DashConstants DEF deleteDashboard, DashInv, BoardsTypeOK
<1>2. calls' = [calls EXCEPT ![c] = NoCall] /\ UNCHANGED <<dashKind, dashNext, entitled, disputed>>
  BY DEF deleteDashboard
<1>3. i \notin Boards'
  BY <1>1 DEF deleteDashboard, DeleteBoard, Boards, DashInv, BoardsTypeOK
<1>4. boards' = boards \/ (i \in Boards /\ boards' = [boards EXCEPT ![i] = NoDash])
  BY DEF deleteDashboard, DeleteBoard
<1>5. boardsFile' = boards' \/ boardsFile' = boardsFile
  BY DEF deleteDashboard, saveBoards
<1> HIDE DEF i
<1>6. EndsWell(c, i, NoDash)
  BY <1>1, <1>2, <1>3, <1>4, <1>5 DEF EndsWell
<1> QED
  BY <1>1, <1>2, <1>3, <1>6, RequestEnds

LEMMA ReassignStep == ASSUME DashInv, NEW c \in Callers, ReassignOwner(c) PROVE DashInv'
<1> DEFINE k == calls[c].id
<1> DEFINE who == calls[c].who
<1> DEFINE overlapped == \E e \in Callers \ {c} : calls[e].op \in {"update", "delete"} /\ calls[e].id = k
<1> DEFINE settled == entitled[k] = who /\ ~overlapped
<1> DEFINE d == [owner |-> who, visibility |-> calls[c].visibility]
<1>1. k \in DashIDs /\ who \in Owners /\ who \in People /\ calls[c].visibility \in Visibilities
  BY DashConstants DEF ReassignOwner, DashInv, BoardsTypeOK
<1>2. d \in BoardDocs /\ d.owner = who
  BY <1>1 DEF BoardDocs
<1>3. BoardsTypeOK
  BY DEF DashInv
<1>4. calls' = [calls EXCEPT ![c] = NoCall] /\ UNCHANGED <<dashKind, dashNext, entitled>>
  BY DEF ReassignOwner
<1>5. UpdateBoard(k, who, calls[c].visibility) = [boards EXCEPT ![k] = d]
  BY <1>1, DashConstants DEF UpdateBoard
<1>6. \/ UNCHANGED <<boards, boardsFile, disputed>>
      \/ /\ k \in Boards /\ boards' = [boards EXCEPT ![k] = d]
         /\ \E ok \in BOOLEAN : saveBoards(boards', ok) /\ disputed' = IF ok /\ settled THEN disputed \ {k} ELSE disputed \cup {k}
  BY <1>5 DEF ReassignOwner
<1> HIDE DEF d
<1>7. CASE UNCHANGED <<boards, boardsFile, disputed>>
  <2>1. Boards' = Boards
    BY <1>7 DEF Boards
  <2>2. ASSUME NEW e \in Callers \ {c}, calls[e].op \in {"update", "delete"}, calls[e].id = k, k \in Boards' \ disputed'
        PROVE  MayTouch(calls[e].who, boards'[k].owner)
    <3>1. CallKept(e)
      BY DEF DashInv
    <3> QED
      BY <1>7, <2>1, <2>2, <3>1 DEF CallKept
  <2>3. (k \in Boards' /\ k \notin disputed') => boards'[k].owner = entitled[k]
    BY <1>7, <2>1 DEF DashInv, OwnedByCreator
  <2> HIDE DEF k
  <2>4. EndsWell(c, k, d)
    BY <1>1, <1>2, <1>4, <1>7, <2>2, <2>3 DEF EndsWell
  <2> QED
    BY <1>1, <1>2, <1>3, <2>4, RequestEnds
<1>8. CASE /\ k \in Boards /\ boards' = [boards EXCEPT ![k] = d]
           /\ \E ok \in BOOLEAN : saveBoards(boards', ok) /\ disputed' = IF ok /\ settled THEN disputed \ {k} ELSE disputed \cup {k}
  <2>1. boards'[k] = d
    BY <1>1, <1>8 DEF DashInv, BoardsTypeOK
  <2>2. boardsFile' = boards' \/ boardsFile' = boardsFile
    BY <1>8 DEF saveBoards
  <2>3. disputed' = disputed \cup {k} \/ (disputed' = disputed \ {k} /\ settled)
    BY <1>8
  <2>4. k \notin disputed' => settled
    BY <2>3
  <2>5. ASSUME NEW e \in Callers \ {c}, calls[e].op \in {"update", "delete"}, calls[e].id = k, k \in Boards' \ disputed'
        PROVE  MayTouch(calls[e].who, boards'[k].owner)
    BY <2>4, <2>5
  <2>6. (k \in Boards' /\ k \notin disputed') => boards'[k].owner = entitled[k]
    BY <1>2, <2>1, <2>4
  <2>7. disputed' = disputed \cup {k} \/ disputed' = disputed \ {k}
    BY <2>3
  <2> HIDE DEF k
  <2>8. EndsWell(c, k, d)
    BY <1>1, <1>2, <1>4, <1>8, <2>2, <2>5, <2>6, <2>7 DEF EndsWell
  <2> QED
    BY <1>1, <1>2, <1>3, <2>8, RequestEnds
<1> QED
  BY <1>6, <1>7, <1>8

LEMMA DuplicateDashStep == ASSUME DashInv, NEW c \in Callers, duplicateDashboard(c) PROVE DashInv'
<1> DEFINE i == calls[c].id
<1> DEFINE who == calls[c].who
<1> DEFINE named == who # Anonymous
<1>1. i \in DashIDs /\ who \in People /\ BoardsTypeOK
  BY DashConstants DEF duplicateDashboard, DashInv, BoardsTypeOK
<1>2. CASE i \notin Boards
  <2>1. calls' = [calls EXCEPT ![c] = NoCall] /\ UNCHANGED <<boards, boardsFile, dashNext, entitled, disputed, dashKind>>
    BY <1>2 DEF duplicateDashboard
  <2>2. i \notin Boards'
    BY <1>2, <2>1 DEF Boards
  <2> HIDE DEF i
  <2>3. EndsWell(c, i, NoDash)
    BY <1>1, <2>1, <2>2 DEF EndsWell
  <2> QED
    BY <1>1, <2>3, RequestEnds
<1>3. CASE i \in Boards
  <2>1. PICK k \in DashIDs, ok \in BOOLEAN :
            /\ FreshID(k)
            /\ boards' = IF ok THEN DuplicateBoard(i, k) ELSE DeleteBoard(k)
            /\ saveBoards(boards', ok)
            /\ dashNext' = k + 1
            /\ entitled' = [entitled EXCEPT ![k] = IF named THEN who ELSE boards[i].owner]
            /\ disputed' = IF named \/ InFlight(k) THEN disputed \cup {k} ELSE disputed \ {k}
            /\ calls' = [calls EXCEPT ![c] = IF ok /\ named THEN [op |-> "own", id |-> k, who |-> @.who, visibility |-> boards[i].visibility] ELSE NoCall]
    BY <1>3 DEF duplicateDashboard
  <2>2. dashKind' = dashKind
    BY DEF duplicateDashboard
  <2>3. boards[i] \in BoardDocs /\ boards[i].visibility \in Visibilities /\ boards[i].owner \in People
    BY <1>1, <1>3 DEF BoardsTypeOK, Boards, BoardDocs
  <2> DEFINE d == IF ok THEN boards[i] ELSE NoDash
  <2> DEFINE q == IF ok /\ named THEN [op |-> "own", id |-> k, who |-> who, visibility |-> boards[i].visibility] ELSE NoCall
  <2>4. d \in BoardDocs \cup {NoDash} /\ boards' = [boards EXCEPT ![k] = d] /\ (d # NoDash => d = boards[i])
    BY <2>1, <2>3 DEF DuplicateBoard, DeleteBoard
  <2>5. q \in Handing \cup {NoCall} /\ q.op \notin {"update", "delete"}
    <3>1. named => who \in Owners
      BY <1>1 DEF People
    <3> QED
      BY <2>3, <3>1 DEF Handing, NoCall
  <2>6. calls' = [calls EXCEPT ![c] = q]
    BY <2>1
  <2> HIDE DEF d, q
  <2>7. /\ boards' \in [DashIDs -> BoardDocs \cup {NoDash}] /\ boardsFile' \in [DashIDs -> BoardDocs \cup {NoDash}]
        /\ boards'[k] = d /\ \A j \in DashIDs \ {k} : boards'[j] = boards[j]
        /\ \A j \in DashIDs \ {k} : j \in Boards' <=> j \in Boards
    BY <1>1, <2>1, <2>4, BoardWritten
  <2>8. dashNext' \in Nat
    BY <2>1, DashConstants
  <2>9. /\ entitled'[k] = (IF named THEN who ELSE boards[i].owner) /\ \A j \in DashIDs \ {k} : entitled'[j] = entitled[j]
        /\ entitled' \in [DashIDs -> People]
    BY <1>1, <2>1, <2>3 DEF BoardsTypeOK
  <2>10. disputed' \subseteq DashIDs /\ (named \/ InFlight(k) => k \in disputed') /\ \A j \in DashIDs \ {k} : j \in disputed' <=> j \in disputed
    BY <1>1, <2>1 DEF BoardsTypeOK
  <2>11. /\ calls' \in [Callers -> Decided \cup Handing \cup {NoCall}]
         /\ calls'[c] = q /\ \A e \in Callers \ {c} : calls'[e] = calls[e]
    BY <1>1, <2>5, <2>6 DEF BoardsTypeOK
  <2>12. BoardsTypeOK'
    BY <1>1, <2>2, <2>7, <2>8, <2>9, <2>10, <2>11 DEF BoardsTypeOK
  <2>13. OwnedByCreator'
    <3> SUFFICES ASSUME NEW j \in Boards', j \notin disputed' PROVE boards'[j].owner = entitled'[j]
      BY DEF OwnedByCreator
    <3>1. j \in DashIDs /\ boards'[j] # NoDash
      BY DEF Boards
    <3>2. CASE j = k
      BY <2>4, <2>7, <2>9, <2>10, <3>1, <3>2
    <3>3. CASE j # k
      BY <2>7, <2>9, <2>10, <3>1, <3>3 DEF DashInv, OwnedByCreator
    <3> QED
      BY <3>2, <3>3
  <2>14. CallKept(c)'
    BY <2>5, <2>11 DEF CallKept
  <2>15. ASSUME NEW e \in Callers \ {c} PROVE CallKept(e)'
    <3>1. (calls[e].op \in {"update", "delete"} /\ calls[e].id = k) => InFlight(k)
      BY DashConstants DEF InFlight
    <3> QED
      BY <2>7, <2>10, <2>11, <3>1, OtherCalls
  <2> QED
    BY <2>12, <2>13, <2>14, <2>15 DEF DashInv
<1> QED
  BY <1>2, <1>3

LEMMA RestartDashStep == ASSUME DashInv, RestartDashboards PROVE DashInv'
<1> DEFINE saved == {i \in DashIDs : boardsFile[i] # NoDash}
<1>1. Cardinality(saved) \in Nat
  <2>1. IsFiniteSet(saved)
    BY DashboardAssumption, FS_Subset
  <2> QED
    BY <2>1, FS_CardinalityType
<1> HIDE DEF saved
<1>2. dashNext' = 1 + Cardinality(saved)
  BY DEF RestartDashboards, saved
<1>3. BoardsTypeOK'
  BY <1>1, <1>2 DEF RestartDashboards, DashInv, BoardsTypeOK
<1>4. OwnedByCreator'
  BY DEF RestartDashboards, DashInv, OwnedByCreator, Boards
<1>5. \A c \in Callers : CallKept(c)'
  BY DashConstants DEF RestartDashboards, CallKept
<1> QED
  BY <1>3, <1>4, <1>5 DEF DashInv

LEMMA DashStep == DashInv /\ [DashboardsNext]_dashVars => DashInv'
<1> SUFFICES ASSUME DashInv, [DashboardsNext]_dashVars PROVE DashInv'
  OBVIOUS
<1>1. CASE UNCHANGED dashVars
  BY <1>1 DEF dashVars, DashInv, BoardsTypeOK, OwnedByCreator, CallKept, Boards
<1> QED
  BY <1>1, CreateDashStep, RestartDashStep, ReadForStep, UpdateDashStep, DeleteDashStep, DuplicateDashStep, ReassignStep
     DEF DashboardsNext, DashboardRequest, DashboardCall

\* Deciding on the dashboard that was read and changing it later is safe: its
\* owner does not change in between, but around a duplication or a creation that
\* takes the place of a dashboard.  Callers without a name and dashboards without
\* an owner are included (custom_dashboard_api.go canModifyDashboard).
THEOREM DashboardsTheorem == DashboardsSpec => DashboardsOwned
<1>1. DashInv /\ DashInv' /\ [DashboardsNext]_dashVars
      => [OwnedByCreator' /\ (dashVars' # dashVars => (RestartDashboards \/ OnlyOwnerChanges))]_dashVars
  <2> SUFFICES ASSUME DashInv, DashInv', DashboardsNext, ~RestartDashboards PROVE OnlyOwnerChanges
    BY DEF DashInv
  <2> SUFFICES ASSUME NEW e \in Callers, calls[e].op \in {"update", "delete"}, calls'[e] = NoCall,
                      boards'[calls[e].id] # boards[calls[e].id], calls[e].id \notin disputed
               PROVE  MayTouch(calls[e].who, boards[calls[e].id].owner)
    BY DEF OnlyOwnerChanges, MayTouch
  <2>1. calls[e].id \in DashIDs /\ CallKept(e) /\ calls[e] # NoCall /\ calls \in [Callers -> Decided \cup Handing \cup {NoCall}]
    BY DashConstants DEF DashInv, BoardsTypeOK
  <2>2. CASE calls[e].id \in Boards
    BY <2>1, <2>2 DEF CallKept
  <2>3. CASE calls[e].id \notin Boards
    <3>1. calls' # calls
      BY <2>1
    <3>2. PICK c \in Callers : \/ \E op \in {"update", "delete", "duplicate"} : ReadFor(c, op)
                               \/ updateDashboard(c) \/ deleteDashboard(c) \/ duplicateDashboard(c) \/ ReassignOwner(c)
      BY <3>1 DEF DashboardsNext, DashboardRequest, DashboardCall, createDashboard
    <3>3. c = e
      BY <2>1, <3>2 DEF ReadFor, updateDashboard, deleteDashboard, duplicateDashboard, ReassignOwner
    <3>4. updateDashboard(e) \/ deleteDashboard(e)
      BY <2>1, <3>2, <3>3 DEF ReadFor, duplicateDashboard, ReassignOwner
    <3>5. boards' = boards
      BY <2>3, <3>4 DEF updateDashboard, deleteDashboard
    <3> QED
      BY <3>5
  <2> QED
    BY <2>2, <2>3
<1> QED
  BY <1>1, DashInitInv, DashStep, PTL DEF DashboardsSpec, DashboardsOwned

-----------------------------------------------------------------------------
(***************************************************************************)
(* CheckStore.  What an edit has decoded stands in the cached settings     *)
(* until it is decided: the password the cache uses is then the one that   *)
(* was sent, the mask, or the one that was there.                          *)
(***************************************************************************)
KeptSecrets == CheckSecrets \cup {NoSecret, SeedSecret}
SentSecrets == CheckSecrets \cup {SecretMask, NoSecret}
Settings    == [v : Nat, enc : KeptSecrets, pw : {NoSecret}]
CachedSettings == [v : Nat, enc : KeptSecrets, pw : KeptSecrets \cup {SecretMask}]
Edits       == [op : {"put"}, v : Versions, sent : SentSecrets]

CheckTypeOK ==
    /\ docs \in [CheckIDs -> Settings] /\ asked \in [CheckIDs -> Settings]
    /\ cached \in [CheckIDs -> CachedSettings]
    /\ \A i \in CheckIDs : editing[i] = NoEdit \/ editing[i] \in Edits
    /\ editing = [i \in CheckIDs |-> editing[i]]
    /\ unsure \subseteq CheckIDs

ResultsInv ==
    /\ lastResult \in Nat /\ cutoff \in Nat
    /\ docResults \subseteq Nat /\ cachedResults \subseteq Nat
    /\ ResultsKept

\* The edit of check i that is under way, and the check it was decoded into.
EditPending(i) ==
    /\ editing[i].sent \in CheckSecrets => cached[i].pw = editing[i].sent
    /\ editing[i].sent = SecretMask => cached[i].pw = SecretMask
    /\ editing[i].sent = NoSecret /\ i \notin unsure => Password(cached[i]) = asked[i].enc

CheckStoreInv ==
    /\ CheckTypeOK /\ ChecksAgree /\ ResultsInv
    /\ \A i \in CheckIDs : editing[i] # NoEdit => EditPending(i)

LEMMA CheckConstants ==
    /\ Versions \subseteq Nat /\ NoCheck \in Settings /\ NoSecret \in KeptSecrets /\ SeedSecret \in KeptSecrets
    /\ \A s \in KeptSecrets : s # SecretMask
    /\ \A e \in Edits : e # NoEdit
    /\ \A c \in Settings : c \in CachedSettings /\ [c EXCEPT !.pw = NoSecret] = c /\ Password(c) = c.enc
    /\ \A k \in Nat : Seeded(k) \in [CheckIDs -> Settings]
<1>1. Versions \subseteq Nat
  BY CheckStoreAssumption
<1>2. NoCheck \in Settings /\ NoSecret \in KeptSecrets /\ SeedSecret \in KeptSecrets
  BY DEF NoCheck, Settings, KeptSecrets
<1>3. \A s \in KeptSecrets : s # SecretMask
  BY CheckStoreAssumption DEF KeptSecrets, NoSecret, SeedSecret, SecretMask
<1>4. \A e \in Edits : e # NoEdit
  <2>1. \A e \in Edits : e.op = "put"
    BY DEF Edits
  <2>2. NoEdit.op = "none"
    BY DEF NoEdit
  <2> QED
    BY <2>1, <2>2
<1>5. \A c \in Settings : c \in CachedSettings /\ [c EXCEPT !.pw = NoSecret] = c /\ Password(c) = c.enc
  BY DEF Settings, CachedSettings, KeptSecrets, Password
<1>6. \A k \in Nat : Seeded(k) \in [CheckIDs -> Settings]
  BY <1>2 DEF Seeded, Settings
<1> QED
  BY <1>1, <1>2, <1>3, <1>4, <1>5, <1>6

\* What is kept of the credentials is in clear nowhere and never the mask.
LEMMA PreparedFacts ==
    ASSUME NEW c \in CachedSettings
    PROVE  /\ prepareCheckSecrets(c) \in Settings /\ prepareCheckSecrets(c).v = c.v
           /\ prepareCheckSecrets(c).enc = IF c.pw \notin {SecretMask, NoSecret} THEN c.pw ELSE c.enc
<1> QED
  BY DEF prepareCheckSecrets, CachedSettings, Settings

LEMMA CheckStoreInitInv == CheckStoreInit => CheckStoreInv
<1> SUFFICES ASSUME CheckStoreInit PROVE CheckStoreInv
  OBVIOUS
<1>1. docs \in [CheckIDs -> Settings]
  <2>1. Seeded(Len(Seeds)) \in [CheckIDs -> Settings]
    BY CheckConstants DEF Seeded, Settings
  <2>2. [Seeded(Len(Seeds)) EXCEPT ![Seeds[1]].enc = NoSecret] \in [CheckIDs -> Settings]
    BY <2>1, CheckConstants DEF Settings
  <2> QED
    BY <2>1, <2>2 DEF CheckStoreInit
<1>2. cached = docs /\ asked = docs /\ editing = [i \in CheckIDs |-> NoEdit] /\ unsure = {}
  BY DEF CheckStoreInit
<1>3. CheckTypeOK /\ ChecksAgree
  BY <1>1, <1>2, CheckConstants DEF CheckTypeOK, ChecksAgree
<1>4. ResultsInv
  BY DEF CheckStoreInit, ResultsInv, ResultsKept, readResults
<1> QED
  BY <1>2, <1>3, <1>4 DEF CheckStoreInv

\* A request for check i concerns no other check.
LEMMA OtherChecks ==
    ASSUME CheckStoreInv, NEW i \in CheckIDs, ResultsInv',
           \E c \in Settings : docs' = [docs EXCEPT ![i] = c],
           \E c \in CachedSettings : cached' = [cached EXCEPT ![i] = c],
           \E c \in Settings : asked' = [asked EXCEPT ![i] = c],
           \E e \in Edits \cup {NoEdit} : editing' = [editing EXCEPT ![i] = e],
           unsure' = unsure \/ unsure' = unsure \cup {i} \/ unsure' = unsure \ {i},
           i \notin unsure' =>
               /\ docs'[i] = asked'[i] /\ [cached'[i] EXCEPT !.pw = NoSecret] = asked'[i]
               /\ editing'[i] = NoEdit => Password(cached'[i]) = asked'[i].enc,
           editing'[i] # NoEdit => EditPending(i)'
    PROVE  CheckStoreInv'
<1>1. CheckTypeOK'
  BY DEF CheckStoreInv, CheckTypeOK
<1>2. \A j \in CheckIDs \ {i} : /\ docs'[j] = docs[j] /\ cached'[j] = cached[j] /\ asked'[j] = asked[j]
                                /\ editing'[j] = editing[j] /\ (j \in unsure' <=> j \in unsure)
  BY DEF CheckStoreInv, CheckTypeOK
<1>3. ChecksAgree'
  BY <1>2 DEF CheckStoreInv, ChecksAgree
<1>4. ASSUME NEW j \in CheckIDs, editing'[j] # NoEdit PROVE EditPending(j)'
  <2>1. CASE j = i
    BY <1>4, <2>1
  <2>2. CASE j # i
    BY <1>2, <1>4, <2>2 DEF CheckStoreInv, EditPending
  <2> QED
    BY <2>1, <2>2
<1> QED
  BY <1>1, <1>3, <1>4 DEF CheckStoreInv
LEMMA PostStep ==
    ASSUME CheckStoreInv, NEW i \in CheckIDs, handleChecksPost(i)
    PROVE  CheckStoreInv'
<1>1. PICK v \in Versions, s \in SentSecrets, out \in Outcomes :
        LET c == prepareCheckSecrets([v |-> v, enc |-> NoSecret, pw |-> s]) IN
          /\ UpsertCheck(i, c, cached[i], out)
          /\ asked' = IF out = "ok" THEN [asked EXCEPT ![i] = c] ELSE asked
          /\ unsure' = IF out = "ok" THEN unsure \ {i} ELSE unsure \cup {i}
  BY DEF handleChecksPost, SentSecrets
<1>2. editing[i] = NoEdit /\ UNCHANGED <<editing, resultVars>>
  BY DEF handleChecksPost
<1> DEFINE c == prepareCheckSecrets([v |-> v, enc |-> NoSecret, pw |-> s])
<1>3. [v |-> v, enc |-> NoSecret, pw |-> s] \in CachedSettings
  BY CheckConstants DEF CachedSettings, KeptSecrets, SentSecrets
<1>4. c \in Settings
  BY <1>3, PreparedFacts
<1>5. /\ docs' = IF out = "lost" THEN docs ELSE [docs EXCEPT ![i] = c]
      /\ cached' = [cached EXCEPT ![i] = IF out = "ok" THEN c ELSE cached[i]]
      /\ asked' = IF out = "ok" THEN [asked EXCEPT ![i] = c] ELSE asked
      /\ unsure' = IF out = "ok" THEN unsure \ {i} ELSE unsure \cup {i}
  BY <1>1 DEF UpsertCheck
<1> HIDE DEF c
<1>6. ResultsInv'
  BY <1>2 DEF CheckStoreInv, ResultsInv, ResultsKept, readResults, resultVars
<1>7. docs[i] \in Settings /\ cached[i] \in CachedSettings /\ asked[i] \in Settings /\ c \in CachedSettings
  BY <1>4, CheckConstants DEF CheckStoreInv, CheckTypeOK
<1>8. /\ \E d \in Settings : docs' = [docs EXCEPT ![i] = d]
      /\ \E d \in CachedSettings : cached' = [cached EXCEPT ![i] = d]
      /\ \E d \in Settings : asked' = [asked EXCEPT ![i] = d]
      /\ \E e \in Edits \cup {NoEdit} : editing' = [editing EXCEPT ![i] = e]
  <2>1. /\ docs = [docs EXCEPT ![i] = docs[i]] /\ asked = [asked EXCEPT ![i] = asked[i]]
        /\ editing = [editing EXCEPT ![i] = NoEdit]
    BY <1>2 DEF CheckStoreInv, CheckTypeOK
  <2> QED
    BY <1>2, <1>4, <1>5, <1>7, <2>1
<1>9. out = "ok" => docs'[i] = c /\ cached'[i] = c /\ asked'[i] = c
  BY <1>5 DEF CheckStoreInv, CheckTypeOK
<1>10. out = "ok" \/ i \in unsure'
  BY <1>5
<1> QED
  BY <1>2, <1>4, <1>5, <1>6, <1>8, <1>9, <1>10, CheckConstants, OtherChecks

LEMMA DecodeStep ==
    ASSUME CheckStoreInv, NEW i \in CheckIDs, decodeCheckUpdate(i)
    PROVE  CheckStoreInv'
<1>1. PICK v \in Versions, s \in SentSecrets :
        /\ cached' = IF s = NoSecret THEN cached ELSE [cached EXCEPT ![i].pw = s]
        /\ editing' = [editing EXCEPT ![i] = [op |-> "put", v |-> v, sent |-> s]]
  BY DEF decodeCheckUpdate, SentSecrets
<1>2. editing[i] = NoEdit /\ UNCHANGED <<docs, asked, unsure, resultVars>>
  BY DEF decodeCheckUpdate
<1> DEFINE e == [op |-> "put", v |-> v, sent |-> s]
           d == IF s = NoSecret THEN cached[i] ELSE [cached[i] EXCEPT !.pw = s]
<1>3. e \in Edits /\ e # NoEdit /\ e.sent = s
  BY CheckConstants DEF Edits
<1>4. docs[i] \in Settings /\ cached[i] \in CachedSettings /\ asked[i] \in Settings
  BY DEF CheckStoreInv, CheckTypeOK
<1>5. /\ d \in CachedSettings
      /\ s # NoSecret => d.pw = s
      /\ [d EXCEPT !.pw = NoSecret] = [cached[i] EXCEPT !.pw = NoSecret]
  BY <1>4 DEF CachedSettings, SentSecrets, KeptSecrets
<1>6. cached' = [cached EXCEPT ![i] = d]
  BY <1>1 DEF CheckStoreInv, CheckTypeOK
<1>7. cached'[i] = d /\ editing' = [editing EXCEPT ![i] = e] /\ editing'[i] = e
  BY <1>1, <1>6 DEF CheckStoreInv, CheckTypeOK
<1>8. ResultsInv'
  BY <1>2 DEF CheckStoreInv, ResultsInv, ResultsKept, readResults, resultVars
<1>9. /\ \E q \in Settings : docs' = [docs EXCEPT ![i] = q]
      /\ \E q \in CachedSettings : cached' = [cached EXCEPT ![i] = q]
      /\ \E q \in Settings : asked' = [asked EXCEPT ![i] = q]
      /\ \E q \in Edits \cup {NoEdit} : editing' = [editing EXCEPT ![i] = q]
  <2>1. docs = [docs EXCEPT ![i] = docs[i]] /\ asked = [asked EXCEPT ![i] = asked[i]]
    BY DEF CheckStoreInv, CheckTypeOK
  <2> HIDE DEF d, e
  <2> QED
    BY <1>2, <1>3, <1>4, <1>5, <1>6, <1>7, <2>1
<1>10. EditPending(i)'
  <2>1. s = NoSecret => d = cached[i]
    OBVIOUS
  <2>2. s = NoSecret => s \notin CheckSecrets /\ s # SecretMask
    BY CheckStoreAssumption DEF NoSecret, SecretMask
  <2>3. s = SecretMask => s # NoSecret
    BY DEF NoSecret, SecretMask
  <2>4. s = NoSecret /\ i \notin unsure => Password(cached[i]) = asked[i].enc
    BY <1>2 DEF CheckStoreInv, ChecksAgree
  <2> HIDE DEF d, e
  <2>5. s \in CheckSecrets => d.pw = s
    BY <1>5, <2>2
  <2>6. s = SecretMask => d.pw = SecretMask
    BY <1>5, <2>3
  <2>7. s = NoSecret /\ i \notin unsure => Password(d) = asked[i].enc
    BY <2>1, <2>4
  <2>8. editing'[i].sent = s /\ cached'[i] = d /\ asked' = asked /\ unsure' = unsure
    BY <1>2, <1>3, <1>7
  <2> QED
    BY <2>5, <2>6, <2>7, <2>8 DEF EditPending
<1>11. i \notin unsure' => /\ docs'[i] = asked'[i] /\ [cached'[i] EXCEPT !.pw = NoSecret] = asked'[i]
                           /\ editing'[i] = NoEdit => Password(cached'[i]) = asked'[i].enc
  <2> HIDE DEF d, e
  <2> QED
    BY <1>2, <1>3, <1>5, <1>7 DEF CheckStoreInv, ChecksAgree
<1> HIDE DEF d, e
<1> QED
  BY <1>2, <1>8, <1>9, <1>10, <1>11, OtherChecks

LEMMA EditRefusedStep ==
    ASSUME CheckStoreInv, NEW i \in CheckIDs, editRefused(i)
    PROVE  CheckStoreInv'
<1>1. /\ editing' = [editing EXCEPT ![i] = NoEdit]
      /\ unsure' = IF cached[i].pw = NoSecret THEN unsure ELSE unsure \cup {i}
      /\ UNCHANGED <<docs, cached, asked, resultVars>>
  BY DEF editRefused
<1>2. docs[i] \in Settings /\ cached[i] \in CachedSettings /\ asked[i] \in Settings
  BY DEF CheckStoreInv, CheckTypeOK
<1>3. ResultsInv'
  BY <1>1 DEF CheckStoreInv, ResultsInv, ResultsKept, readResults, resultVars
<1>4. /\ \E q \in Settings : docs' = [docs EXCEPT ![i] = q]
      /\ \E q \in CachedSettings : cached' = [cached EXCEPT ![i] = q]
      /\ \E q \in Settings : asked' = [asked EXCEPT ![i] = q]
      /\ \E q \in Edits \cup {NoEdit} : editing' = [editing EXCEPT ![i] = q]
  <2>1. /\ docs = [docs EXCEPT ![i] = docs[i]] /\ asked = [asked EXCEPT ![i] = asked[i]]
        /\ cached = [cached EXCEPT ![i] = cached[i]]
    BY DEF CheckStoreInv, CheckTypeOK
  <2> QED
    BY <1>1, <1>2, <2>1
<1>5. editing'[i] = NoEdit
  BY <1>1 DEF CheckStoreInv, CheckTypeOK
<1>6. i \notin unsure' => /\ docs'[i] = asked'[i] /\ [cached'[i] EXCEPT !.pw = NoSecret] = asked'[i]
                          /\ Password(cached'[i]) = asked'[i].enc
  <2> SUFFICES ASSUME i \notin unsure, cached[i].pw = NoSecret
               PROVE  /\ docs[i] = asked[i] /\ [cached[i] EXCEPT !.pw = NoSecret] = asked[i]
                      /\ Password(cached[i]) = asked[i].enc
    BY <1>1
  <2>1. docs[i] = asked[i] /\ [cached[i] EXCEPT !.pw = NoSecret] = asked[i]
    BY DEF CheckStoreInv, ChecksAgree
  <2>2. [cached[i] EXCEPT !.pw = NoSecret].enc = cached[i].enc
    BY <1>2 DEF CachedSettings
  <2> QED
    BY <2>1, <2>2 DEF Password
<1> QED
  BY <1>1, <1>3, <1>4, <1>5, <1>6, OtherChecks

LEMMA EditStoredStep ==
    ASSUME CheckStoreInv, NEW i \in CheckIDs, editStored(i)
    PROVE  CheckStoreInv'
<1> DEFINE left == prepareCheckSecrets(cached[i])
           c    == [left EXCEPT !.v = editing[i].v]
           kept == editing[i].sent \notin CheckSecrets
           told == [v |-> c.v, pw |-> NoSecret, enc |-> IF kept THEN asked[i].enc ELSE editing[i].sent]
<1>1. PICK out \in Outcomes :
        /\ docs' = IF out = "lost" THEN docs ELSE [docs EXCEPT ![i] = c]
        /\ cached' = [cached EXCEPT ![i] = IF out = "ok" THEN c ELSE left]
        /\ asked' = IF out = "ok" THEN [asked EXCEPT ![i] = told] ELSE asked
        /\ unsure' = IF out # "ok" THEN unsure \cup {i} ELSE IF kept THEN unsure ELSE unsure \ {i}
  BY DEF editStored, UpsertCheck
<1>2. editing[i] # NoEdit /\ editing' = [editing EXCEPT ![i] = NoEdit] /\ UNCHANGED resultVars
  BY DEF editStored
<1>3. /\ editing[i] \in Edits /\ EditPending(i)
      /\ docs[i] \in Settings /\ cached[i] \in CachedSettings /\ asked[i] \in Settings
  BY <1>2 DEF CheckStoreInv, CheckTypeOK
<1>4. editing[i].v \in Nat /\ editing[i].sent \in SentSecrets
  BY <1>3, CheckConstants DEF Edits
<1>5. /\ left \in Settings
      /\ left.enc = IF cached[i].pw \notin {SecretMask, NoSecret} THEN cached[i].pw ELSE cached[i].enc
  BY <1>3, PreparedFacts
<1> HIDE DEF left
<1>6. c \in Settings /\ c.v = editing[i].v /\ c.enc = left.enc
  BY <1>4, <1>5 DEF Settings
<1>7. told \in Settings
  BY <1>3, <1>4, <1>6 DEF Settings, KeptSecrets, SentSecrets
\* What was asked for is what is kept.
<1>8. ~kept \/ i \notin unsure => c.enc = told.enc
  <2>1. CASE ~kept
    <3>1. cached[i].pw = editing[i].sent /\ cached[i].pw \notin {SecretMask, NoSecret}
      BY <1>3, <2>1, CheckStoreAssumption DEF EditPending
    <3> QED
      BY <1>5, <1>6, <2>1, <3>1
  <2>2. CASE kept /\ i \notin unsure
    <3>1. asked[i].enc = cached[i].enc
      <4>1. [cached[i] EXCEPT !.pw = NoSecret] = asked[i]
        BY <2>2 DEF CheckStoreInv, ChecksAgree
      <4> QED
        BY <1>3, <4>1 DEF CachedSettings
    <3>2. CASE editing[i].sent = SecretMask
      BY <1>3, <1>5, <1>6, <2>2, <3>1, <3>2 DEF EditPending
    <3>3. CASE editing[i].sent = NoSecret
      <4>1. Password(cached[i]) = asked[i].enc
        BY <1>3, <2>2, <3>3 DEF EditPending
      <4> QED
        BY <1>5, <1>6, <2>2, <3>1, <4>1 DEF Password
    <3> QED
      BY <1>4, <2>2, <3>2, <3>3 DEF SentSecrets
  <2> QED
    BY <2>1, <2>2
<1>9. ~kept \/ i \notin unsure => c = told
  BY <1>3, <1>6, <1>7, <1>8 DEF Settings
<1> HIDE DEF c, kept, told
<1>10. ResultsInv'
  BY <1>2 DEF CheckStoreInv, ResultsInv, ResultsKept, readResults, resultVars
<1>11. /\ \E q \in Settings : docs' = [docs EXCEPT ![i] = q]
       /\ \E q \in CachedSettings : cached' = [cached EXCEPT ![i] = q]
       /\ \E q \in Settings : asked' = [asked EXCEPT ![i] = q]
       /\ \E q \in Edits \cup {NoEdit} : editing' = [editing EXCEPT ![i] = q]
  <2>1. docs = [docs EXCEPT ![i] = docs[i]] /\ asked = [asked EXCEPT ![i] = asked[i]]
    BY DEF CheckStoreInv, CheckTypeOK
  <2>2. c \in CachedSettings /\ left \in CachedSettings
    BY <1>5, <1>6, CheckConstants
  <2> QED
    BY <1>1, <1>2, <1>3, <1>5, <1>6, <1>7, <2>1, <2>2
<1>12. /\ editing'[i] = NoEdit
       /\ out = "ok" => docs'[i] = c /\ cached'[i] = c /\ asked'[i] = told
  BY <1>1, <1>2 DEF CheckStoreInv, CheckTypeOK
<1>13. i \notin unsure' => out = "ok" /\ (~kept \/ i \notin unsure)
  BY <1>1
<1>14. i \notin unsure' => /\ docs'[i] = asked'[i] /\ [cached'[i] EXCEPT !.pw = NoSecret] = asked'[i]
                           /\ Password(cached'[i]) = asked'[i].enc
  BY <1>6, <1>9, <1>12, <1>13, CheckConstants
<1>15. unsure' = unsure \/ unsure' = unsure \cup {i} \/ unsure' = unsure \ {i}
  BY <1>1
<1> QED
  BY <1>10, <1>11, <1>12, <1>14, <1>15, OtherChecks

LEMMA DeleteStep ==
    ASSUME CheckStoreInv, NEW i \in CheckIDs, DeleteStoredCheck(i)
    PROVE  CheckStoreInv'
<1>1. PICK out \in Outcomes :
        /\ docs' = IF out = "lost" THEN docs ELSE [docs EXCEPT ![i] = NoCheck]
        /\ cached' = IF out = "ok" THEN [cached EXCEPT ![i] = NoCheck] ELSE cached
        /\ asked' = IF out = "ok" THEN [asked EXCEPT ![i] = NoCheck] ELSE asked
        /\ unsure' = IF out = "ok" THEN unsure \ {i} ELSE unsure \cup {i}
  BY DEF DeleteStoredCheck
<1>2. editing[i] = NoEdit /\ UNCHANGED <<editing, resultVars>>
  BY DEF DeleteStoredCheck
<1>3. docs[i] \in Settings /\ cached[i] \in CachedSettings /\ asked[i] \in Settings
  BY DEF CheckStoreInv, CheckTypeOK
<1>4. NoCheck \in Settings /\ NoCheck \in CachedSettings
  BY CheckConstants
<1>5. ResultsInv'
  BY <1>2 DEF CheckStoreInv, ResultsInv, ResultsKept, readResults, resultVars
<1>6. /\ \E q \in Settings : docs' = [docs EXCEPT ![i] = q]
      /\ \E q \in CachedSettings : cached' = [cached EXCEPT ![i] = q]
      /\ \E q \in Settings : asked' = [asked EXCEPT ![i] = q]
      /\ \E q \in Edits \cup {NoEdit} : editing' = [editing EXCEPT ![i] = q]
  <2>1. /\ docs = [docs EXCEPT ![i] = docs[i]] /\ asked = [asked EXCEPT ![i] = asked[i]]
        /\ cached = [cached EXCEPT ![i] = cached[i]] /\ editing = [editing EXCEPT ![i] = NoEdit]
    BY <1>2 DEF CheckStoreInv, CheckTypeOK
  <2> QED
    BY <1>1, <1>2, <1>3, <1>4, <2>1
<1>7. out = "ok" => docs'[i] = NoCheck /\ cached'[i] = NoCheck /\ asked'[i] = NoCheck
  BY <1>1 DEF CheckStoreInv, CheckTypeOK
<1>8. out = "ok" \/ i \in unsure'
  BY <1>1
<1>9. unsure' = unsure \/ unsure' = unsure \cup {i} \/ unsure' = unsure \ {i}
  BY <1>1
<1> QED
  BY <1>2, <1>5, <1>6, <1>7, <1>8, <1>9, CheckConstants, OtherChecks

\* A start takes the cache from the collection, whatever was in doubt before.
LEMMA MongoStartStep ==
    ASSUME CheckStoreInv, NewMongoStore
    PROVE  CheckStoreInv'
<1>1. /\ editing' = [i \in CheckIDs |-> NoEdit] /\ cachedResults' = readResults(docResults)
      /\ UNCHANGED <<docResults, lastResult, cutoff>>
  BY DEF NewMongoStore
<1>2. ResultsInv'
  BY <1>1 DEF CheckStoreInv, ResultsInv, ResultsKept, readResults
<1>3. /\ docs' \in [CheckIDs -> Settings] /\ asked' \in [CheckIDs -> Settings]
      /\ cached' \in [CheckIDs -> Settings] /\ unsure' \subseteq CheckIDs
      /\ \A i \in CheckIDs \ unsure' : docs'[i] = asked'[i] /\ cached'[i] = asked'[i]
  <2>1. CASE Stored(docs) = {} /\ \E k \in 1..Len(Seeds) : docs' = Seeded(k) /\ cached' = docs' /\ unsure' = {}
    <3>1. PICK k \in 1..Len(Seeds) : docs' = Seeded(k) /\ cached' = docs' /\ unsure' = {}
      BY <2>1
    <3>2. Seeded(k) \in [CheckIDs -> Settings]
      BY CheckConstants DEF Seeded, Settings
    <3>3. asked' = [i \in CheckIDs |-> cached'[i]]
      BY <2>1 DEF NewMongoStore
    <3> QED
      BY <3>1, <3>2, <3>3
  <2>2. CASE /\ cached' = Migrated(docs)
             /\ \E failed \in SUBSET {i \in CheckIDs : Migrated(docs)[i] # docs[i]} :
                  /\ docs' = [i \in CheckIDs |-> IF i \in failed THEN docs[i] ELSE cached'[i]]
                  /\ unsure' = failed
             /\ Stored(docs) # {}
    <3>1. docs \in [CheckIDs -> Settings] /\ asked \in [CheckIDs -> Settings]
      BY DEF CheckStoreInv, CheckTypeOK
    <3>2. Migrated(docs) \in [CheckIDs -> Settings]
      <4>1. \A i \in CheckIDs : docs[i] \in Settings /\ [docs[i] EXCEPT !.enc = SeedSecret] \in Settings
        BY <3>1, CheckConstants DEF Settings
      <4> QED
        BY <4>1 DEF Migrated
    <3>3. asked' = [i \in CheckIDs |-> IF i \in unsure \/ Migrated(docs)[i] # docs[i] THEN cached'[i] ELSE asked[i]]
      BY <2>2 DEF NewMongoStore
    <3>4. \A i \in CheckIDs \ unsure : docs[i] = asked[i]
      BY DEF CheckStoreInv, ChecksAgree
    <3> QED
      BY <2>2, <3>1, <3>2, <3>3, <3>4
  <2> QED
    BY <2>1, <2>2 DEF NewMongoStore
<1>4. CheckTypeOK'
  BY <1>1, <1>3, CheckConstants DEF CheckTypeOK
<1>5. ChecksAgree'
  BY <1>3, CheckConstants DEF ChecksAgree
<1> QED
  BY <1>1, <1>2, <1>4, <1>5 DEF CheckStoreInv

\* What is read back is part of what there was, and all of it that is not too old.
LEMMA ReadFacts == \A S : readResults(S) \subseteq S /\ \A n \in S : n > cutoff => n \in readResults(S)
<1> QED
  BY DEF readResults

LEMMA ResultsStep ==
    ASSUME CheckStoreInv, AppendResults \/ ResultsAge \/ UNCHANGED storeVars
    PROVE  CheckStoreInv'
<1>1. UNCHANGED checkVars
  BY DEF AppendResults, ResultsAge, storeVars
<1>2. ResultsInv'
  <2>1. CASE AppendResults
    <3>1. PICK out \in Outcomes, pruned \in BOOLEAN :
            /\ docResults' = LET kept == IF pruned /\ out = "ok" THEN readResults(docResults) ELSE docResults
                             IN  IF out = "lost" THEN kept ELSE kept \cup {lastResult'}
            /\ cachedResults' = IF out = "ok" THEN readResults(cachedResults \cup {lastResult'}) ELSE cachedResults
            /\ cutoff' = cutoff /\ lastResult' = lastResult + 1
      BY <2>1 DEF AppendResults
    <3>2. \A n \in cachedResults : n > cutoff => n \in docResults
      BY DEF CheckStoreInv, ResultsInv, ResultsKept, readResults
    <3>4. /\ lastResult' \in Nat /\ \A S \in SUBSET Nat : readResults(S) \subseteq Nat
          /\ docResults \subseteq Nat /\ cachedResults \subseteq Nat /\ cutoff \in Nat
      <4>1. lastResult \in Nat /\ cutoff \in Nat /\ docResults \subseteq Nat /\ cachedResults \subseteq Nat
        BY DEF CheckStoreInv, ResultsInv
      <4>2. lastResult' \in Nat
        BY <3>1, <4>1
      <4>3. \A S \in SUBSET Nat : readResults(S) \subseteq Nat
        BY ReadFacts, Zenon
      <4> QED
        BY <4>1, <4>2, <4>3, Zenon
    <3>5. /\ lastResult' \in Nat /\ cutoff' \in Nat
          /\ docResults' \subseteq Nat /\ cachedResults' \subseteq Nat
      BY <3>1, <3>4
    <3>3. CASE out = "ok"
      <4>2. \A n \in docResults : n > cutoff => n \in docResults'
        BY <3>1, <3>3 DEF readResults
      <4>3. lastResult' \in docResults'
        BY <3>1, <3>3
      <4> QED
        BY <3>1, <3>2, <3>3, <3>5, <4>2, <4>3 DEF ResultsInv, ResultsKept, readResults
    <3>6. CASE out # "ok"
      BY <3>1, <3>2, <3>5, <3>6 DEF ResultsInv, ResultsKept, readResults
    <3> QED
      BY <3>3, <3>6
  <2>2. CASE ResultsAge
    <3>1. /\ cutoff' = cutoff + 1 /\ docResults' = docResults /\ cachedResults' = cachedResults
          /\ lastResult' = lastResult
      BY <2>2 DEF ResultsAge
    <3>2. ResultsInv
      BY DEF CheckStoreInv
    <3>3. \A n \in readResults(cachedResults)' : n \in readResults(cachedResults)
      BY <3>1, <3>2 DEF ResultsInv, readResults
    <3>4. ResultsKept'
      BY <3>1, <3>2, <3>3, Zenon DEF ResultsInv, ResultsKept
    <3> QED
      BY <3>1, <3>2, <3>4 DEF ResultsInv
  <2>3. CASE UNCHANGED storeVars
    BY <2>3 DEF storeVars, resultVars, CheckStoreInv, ResultsInv, ResultsKept, readResults
  <2> QED
    BY <2>1, <2>2, <2>3
<1> QED
  BY <1>1, <1>2 DEF checkVars, CheckStoreInv, CheckTypeOK, ChecksAgree, EditPending

LEMMA CheckStoreStep == CheckStoreInv /\ [CheckStoreNext]_storeVars => CheckStoreInv'
<1> QED
  BY PostStep, DecodeStep, EditRefusedStep, EditStoredStep, DeleteStep, MongoStartStep, ResultsStep
     DEF CheckStoreNext, ChecksNext, ResultsNext

\* Cache, collection and acknowledged requests agree on every check that no
\* failed write or refused edit left in doubt, what is stored as a password is
\* never the mask, and a cached result that is not too old is in the collection.
THEOREM CheckStoreTheorem == CheckStoreSpec => []CheckStoreSound
<1>1. CheckStoreInv => CheckStoreSound
  BY CheckConstants DEF CheckStoreInv, CheckStoreSound, ResultsInv, NoMaskStored, CheckTypeOK, Settings
<1> QED
  BY <1>1, CheckStoreInitInv, CheckStoreStep, PTL DEF CheckStoreSpec

-----------------------------------------------------------------------------
(***************************************************************************)
(* HybridStore.  While a sync is under way its snapshot may be stale, but  *)
(* then the write that made it stale waits for the lock, and syncs again.  *)
(***************************************************************************)
Idle(w)       == writer[w] = "idle"
Covers(m)     == \A i \in HybridIDs : local[i] # Absent => m[i] = local[i]
Remembered(m) == \A i \in HybridIDs : m[i] # Absent => local[i] # Absent \/ i \in removed

HybridTypeOK ==
    /\ local \in [HybridIDs -> Nat] /\ mirror \in [HybridIDs -> Nat] /\ shot \in [HybridIDs -> Nat]
    /\ hasMirror \in BOOLEAN /\ mongoDown \in BOOLEAN /\ synced \in BOOLEAN
    /\ syncMu \in Syncers \cup {Nobody} /\ writer \in [Syncers -> {"idle", "sync"}]
    /\ removed \subseteq HybridIDs

HybridInv ==
    /\ HybridTypeOK
    /\ ~hasMirror => \A w \in Syncers : Idle(w)
    /\ syncMu # Nobody => ~Idle(syncMu)
    /\ syncMu # Nobody /\ (\A w \in Syncers \ {syncMu} : Idle(w)) => shot = local
    /\ synced /\ hasMirror /\ ~mongoDown /\ (\A w \in Syncers : Idle(w)) => Covers(mirror)
    /\ Remembered(mirror) /\ Remembered(shot)

LEMMA HybridInitInv == HybridInit => HybridInv
<1> SUFFICES ASSUME HybridInit PROVE HybridInv
  OBVIOUS
<1>1. Defaults \in [HybridIDs -> Nat] /\ [i \in HybridIDs |-> Absent] \in [HybridIDs -> Nat]
  BY DEF Defaults, Absent
<1>2. HybridTypeOK
  BY <1>1 DEF HybridInit, HybridTypeOK
<1>3. Remembered(mirror) /\ Remembered(shot)
  BY DEF HybridInit, Remembered
<1> QED
  BY <1>2, <1>3 DEF HybridInit, HybridInv

\* What a sync puts over the mirror is of the snapshot or of the mirror.
LEMMA UpsertedFacts ==
    ASSUME HybridInv, NEW ids \in SUBSET HybridIDs, mirror' = Upserted(mirror, shot, ids)
    PROVE  /\ mirror' \in [HybridIDs -> Nat] /\ Remembered(mirror')
           /\ ids = HybridIDs /\ shot = local => Covers(mirror')
<1> QED
  BY DEF Upserted, HybridInv, HybridTypeOK, Remembered, Covers

LEMMA HybridStep == HybridInv /\ [HybridNext]_hybridVars => HybridInv'
<1> SUFFICES ASSUME HybridInv, [HybridNext]_hybridVars PROVE HybridInv'
  OBVIOUS
<1>1. CASE NewHybridStore
  <2>1. Defaults \in [HybridIDs -> Nat]
    BY DEF Defaults, Absent
  <2>2. HybridTypeOK'
    BY <1>1, <2>1 DEF NewHybridStore, HybridInv, HybridTypeOK
  <2>3. Remembered(mirror)' /\ Remembered(shot)'
    BY <1>1 DEF NewHybridStore, HybridInv, Remembered
  <2>4. /\ syncMu' = Nobody /\ synced' = FALSE
        /\ ~hasMirror' => \A w \in Syncers : writer'[w] = "idle"
    BY <1>1 DEF NewHybridStore
  <2> QED
    BY <2>2, <2>3, <2>4 DEF HybridInv, Idle
<1>2. ASSUME NEW w \in Syncers, LocalUpdate(w) PROVE HybridInv'
  <2>1. /\ writer[w] = "idle" /\ writer' = [writer EXCEPT ![w] = IF hasMirror THEN "sync" ELSE "idle"]
        /\ UNCHANGED <<mirror, hasMirror, mongoDown, syncMu, shot, synced>>
    BY <1>2 DEF LocalUpdate
  <2>2. /\ local' \in [HybridIDs -> Nat] /\ removed' \subseteq HybridIDs
        /\ \A m \in [HybridIDs -> Nat] : Remembered(m) => Remembered(m)'
    BY <1>2 DEF LocalUpdate, HybridInv, HybridTypeOK, Remembered, Absent
  <2>3. HybridTypeOK' /\ Remembered(mirror)' /\ Remembered(shot)'
    BY <2>1, <2>2 DEF HybridInv, HybridTypeOK, Remembered
  <2>4. CASE hasMirror
    <3>1. w # syncMu /\ ~Idle(w)' /\ \A v \in Syncers \ {w} : writer'[v] = writer[v]
      BY <2>1, <2>4, HybridAssumption DEF HybridInv, HybridTypeOK, Idle, Syncers, Nobody, Starter
    <3> QED
      BY <2>1, <2>3, <2>4, <3>1 DEF HybridInv, HybridTypeOK, Idle
  <2>5. CASE ~hasMirror
    <3>1. syncMu = Nobody /\ writer' = writer
      BY <2>1, <2>5 DEF HybridInv, HybridTypeOK, Idle
    <3> QED
      BY <2>1, <2>3, <2>5, <3>1 DEF HybridInv, Idle
  <2> QED
    BY <2>4, <2>5
<1>3. ASSUME NEW w \in Syncers, SyncBegin(w) PROVE HybridInv'
  <2>1. /\ writer[w] = "sync" /\ syncMu' = w /\ shot' = local
        /\ UNCHANGED <<local, mirror, hasMirror, mongoDown, writer, synced, removed>>
    BY <1>3 DEF SyncBegin
  <2>2. HybridTypeOK'
    BY <2>1 DEF HybridInv, HybridTypeOK
  <2>3. Remembered(mirror)' /\ Remembered(shot)'
    BY <2>1 DEF HybridInv, Remembered
  <2> QED
    BY <2>1, <2>2, <2>3 DEF HybridInv, Idle, Covers
<1>4. ASSUME NEW w \in Syncers, SyncEnd(w) PROVE HybridInv'
  <2>1. /\ syncMu = w /\ syncMu' = Nobody /\ writer' = [writer EXCEPT ![w] = "idle"]
        /\ UNCHANGED <<local, hasMirror, shot, removed>>
    BY <1>4 DEF SyncEnd
  <2>2. syncMu # Nobody
    BY <2>1, HybridAssumption DEF Syncers, Nobody, Starter
  <2>3. PICK ids \in SUBSET HybridIDs :
          /\ mirror' = Upserted(mirror, shot, ids)
          /\ \/ ids = HybridIDs /\ mongoDown' = FALSE /\ synced' = TRUE
             \/ mongoDown' = TRUE /\ UNCHANGED synced
    BY <1>4 DEF SyncEnd
  <2>4. /\ mirror' \in [HybridIDs -> Nat] /\ Remembered(mirror')
        /\ ids = HybridIDs /\ shot = local => Covers(mirror')
    BY <2>3, UpsertedFacts
  <2>5. HybridTypeOK'
    BY <2>1, <2>3, <2>4 DEF HybridInv, HybridTypeOK
  <2>6. Remembered(mirror)' /\ Remembered(shot)'
    BY <2>1, <2>4 DEF HybridInv, Remembered
  <2>7. \A v \in Syncers : v # w => writer'[v] = writer[v]
    BY <2>1
  <2>8. ~mongoDown' /\ (\A v \in Syncers : Idle(v)') => Covers(mirror)'
    BY <2>1, <2>2, <2>3, <2>4, <2>7 DEF HybridInv, Idle, Covers
  <2>9. ~hasMirror' => \A v \in Syncers : Idle(v)'
    BY <2>1, <2>2, <2>7 DEF HybridInv, Idle
  <2> QED
    BY <2>1, <2>5, <2>6, <2>8, <2>9 DEF HybridInv
<1>5. CASE UNCHANGED hybridVars
  BY <1>5 DEF hybridVars, HybridInv, HybridTypeOK, Idle, Covers, Remembered
<1> QED
  BY <1>1, <1>2, <1>3, <1>4, <1>5 DEF HybridNext

\* Once a sync has succeeded and no write is under way, every reader gets every
\* check as it was written last, and beyond those only checks that were deleted.
THEOREM HybridTheorem == HybridSpec => []HybridReads
<1>1. HybridInv => HybridReads
  BY DEF HybridInv, HybridReads, Snapshots, MirrorPreferred, Idle, Covers, Remembered
<1> QED
  BY <1>1, HybridInitInv, HybridStep, PTL DEF HybridSpec

-----------------------------------------------------------------------------
(***************************************************************************)
(* Chat.  The identifier of a conversation is given once, so that whoever  *)
(* was let in is let in for as long as the conversation is stored; and a   *)
(* question has its messages in its own conversation, in the order of its  *)
(* own steps.                                                              *)
(***************************************************************************)
Messages == [ask : Asks, role : {"user", "assistant"}]
Chats    == [owner : ChatOwners, title : Asks \cup {"", "given"}, msgs : Seq(Messages)]
AskSteps == {"new", "question", "prompt", "provider", "failed", "answered"}
Progress == [pc : AskSteps, owner : ChatOwners \cup {""}, chat : ChatIDs \cup {0}, prompt : Seq(Messages)]

ChatTypeOK ==
    /\ chatKind \in ChatStores /\ created \subseteq ChatIDs /\ removing \subseteq ChatIDs
    /\ DOMAIN chats \subseteq created /\ chats \in [DOMAIN chats -> Chats]
    /\ ask \in [Asks -> Progress] /\ chatsRemoved \subseteq created

\* What is known of the messages of the conversation id.
Told(id) ==
    LET msgs == chats[id].msgs IN
    /\ \A i \in DOMAIN msgs :
         /\ ask[msgs[i].ask].chat = id /\ ask[msgs[i].ask].pc \notin {"new", "question"}
         /\ msgs[i].role = "assistant" => ask[msgs[i].ask].pc = "answered"
    /\ \A i, j \in DOMAIN msgs : (msgs[i].ask = msgs[j].ask /\ msgs[i].role = "user" /\ msgs[j].role = "assistant") => i < j

AskAllowed(q) ==
    ask[q].pc # "new" => /\ ask[q].chat \in created
                         /\ Found(ask[q].chat) => "" \in {chats[ask[q].chat].owner, ask[q].owner}
                                                  \/ chats[ask[q].chat].owner = ask[q].owner

AskPrompt(q) ==
    /\ ask[q].pc \in {"new", "question", "prompt"} => ask[q].prompt = <<>>
    /\ ask[q].prompt # <<>> => Last(ask[q].prompt) = Say(q, "user") /\ Len(ask[q].prompt) <= Window

AskSources(q) ==
    \A i \in DOMAIN ask[q].prompt : ask[ask[q].prompt[i].ask].pc # "new" /\ ask[ask[q].prompt[i].ask].chat = ask[q].chat

AskKept(q) == AskAllowed(q) /\ AskPrompt(q) /\ AskSources(q)

ChatInv ==
    /\ ChatTypeOK
    /\ \A q \in Asks : AskKept(q)
    /\ \A id \in DOMAIN chats : Told(id)
    /\ chatsRemoved \cap DOMAIN chats = {}

LEMMA NoMessages == <<>> \in Seq(Messages) /\ DOMAIN <<>> = {} /\ Len(<<>>) = 0
<1>1. <<>> \in Seq(Messages) /\ Len(<<>>) = 0
  BY EmptySeq
<1>2. DOMAIN <<>> = 1 .. Len(<<>>)
  BY <1>1, LenProperties
<1> QED
  BY <1>1, <1>2

LEMMA MessageFields ==
    ASSUME NEW s \in Seq(Messages)
    PROVE  /\ Len(s) \in Nat /\ DOMAIN s = 1 .. Len(s)
           /\ \A i \in DOMAIN s : s[i] \in Messages /\ s[i].ask \in Asks /\ s[i].role \in {"user", "assistant"}
<1>1. Len(s) \in Nat /\ DOMAIN s = 1 .. Len(s) /\ \A i \in 1 .. Len(s) : s[i] \in Messages
  BY LenProperties, ElementOfSeq
<1>2. \A m \in Messages : m.ask \in Asks /\ m.role \in {"user", "assistant"}
  BY DEF Messages
<1> QED
  BY <1>1, <1>2

LEMMA ChatInitInv == ChatInit => ChatInv
<1> SUFFICES ASSUME ChatInit PROVE ChatInv
  OBVIOUS
<1>1. DOMAIN chats = {}
  BY DEF ChatInit
<1>2. NoAsk \in Progress
  BY DEF NoAsk, Progress, AskSteps
<1>3. ChatTypeOK
  BY <1>1, <1>2 DEF ChatInit, ChatTypeOK
<1>4. \A q \in Asks : AskKept(q)
  <2>1. DOMAIN NoAsk.prompt = {} /\ NoAsk.prompt = <<>> /\ NoAsk.pc = "new"
    BY DEF NoAsk
  <2> QED
    BY <2>1 DEF ChatInit, AskKept, AskAllowed, AskPrompt, AskSources
<1> QED
  BY <1>1, <1>3, <1>4 DEF ChatInv, ChatInit

\* No conversation is more than what it was, or new.
LEMMA CreateFacts ==
    ASSUME ChatTypeOK, NEW id \in ChatIDs, NEW title \in {"", "given"}, NEW owner \in ChatOwners, CreateConversation(id, title, owner)
    PROVE  /\ id \notin created /\ id \notin DOMAIN chats /\ created' = created \cup {id}
           /\ DOMAIN chats \subseteq DOMAIN chats' /\ DOMAIN chats' \subseteq DOMAIN chats \cup {id}
           /\ chats' \in [DOMAIN chats' -> Chats]
           /\ \A x \in DOMAIN chats : chats'[x] = chats[x]
           /\ id \in DOMAIN chats' => chats'[id].owner = owner /\ chats'[id].msgs = <<>>
<1> DEFINE c == [owner |-> owner, title |-> title, msgs |-> <<>>]
<1>1. c \in Chats /\ c.owner = owner /\ c.msgs = <<>>
  <2>1. <<>> \in Seq(Messages)
    BY EmptySeq
  <2> QED
    BY <2>1 DEF Chats
<1>2. id \notin created /\ created' = created \cup {id} /\ id \notin DOMAIN chats
  BY DEF CreateConversation, ChatTypeOK
<1>3. chats' = chats \/ chats' = WithChat(chats, id, c)
  BY DEF CreateConversation
<1> HIDE DEF c
<1>4. CASE chats' = chats
  BY <1>2, <1>4 DEF ChatTypeOK
<1>5. CASE chats' = WithChat(chats, id, c)
  BY <1>1, <1>2, <1>5 DEF WithChat, ChatTypeOK
<1> QED
  BY <1>3, <1>4, <1>5

LEMMA ConversationsStep ==
    ASSUME ChatInv, NEW id \in ChatIDs, NEW title \in {"", "given"}, NEW owner \in ChatOwners,
           handleConversations(id, title, owner)
    PROVE  ChatInv'
<1>1. ChatTypeOK /\ UNCHANGED <<chatKind, ask, removing, chatsRemoved>> /\ CreateConversation(id, title, owner)
  BY DEF ChatInv, handleConversations
<1>2. /\ id \notin created /\ id \notin DOMAIN chats /\ created' = created \cup {id}
      /\ DOMAIN chats \subseteq DOMAIN chats' /\ DOMAIN chats' \subseteq DOMAIN chats \cup {id}
      /\ chats' \in [DOMAIN chats' -> Chats]
      /\ \A x \in DOMAIN chats : chats'[x] = chats[x]
      /\ id \in DOMAIN chats' => chats'[id].owner = owner /\ chats'[id].msgs = <<>>
  BY <1>1, CreateFacts
<1>3. ChatTypeOK'
  BY <1>1, <1>2 DEF ChatTypeOK
<1>4. ASSUME NEW q \in Asks PROVE AskKept(q)'
  <2>1. ask[q].pc # "new" => ask[q].chat # id
    BY <1>2 DEF ChatInv, AskKept, AskAllowed
  <2>2. AskAllowed(q)'
    BY <1>1, <1>2, <2>1 DEF ChatInv, AskKept, AskAllowed, Found
  <2> QED
    BY <1>1, <2>2 DEF ChatInv, AskKept, AskPrompt, AskSources
<1>5. ASSUME NEW x \in DOMAIN chats' PROVE Told(x)'
  <2>1. CASE x \in DOMAIN chats
    <3>1. chats'[x] = chats[x] /\ ask' = ask /\ Told(x)
      BY <1>1, <1>2, <2>1 DEF ChatInv
    <3> QED
      BY <3>1 DEF Told
  <2>2. CASE x \notin DOMAIN chats
    <3>1. chats'[x].msgs = <<>>
      BY <1>2, <2>2
    <3>2. DOMAIN chats'[x].msgs = {}
      BY <3>1, NoMessages
    <3> QED
      BY <3>2 DEF Told
  <2> QED
    BY <2>1, <2>2
<1>6. (chatsRemoved \cap DOMAIN chats = {})'
  BY <1>1, <1>2 DEF ChatInv, ChatTypeOK
<1> QED
  BY <1>3, <1>4, <1>5, <1>6 DEF ChatInv

\* Taking up a question: its conversation is there and may be used, or is made.
LEMMA AskStep ==
    ASSUME ChatInv, NEW q \in Asks, NEW id \in ChatIDs, NEW owner \in ChatOwners, handleAsk(q, id, owner)
    PROVE  ChatInv'
<1> DEFINE a == [pc |-> "question", owner |-> owner, chat |-> id, prompt |-> <<>>]
<1>1. ChatTypeOK /\ UNCHANGED <<chatKind, removing, chatsRemoved>> /\ ask[q].pc = "new" /\ ask' = [ask EXCEPT ![q] = a]
  BY DEF ChatInv, handleAsk
<1>2. a \in Progress /\ a.pc = "question" /\ a.owner = owner /\ a.chat = id /\ a.prompt = <<>>
  BY NoMessages DEF Progress, AskSteps
<1> HIDE DEF a
<1>3. ask' \in [Asks -> Progress] /\ ask'[q] = a /\ \A p \in Asks \ {q} : ask'[p] = ask[p]
  BY <1>1, <1>2 DEF ChatTypeOK
<1>4. /\ created \subseteq created' /\ created' \subseteq ChatIDs /\ id \in created'
      /\ DOMAIN chats \subseteq DOMAIN chats' /\ DOMAIN chats' \subseteq DOMAIN chats \cup {id} /\ DOMAIN chats' \subseteq created'
      /\ chats' \in [DOMAIN chats' -> Chats]
      /\ \A x \in DOMAIN chats : chats'[x] = chats[x]
      /\ id \in DOMAIN chats' \ DOMAIN chats => id \notin created /\ chats'[id].owner = owner /\ chats'[id].msgs = <<>>
      /\ id \in DOMAIN chats' => "" \in {chats'[id].owner, owner} \/ chats'[id].owner = owner
  <2>1. CASE Found(id) /\ mayUse(owner, id) /\ UNCHANGED <<chats, created>>
    BY <1>1, <2>1 DEF Found, mayUse, ChatTypeOK
  <2>2. CASE CreateConversation(id, "", owner)
    <3>1. /\ id \notin created /\ id \notin DOMAIN chats /\ created' = created \cup {id}
          /\ DOMAIN chats \subseteq DOMAIN chats' /\ DOMAIN chats' \subseteq DOMAIN chats \cup {id}
          /\ chats' \in [DOMAIN chats' -> Chats]
          /\ \A x \in DOMAIN chats : chats'[x] = chats[x]
          /\ id \in DOMAIN chats' => chats'[id].owner = owner /\ chats'[id].msgs = <<>>
      BY <1>1, <2>2, CreateFacts
    <3> QED
      BY <1>1, <3>1 DEF ChatTypeOK
  <2> QED
    BY <2>1, <2>2 DEF handleAsk
<1>5. ChatTypeOK'
  BY <1>1, <1>3, <1>4 DEF ChatTypeOK
<1>6. \A m \in Messages : ask[m.ask].pc # "new" => ask'[m.ask] = ask[m.ask]
  BY <1>1, <1>3 DEF Messages
<1>7. AskKept(q)'
  <2>1. AskAllowed(q)'
    BY <1>2, <1>3, <1>4 DEF AskAllowed, Found
  <2>2. AskPrompt(q)' /\ AskSources(q)'
    BY <1>2, <1>3, NoMessages DEF AskPrompt, AskSources
  <2> QED
    BY <2>1, <2>2 DEF AskKept
<1>8. ASSUME NEW p \in Asks \ {q} PROVE AskKept(p)'
  <2>1. AskKept(p) /\ ask'[p] = ask[p] /\ ask[p].prompt \in Seq(Messages)
    BY <1>1, <1>3 DEF ChatInv, ChatTypeOK, Progress
  <2>2. AskSources(p)'
    <3>1. \A i \in DOMAIN ask[p].prompt : ask'[ask[p].prompt[i].ask] = ask[ask[p].prompt[i].ask]
      BY <1>6, <2>1, MessageFields DEF AskKept, AskSources
    <3> QED
      BY <2>1, <3>1 DEF AskKept, AskSources
  <2>3. AskAllowed(p)'
    BY <1>4, <2>1 DEF AskKept, AskAllowed, Found
  <2>4. AskPrompt(p)'
    BY <2>1 DEF AskKept, AskPrompt, Say
  <2> QED
    BY <2>2, <2>3, <2>4 DEF AskKept
<1>9. ASSUME NEW x \in DOMAIN chats' PROVE Told(x)'
  <2>1. CASE x \in DOMAIN chats
    <3>1. chats'[x] = chats[x] /\ Told(x) /\ chats[x].msgs \in Seq(Messages)
      BY <1>1, <1>4, <2>1 DEF ChatInv, ChatTypeOK, Chats
    <3>2. \A i \in DOMAIN chats[x].msgs : chats[x].msgs[i] \in Messages
      BY <3>1, MessageFields
    <3>3. \A i \in DOMAIN chats[x].msgs : ask'[chats[x].msgs[i].ask] = ask[chats[x].msgs[i].ask]
      BY <1>6, <3>1, <3>2 DEF Told
    <3> QED
      BY <3>1, <3>3 DEF Told
  <2>2. CASE x \notin DOMAIN chats
    <3>1. chats'[x].msgs = <<>>
      BY <1>4, <2>2
    <3>2. DOMAIN chats'[x].msgs = {}
      BY <3>1, NoMessages
    <3> QED
      BY <3>2 DEF Told
  <2> QED
    BY <2>1, <2>2
<1>10. (chatsRemoved \cap DOMAIN chats = {})'
  BY <1>1, <1>4 DEF ChatInv, ChatTypeOK
<1> QED
  BY <1>5, <1>7, <1>8, <1>9, <1>10 DEF ChatInv

LEMMA MessageAdded ==
    ASSUME ChatTypeOK, NEW id, NEW m \in Messages, AddMessage(id, m)
    PROVE  /\ DOMAIN chats' = DOMAIN chats /\ chats' \in [DOMAIN chats -> Chats]
           /\ \A x \in DOMAIN chats : /\ chats'[x].owner = chats[x].owner
                                      /\ chats'[x].msgs = chats[x].msgs \/ (x = id /\ chats'[x].msgs = Append(chats[x].msgs, m))
<1>1. CASE UNCHANGED chats
  BY <1>1 DEF ChatTypeOK
<1>2. CASE Found(id) /\ chats' = [chats EXCEPT ![id].msgs = Append(@, m), ![id].title = AutoTitle(chats[id], m)]
  <2> DEFINE c == chats[id]
  <2> DEFINE t == AutoTitle(chats[id], m)
  <2> DEFINE d == [c EXCEPT !.msgs = Append(@, m), !.title = t]
  <2>1. id \in DOMAIN chats /\ c \in Chats /\ c.msgs \in Seq(Messages) /\ c.owner \in ChatOwners
    BY <1>2 DEF Found, ChatTypeOK, Chats
  <2>2. t \in Asks \cup {"", "given"}
    BY <2>1 DEF AutoTitle, Messages, Chats
  <2>3. chats' = [chats EXCEPT ![id] = d]
    BY <1>2
  <2> HIDE DEF t
  <2> DEFINE new == Append(c.msgs, m)
  <2>4. d = [owner |-> c.owner, title |-> t, msgs |-> new]
    <3>1. d = [c EXCEPT !.msgs = new, !.title = t]
      OBVIOUS
    <3> HIDE DEF c, d, new
    <3> QED
      BY <2>1, <3>1 DEF Chats
  <2>5. Append(c.msgs, m) \in Seq(Messages)
    BY <2>1, AppendProperties
  <2>6. d \in Chats /\ d.owner = c.owner /\ d.msgs = Append(c.msgs, m)
    BY <2>1, <2>2, <2>4, <2>5 DEF Chats
  <2> HIDE DEF d
  <2>7. DOMAIN chats' = DOMAIN chats /\ chats'[id] = d /\ \A x \in DOMAIN chats \ {id} : chats'[x] = chats[x]
    BY <2>1, <2>3
  <2>8. chats' \in [DOMAIN chats -> Chats]
    BY <2>3, <2>6 DEF ChatTypeOK
  <2> QED
    BY <2>6, <2>7, <2>8
<1> QED
  BY <1>1, <1>2 DEF AddMessage

\* The question q goes on to pc and may leave a message in its conversation.
LEMMA Speaks ==
    ASSUME ChatInv, NEW q \in Asks, NEW pc \in AskSteps \ {"new", "question"}, NEW role \in {"user", "assistant"},
           ask' = [ask EXCEPT ![q].pc = pc], UNCHANGED <<chatKind, created, removing, chatsRemoved>>,
           AddMessage(ask[q].chat, Say(q, role)) \/ UNCHANGED chats,
           ask[q].pc \notin {"new", "answered"}, pc = "prompt" => ask[q].pc = "question",
           role = "user" => ask[q].pc = "question",
           role = "assistant" => pc = "answered" \/ UNCHANGED chats
    PROVE  ChatInv'
<1> DEFINE m == Say(q, role)
<1>1. m \in Messages /\ m.ask = q /\ m.role = role
  BY DEF Say, Messages
<1>2. ChatTypeOK
  BY DEF ChatInv
<1>3. /\ DOMAIN chats' = DOMAIN chats /\ chats' \in [DOMAIN chats -> Chats]
      /\ \A x \in DOMAIN chats : /\ chats'[x].owner = chats[x].owner
                                 /\ \/ chats'[x].msgs = chats[x].msgs
                                    \/ chats' # chats /\ x = ask[q].chat /\ chats'[x].msgs = Append(chats[x].msgs, m)
  <2>1. CASE UNCHANGED chats
    BY <1>2, <2>1 DEF ChatTypeOK
  <2>2. CASE AddMessage(ask[q].chat, m)
    <3> HIDE DEF m
    <3>1. CASE chats' = chats
      BY <1>2, <3>1 DEF ChatTypeOK
    <3>2. CASE chats' # chats
      BY <1>1, <1>2, <2>2, <3>2, MessageAdded
    <3> QED
      BY <3>1, <3>2
  <2> QED
    BY <2>1, <2>2
<1> HIDE DEF m
<1> DEFINE a == [ask[q] EXCEPT !.pc = pc]
<1>4. ask[q] \in Progress /\ a \in Progress /\ a.pc = pc /\ a.owner = ask[q].owner /\ a.chat = ask[q].chat /\ a.prompt = ask[q].prompt
  BY <1>2 DEF ChatTypeOK, Progress
<1>5. ask' = [ask EXCEPT ![q] = a]
  OBVIOUS
<1> HIDE DEF a
<1>6. ask' \in [Asks -> Progress] /\ ask'[q] = a /\ \A p \in Asks \ {q} : ask'[p] = ask[p]
  BY <1>2, <1>4, <1>5 DEF ChatTypeOK
<1>7. ChatTypeOK'
  BY <1>2, <1>3, <1>6 DEF ChatTypeOK
<1>8. \A p \in Asks : /\ ask'[p].owner = ask[p].owner /\ ask'[p].chat = ask[p].chat /\ ask'[p].prompt = ask[p].prompt
                      /\ ask'[p].pc = IF p = q THEN pc ELSE ask[p].pc
  BY <1>4, <1>6
<1>9. ASSUME NEW p \in Asks PROVE AskKept(p)'
  <2>1. AskKept(p) /\ ask[p].prompt \in Seq(Messages)
    BY <1>2 DEF ChatInv, ChatTypeOK, Progress
  <2>2. AskSources(p)'
    <3>1. \A i \in DOMAIN ask[p].prompt : ask[p].prompt[i].ask \in Asks
      BY <2>1, MessageFields
    <3>2. ASSUME NEW i \in DOMAIN ask[p].prompt
          PROVE  ask'[ask[p].prompt[i].ask].pc # "new" /\ ask'[ask[p].prompt[i].ask].chat = ask[p].chat
      <4> DEFINE e == ask[p].prompt[i].ask
      <4>1. e \in Asks /\ ask[e].pc # "new" /\ ask[e].chat = ask[p].chat
        BY <2>1, <3>1 DEF AskKept, AskSources
      <4> HIDE DEF e
      <4>2. ask'[e].pc # "new" /\ ask'[e].chat = ask[p].chat
        BY <1>8, <4>1
      <4> QED
        BY <4>2 DEF e
    <3> QED
      BY <1>8, <3>2 DEF AskSources
  <2>3. ask'[p].pc # "new" => ask[p].pc # "new"
    BY <1>8
  <2>4. AskAllowed(p)'
    <3>1. UNCHANGED created
      OBVIOUS
    <3> DEFINE c == ask[p].chat
    <3>2. ask[p].pc # "new" => c \in created /\ (c \in DOMAIN chats => "" \in {chats[c].owner, ask[p].owner} \/ chats[c].owner = ask[p].owner)
      BY <2>1 DEF AskKept, AskAllowed, Found
    <3>3. c \in DOMAIN chats' => c \in DOMAIN chats /\ chats'[c].owner = chats[c].owner
      BY <1>3
    <3>4. ask'[p].pc # "new" => c \in created' /\ (c \in DOMAIN chats' => "" \in {chats'[c].owner, ask[p].owner} \/ chats'[c].owner = ask[p].owner)
      BY <2>3, <3>1, <3>2, <3>3
    <3>5. ask'[p].chat = c /\ ask'[p].owner = ask[p].owner
      BY <1>8
    <3> QED
      BY <3>4, <3>5 DEF AskAllowed, Found
  <2>5. AskPrompt(p)'
    <3>1. ask'[p].pc \in {"new", "question", "prompt"} => ask[p].prompt = <<>>
      BY <1>8, <2>1 DEF AskKept, AskPrompt
    <3> QED
      BY <1>8, <2>1, <3>1 DEF AskKept, AskPrompt, Say
  <2> QED
    BY <2>2, <2>4, <2>5 DEF AskKept
<1>10. ASSUME NEW x \in DOMAIN chats' PROVE Told(x)'
  <2> DEFINE old == chats[x].msgs
  <2>1. x \in DOMAIN chats /\ Told(x) /\ old \in Seq(Messages) /\ Len(old) \in Nat /\ DOMAIN old = 1 .. Len(old)
    BY <1>2, <1>3, MessageFields DEF ChatInv, ChatTypeOK, Chats
  <2>2. \A i \in DOMAIN old : old[i] \in Messages /\ old[i].ask \in Asks
    BY <2>1, MessageFields
  <2>3. ASSUME NEW i \in DOMAIN old
        PROVE  /\ ask'[old[i].ask].chat = x /\ ask'[old[i].ask].pc \notin {"new", "question"}
               /\ old[i].role = "assistant" => old[i].ask # q /\ ask'[old[i].ask].pc = "answered"
    BY <1>8, <2>1, <2>2 DEF Told
  <2>4. CASE chats'[x].msgs = old
    BY <2>1, <2>3, <2>4 DEF Told
  <2>5. CASE chats' # chats /\ x = ask[q].chat /\ chats'[x].msgs = Append(old, m)
    <3> DEFINE new == Append(old, m)
    <3>1. /\ new \in Seq(Messages) /\ Len(new) = Len(old) + 1 /\ DOMAIN new = 1 .. Len(old) + 1
          /\ new[Len(old) + 1] = m /\ \A i \in 1 .. Len(old) : new[i] = old[i]
      BY <1>1, <2>1, AppendProperties, LenProperties
    <3> HIDE DEF new
    <3>2. role = "user" => \A i \in DOMAIN old : old[i].ask # q
      BY <2>1 DEF Told
    <3>3. role = "assistant" => pc = "answered"
      BY <2>5
    <3>4. ASSUME NEW i \in DOMAIN new
          PROVE  /\ ask'[new[i].ask].chat = x /\ ask'[new[i].ask].pc \notin {"new", "question"}
                 /\ new[i].role = "assistant" => ask'[new[i].ask].pc = "answered"
      <4>1. CASE i \in DOMAIN old
        BY <2>1, <2>3, <3>1, <4>1
      <4>2. CASE i = Len(old) + 1
        BY <1>1, <1>8, <2>5, <3>1, <3>3, <4>2
      <4> QED
        BY <2>1, <3>1, <4>1, <4>2
    <3>5. ASSUME NEW i \in DOMAIN new, NEW j \in DOMAIN new,
                 new[i].ask = new[j].ask, new[i].role = "user", new[j].role = "assistant"
          PROVE  i < j
      <4>1. CASE i \in DOMAIN old /\ j \in DOMAIN old
        <5>1. new[i] = old[i] /\ new[j] = old[j]
          BY <2>1, <3>1, <4>1
        <5> QED
          BY <2>1, <3>5, <4>1, <5>1 DEF Told
      <4>2. CASE i \in DOMAIN old /\ j = Len(old) + 1
        BY <2>1, <4>2
      <4>3. CASE i = Len(old) + 1 /\ j \in DOMAIN old
        <5>1. role = "user" /\ old[j].ask = q
          BY <1>1, <2>1, <3>1, <3>5, <4>3
        <5> QED
          BY <3>2, <4>3, <5>1
      <4>4. CASE i = Len(old) + 1 /\ j = Len(old) + 1
        BY <1>1, <3>1, <3>5, <4>4
      <4> QED
        BY <2>1, <3>1, <4>1, <4>2, <4>3, <4>4
    <3>6. chats'[x].msgs = new
      BY <2>5 DEF new
    <3> QED
      BY <3>4, <3>5, <3>6 DEF Told
  <2> QED
    BY <1>3, <2>1, <2>4, <2>5
<1>11. (chatsRemoved \cap DOMAIN chats = {})'
  BY <1>3 DEF ChatInv
<1> QED
  BY <1>7, <1>9, <1>10, <1>11 DEF ChatInv

LEMMA QuestionStep == ASSUME ChatInv, NEW q \in Asks, Question(q) PROVE ChatInv'
<1>1. "prompt" \in AskSteps \ {"new", "question"}
  BY DEF AskSteps
<1>2. /\ ask' = [ask EXCEPT ![q].pc = "prompt"] /\ UNCHANGED <<chatKind, created, removing, chatsRemoved>>
      /\ AddMessage(ask[q].chat, Say(q, "user")) /\ ask[q].pc = "question"
  BY DEF Question
<1> QED
  BY <1>1, <1>2, Speaks

LEMMA AnswerAskStep == ASSUME ChatInv, NEW q \in Asks, Answer(q) PROVE ChatInv'
<1>1. {"failed", "answered"} \subseteq AskSteps \ {"new", "question"}
  BY DEF AskSteps
<1>2. /\ UNCHANGED <<chatKind, created, removing, chatsRemoved>> /\ ask[q].pc = "provider"
      /\ \/ ask' = [ask EXCEPT ![q].pc = "failed"] /\ UNCHANGED chats
         \/ ask' = [ask EXCEPT ![q].pc = "answered"] /\ AddMessage(ask[q].chat, Say(q, "assistant"))
  BY DEF Answer
<1>3. CASE ask' = [ask EXCEPT ![q].pc = "failed"] /\ UNCHANGED chats
  BY <1>1, <1>2, <1>3, Speaks
<1>4. CASE ask' = [ask EXCEPT ![q].pc = "answered"] /\ AddMessage(ask[q].chat, Say(q, "assistant"))
  BY <1>1, <1>2, <1>4, Speaks
<1> QED
  BY <1>2, <1>3, <1>4

\* The messages before the question are from the conversation, and leave room
\* for it.
LEMMA HistoryFits ==
    ASSUME NEW msgs \in Seq(Messages)
    PROVE  /\ History(msgs) \in Seq(Messages) /\ Len(History(msgs)) < Window
           /\ \A i \in DOMAIN History(msgs) : \E j \in DOMAIN msgs : History(msgs)[i] = msgs[j]
<1> DEFINE n == Len(msgs)
<1> DEFINE from == IF n > Window THEN n - Window + 1 ELSE 1
<1>1. n \in Nat /\ DOMAIN msgs = 1 .. n /\ Window \in Nat \ {0} /\ \A j \in 1 .. n : msgs[j] \in Messages
  BY MessageFields, ChatAssumption
<1>2. CASE n > 1
  <2> DEFINE h == SubSeq(msgs, from, n - 1)
  <2>1. from \in 1 .. n /\ from \in Int /\ n - 1 \in Int
    BY <1>1, <1>2
  <2>2. \A i \in from .. n - 1 : msgs[i] \in Messages
    BY <1>1, <2>1
  <2> HIDE DEF n
  <2>3. /\ h \in Seq(Messages)
        /\ Len(h) = IF from <= n - 1 THEN n - 1 - from + 1 ELSE 0
        /\ \A i \in 1 .. n - 1 - from + 1 : h[i] = msgs[from + i - 1]
    <3> HIDE DEF from
    <3> QED
      BY <2>1, <2>2, SubSeqProperties
  <2>4. Len(h) < Window /\ Len(h) \in Nat
    BY <1>1, <1>2, <2>1, <2>3
  <2>5. DOMAIN h = 1 .. Len(h)
    BY <2>3, LenProperties
  <2>6. ASSUME NEW i \in DOMAIN h PROVE \E j \in DOMAIN msgs : h[i] = msgs[j]
    <3>1. i \in 1 .. n - 1 - from + 1 /\ from + i - 1 \in 1 .. n
      BY <1>1, <1>2, <2>1, <2>3, <2>5
    <3> QED
      BY <1>1, <2>3, <3>1
  <2>7. History(msgs) = h
    BY <1>2 DEF History, n
  <2> QED
    BY <2>3, <2>4, <2>6, <2>7
<1>3. CASE ~(n > 1)
  <2>1. History(msgs) = <<>>
    BY <1>3 DEF History
  <2> QED
    BY <1>1, <2>1, NoMessages
<1> QED
  BY <1>2, <1>3

LEMMA PromptStep == ASSUME ChatInv, NEW q \in Asks, buildUserPrompt(q) PROVE ChatInv'
<1>1. PICK read \in BOOLEAN :
         ask' = [ask EXCEPT ![q].pc = "provider",
                   ![q].prompt = Append(IF read /\ Found(ask[q].chat) THEN History(chats[ask[q].chat].msgs) ELSE <<>>,
                                        Say(q, "user"))]
  BY DEF buildUserPrompt
<1>2. ChatTypeOK /\ ask[q].pc = "prompt" /\ UNCHANGED <<chatKind, chats, created, removing, chatsRemoved>>
  BY DEF buildUserPrompt, ChatInv
<1> DEFINE c == ask[q].chat
<1> DEFINE old == IF read /\ Found(c) THEN History(chats[c].msgs) ELSE <<>>
<1> DEFINE m == Say(q, "user")
<1>3. m \in Messages /\ m.ask = q
  BY DEF Say, Messages
<1>4. /\ old \in Seq(Messages) /\ Len(old) < Window
      /\ \A i \in DOMAIN old : ask[old[i].ask].pc # "new" /\ ask[old[i].ask].chat = c /\ old[i].ask \in Asks
  <2>1. CASE read /\ Found(c)
    <3>1. chats[c].msgs \in Seq(Messages) /\ Told(c)
      BY <1>2, <2>1 DEF ChatInv, ChatTypeOK, Chats, Found
    <3>2. \A j \in DOMAIN chats[c].msgs : LET x == chats[c].msgs[j] IN ask[x.ask].pc # "new" /\ ask[x.ask].chat = c /\ x.ask \in Asks
      BY <3>1, MessageFields DEF Told
    <3>3. old = History(chats[c].msgs)
      BY <2>1
    <3> HIDE DEF old
    <3> QED
      BY <3>1, <3>2, <3>3, HistoryFits
  <2>2. CASE ~(read /\ Found(c))
    <3>1. old = <<>>
      BY <2>2
    <3> HIDE DEF old
    <3> QED
      BY <3>1, NoMessages, ChatAssumption
  <2> QED
    BY <2>1, <2>2
<1> HIDE DEF m, old
<1> DEFINE new == Append(old, m)
<1>5. /\ new \in Seq(Messages) /\ Len(old) \in Nat /\ Len(new) = Len(old) + 1 /\ DOMAIN new = 1 .. Len(old) + 1 /\ DOMAIN old = 1 .. Len(old)
      /\ new[Len(old) + 1] = m /\ \A i \in 1 .. Len(old) : new[i] = old[i]
  BY <1>3, <1>4, AppendProperties, LenProperties
<1> DEFINE a == [ask[q] EXCEPT !.pc = "provider", !.prompt = new]
<1>6. ask' = [ask EXCEPT ![q] = a]
  BY <1>1 DEF old, m
<1> HIDE DEF new
<1>7. ask[q] \in Progress /\ a \in Progress /\ a.pc = "provider" /\ a.owner = ask[q].owner /\ a.chat = c /\ a.prompt = new
  BY <1>2, <1>5 DEF ChatTypeOK, Progress, AskSteps
<1> HIDE DEF a
<1>8. ask' \in [Asks -> Progress] /\ ask'[q] = a /\ \A p \in Asks \ {q} : ask'[p] = ask[p]
  BY <1>2, <1>6, <1>7 DEF ChatTypeOK
<1>9. \A p \in Asks : ask'[p].chat = ask[p].chat /\ ask'[p].owner = ask[p].owner /\ (ask[p].pc # "new" => ask'[p].pc # "new")
  BY <1>7, <1>8
<1>10. ChatTypeOK'
  BY <1>2, <1>8 DEF ChatTypeOK
<1>11. AskKept(q)'
  <2>1. AskAllowed(q)'
    BY <1>2, <1>7, <1>8 DEF ChatInv, AskKept, AskAllowed, Found
  <2>2. AskPrompt(q)'
    <3>1. Last(new) = m /\ Len(new) <= Window
      BY <1>4, <1>5, ChatAssumption DEF Last
    <3> QED
      BY <1>7, <1>8, <3>1 DEF AskPrompt, m, Say
  <2>3. AskSources(q)'
    <3>1. ASSUME NEW i \in DOMAIN new PROVE ask[new[i].ask].pc # "new" /\ ask[new[i].ask].chat = c /\ new[i].ask \in Asks
      <4>1. CASE i \in DOMAIN old
        BY <1>4, <1>5, <4>1
      <4>2. CASE i = Len(old) + 1
        BY <1>2, <1>3, <1>5, <4>2
      <4> QED
        BY <1>5, <4>1, <4>2
    <3>2. \A i \in DOMAIN new : ask'[new[i].ask].pc # "new" /\ ask'[new[i].ask].chat = c
      BY <1>9, <3>1
    <3> QED
      BY <1>7, <1>8, <3>2 DEF AskSources
  <2> QED
    BY <2>1, <2>2, <2>3 DEF AskKept
<1>12. ASSUME NEW p \in Asks \ {q} PROVE AskKept(p)'
  <2>1. AskKept(p) /\ ask'[p] = ask[p] /\ ask[p].prompt \in Seq(Messages)
    BY <1>2, <1>8 DEF ChatInv, ChatTypeOK, Progress
  <2>2. AskSources(p)'
    <3>1. ASSUME NEW i \in DOMAIN ask[p].prompt
          PROVE  ask'[ask[p].prompt[i].ask].pc # "new" /\ ask'[ask[p].prompt[i].ask].chat = ask[p].chat
      <4> DEFINE e == ask[p].prompt[i].ask
      <4>1. e \in Asks /\ ask[e].pc # "new" /\ ask[e].chat = ask[p].chat
        BY <2>1, MessageFields DEF AskKept, AskSources
      <4> HIDE DEF e
      <4>2. ask'[e].pc # "new" /\ ask'[e].chat = ask[p].chat
        BY <1>9, <4>1
      <4> QED
        BY <4>2 DEF e
    <3> QED
      BY <2>1, <3>1 DEF AskSources
  <2>3. AskAllowed(p)' /\ AskPrompt(p)'
    BY <1>2, <2>1 DEF AskKept, AskAllowed, AskPrompt, Found, Say
  <2> QED
    BY <2>2, <2>3 DEF AskKept
<1>13. ASSUME NEW x \in DOMAIN chats' PROVE Told(x)'
  <2> DEFINE msgs == chats[x].msgs
  <2>1. chats'[x] = chats[x] /\ Told(x) /\ msgs \in Seq(Messages)
    BY <1>2 DEF ChatInv, ChatTypeOK, Chats
  <2>2. ASSUME NEW i \in DOMAIN msgs
        PROVE  ask'[msgs[i].ask].chat = ask[msgs[i].ask].chat /\ (msgs[i].ask # q => ask'[msgs[i].ask] = ask[msgs[i].ask])
    BY <1>8, <1>9, <2>1, MessageFields
  <2>3. \A i \in DOMAIN msgs :
          /\ ask'[msgs[i].ask].chat = x /\ ask'[msgs[i].ask].pc \notin {"new", "question"}
          /\ msgs[i].role = "assistant" => ask'[msgs[i].ask].pc = "answered"
    BY <1>2, <1>7, <1>8, <2>1, <2>2 DEF Told
  <2> QED
    BY <2>1, <2>3 DEF Told
<1>14. (chatsRemoved \cap DOMAIN chats = {})'
  BY <1>2 DEF ChatInv
<1> QED
  BY <1>10, <1>11, <1>12, <1>13, <1>14 DEF ChatInv

\* What is known of questions and conversations does not depend on deletions.
LEMMA ChatKept ==
    ASSUME ChatInv, UNCHANGED <<chatKind, chats, created, ask, chatsRemoved>>, removing' \subseteq ChatIDs
    PROVE  ChatInv'
<1>1. ChatTypeOK'
  BY DEF ChatInv, ChatTypeOK
<1>2. ASSUME NEW q \in Asks PROVE AskKept(q)'
  <2>1. AskAllowed(q)'
    BY DEF ChatInv, AskKept, AskAllowed, Found
  <2>2. AskPrompt(q)'
    BY DEF ChatInv, AskKept, AskPrompt, Say
  <2>3. AskSources(q)'
    BY DEF ChatInv, AskKept, AskSources
  <2> QED
    BY <2>1, <2>2, <2>3 DEF AskKept
<1>3. ASSUME NEW id \in DOMAIN chats' PROVE Told(id)'
  <2>1. Told(id)
    BY DEF ChatInv
  <2> QED
    BY <2>1 DEF Told
<1>4. (chatsRemoved \cap DOMAIN chats = {})'
  BY DEF ChatInv
<1> QED
  BY <1>1, <1>2, <1>3, <1>4 DEF ChatInv

LEMMA DeleteBeginsStep ==
    ASSUME ChatInv, NEW id \in ChatIDs, NEW owner \in ChatOwners, handleDelete(id, owner) PROVE ChatInv'
<1>1. UNCHANGED <<chatKind, chats, created, ask, chatsRemoved>> /\ removing' \subseteq ChatIDs
  BY DEF handleDelete, ChatInv, ChatTypeOK
<1> QED
  BY <1>1, ChatKept

LEMMA DeleteChatStep == ASSUME ChatInv, NEW id \in ChatIDs, DeleteConversation(id) PROVE ChatInv'
<1> DEFINE without == [x \in DOMAIN chats \ {id} |-> chats[x]]
<1>1. ChatTypeOK /\ removing' \subseteq ChatIDs /\ UNCHANGED <<chatKind, created, ask>>
  BY DEF DeleteConversation, ChatInv, ChatTypeOK
<1>2. \/ chats' \in {chats, without} /\ UNCHANGED chatsRemoved
      \/ Found(id) /\ chats' = without /\ chatsRemoved' = chatsRemoved \cup {id}
  BY DEF DeleteConversation
<1>3. /\ DOMAIN chats' \subseteq DOMAIN chats /\ chats' \in [DOMAIN chats' -> Chats] /\ \A x \in DOMAIN chats' : chats'[x] = chats[x]
      /\ chatsRemoved' \subseteq created /\ chatsRemoved' \cap DOMAIN chats' = {}
  BY <1>1, <1>2 DEF ChatInv, ChatTypeOK, Found
<1>4. ChatTypeOK'
  BY <1>1, <1>3 DEF ChatTypeOK
<1>5. ASSUME NEW q \in Asks PROVE AskKept(q)'
  <2>1. AskAllowed(q)'
    BY <1>1, <1>3 DEF ChatInv, AskKept, AskAllowed, Found
  <2> QED
    BY <1>1, <2>1 DEF ChatInv, AskKept, AskPrompt, AskSources, Say
<1>6. ASSUME NEW x \in DOMAIN chats' PROVE Told(x)'
  <2>1. chats'[x] = chats[x] /\ ask' = ask /\ Told(x)
    BY <1>1, <1>3 DEF ChatInv
  <2> QED
    BY <2>1 DEF Told
<1> QED
  BY <1>3, <1>4, <1>5, <1>6 DEF ChatInv

LEMMA ChatStep == ChatInv /\ [ChatNext]_chatVars => ChatInv'
<1> SUFFICES ASSUME ChatInv, [ChatNext]_chatVars PROVE ChatInv'
  OBVIOUS
<1>1. CASE UNCHANGED chatVars
  BY <1>1, ChatKept DEF chatVars, ChatInv, ChatTypeOK
<1> QED
  BY <1>1, ConversationsStep, AskStep, DeleteBeginsStep, DeleteChatStep, QuestionStep, PromptStep, AnswerAskStep DEF ChatNext

\* A conversation and the prompts built from it hold what its owner asked and was
\* answered; an answer comes after its question; and an answer that arrives after
\* the deletion does not bring the conversation back (ai_chat.go handleAsk).
THEOREM ChatsTheorem == ChatSpec => []ChatsSound
<1>1. ChatInv => ChatsSound
  <2> SUFFICES ASSUME ChatInv PROVE ChatsSound
    OBVIOUS
  <2>1. ASSUME NEW id \in DOMAIN chats, NEW i \in DOMAIN chats[id].msgs
        PROVE  LET m == chats[id].msgs[i] IN
               /\ "" \in {chats[id].owner, ask[m.ask].owner} \/ chats[id].owner = ask[m.ask].owner
               /\ ask[m.ask].chat = id
    <3> DEFINE e == chats[id].msgs[i].ask
    <3>1. chats[id].msgs \in Seq(Messages) /\ Told(id)
      BY DEF ChatInv, ChatTypeOK, Chats
    <3>2. e \in Asks /\ ask[e].chat = id /\ ask[e].pc # "new"
      BY <3>1, MessageFields DEF Told
    <3> HIDE DEF e
    <3>3. "" \in {chats[id].owner, ask[e].owner} \/ chats[id].owner = ask[e].owner
      BY <3>2 DEF ChatInv, AskKept, AskAllowed, Found
    <3> QED
      BY <3>2, <3>3 DEF e
  <2>2. ASSUME NEW id \in DOMAIN chats
        PROVE  LET msgs == chats[id].msgs IN
               \A i, j \in DOMAIN msgs : (msgs[i].ask = msgs[j].ask /\ msgs[i].role = "user" /\ msgs[j].role = "assistant") => i < j
    BY DEF ChatInv, Told
  <2>3. ASSUME NEW q \in Asks
        PROVE  /\ ask[q].prompt # <<>> => Last(ask[q].prompt) = Say(q, "user") /\ Len(ask[q].prompt) <= Window
               /\ \A m \in ToSet(ask[q].prompt) : ask[m.ask].chat = ask[q].chat
    BY DEF ChatInv, AskKept, AskPrompt, AskSources, ToSet
  <2>4. chatsRemoved \cap DOMAIN chats = {}
    BY DEF ChatInv
  <2> QED
    BY <2>1, <2>2, <2>3, <2>4 DEF ChatsSound
<1> QED
  BY <1>1, ChatInitInv, ChatStep, PTL DEF ChatSpec

-----------------------------------------------------------------------------
(***************************************************************************)
(* Logs.  Each request that has yet to count its entry leaves room in the  *)
(* count of its family, and a document that was read and is going to be    *)
(* written back leaves that room too; each request whose entry was counted *)
(* and is not stored yet is counted already.                               *)
(***************************************************************************)
FamilyDocs == [count : Nat \ {0}, cat : {"unknown", "inferred", "ai", "chosen"}, status : {"active", "muted"}]
Ingests    == [op : {"insert", "update", "entry"}, f : Prints, cat : Inferred, read : FamilyDocs \cup {NoFamily}]
Patches    == [op : {"patch"}, f : Prints, read : FamilyDocs]
Labels     == [op : {"label"}, todo : SUBSET Prints, read : [Prints -> FamilyDocs \cup {NoFamily}]]
LogDoing   == Ingests \cup Patches \cup Labels \cup {NoLogCall}

Known(f)     == families[f] # NoFamily
Uncounted(f) == {c \in LogCalls : logCall[c].op \in {"insert", "update"} /\ logCall[c].f = f}
Counted(f)   == {c \in LogCalls : logCall[c].op = "entry" /\ logCall[c].f = f}

\* The family read leaves room for the requests that have yet to count.
Room(f, read) == read.count + Cardinality(Uncounted(f)) <= sent[f]

LogsTypeOK ==
    /\ families \in [Prints -> FamilyDocs \cup {NoFamily}]
    /\ logCall \in [LogCalls -> LogDoing]
    /\ stored \in [Prints -> Nat] /\ sent \in [Prints -> Nat] /\ acked \in [Prints -> Nat]
    /\ word \in [Prints -> {"active", "muted"}]

FamilyKept(f) ==
    /\ Room(f, families[f])
    /\ f \notin overwritten =>
          /\ acked[f] + Cardinality(Counted(f)) <= families[f].count
          /\ Known(f) => families[f].status = word[f]
    /\ ~Known(f) => word[f] = "active"
    /\ stored[f] > 0 => Known(f)

LogCallKept(c) ==
    LET l == logCall[c] IN
    /\ l.op \in {"update", "entry", "patch"} => Known(l.f)
    /\ l.op = "patch" => Room(l.f, l.read)
    /\ l.op = "label" => \A f \in Prints : Room(f, l.read[f]) /\ (f \in l.todo => Known(f) /\ l.read[f] # NoFamily)

LogsInv == LogsTypeOK /\ (\A f \in Prints : FamilyKept(f)) /\ \A c \in LogCalls : LogCallKept(c)

LEMMA LogShapes ==
    /\ NoLogCall.op = "idle" /\ NoFamily.count = 0 /\ NoFamily \notin FamilyDocs
    /\ \A d \in FamilyDocs : d.count \in Nat \ {0} /\ d.cat \in {"unknown", "inferred", "ai", "chosen"} /\ d.status \in {"active", "muted"}
    /\ \A l \in Ingests : l.op \in {"insert", "update", "entry"} /\ l.f \in Prints /\ l.cat \in Inferred /\ l.read \in FamilyDocs \cup {NoFamily}
    /\ \A l \in Patches : l.op = "patch" /\ l.f \in Prints /\ l.read \in FamilyDocs
    /\ \A l \in Labels : l.op = "label" /\ l.todo \subseteq Prints /\ l.read \in [Prints -> FamilyDocs \cup {NoFamily}]
<1>1. NoFamily \notin FamilyDocs
  <2>1. \A d \in FamilyDocs : d.count # 0
    BY DEF FamilyDocs
  <2> QED
    BY <2>1 DEF NoFamily
<1> QED
  BY <1>1 DEF NoLogCall, NoFamily, FamilyDocs, Ingests, Patches, Labels

LEMMA LogCounting ==
    ASSUME NEW f PROVE /\ IsFiniteSet(Uncounted(f)) /\ IsFiniteSet(Counted(f))
                       /\ Cardinality(Uncounted(f)) \in Nat /\ Cardinality(Counted(f)) \in Nat
<1>1. IsFiniteSet(Uncounted(f)) /\ IsFiniteSet(Counted(f))
  BY LogsAssumption, FS_Subset DEF Uncounted, Counted
<1> QED
  BY <1>1, FS_CardinalityType

One(b) == IF b THEN 1 ELSE 0

\* Adding to a finite set or removing from it what one request decides.
LEMMA OneMore ==
    ASSUME NEW S, IsFiniteSet(S), NEW c, NEW goes \in BOOLEAN, NEW T, T = IF goes THEN S \cup {c} ELSE S \ {c}
    PROVE  Cardinality(T) \in Nat /\ Cardinality(S) \in Nat /\ Cardinality(T) + One(c \in S) = Cardinality(S) + One(goes)
<1>0. Cardinality(S) \in Nat
  BY FS_CardinalityType
<1>1. CASE goes /\ c \in S
  <2>1. T = S
    BY <1>1
  <2> QED
    BY <1>0, <1>1, <2>1 DEF One
<1>2. CASE goes /\ c \notin S
  <2>1. Cardinality(T) = Cardinality(S) + 1
    BY <1>2, FS_AddElement
  <2> QED
    BY <1>0, <1>2, <2>1 DEF One
<1>3. CASE ~goes /\ c \in S
  <2>1. IsFiniteSet(T) /\ Cardinality(T) = Cardinality(S) - 1
    BY <1>3, FS_RemoveElement
  <2>2. Cardinality(T) \in Nat
    BY <2>1, FS_CardinalityType
  <2> QED
    BY <1>0, <1>3, <2>1, <2>2 DEF One
<1>4. CASE ~goes /\ c \notin S
  <2>1. T = S
    BY <1>4
  <2> QED
    BY <1>0, <1>4, <2>1 DEF One
<1> QED
  BY <1>1, <1>2, <1>3, <1>4

\* How a step of the request c changes the counts.
LEMMA LogCallMoves ==
    ASSUME LogsTypeOK, NEW c \in LogCalls, NEW l \in LogDoing, LogStep(c, l), NEW f \in Prints
    PROVE  /\ logCall' \in [LogCalls -> LogDoing] /\ logCall'[c] = l /\ \A e \in LogCalls \ {c} : logCall'[e] = logCall[e]
           /\ Cardinality(Uncounted(f)') \in Nat /\ Cardinality(Counted(f)') \in Nat
           /\ Cardinality(Uncounted(f)') + One(logCall[c].op \in {"insert", "update"} /\ logCall[c].f = f)
                = Cardinality(Uncounted(f)) + One(l.op \in {"insert", "update"} /\ l.f = f)
           /\ Cardinality(Counted(f)') + One(logCall[c].op = "entry" /\ logCall[c].f = f)
                = Cardinality(Counted(f)) + One(l.op = "entry" /\ l.f = f)
<1>1. logCall' \in [LogCalls -> LogDoing] /\ logCall'[c] = l /\ \A e \in LogCalls \ {c} : logCall'[e] = logCall[e]
  BY DEF LogsTypeOK, LogStep
<1> DEFINE un == l.op \in {"insert", "update"} /\ l.f = f
<1> DEFINE co == l.op = "entry" /\ l.f = f
<1>2. Uncounted(f)' = IF un THEN Uncounted(f) \cup {c} ELSE Uncounted(f) \ {c}
  BY <1>1 DEF Uncounted
<1>3. Counted(f)' = IF co THEN Counted(f) \cup {c} ELSE Counted(f) \ {c}
  BY <1>1 DEF Counted
<1>4. (c \in Uncounted(f)) = (logCall[c].op \in {"insert", "update"} /\ logCall[c].f = f)
  BY DEF Uncounted
<1>5. (c \in Counted(f)) = (logCall[c].op = "entry" /\ logCall[c].f = f)
  BY DEF Counted
<1>6. un \in BOOLEAN /\ co \in BOOLEAN
  OBVIOUS
<1> HIDE DEF un, co
<1>7. /\ Cardinality(Uncounted(f)') \in Nat
      /\ Cardinality(Uncounted(f)') + One(c \in Uncounted(f)) = Cardinality(Uncounted(f)) + One(un)
  BY <1>2, <1>6, LogCounting, OneMore
<1>8. /\ Cardinality(Counted(f)') \in Nat
      /\ Cardinality(Counted(f)') + One(c \in Counted(f)) = Cardinality(Counted(f)) + One(co)
  BY <1>3, <1>6, LogCounting, OneMore
<1> QED
  BY <1>1, <1>4, <1>5, <1>7, <1>8 DEF un, co

\* What the other requests hold stays good: families stay, and no step makes the
\* room smaller.
LEMMA OtherRequests ==
    ASSUME LogsInv, NEW e \in LogCalls, logCall'[e] = logCall[e],
           \A f \in Prints : Known(f) => Known(f)',
           \A f \in Prints : sent[f] + Cardinality(Uncounted(f)') <= sent'[f] + Cardinality(Uncounted(f)),
           \A f \in Prints : Cardinality(Uncounted(f)') \in Nat, sent' \in [Prints -> Nat]
    PROVE  LogCallKept(e)'
<1> DEFINE l == logCall[e]
<1>1. ASSUME NEW f \in Prints, NEW n \in Nat, n + Cardinality(Uncounted(f)) <= sent[f]
      PROVE  n + Cardinality(Uncounted(f)') <= sent'[f]
  <2>1. sent[f] \in Nat /\ sent'[f] \in Nat /\ Cardinality(Uncounted(f)) \in Nat /\ Cardinality(Uncounted(f)') \in Nat
    BY LogCounting DEF LogsInv, LogsTypeOK
  <2> QED
    BY <1>1, <2>1
<1>2. LogCallKept(e) /\ l \in LogDoing
  BY DEF LogsInv, LogsTypeOK
<1>3. l.op \in {"update", "entry", "patch"} => l.f \in Prints
  BY <1>2, LogShapes DEF LogDoing
<1>4. l.op = "patch" => l.read.count \in Nat
  BY <1>2, LogShapes DEF LogDoing
<1>5. ASSUME l.op = "label", NEW f \in Prints PROVE l.read[f].count \in Nat
  <2>1. l.read \in [Prints -> FamilyDocs \cup {NoFamily}]
    BY <1>2, <1>5, LogShapes DEF LogDoing
  <2> QED
    BY <2>1, LogShapes
<1>6. l.op = "patch" => l.read.count + Cardinality(Uncounted(l.f)') <= sent'[l.f]
  BY <1>1, <1>2, <1>3, <1>4 DEF LogCallKept, Room
<1>7. l.op = "label" => \A f \in Prints : l.read[f].count + Cardinality(Uncounted(f)') <= sent'[f]
  BY <1>1, <1>2, <1>5 DEF LogCallKept, Room
<1> QED
  BY <1>2, <1>3, <1>6, <1>7 DEF LogCallKept, Room

LEMMA LogsInitInv == LogsInit => LogsInv
<1> SUFFICES ASSUME LogsInit PROVE LogsInv
  OBVIOUS
<1>1. LogsTypeOK
  BY DEF LogsInit, LogsTypeOK, LogDoing
<1>2. ASSUME NEW f \in Prints PROVE FamilyKept(f)
  <2>1. Uncounted(f) = {} /\ Counted(f) = {}
    BY LogShapes DEF LogsInit, Uncounted, Counted
  <2>2. Cardinality(Uncounted(f)) = 0 /\ Cardinality(Counted(f)) = 0
    BY <2>1, FS_EmptySet
  <2> QED
    BY <2>2, LogShapes DEF LogsInit, FamilyKept, Room, Known
<1>3. \A c \in LogCalls : LogCallKept(c)
  BY LogShapes DEF LogsInit, LogCallKept
<1> QED
  BY <1>1, <1>2, <1>3 DEF LogsInv

\* What every step may use of the state before it.
LEMMA LogFacts ==
    ASSUME LogsInv, NEW f \in Prints
    PROVE  /\ sent[f] \in Nat /\ acked[f] \in Nat /\ stored[f] \in Nat /\ families[f].count \in Nat
           /\ Cardinality(Uncounted(f)) \in Nat /\ Cardinality(Counted(f)) \in Nat
           /\ families[f] \in FamilyDocs \cup {NoFamily} /\ (Known(f) => families[f] \in FamilyDocs)
           /\ (~Known(f) => families[f].count = 0) /\ FamilyKept(f)
BY LogCounting, LogShapes DEF LogsInv, LogsTypeOK, Known

LEMMA handleIngestStep ==
    ASSUME LogsInv, NEW c \in LogCalls, NEW f \in Prints, NEW cat \in Inferred, handleIngest(c, f, cat)
    PROVE  LogsInv'
<1> DEFINE l == [op |-> IF families[f] = NoFamily THEN "insert" ELSE "update", f |-> f, cat |-> cat, read |-> families[f]]
<1>1. /\ LogStep(c, l) /\ sent' = [sent EXCEPT ![f] = @ + 1] /\ logCall[c] = NoLogCall
      /\ UNCHANGED <<families, stored, catBusy, writes, acked, word, overwritten>> /\ LogsTypeOK
  BY DEF handleIngest, Free, LogsInv
<1>2. l \in LogDoing /\ l.op \in {"insert", "update"} /\ l.f = f /\ (l.op = "update" => Known(f))
  BY LogFacts DEF LogDoing, Ingests, Known
<1> HIDE DEF l
<1>3. ASSUME NEW g \in Prints
      PROVE  /\ Cardinality(Uncounted(g)') = Cardinality(Uncounted(g)) + (IF g = f THEN 1 ELSE 0)
             /\ Cardinality(Counted(g)') = Cardinality(Counted(g))
  <2>1. ~(logCall[c].op \in {"insert", "update"} /\ logCall[c].f = g) /\ ~(logCall[c].op = "entry" /\ logCall[c].f = g)
    BY <1>1, LogShapes
  <2>2. (l.op \in {"insert", "update"} /\ l.f = g) = (g = f) /\ ~(l.op = "entry" /\ l.f = g)
    BY <1>2
  <2> QED
    BY <1>1, <1>2, <2>1, <2>2, LogCallMoves, LogCounting DEF One
<1>4. /\ logCall' \in [LogCalls -> LogDoing] /\ logCall'[c] = l /\ \A e \in LogCalls \ {c} : logCall'[e] = logCall[e]
  BY <1>1, <1>2, LogCallMoves
<1>5. sent' \in [Prints -> Nat] /\ \A g \in Prints : sent'[g] = sent[g] + (IF g = f THEN 1 ELSE 0)
  BY <1>1 DEF LogsTypeOK
<1>6. LogsTypeOK'
  BY <1>1, <1>4, <1>5 DEF LogsTypeOK
<1>7. ASSUME NEW g \in Prints PROVE FamilyKept(g)'
  <2>1. Room(g, families[g])'
    BY <1>1, <1>3, <1>5, LogFacts DEF FamilyKept, Room
  <2> QED
    BY <1>1, <1>3, <2>1, LogFacts DEF FamilyKept, Known
<1>8. LogCallKept(c)'
  BY <1>1, <1>2, <1>4 DEF LogCallKept, Known
<1>9. ASSUME NEW e \in LogCalls \ {c} PROVE LogCallKept(e)'
  <2>1. \A g \in Prints : Cardinality(Uncounted(g)') \in Nat
    BY <1>3, LogCounting
  <2>2. ASSUME NEW g \in Prints PROVE sent[g] + Cardinality(Uncounted(g)') <= sent'[g] + Cardinality(Uncounted(g))
    BY <1>3, <1>5, LogFacts
  <2>3. \A g \in Prints : Known(g) => Known(g)'
    BY <1>1 DEF Known
  <2> QED
    BY <1>4, <1>5, <2>1, <2>2, <2>3, OtherRequests
<1> QED
  BY <1>6, <1>7, <1>8, <1>9 DEF LogsInv

\* Storing an entry: the request c is at l, and goes on to m or ends.
LEMMA EntryMoves ==
    ASSUME LogsInv, NEW c \in LogCalls, NEW m \in LogDoing, LogStep(c, m), sent' = sent,
           logCall[c].op \in {"insert", "update", "entry"},
           m = NoLogCall \/ (m.f = logCall[c].f /\ m.op \in {"update", "entry"} /\ (m.op = "update" => logCall[c].op = "insert")),
           \A f \in Prints : Known(f) => Known(f)'
    PROVE  /\ logCall[c] \in Ingests /\ logCall[c].f \in Prints
           /\ logCall' \in [LogCalls -> LogDoing] /\ logCall'[c] = m
           /\ \A f \in Prints :
                /\ Cardinality(Uncounted(f)') = Cardinality(Uncounted(f))
                     - (IF f = logCall[c].f /\ logCall[c].op # "entry" /\ m.op # "update" THEN 1 ELSE 0)
                /\ Cardinality(Counted(f)') = Cardinality(Counted(f))
                     - (IF f = logCall[c].f /\ logCall[c].op = "entry" THEN 1 ELSE 0)
                     + (IF f = logCall[c].f /\ m.op = "entry" THEN 1 ELSE 0)
                /\ Cardinality(Uncounted(f)') \in Nat /\ Cardinality(Counted(f)') \in Nat
           /\ \A e \in LogCalls \ {c} : LogCallKept(e)'
<1>1. LogsTypeOK /\ logCall[c] \in Ingests /\ logCall[c].f \in Prints
  BY LogShapes DEF LogsInv, LogsTypeOK, LogDoing
<1>2. logCall' \in [LogCalls -> LogDoing] /\ logCall'[c] = m /\ \A e \in LogCalls \ {c} : logCall'[e] = logCall[e]
  <2>1. PICK f \in Prints : TRUE
    BY <1>1
  <2> QED
    BY <1>1, <2>1, LogCallMoves
<1>3. ASSUME NEW f \in Prints
      PROVE  /\ Cardinality(Uncounted(f)') = Cardinality(Uncounted(f))
                  - (IF f = logCall[c].f /\ logCall[c].op # "entry" /\ m.op # "update" THEN 1 ELSE 0)
             /\ Cardinality(Counted(f)') = Cardinality(Counted(f))
                  - (IF f = logCall[c].f /\ logCall[c].op = "entry" THEN 1 ELSE 0)
                  + (IF f = logCall[c].f /\ m.op = "entry" THEN 1 ELSE 0)
             /\ Cardinality(Uncounted(f)') \in Nat /\ Cardinality(Counted(f)') \in Nat
  <2> DEFINE lu == logCall[c].op \in {"insert", "update"} /\ logCall[c].f = f
  <2> DEFINE lc == logCall[c].op = "entry" /\ logCall[c].f = f
  <2> DEFINE mu == m.op \in {"insert", "update"} /\ m.f = f
  <2> DEFINE mc == m.op = "entry" /\ m.f = f
  <2>1. /\ Cardinality(Uncounted(f)') \in Nat /\ Cardinality(Counted(f)') \in Nat
        /\ Cardinality(Uncounted(f)') + One(lu) = Cardinality(Uncounted(f)) + One(mu)
        /\ Cardinality(Counted(f)') + One(lc) = Cardinality(Counted(f)) + One(mc)
    BY <1>1, LogCallMoves
  <2>2. Cardinality(Uncounted(f)) \in Nat /\ Cardinality(Counted(f)) \in Nat
    BY LogCounting
  <2>3. /\ lu <=> (f = logCall[c].f /\ logCall[c].op # "entry")
        /\ lc <=> (f = logCall[c].f /\ logCall[c].op = "entry")
        /\ mu <=> (f = logCall[c].f /\ m.op = "update")
        /\ mc <=> (f = logCall[c].f /\ m.op = "entry")
    BY LogShapes
  <2>4. mu => lu
    BY LogShapes
  <2> HIDE DEF lu, lc, mu, mc
  <2>5. One(lu) = (IF lu THEN 1 ELSE 0) /\ One(mu) = (IF mu THEN 1 ELSE 0)
    BY DEF One
  <2>6. One(lc) = (IF lc THEN 1 ELSE 0) /\ One(mc) = (IF mc THEN 1 ELSE 0)
    BY DEF One
  <2>7. Cardinality(Uncounted(f)') = Cardinality(Uncounted(f)) - (IF lu /\ ~mu THEN 1 ELSE 0)
    BY <2>1, <2>2, <2>4, <2>5
  <2>8. Cardinality(Counted(f)') = Cardinality(Counted(f)) - (IF lc THEN 1 ELSE 0) + (IF mc THEN 1 ELSE 0)
    BY <2>1, <2>2, <2>6
  <2> QED
    BY <2>1, <2>3, <2>7, <2>8
<1>4. ASSUME NEW e \in LogCalls \ {c} PROVE LogCallKept(e)'
  <2>1. \A f \in Prints : Cardinality(Uncounted(f)') \in Nat
    BY <1>3
  <2>2. ASSUME NEW f \in Prints PROVE sent[f] + Cardinality(Uncounted(f)') <= sent'[f] + Cardinality(Uncounted(f))
    <3>1. Cardinality(Uncounted(f)') <= Cardinality(Uncounted(f))
      BY <1>3, LogCounting
    <3> QED
      BY <1>3, <3>1, LogFacts
  <2>3. sent' \in [Prints -> Nat]
    BY <1>1 DEF LogsTypeOK
  <2> QED
    BY <1>2, <2>1, <2>2, <2>3, OtherRequests
<1> QED
  BY <1>1, <1>2, <1>3, <1>4

LEMMA InsertFamilyStep == ASSUME LogsInv, NEW c \in LogCalls, InsertFamily(c) PROVE LogsInv'
<1> DEFINE l == logCall[c]
<1>1. l \in Ingests /\ l.f \in Prints /\ l.op = "insert" /\ LogsTypeOK /\ Family(l.cat) \in FamilyDocs
      /\ Family(l.cat).count = 1 /\ Family(l.cat).status = "active"
  BY LogShapes DEF InsertFamily, LogsInv, LogsTypeOK, LogDoing, Family, FamilyDocs, Inferred
<1>2. UNCHANGED <<stored, catBusy, writes, sent, acked, word, overwritten>>
  BY DEF InsertFamily
<1> DEFINE new == [families EXCEPT ![l.f] = IF @ = NoFamily THEN Family(l.cat) ELSE @]
<1>3. PICK m \in LogDoing :
          /\ LogStep(c, m)
          /\ m = NoLogCall \/ (m.f = l.f /\ m.op \in {"update", "entry"})
          /\ m.op \in {"idle", "update", "entry"} /\ (m.op # "idle" => m.f = l.f)
          /\ families' = new \/ families' = families
          /\ m.op = "entry" => families' = new /\ families[l.f] = NoFamily
          /\ m.op = "update" => families' = families /\ Known(l.f)
  <2>1. [l EXCEPT !.op = "entry"] \in Ingests /\ [l EXCEPT !.op = "entry"].op = "entry" /\ [l EXCEPT !.op = "entry"].f = l.f
    BY <1>1 DEF Ingests
  <2>2. /\ [l EXCEPT !.op = "update", !.read = families[l.f]] \in Ingests
        /\ [l EXCEPT !.op = "update", !.read = families[l.f]].op = "update"
        /\ [l EXCEPT !.op = "update", !.read = families[l.f]].f = l.f
    BY <1>1 DEF Ingests, LogsTypeOK
  <2>3. families[l.f] = NoFamily => new = [families EXCEPT ![l.f] = Family(l.cat)]
    BY <1>1
  <2> QED
    BY <2>1, <2>2, <2>3, LogShapes DEF InsertFamily, Quit, Known, LogDoing
<1>4. /\ new \in [Prints -> FamilyDocs \cup {NoFamily}]
      /\ \A f \in Prints : new[f] = IF f = l.f /\ ~Known(f) THEN Family(l.cat) ELSE families[f]
  BY <1>1 DEF LogsTypeOK, Known
<1> HIDE DEF new
<1>5. \A f \in Prints : Known(f) => Known(f)' /\ families'[f] = families[f]
  BY <1>3, <1>4 DEF Known
<1>6. /\ logCall' \in [LogCalls -> LogDoing] /\ logCall'[c] = m
      /\ \A f \in Prints :
                /\ Cardinality(Uncounted(f)') = Cardinality(Uncounted(f)) - (IF f = l.f /\ m.op # "update" THEN 1 ELSE 0)
                /\ Cardinality(Counted(f)') = Cardinality(Counted(f)) + (IF f = l.f /\ m.op = "entry" THEN 1 ELSE 0)
                /\ Cardinality(Uncounted(f)') \in Nat /\ Cardinality(Counted(f)') \in Nat
      /\ \A e \in LogCalls \ {c} : LogCallKept(e)'
  BY <1>1, <1>2, <1>3, <1>5, EntryMoves, LogCounting
<1>7. LogsTypeOK'
  BY <1>1, <1>2, <1>3, <1>4, <1>6 DEF LogsTypeOK
<1>8. ASSUME NEW f \in Prints PROVE FamilyKept(f)'
  <2>1. CASE families'[f] = families[f]
    <3>1. f = l.f => m.op # "entry"
      <4> SUFFICES ASSUME f = l.f, m.op = "entry" PROVE FALSE
        OBVIOUS
      <4>1. families'[f] = Family(l.cat) /\ families[f] = NoFamily
        BY <1>3, <1>4 DEF Known
      <4> QED
        BY <1>1, <2>1, <4>1, LogShapes
    <3>2. Known(f)' = Known(f)
      BY <2>1 DEF Known
    <3> QED
      BY <1>2, <1>6, <2>1, <3>1, <3>2, LogFacts DEF FamilyKept, Room
  <2>2. CASE families'[f] # families[f]
    <3>1. f = l.f /\ ~Known(f) /\ families'[f] = Family(l.cat) /\ Known(f)' /\ m.op # "update"
      BY <1>1, <1>3, <1>4, <2>2, LogShapes DEF Known
    <3>2. Cardinality(Uncounted(f)') = Cardinality(Uncounted(f)) - 1
      BY <1>6, <3>1
    <3>3. families'[f].count = 1 /\ families'[f].status = "active" /\ families[f].count = 0 /\ word[f] = "active"
      BY <1>1, <3>1, LogFacts DEF FamilyKept
    <3>4. Room(f, families[f])'
      BY <1>2, <3>2, <3>3, LogFacts DEF FamilyKept, Room
    <3>5. f \notin overwritten => acked[f] + Cardinality(Counted(f)') <= 1
      BY <1>6, <3>3, LogFacts DEF FamilyKept
    <3> QED
      BY <1>2, <3>1, <3>3, <3>4, <3>5 DEF FamilyKept
  <2> QED
    BY <2>1, <2>2
<1>9. LogCallKept(c)'
  <2>1. m.op \in {"update", "entry"} => m.f = l.f /\ families'[l.f] # NoFamily
    <3>1. CASE m.op = "entry"
      <4>1. families'[l.f] = Family(l.cat)
        BY <1>1, <1>3, <1>4, <3>1 DEF Known
      <4>2. Family(l.cat) # NoFamily
        BY <1>1, LogShapes
      <4> QED
        BY <1>3, <3>1, <4>1, <4>2 DEF Known
    <3>2. CASE m.op = "update"
      BY <1>1, <1>3, <1>5, <3>2 DEF Known
    <3> QED
      BY <3>1, <3>2
  <2>2. m.op \in {"idle", "update", "entry"}
    BY <1>3
  <2> QED
    BY <1>6, <2>1, <2>2 DEF LogCallKept, Known
<1> QED
  BY <1>6, <1>7, <1>8, <1>9 DEF LogsInv

LEMMA IncrementFamilyStep == ASSUME LogsInv, NEW c \in LogCalls, IncrementFamily(c) PROVE LogsInv'
<1> DEFINE l == logCall[c]
<1> DEFINE d == Incremented(families[l.f], l)
<1>1. l \in Ingests /\ l.f \in Prints /\ l.op = "update" /\ LogsTypeOK /\ Known(l.f) /\ families[l.f] \in FamilyDocs
  BY LogShapes, LogFacts DEF IncrementFamily, LogsInv, LogsTypeOK, LogDoing, LogCallKept
<1>2. UNCHANGED <<stored, catBusy, writes, sent, acked, word, overwritten>>
  BY DEF IncrementFamily
<1>3. d \in FamilyDocs /\ d.count = families[l.f].count + 1 /\ d.status = families[l.f].status
  <2> DEFINE cat == IF l.read.cat = "unknown" THEN l.cat ELSE families[l.f].cat
  <2>1. cat \in {"unknown", "inferred", "ai", "chosen"}
    BY <1>1, LogShapes DEF Inferred
  <2>2. d = [families[l.f] EXCEPT !.count = @ + 1, !.cat = cat]
    BY DEF Incremented
  <2> HIDE DEF d, cat
  <2> QED
    <3> DEFINE fam == families[l.f]
    <3>1. fam \in FamilyDocs /\ d = [fam EXCEPT !.count = @ + 1, !.cat = cat]
      BY <1>1, <2>2
    <3> HIDE DEF fam
    <3>2. fam.count \in Nat \ {0} /\ fam.status \in {"active", "muted"}
      BY <3>1, LogShapes
    <3>3. d = [count |-> fam.count + 1, cat |-> cat, status |-> fam.status]
      BY <3>1 DEF FamilyDocs
    <3> QED
      BY <2>1, <3>2, <3>3 DEF FamilyDocs, fam
<1> DEFINE new == [families EXCEPT ![l.f] = d]
<1>4. PICK m \in LogDoing :
          /\ LogStep(c, m)
          /\ m = NoLogCall \/ (m.f = l.f /\ m.op = "entry" /\ families' = new)
          /\ m.op \in {"idle", "entry"} /\ (m.op = "entry" => m.f = l.f /\ families' = new)
          /\ families' = new \/ families' = families
  <2>1. [l EXCEPT !.op = "entry"] \in Ingests /\ [l EXCEPT !.op = "entry"].op = "entry" /\ [l EXCEPT !.op = "entry"].f = l.f
    BY <1>1 DEF Ingests
  <2>2. new = [families EXCEPT ![l.f] = Incremented(@, l)]
    OBVIOUS
  <2> HIDE DEF new
  <2> QED
    BY <2>1, <2>2, LogShapes DEF IncrementFamily, Quit, LogDoing
<1> HIDE DEF d
<1>5. /\ new \in [Prints -> FamilyDocs \cup {NoFamily}]
      /\ \A f \in Prints : new[f] = IF f = l.f THEN d ELSE families[f]
  BY <1>1, <1>3 DEF LogsTypeOK
<1> HIDE DEF new
<1>6. \A f \in Prints : Known(f)' = Known(f)
  BY <1>1, <1>3, <1>4, <1>5, LogShapes DEF Known
<1>7. m.op \in {"idle", "entry"}
  BY <1>4, LogShapes
<1>8. /\ logCall' \in [LogCalls -> LogDoing] /\ logCall'[c] = m
      /\ \A f \in Prints :
                /\ Cardinality(Uncounted(f)') = Cardinality(Uncounted(f)) - (IF f = l.f THEN 1 ELSE 0)
                /\ Cardinality(Counted(f)') = Cardinality(Counted(f)) + (IF f = l.f /\ m.op = "entry" THEN 1 ELSE 0)
                /\ Cardinality(Uncounted(f)') \in Nat /\ Cardinality(Counted(f)') \in Nat
      /\ \A e \in LogCalls \ {c} : LogCallKept(e)'
  BY <1>1, <1>2, <1>4, <1>6, <1>7, EntryMoves, LogCounting
<1>9. LogsTypeOK'
  BY <1>1, <1>2, <1>4, <1>5, <1>8 DEF LogsTypeOK
<1>10. ASSUME NEW f \in Prints PROVE FamilyKept(f)'
  <2>1. CASE families'[f] = families[f]
    <3>1. f = l.f => m.op # "entry"
      <4> SUFFICES ASSUME f = l.f, m.op = "entry" PROVE FALSE
        OBVIOUS
      <4>1. families'[f] = d
        BY <1>1, <1>4, <1>5
      <4> QED
        <5>1. families[f].count \in Nat /\ families[f].count = families[f].count + 1
          BY <1>3, <2>1, <4>1, LogFacts
        <5> QED
          BY <5>1
    <3> QED
      BY <1>2, <1>6, <1>8, <2>1, <3>1, LogFacts DEF FamilyKept, Room
  <2>2. CASE families'[f] # families[f]
    <3>1. f = l.f /\ families'[f] = d
      BY <1>4, <1>5, <2>2
    <3>2. families'[f].count = families[f].count + 1 /\ families'[f].status = families[f].status
      BY <1>3, <3>1
    <3>3. Room(f, families[f])'
      BY <1>2, <1>8, <3>1, <3>2, LogFacts DEF FamilyKept, Room
    <3> QED
      BY <1>1, <1>2, <1>6, <1>8, <3>1, <3>2, <3>3, LogFacts DEF FamilyKept
  <2> QED
    BY <2>1, <2>2
<1>11. LogCallKept(c)'
  <2>1. m.op = "entry" => m.f = l.f /\ families'[l.f] # NoFamily
    BY <1>1, <1>4, <1>6 DEF Known
  <2> QED
    BY <1>7, <1>8, <2>1 DEF LogCallKept, Known
<1> QED
  BY <1>8, <1>9, <1>10, <1>11 DEF LogsInv

LEMMA InsertEntryStep == ASSUME LogsInv, NEW c \in LogCalls, InsertEntry(c) PROVE LogsInv'
<1> DEFINE l == logCall[c]
<1>1. l \in Ingests /\ l.f \in Prints /\ l.op = "entry" /\ LogsTypeOK /\ Known(l.f)
  BY LogShapes DEF InsertEntry, LogsInv, LogsTypeOK, LogDoing, LogCallKept
<1>2. /\ UNCHANGED <<families, catBusy, writes, sent, word, overwritten>> /\ LogStep(c, NoLogCall) /\ NoLogCall \in LogDoing
      /\ \A f \in Prints : Known(f)' = Known(f)
  BY DEF InsertEntry, Quit, Known, LogDoing
<1>3. /\ stored' \in [Prints -> Nat] /\ acked' \in [Prints -> Nat]
      /\ \A f \in Prints : /\ stored'[f] > 0 => stored[f] > 0 \/ f = l.f
                           /\ acked'[f] = acked[f] \/ (f = l.f /\ acked'[f] = acked[f] + 1)
  BY <1>1 DEF InsertEntry, LogsTypeOK
<1>4. /\ logCall' \in [LogCalls -> LogDoing] /\ logCall'[c] = NoLogCall
      /\ \A f \in Prints :
                /\ Cardinality(Uncounted(f)') = Cardinality(Uncounted(f))
                /\ Cardinality(Counted(f)') = Cardinality(Counted(f)) - (IF f = l.f THEN 1 ELSE 0)
                /\ Cardinality(Uncounted(f)') \in Nat /\ Cardinality(Counted(f)') \in Nat
      /\ \A e \in LogCalls \ {c} : LogCallKept(e)'
  BY <1>1, <1>2, EntryMoves, LogCounting, LogShapes
<1>5. LogsTypeOK'
  BY <1>1, <1>2, <1>3, <1>4 DEF LogsTypeOK
<1>6. ASSUME NEW f \in Prints PROVE FamilyKept(f)'
  <2>1. acked'[f] + Cardinality(Counted(f)') <= acked[f] + Cardinality(Counted(f))
    BY <1>3, <1>4, LogFacts
  <2>2. acked'[f] \in Nat
    BY <1>3
  <2>3. f \notin overwritten => acked'[f] + Cardinality(Counted(f)') <= families[f].count
    BY <1>4, <2>1, <2>2, LogFacts DEF FamilyKept
  <2>4. stored'[f] > 0 => Known(f)
    BY <1>1, <1>3, LogFacts DEF FamilyKept
  <2> QED
    BY <1>2, <1>4, <2>3, <2>4, LogFacts DEF FamilyKept, Room
<1>7. LogCallKept(c)'
  BY <1>4, LogShapes DEF LogCallKept
<1> QED
  BY <1>4, <1>5, <1>6, <1>7 DEF LogsInv

\* A request that stores no entry, neither before nor after the step.
StoresNone(l) == l.op \notin {"insert", "update", "entry"}

LEMMA QuietMoves ==
    ASSUME LogsInv, NEW c \in LogCalls, NEW m \in LogDoing, LogStep(c, m), sent' = sent,
           StoresNone(logCall[c]), StoresNone(m), \A f \in Prints : Known(f)' = Known(f)
    PROVE  /\ logCall' \in [LogCalls -> LogDoing] /\ logCall'[c] = m
           /\ \A f \in Prints : Uncounted(f)' = Uncounted(f) /\ Counted(f)' = Counted(f)
           /\ \A e \in LogCalls \ {c} : LogCallKept(e)'
<1>1. /\ logCall' \in [LogCalls -> LogDoing] /\ logCall'[c] = m
      /\ \A e \in LogCalls \ {c} : logCall'[e] = logCall[e]
  BY DEF LogStep, LogsInv, LogsTypeOK
<1>2. ASSUME NEW f \in Prints PROVE Uncounted(f)' = Uncounted(f) /\ Counted(f)' = Counted(f)
  BY <1>1 DEF Uncounted, Counted, StoresNone
<1>3. ASSUME NEW e \in LogCalls \ {c} PROVE LogCallKept(e)'
  <2>1. \A f \in Prints : Cardinality(Uncounted(f)') \in Nat
    BY <1>2, LogCounting
  <2>2. ASSUME NEW f \in Prints PROVE sent[f] + Cardinality(Uncounted(f)') <= sent'[f] + Cardinality(Uncounted(f))
    <3>1. sent[f] + Cardinality(Uncounted(f)) \in Nat
      BY LogFacts
    <3> QED
      BY <1>2, <3>1
  <2>3. sent' \in [Prints -> Nat]
    BY DEF LogsInv, LogsTypeOK
  <2> QED
    BY <1>1, <2>1, <2>2, <2>3, OtherRequests
<1> QED
  BY <1>1, <1>2, <1>3

\* Replacing the family f by a document made from what was read of it.
LEMMA FamilyReplaced ==
    ASSUME LogsInv, NEW f \in Prints, NEW d \in FamilyDocs, NEW read \in FamilyDocs, Known(f), Room(f, read),
           d.count = read.count, UpdateFamily(f, d, read), UNCHANGED <<stored, sent, acked>>,
           \A g \in Prints : Uncounted(g)' = Uncounted(g) /\ Counted(g)' = Counted(g),
           \A g \in Prints : g # f => word'[g] = word[g],
           word'[f] = d.status \/ (word'[f] = word[f] /\ d.status = read.status)
    PROVE  /\ families' \in [Prints -> FamilyDocs \cup {NoFamily}]
           /\ \A g \in Prints : Known(g)' = Known(g) /\ FamilyKept(g)'
<1>1. /\ families' \in [Prints -> FamilyDocs \cup {NoFamily}]
      /\ families'[f] = d /\ \A g \in Prints \ {f} : families'[g] = families[g]
  BY DEF UpdateFamily, LogsInv, LogsTypeOK
<1>2. \A g \in Prints : Known(g)' = Known(g)
  BY <1>1, LogShapes DEF Known
<1>3. /\ overwritten \subseteq overwritten' /\ \A g \in Prints \ {f} : g \in overwritten' <=> g \in overwritten
      /\ f \notin overwritten' => families[f] = read
  BY DEF UpdateFamily
<1>4. ASSUME NEW g \in Prints, g # f PROVE FamilyKept(g)'
  BY <1>1, <1>2, <1>3, <1>4, LogFacts DEF FamilyKept, Room
<1>5. FamilyKept(f)'
  <2>1. Room(f, families[f])'
    BY <1>1 DEF Room
  <2>2. f \notin overwritten' => acked[f] + Cardinality(Counted(f)) <= d.count /\ d.status = word'[f]
    BY <1>3, LogFacts DEF FamilyKept
  <2> QED
    BY <1>1, <1>2, <2>1, <2>2, LogFacts DEF FamilyKept
<1> QED
  BY <1>1, <1>2, <1>4, <1>5

\* The families are as they were.
LEMMA FamiliesKept ==
    ASSUME LogsInv, UNCHANGED <<families, stored, sent, acked, word, overwritten>>,
           \A f \in Prints : Uncounted(f)' = Uncounted(f) /\ Counted(f)' = Counted(f)
    PROVE  \A f \in Prints : FamilyKept(f)' /\ Known(f)' = Known(f)
BY LogFacts DEF FamilyKept, Room, Known

LEMMA GetFamilyStep == ASSUME LogsInv, NEW c \in LogCalls, NEW f \in Prints, GetFamily(c, f) PROVE LogsInv'
<1> DEFINE m == [op |-> "patch", f |-> f, read |-> families[f]]
<1>1. /\ LogStep(c, m) /\ logCall[c] = NoLogCall /\ Known(f)
      /\ UNCHANGED <<families, stored, catBusy, writes, sent, acked, word, overwritten>>
      /\ \A g \in Prints : Known(g)' = Known(g)
  BY DEF GetFamily, Free, Known
<1>2. m \in Patches /\ m.op = "patch" /\ m.f = f /\ m.read = families[f]
  BY <1>1, LogFacts DEF Patches
<1> HIDE DEF m
<1>3. /\ logCall' \in [LogCalls -> LogDoing] /\ logCall'[c] = m
      /\ \A g \in Prints : Uncounted(g)' = Uncounted(g) /\ Counted(g)' = Counted(g)
      /\ \A e \in LogCalls \ {c} : LogCallKept(e)'
  BY <1>1, <1>2, LogShapes, QuietMoves DEF StoresNone, LogDoing
<1>4. LogCallKept(c)'
  BY <1>1, <1>2, <1>3, LogFacts DEF LogCallKept, FamilyKept, Room, Known
<1>5. LogsTypeOK'
  BY <1>1, <1>3 DEF LogsInv, LogsTypeOK
<1> QED
  BY <1>1, <1>3, <1>4, <1>5, FamiliesKept DEF LogsInv

LEMMA PatchFamilyStep ==
    ASSUME LogsInv, NEW c \in LogCalls, NEW status \in {"active", "muted"}, NEW cat \in {"", "chosen"},
           PatchFamily(c, status, cat)
    PROVE  LogsInv'
<1> DEFINE l == logCall[c]
<1> DEFINE d == [l.read EXCEPT !.status = status, !.cat = IF cat = "" THEN @ ELSE cat]
<1>1. l \in Patches /\ l.op = "patch" /\ l.f \in Prints /\ l.read \in FamilyDocs /\ Known(l.f) /\ Room(l.f, l.read) /\ LogsTypeOK
  BY LogShapes DEF PatchFamily, LogsInv, LogsTypeOK, LogDoing, LogCallKept
<1>2. /\ LogStep(c, NoLogCall) /\ NoLogCall \in LogDoing /\ UNCHANGED <<stored, catBusy, sent, acked>>
      /\ \/ UpdateFamily(l.f, d, l.read) /\ word' = [word EXCEPT ![l.f] = status]
         \/ UNCHANGED <<families, writes, word, overwritten>>
  BY DEF PatchFamily, Quit, LogDoing
<1>3. d \in FamilyDocs /\ d.count = l.read.count /\ d.status = status
  <2> DEFINE fam == l.read
  <2> DEFINE x == IF cat = "" THEN fam.cat ELSE cat
  <2>1. fam \in FamilyDocs /\ x \in {"unknown", "inferred", "ai", "chosen"}
    BY <1>1, LogShapes
  <2>2. d = [fam EXCEPT !.status = status, !.cat = x]
    OBVIOUS
  <2> HIDE DEF fam, x, d
  <2>3. fam.count \in Nat \ {0}
    BY <2>1, LogShapes
  <2>4. d = [count |-> fam.count, cat |-> x, status |-> status]
    BY <2>1, <2>2 DEF FamilyDocs
  <2>5. d \in FamilyDocs /\ d.count = fam.count /\ d.status = status
    BY <2>1, <2>3, <2>4 DEF FamilyDocs
  <2> QED
    BY <2>5 DEF fam
<1> HIDE DEF d
<1>4. \A g \in Prints : Known(g)' = Known(g)
  <2>1. CASE families' = families
    BY <2>1 DEF Known
  <2>2. CASE families' = [families EXCEPT ![l.f] = d]
    <3>1. families'[l.f] = d /\ \A g \in Prints \ {l.f} : families'[g] = families[g]
      BY <1>1, <2>2 DEF LogsTypeOK
    <3> QED
      BY <1>1, <1>3, <3>1, LogShapes DEF Known
  <2> QED
    BY <1>2, <2>1, <2>2 DEF UpdateFamily
<1>5. /\ logCall' \in [LogCalls -> LogDoing] /\ logCall'[c] = NoLogCall
      /\ \A g \in Prints : Uncounted(g)' = Uncounted(g) /\ Counted(g)' = Counted(g)
      /\ \A e \in LogCalls \ {c} : LogCallKept(e)'
  <2>1. StoresNone(l) /\ StoresNone(NoLogCall)
    BY <1>1, LogShapes DEF StoresNone
  <2> QED
    BY <1>2, <1>4, <2>1, QuietMoves
<1>6. word' \in [Prints -> {"active", "muted"}]
  BY <1>1, <1>2 DEF LogsTypeOK
<1>7. LogCallKept(c)'
  BY <1>5, LogShapes DEF LogCallKept
<1>8. CASE UpdateFamily(l.f, d, l.read) /\ word' = [word EXCEPT ![l.f] = status]
  <2>1. word'[l.f] = status /\ \A g \in Prints : g # l.f => word'[g] = word[g]
    BY <1>1, <1>8 DEF LogsTypeOK
  <2>2. families' \in [Prints -> FamilyDocs \cup {NoFamily}] /\ \A g \in Prints : FamilyKept(g)'
    <3> HIDE DEF l
    <3> QED
      BY <1>1, <1>2, <1>3, <1>5, <1>8, <2>1, FamilyReplaced
  <2>3. LogsTypeOK'
    BY <1>1, <1>2, <1>5, <1>6, <2>2 DEF LogsTypeOK
  <2> QED
    BY <1>5, <1>7, <2>2, <2>3 DEF LogsInv
<1>9. CASE UNCHANGED <<families, writes, word, overwritten>>
  <2>1. \A g \in Prints : FamilyKept(g)'
    BY <1>2, <1>5, <1>9, FamiliesKept
  <2>2. LogsTypeOK'
    BY <1>1, <1>2, <1>5, <1>9 DEF LogsTypeOK
  <2> QED
    BY <1>5, <1>7, <2>1, <2>2 DEF LogsInv
<1> QED
  BY <1>2, <1>8, <1>9

LEMMA CategorizeFamiliesStep == ASSUME LogsInv, NEW c \in LogCalls, CategorizeFamilies(c) PROVE LogsInv'
<1>1. PICK todo \in {{f \in Prints : Uncategorized(f)}} \cup {{f} : f \in {g \in Prints : families[g] # NoFamily}} :
          LogStep(c, [op |-> "label", todo |-> todo, read |-> families])
  BY DEF CategorizeFamilies
<1> DEFINE m == [op |-> "label", todo |-> todo, read |-> families]
<1>2. /\ logCall[c] = NoLogCall /\ LogsTypeOK
      /\ UNCHANGED <<families, stored, writes, sent, acked, word, overwritten>>
      /\ \A g \in Prints : Known(g)' = Known(g)
  BY DEF CategorizeFamilies, Free, Known, LogsInv
<1>3. todo \subseteq Prints /\ \A f \in todo : Known(f)
  <2>1. \A f \in Prints : Uncategorized(f) => Known(f)
    <3> SUFFICES ASSUME NEW f \in Prints, Uncategorized(f) PROVE Known(f)
      OBVIOUS
    <3>1. families[f].count >= 2 /\ (~Known(f) => families[f].count = 0)
      BY LogFacts DEF Uncategorized
    <3> QED
      BY <3>1
  <2>2. \A f \in Prints : families[f] # NoFamily => Known(f)
    BY DEF Known
  <2> QED
    BY <1>1, <2>1, <2>2
<1>4. m \in Labels /\ m.op = "label" /\ m.todo = todo /\ m.read = families
  BY <1>2, <1>3 DEF Labels, LogsTypeOK
<1> HIDE DEF m
<1>5. /\ logCall' \in [LogCalls -> LogDoing] /\ logCall'[c] = m
      /\ \A g \in Prints : Uncounted(g)' = Uncounted(g) /\ Counted(g)' = Counted(g)
      /\ \A e \in LogCalls \ {c} : LogCallKept(e)'
  <2>1. LogStep(c, m) /\ StoresNone(logCall[c]) /\ StoresNone(m) /\ m \in LogDoing
    BY <1>1, <1>2, <1>4, LogShapes DEF m, StoresNone, LogDoing
  <2> QED
    BY <1>2, <2>1, QuietMoves
<1>6. LogCallKept(c)'
  <2>1. \A f \in Prints : families[f].count + Cardinality(Uncounted(f)') <= sent'[f]
    BY <1>2, <1>5, LogFacts DEF FamilyKept, Room
  <2> QED
    BY <1>2, <1>3, <1>4, <1>5, <2>1 DEF LogCallKept, Room, Known
<1>7. LogsTypeOK'
  BY <1>2, <1>5 DEF LogsTypeOK
<1> QED
  BY <1>2, <1>5, <1>6, <1>7, FamiliesKept DEF LogsInv

LEMMA categorizeFamilyStep ==
    ASSUME LogsInv, NEW c \in LogCalls, NEW f \in Prints, NEW cat \in Answers, categorizeFamily(c, f, cat)
    PROVE  LogsInv'
<1> DEFINE l == logCall[c]
<1> DEFINE m == [l EXCEPT !.todo = @ \ {f}]
<1> DEFINE d == [l.read[f] EXCEPT !.cat = cat]
<1>1. /\ l \in Labels /\ l.op = "label" /\ LogsTypeOK /\ f \in l.todo /\ Known(f)
      /\ l.read \in [Prints -> FamilyDocs \cup {NoFamily}]
      /\ \A g \in Prints : Room(g, l.read[g]) /\ (g \in l.todo => Known(g) /\ l.read[g] # NoFamily)
  BY LogShapes DEF categorizeFamily, LogsInv, LogsTypeOK, LogDoing, LogCallKept
<1>2. m \in Labels /\ m.op = "label" /\ m.todo = l.todo \ {f} /\ m.read = l.read
  BY <1>1 DEF Labels
<1>3. /\ LogStep(c, m) /\ UNCHANGED <<stored, catBusy, sent, acked, word>>
      /\ \/ UpdateFamily(f, d, l.read[f])
         \/ UNCHANGED <<families, writes, overwritten>>
  BY DEF categorizeFamily
<1>4. l.read[f] \in FamilyDocs /\ d \in FamilyDocs /\ d.count = l.read[f].count /\ d.status = l.read[f].status
  <2> DEFINE fam == l.read[f]
  <2>1. fam \in FamilyDocs /\ cat \in {"unknown", "inferred", "ai", "chosen"}
    BY <1>1 DEF Answers
  <2> HIDE DEF fam
  <2>2. fam.count \in Nat \ {0} /\ fam.status \in {"active", "muted"}
    BY <2>1, LogShapes
  <2>3. [fam EXCEPT !.cat = cat] = [count |-> fam.count, cat |-> cat, status |-> fam.status]
    BY <2>1 DEF FamilyDocs
  <2>4. fam \in FamilyDocs /\ [fam EXCEPT !.cat = cat] \in FamilyDocs
        /\ [fam EXCEPT !.cat = cat].count = fam.count /\ [fam EXCEPT !.cat = cat].status = fam.status
    BY <2>1, <2>2, <2>3 DEF FamilyDocs
  <2> QED
    BY <2>4 DEF fam
<1> HIDE DEF d, m
<1>5. \A g \in Prints : Known(g)' = Known(g)
  <2>1. CASE families' = families
    BY <2>1 DEF Known
  <2>2. CASE families' = [families EXCEPT ![f] = d]
    <3>1. families'[f] = d /\ \A g \in Prints \ {f} : families'[g] = families[g]
      BY <1>1, <2>2 DEF LogsTypeOK
    <3> QED
      BY <1>1, <1>4, <3>1, LogShapes DEF Known
  <2> QED
    BY <1>3, <2>1, <2>2 DEF UpdateFamily
<1>6. /\ logCall' \in [LogCalls -> LogDoing] /\ logCall'[c] = m
      /\ \A g \in Prints : Uncounted(g)' = Uncounted(g) /\ Counted(g)' = Counted(g)
      /\ \A e \in LogCalls \ {c} : LogCallKept(e)'
  <2>1. StoresNone(l) /\ StoresNone(m) /\ m \in LogDoing
    BY <1>1, <1>2 DEF StoresNone, LogDoing
  <2> QED
    BY <1>3, <1>5, <2>1, QuietMoves
<1>7. LogCallKept(c)'
  <2>1. \A g \in Prints : l.read[g].count + Cardinality(Uncounted(g)') <= sent'[g]
    BY <1>1, <1>3, <1>6 DEF Room
  <2>2. \A g \in Prints : g \in m.todo => families'[g] # NoFamily /\ m.read[g] # NoFamily
    BY <1>1, <1>2, <1>5 DEF Known
  <2> QED
    BY <1>2, <1>6, <2>1, <2>2 DEF LogCallKept, Room, Known
<1>8. CASE UpdateFamily(f, d, l.read[f])
  <2>1. families' \in [Prints -> FamilyDocs \cup {NoFamily}] /\ \A g \in Prints : FamilyKept(g)'
    <3>1. word'[f] = word[f] /\ d.status = l.read[f].status /\ \A g \in Prints : g # f => word'[g] = word[g]
      BY <1>3, <1>4
    <3>2. Room(f, l.read[f])
      BY <1>1
    <3> QED
      BY <1>1, <1>3, <1>4, <1>6, <1>8, <3>1, <3>2, FamilyReplaced
  <2>2. LogsTypeOK'
    BY <1>1, <1>3, <1>6, <2>1 DEF LogsTypeOK
  <2> QED
    BY <1>6, <1>7, <2>1, <2>2 DEF LogsInv
<1>9. CASE UNCHANGED <<families, writes, overwritten>>
  <2>1. \A g \in Prints : FamilyKept(g)'
    BY <1>3, <1>6, <1>9, FamiliesKept
  <2>2. LogsTypeOK'
    BY <1>1, <1>3, <1>6, <1>9 DEF LogsTypeOK
  <2> QED
    BY <1>6, <1>7, <2>1, <2>2 DEF LogsInv
<1> QED
  BY <1>3, <1>8, <1>9

LEMMA CategorizeDoneStep == ASSUME LogsInv, NEW c \in LogCalls, CategorizeDone(c) PROVE LogsInv'
<1>1. /\ LogStep(c, NoLogCall) /\ NoLogCall \in LogDoing /\ StoresNone(logCall[c]) /\ StoresNone(NoLogCall)
      /\ UNCHANGED <<families, stored, writes, sent, acked, word, overwritten>> /\ LogsTypeOK
      /\ \A g \in Prints : Known(g)' = Known(g)
  BY LogShapes DEF CategorizeDone, Quit, LogDoing, StoresNone, Known, LogsInv
<1>2. /\ logCall' \in [LogCalls -> LogDoing] /\ logCall'[c] = NoLogCall
      /\ \A g \in Prints : Uncounted(g)' = Uncounted(g) /\ Counted(g)' = Counted(g)
      /\ \A e \in LogCalls \ {c} : LogCallKept(e)'
  BY <1>1, QuietMoves
<1>3. LogCallKept(c)'
  BY <1>2, LogShapes DEF LogCallKept
<1>4. LogsTypeOK'
  BY <1>1, <1>2 DEF LogsTypeOK
<1> QED
  BY <1>1, <1>2, <1>3, <1>4, FamiliesKept DEF LogsInv

LEMMA LogsStep == LogsInv /\ [LogsNext]_logVars => LogsInv'
<1> SUFFICES ASSUME LogsInv, [LogsNext]_logVars PROVE LogsInv'
  OBVIOUS
<1>1. CASE UNCHANGED logVars
  BY <1>1 DEF logVars, LogsInv, LogsTypeOK, FamilyKept, LogCallKept, Room, Known, Uncounted, Counted
<1> QED
  BY <1>1, handleIngestStep, InsertFamilyStep, IncrementFamilyStep, InsertEntryStep, GetFamilyStep, PatchFamilyStep,
     CategorizeFamiliesStep, categorizeFamilyStep, CategorizeDoneStep DEF LogsNext

\* A family counts an entry at most once and every entry that was answered with
\* success, and has the status of the last PATCH, unless a document read earlier
\* was written over it; a stored entry has a family (logs/mongo_repository.go).
THEOREM LogsTheorem == LogsSpec => []LogCountsSound
<1>1. LogsInv => LogCountsSound
  <2> SUFFICES ASSUME LogsInv, NEW f \in Prints
               PROVE  /\ families[f].count <= sent[f]
                      /\ stored[f] > 0 => families[f] # NoFamily
                      /\ f \notin overwritten =>
                           /\ families[f].count >= acked[f]
                           /\ families[f] # NoFamily => families[f].status = word[f]
    BY DEF LogCountsSound
  <2> QED
    BY LogFacts DEF FamilyKept, Room, Known
<1> QED
  BY <1>1, LogsInitInv, LogsStep, PTL DEF LogsSpec

=============================================================================
