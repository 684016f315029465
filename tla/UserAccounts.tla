---------------------------- MODULE UserAccounts ----------------------------
(***************************************************************************)
(* User accounts and the tokens that speak for them (users.go, auth.go,    *)
(* mongo_user_repository.go, user_store_adapter.go).  The server runs on   *)
(* MongoDB, where an operation is a sequence of calls that other requests  *)
(* interleave with; the file store does each operation under its lock and  *)
(* rewrites users.json.  A token carries the role its user had at login    *)
(* and is believed, without a look at the store, until it expires.         *)
(*                                                                         *)
(* A name is its key (lower case) and a spelling; a password is its        *)
(* length.  MongoDB compares keys only, so a document's spelling is not    *)
(* kept.  Display names and e-mail addresses are left out.                 *)
(***************************************************************************)
EXTENDS Naturals, FiniteSets

CONSTANTS Stores,      \* subset of {"mongo", "file"}
          Keys,        \* user keys; "admin" is one of them
          Spellings,   \* spellings of a key, 0 the lower case one
          Passwords,   \* lengths of the passwords that requests carry
          Requests,    \* HTTP requests in flight
          TokenTTL,    \* life of a token, 24 hours in the code
          MaxTime,     \* bound of the clock
          MaxTokens,   \* bound on the tokens a behaviour follows
          MaxSecrets   \* bound on the signing secrets generated

ASSUME UserAssumption ==
    /\ Stores \subseteq {"mongo", "file"} /\ "admin" \in Keys /\ Passwords \subseteq Nat /\ TokenTTL \in Nat /\ MaxTime \in Nat

Roles == {"admin", "ops"}
Names == [key : Keys, spelling : Spellings]

VARIABLES
    store,     \* which backend this installation has
    index,     \* the unique index on usernameKey was created
    users,     \* the documents of the collection, or the map of the file store
    file,      \* the users of users.json, or {} when the file is unreadable
    upUsers,   \* the server is running
    clock,
    tokens,    \* tokens handed out: user key, role, expiry, signing secret
    secret,    \* the signing secret, and the one in .jwt_secret
    req,       \* what each request is doing
    lastAdmin, \* when each key last belonged to an administrator
    mishaps    \* history: the ways administrators were lost

userVars == <<store, index, users, file, upUsers, clock, tokens, secret, req, lastAdmin, mishaps>>

NoReq == [op |-> "idle"]
Admins == {u \in users : u.role = "admin"}
Of(k)  == {u \in users : u.key = k}
DefaultAdmin == [key |-> "admin", spelling |-> 0, role |-> "admin", pass |-> 5]

(***************************************************************************)
(* Every write of an account goes through Put; on the file store it also   *)
(* rewrites the file, which may fail or leave a file nobody can parse.     *)
(***************************************************************************)
save(new) == IF store = "file" THEN file' \in {new, file, {}} ELSE file' = file
Hold(new) ==
    /\ users' = new
    /\ lastAdmin' = [k \in Keys |-> IF \E u \in new : u.key = k /\ u.role = "admin" THEN clock
                                    ELSE IF \E u \in Admins : u.key = k THEN clock ELSE lastAdmin[k]]
Put(new) == Hold(new) /\ save(new)

UsersTypeOK ==
    /\ \A u \in users : u.key \in Keys /\ u.role \in Roles
    /\ \A t \in tokens : t.key \in Keys /\ t.role \in Roles /\ t.exp \in Nat
    /\ lastAdmin \in [Keys -> Nat] /\ clock \in Nat
    /\ mishaps \subseteq {"demoted", "overtaken", "replaced", "duplicate"}

UsersInit ==
    /\ store \in Stores /\ index \in (IF store = "mongo" THEN BOOLEAN ELSE {FALSE})
    /\ users = {} /\ file = {} /\ upUsers = FALSE /\ clock = 0
    /\ tokens = {} /\ secret = [mem |-> 0, disk |-> 0]
    /\ req = [r \in Requests |-> NoReq]
    /\ lastAdmin = [k \in Keys |-> 0] /\ mishaps = {}

-----------------------------------------------------------------------------
(***************************************************************************)
(* Starting the server.  The signing secret is read from its file, or made *)
(* anew when the file could not be written before.                         *)
(***************************************************************************)
initJWTSecret ==
    IF secret.disk # 0 THEN secret' = [secret EXCEPT !.mem = secret.disk]
    ELSE \E kept \in IF secret.mem + 1 < MaxSecrets THEN BOOLEAN ELSE {TRUE} :
            secret' = [mem |-> secret.mem + 1, disk |-> IF kept THEN secret.mem + 1 ELSE 0]

\* Create or, when asked to, reset the administrator with the password given.
BootstrapAdmin(pass, forceReset) ==
    /\ pass >= 8
    /\ IF Of("admin") = {} THEN Put(users \cup {[key |-> "admin", spelling |-> 0, role |-> "admin", pass |-> pass]})
       ELSE IF ~forceReset THEN UNCHANGED <<users, file, lastAdmin>>
       ELSE \E u \in Of("admin") : Put((users \ {u}) \cup {[u EXCEPT !.role = "admin", !.pass = pass]})

\* main: without a bootstrap password the server refuses to start unless the
\* user admin exists, whatever other administrators there are.
StartMongo ==
    /\ store = "mongo"
    /\ \/ \E pass \in Passwords, forceReset \in BOOLEAN : BootstrapAdmin(pass, forceReset)
       \/ Of("admin") # {} /\ UNCHANGED <<users, file, lastAdmin>>

\* NewUserStore: an unreadable file counts as no users, and the default
\* administrator is seeded over it.
NewUserStore ==
    /\ store = "file"
    /\ IF file = {} THEN Put({DefaultAdmin}) ELSE Hold(file) /\ UNCHANGED file

StartUsers ==
    /\ ~upUsers /\ upUsers' = TRUE
    /\ initJWTSecret
    /\ StartMongo \/ NewUserStore
    /\ index' \in IF store = "mongo" /\ \A u, v \in users : u.key = v.key => u = v THEN {index, TRUE} ELSE {index}
    /\ UNCHANGED <<store, clock, tokens, req, mishaps>>

StopUsers ==
    /\ upUsers /\ upUsers' = FALSE
    /\ req' = [r \in Requests |-> NoReq]
    /\ users' = IF store = "file" THEN {} ELSE users
    /\ UNCHANGED <<store, index, file, clock, tokens, secret, lastAdmin, mishaps>>

\* Time passes; who is an administrator now was one until now.
TickUsers ==
    /\ clock < MaxTime /\ clock' = clock + 1
    /\ lastAdmin' = [k \in Keys |-> IF \E u \in Admins : u.key = k THEN clock' ELSE lastAdmin[k]]
    /\ UNCHANGED <<store, index, users, file, upUsers, tokens, secret, req, mishaps>>

-----------------------------------------------------------------------------
(***************************************************************************)
(* Tokens.                                                                 *)
(***************************************************************************)
\* A token that is accepted whatever its expiry, for StaleAuthorityExpires.
verifyJWTForEver(t) == t.secret = secret.mem

verifyJWT(t) == t.secret = secret.mem /\ clock <= t.exp

\* Authenticate: a user's record whose password matches.  The file store
\* compares the spelling of the name, MongoDB the key.
Authenticate(n, pass) ==
    {u \in users : u.key = n.key /\ (store = "file" => u.spelling = n.spelling) /\ u.pass = pass}

signJWT(u) == [key |-> u.key, role |-> u.role, exp |-> clock + TokenTTL, secret |-> secret.mem]

HandleLogin ==
    /\ upUsers
    /\ \E n \in Names, pass \in Passwords \cup {5} : \E u \in Authenticate(n, pass) :
          tokens' = {t \in tokens : verifyJWT(t)} \cup {signJWT(u)}
    /\ Cardinality(tokens') <= MaxTokens
    /\ UNCHANGED <<store, index, users, file, upUsers, clock, secret, req, lastAdmin, mishaps>>

\* authMiddleware and the handlers' own test: a change is for administrators,
\* by the role the token claims.
MayChange == \E t \in tokens : verifyJWT(t) /\ t.role = "admin"

-----------------------------------------------------------------------------
(***************************************************************************)
(* Creating a user: count the documents with the key, then insert.         *)
(***************************************************************************)
CreateRequest(r) ==
    /\ upUsers /\ req[r] = NoReq /\ store = "mongo" /\ MayChange
    /\ \E n \in Names, role \in Roles, pass \in Passwords :
          /\ pass >= 8
          /\ Of(n.key) = {}
          /\ req' = [req EXCEPT ![r] = [op |-> "insert", doc |-> [key |-> n.key, spelling |-> 0,
                                                                  role |-> role, pass |-> pass]]]
    /\ UNCHANGED <<store, index, users, file, upUsers, clock, tokens, secret, lastAdmin, mishaps>>

Insert(r) ==
    /\ upUsers /\ req[r].op = "insert"
    /\ IF index /\ Of(req[r].doc.key) # {} THEN UNCHANGED <<users, file, lastAdmin>>
       ELSE Put(users \cup {req[r].doc})
    /\ mishaps' = IF ~index /\ Of(req[r].doc.key) # {} THEN mishaps \cup {"duplicate"} ELSE mishaps
    /\ req' = [req EXCEPT ![r] = NoReq]
    /\ UNCHANGED <<store, index, upUsers, clock, tokens, secret>>

\* The file store looks for the same spelling and stores under the key.
CreateInFile ==
    /\ upUsers /\ store = "file" /\ MayChange
    /\ \E n \in Names, role \in Roles, pass \in Passwords :
          /\ ~\E u \in users : u.key = n.key /\ u.spelling = n.spelling
          /\ pass >= 8
          /\ Put((users \ Of(n.key)) \cup {[key |-> n.key, spelling |-> n.spelling, role |-> role, pass |-> pass]})
          /\ mishaps' = IF Of(n.key) \cap Admins # {} /\ role # "admin" THEN mishaps \cup {"replaced"} ELSE mishaps
    /\ UNCHANGED <<store, index, upUsers, clock, tokens, secret, req>>

(***************************************************************************)
(* Updating a user: the role, when given, and the password.  MongoDB       *)
(* counts the documents, then updates one of them; it refuses a password   *)
(* under 8 characters, the file store skips one under 4.                   *)
(***************************************************************************)
UpdateRequest(r) ==
    /\ upUsers /\ req[r] = NoReq /\ store = "mongo" /\ MayChange
    /\ \E k \in Keys, role \in Roles \cup {""}, pass \in Passwords \cup {0} :
          /\ Of(k) # {} /\ (pass = 0 \/ pass >= 8)
          /\ req' = [req EXCEPT ![r] = [op |-> "update", key |-> k, role |-> role, pass |-> pass]]
    /\ UNCHANGED <<store, index, users, file, upUsers, clock, tokens, secret, lastAdmin, mishaps>>

Changed(u, role, pass, least) ==
    [u EXCEPT !.role = IF role = "" THEN @ ELSE role, !.pass = IF pass >= least THEN pass ELSE @]

\* An update that leaves no administrator is not refused.
NoteDemotion(u, role) ==
    mishaps' = IF u.role = "admin" /\ role = "ops" THEN mishaps \cup {"demoted"} ELSE mishaps

UpdateOne(r) ==
    /\ upUsers /\ req[r].op = "update"
    /\ \/ Of(req[r].key) = {} /\ UNCHANGED <<users, file, lastAdmin, mishaps>>
       \/ \E u \in Of(req[r].key) :
             /\ Put((users \ {u}) \cup {Changed(u, req[r].role, req[r].pass, 8)})
             /\ NoteDemotion(u, req[r].role)
    /\ req' = [req EXCEPT ![r] = NoReq]
    /\ UNCHANGED <<store, index, upUsers, clock, tokens, secret>>

UpdateInFile ==
    /\ upUsers /\ store = "file" /\ MayChange
    /\ \E u \in users, role \in Roles \cup {""}, pass \in Passwords \cup {0} :
          /\ Put((users \ {u}) \cup {Changed(u, role, pass, 4)})
          /\ NoteDemotion(u, role)
    /\ UNCHANGED <<store, index, upUsers, clock, tokens, secret, req>>

\* The same test with an off-by-one, for the mutant of AdministratorsKept.
LastOneZero(n) == n < 1

(***************************************************************************)
(* Deleting a user: find the document, count the administrators when it is *)
(* one, delete.  The last administrator is kept.                           *)
(***************************************************************************)
LastOne(n) == n <= 1

FindToDelete(r) ==
    /\ upUsers /\ req[r] = NoReq /\ store = "mongo" /\ MayChange
    /\ \E u \in users :
          req' = [req EXCEPT ![r] = [op |-> IF u.role = "admin" THEN "count" ELSE "delete",
                                     key |-> u.key, overtaken |-> FALSE]]
    /\ UNCHANGED <<store, index, users, file, upUsers, clock, tokens, secret, lastAdmin, mishaps>>

CountAdmins(r) ==
    /\ upUsers /\ req[r].op = "count"
    /\ req' = [req EXCEPT ![r] = IF LastOne(Cardinality(Admins)) THEN NoReq ELSE [@ EXCEPT !.op = "delete"]]
    /\ UNCHANGED <<store, index, users, file, upUsers, clock, tokens, secret, lastAdmin, mishaps>>

\* A deletion overtakes the requests that counted before it; the document
\* found may meanwhile have been promoted, too.
DeleteOne(r) ==
    /\ upUsers /\ req[r].op = "delete"
    /\ \/ Of(req[r].key) = {} /\ UNCHANGED <<users, file, lastAdmin>>
       \/ \E u \in Of(req[r].key) : Put(users \ {u})
    /\ mishaps' = IF Admins # {} /\ req[r].overtaken /\ {u \in users' : u.role = "admin"} = {}
               THEN mishaps \cup {"overtaken"} ELSE mishaps
    /\ req' = [q \in Requests |-> IF q = r THEN NoReq
                                  ELSE IF req[q].op = "delete" THEN [req[q] EXCEPT !.overtaken = TRUE] ELSE req[q]]
    /\ UNCHANGED <<store, index, upUsers, clock, tokens, secret>>

DeleteInFile ==
    /\ upUsers /\ store = "file" /\ MayChange
    /\ \E u \in users :
          /\ ~(u.role = "admin" /\ LastOne(Cardinality(Admins)))
          /\ Put(users \ {u})
    /\ UNCHANGED <<store, index, upUsers, clock, tokens, secret, req, mishaps>>

UsersNext ==
    \/ StartUsers \/ StopUsers \/ TickUsers \/ HandleLogin
    \/ CreateInFile \/ UpdateInFile \/ DeleteInFile
    \/ \E r \in Requests : \/ CreateRequest(r) \/ Insert(r) \/ UpdateRequest(r) \/ UpdateOne(r)
                           \/ FindToDelete(r) \/ CountAdmins(r) \/ DeleteOne(r)

-----------------------------------------------------------------------------
(***************************************************************************)
(* Deleting users never removes the last administrator (Delete refuses     *)
(* it).  An installation that had one is without any only after an update  *)
(* demoted one, after a deletion on a count that another deletion had made *)
(* stale, or after two requests created one name before the unique index   *)
(* existed; on the file store, after a demotion or after the creation of a *)
(* name that differs from an administrator's in spelling only, which       *)
(* replaces that account.                                                  *)
(***************************************************************************)
AdministratorsKept ==
    upUsers /\ Admins = {} =>
        mishaps \cap (IF store = "mongo" THEN {"demoted", "overtaken", "duplicate"}
                      ELSE {"demoted", "replaced"}) # {}

(***************************************************************************)
(* The role a token claims is not looked up again: a demoted or deleted    *)
(* administrator keeps acting as one, but never more than the life of a    *)
(* token after losing the role, restarts and renewed secrets included.     *)
(***************************************************************************)
StaleAuthorityExpires ==
    \A t \in tokens : verifyJWT(t) /\ t.role = "admin" => clock <= lastAdmin[t.key] + TokenTTL

(***************************************************************************)
(* Who holds an administrator's authority, over overlapping requests,      *)
(* restarts and lost writes: there is an administrator left unless one of  *)
(* the named mishaps happened, and nobody keeps the authority longer than  *)
(* a token lives (users.go Delete, mongo_user_repository.go, verifyJWT).   *)
(***************************************************************************)
AuthoritySound == AdministratorsKept /\ StaleAuthorityExpires

UsersSpec == UsersInit /\ [][UsersNext]_userVars
=============================================================================
