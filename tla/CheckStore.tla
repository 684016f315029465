----------------------------- MODULE CheckStore -----------------------------
(***************************************************************************)
(* MongoStore: the collection of checks and the cache every reader uses.   *)
(* A write goes to MongoDB first and into the cache when it succeeded; a   *)
(* write that timed out may have been applied all the same.  Credentials   *)
(* are stored encrypted.  A check in the cache refers to its MySQL or SSH  *)
(* settings, and cloneChecks copies the reference: an edit decodes the     *)
(* request into the very settings the cache holds, before it is validated. *)
(*                                                                         *)
(* Left out: timestamps and the dashboard document, on which nothing       *)
(* depends, and Update and ReplaceChecks, which have no caller.  Requests  *)
(* for one check are taken one after the other; CheckScheduler overlaps    *)
(* them.                                                                   *)
(***************************************************************************)
EXTENDS Naturals, FiniteSets, Sequences, Functions

CONSTANTS CheckIDs,    \* ids of checks
          Seeds,       \* the ids of the configuration file's checks, in order
          Versions,    \* the plain settings of a check
          CheckSecrets,\* passwords users type
          MaxResults   \* bound: results of the whole run

SecretMask == "mask"   \* what the API shows for a stored password
NoSecret   == "none"
SeedSecret == "seed"   \* the password in the configuration file
NoCheck    == [v |-> 0, enc |-> NoSecret, pw |-> NoSecret]
NoEdit     == [op |-> "none"]
Outcomes   == {"ok", "lost", "applied"}   \* of a write; the last two report an error

ASSUME CheckStoreAssumption ==
    /\ Range(Seeds) \subseteq CheckIDs /\ Versions \subseteq Nat \ {0} /\ Versions # {}
    /\ {SecretMask, NoSecret, SeedSecret} \cap CheckSecrets = {} /\ MaxResults \in Nat

VARIABLES
    docs,          \* MongoDB: id -> [v, enc, pw]; a password in clear is never written
    cached,        \* State.Checks of the cache
    editing,       \* the edit of a check that has been decoded and not stored
    asked,         \* history: what the last acknowledged request of a check asked for
    unsure,        \* history: checks with a failed write or a refused edit since
    docResults,    \* results in MongoDB
    cachedResults, \* results in the cache
    lastResult,    \* the results written or tried so far are 1..lastResult
    cutoff         \* results up to this one are older than the retention

checkVars  == <<docs, cached, editing, asked, unsure>>
resultVars == <<docResults, cachedResults, lastResult, cutoff>>
storeVars  == <<checkVars, resultVars>>

Stored(m) == {i \in CheckIDs : m[i] # NoCheck}

\* The password a run of the check connects with (BuildDSN): one in clear wins.
Password(c) == IF c.pw # NoSecret THEN c.pw ELSE c.enc

\* Storing the mask as a password, for the mutant of CheckStoreSound.
prepareCheckSecretsLiteral(c) == [c EXCEPT !.pw = NoSecret, !.enc = Password(c)]

\* What is kept of the credentials in c, edited in place: c is "cur" and "prev".
prepareCheckSecrets(c) ==
    [c EXCEPT !.pw = NoSecret,
              !.enc = IF c.pw \notin {SecretMask, NoSecret} THEN c.pw ELSE c.enc]

-----------------------------------------------------------------------------
\* Loading the database at a start.  An empty one gets the checks of the
\* configuration file; a start that fails midway leaves the first of them.
Seeded(k) == [i \in CheckIDs |->
    IF \E n \in 1..k : Seeds[n] = i THEN [v |-> 1, enc |-> SeedSecret, pw |-> NoSecret] ELSE NoCheck]

\* Checks of the configuration file that were stored without their password.
Migrated(m) == [i \in CheckIDs |->
    IF i \in Stored(m) \cap Range(Seeds) /\ m[i].enc = NoSecret THEN [m[i] EXCEPT !.enc = SeedSecret] ELSE m[i]]

\* A result is read back unless it is older than the retention.
readResults(m) == {n \in m : n > cutoff}

CheckStoreInit ==
    /\ docs \in {Seeded(Len(Seeds)), [Seeded(Len(Seeds)) EXCEPT ![Seeds[1]].enc = NoSecret]}
    /\ cached = docs /\ asked = docs
    /\ editing = [i \in CheckIDs |-> NoEdit] /\ unsure = {}
    /\ docResults = {} /\ cachedResults = {} /\ lastResult = 0 /\ cutoff = 0

NewMongoStore ==
    /\ \/ /\ Stored(docs) = {} /\ Seeds # <<>>
          /\ \E k \in 1..Len(Seeds) : docs' = Seeded(k) /\ cached' = docs'
          /\ unsure' = {}
       \/ /\ Stored(docs) # {}
          /\ cached' = Migrated(docs)
          /\ \E failed \in SUBSET {i \in CheckIDs : Migrated(docs)[i] # docs[i]} :
                /\ docs' = [i \in CheckIDs |-> IF i \in failed THEN docs[i] ELSE cached'[i]]
                /\ unsure' = failed
    /\ asked' = [i \in CheckIDs |->
                    IF i \in unsure \/ Stored(docs) = {} \/ Migrated(docs)[i] # docs[i] THEN cached'[i] ELSE asked[i]]
    /\ editing' = [i \in CheckIDs |-> NoEdit]
    /\ cachedResults' = readResults(docResults)
    /\ UNCHANGED <<docResults, lastResult, cutoff>>

-----------------------------------------------------------------------------
\* UpsertCheck: c replaces document i; the cache follows a write that succeeded.
\* "left" is the cached check after a write that failed.
UpsertCheck(i, c, left, out) ==
    /\ docs' = IF out = "lost" THEN docs ELSE [docs EXCEPT ![i] = c]
    /\ cached' = [cached EXCEPT ![i] = IF out = "ok" THEN c ELSE left]

\* POST with a new or a known id: there is no stored password to keep.
handleChecksPost(i) ==
    /\ editing[i] = NoEdit
    /\ \E v \in Versions, s \in CheckSecrets \cup {SecretMask, NoSecret}, out \in Outcomes :
       LET c == prepareCheckSecrets([v |-> v, enc |-> NoSecret, pw |-> s]) IN
          /\ UpsertCheck(i, c, cached[i], out)
          /\ asked' = IF out = "ok" THEN [asked EXCEPT ![i] = c] ELSE asked
          /\ unsure' = IF out = "ok" THEN unsure \ {i} ELSE unsure \cup {i}
    /\ UNCHANGED <<editing, resultVars>>

\* PUT and PATCH: the plain settings go into a copy, the credentials into the
\* settings the cache refers to.
decodeCheckUpdate(i) ==
    /\ editing[i] = NoEdit /\ cached[i] # NoCheck
    /\ \E v \in Versions, s \in CheckSecrets \cup {SecretMask, NoSecret} :
          /\ cached' = IF s = NoSecret THEN cached ELSE [cached EXCEPT ![i].pw = s]
          /\ editing' = [editing EXCEPT ![i] = [op |-> "put", v |-> v, sent |-> s]]
    /\ UNCHANGED <<docs, asked, unsure, resultVars>>

\* The decoded check is not valid, or a later field cannot be decoded: 400.
editRefused(i) ==
    /\ editing[i] # NoEdit
    /\ editing' = [editing EXCEPT ![i] = NoEdit]
    /\ unsure' = IF cached[i].pw = NoSecret THEN unsure ELSE unsure \cup {i}
    /\ UNCHANGED <<docs, cached, asked, resultVars>>

editStored(i) ==
    /\ editing[i] # NoEdit
    /\ \E out \in Outcomes :
       LET left == prepareCheckSecrets(cached[i])
           c    == [left EXCEPT !.v = editing[i].v]
           kept == editing[i].sent \notin CheckSecrets
       IN /\ UpsertCheck(i, c, left, out)
          /\ asked' = IF out = "ok"
                      THEN [asked EXCEPT ![i] = [v |-> c.v, pw |-> NoSecret,
                                                 enc |-> IF kept THEN asked[i].enc ELSE editing[i].sent]]
                      ELSE asked
          /\ unsure' = IF out # "ok" THEN unsure \cup {i} ELSE IF kept THEN unsure ELSE unsure \ {i}
    /\ editing' = [editing EXCEPT ![i] = NoEdit]
    /\ UNCHANGED resultVars

DeleteStoredCheck(i) ==
    /\ editing[i] = NoEdit /\ cached[i] # NoCheck
    /\ \E out \in Outcomes :
          /\ docs' = IF out = "lost" THEN docs ELSE [docs EXCEPT ![i] = NoCheck]
          /\ cached' = IF out = "ok" THEN [cached EXCEPT ![i] = NoCheck] ELSE cached
          /\ asked' = IF out = "ok" THEN [asked EXCEPT ![i] = NoCheck] ELSE asked
          /\ unsure' = IF out = "ok" THEN unsure \ {i} ELSE unsure \cup {i}
    /\ UNCHANGED <<editing, resultVars>>

-----------------------------------------------------------------------------
\* The runner stores a result; old ones are deleted, and a deletion that fails
\* is not noticed.  A result whose insertion failed is not cached.
AppendResults ==
    /\ lastResult < MaxResults /\ lastResult' = lastResult + 1
    /\ \E out \in Outcomes, pruned \in BOOLEAN :
          /\ docResults' = LET kept == IF pruned /\ out = "ok" THEN readResults(docResults) ELSE docResults
                           IN  IF out = "lost" THEN kept ELSE kept \cup {lastResult'}
          /\ cachedResults' = IF out = "ok" THEN readResults(cachedResults \cup {lastResult'}) ELSE cachedResults
    /\ UNCHANGED <<checkVars, cutoff>>

ResultsAge == cutoff < lastResult /\ cutoff' = cutoff + 1 /\ UNCHANGED <<checkVars, docResults, cachedResults, lastResult>>

\* Checks and results share the restart and nothing else.
ChecksNext ==
    \/ \E i \in CheckIDs : \/ handleChecksPost(i) \/ decodeCheckUpdate(i) \/ editRefused(i)
                           \/ editStored(i) \/ DeleteStoredCheck(i)
    \/ NewMongoStore

ResultsNext == AppendResults \/ ResultsAge \/ NewMongoStore

CheckStoreNext == ChecksNext \/ ResultsNext

CheckStoreSpec == CheckStoreInit /\ [][CheckStoreNext]_storeVars
-----------------------------------------------------------------------------
\* The cache, the collection and what users were told agree on every check
\* that no failed write or refused edit left in doubt; an edit that is being
\* decided shows only in the password the cache uses.
ChecksAgree ==
    \A i \in CheckIDs \ unsure :
        /\ docs[i] = asked[i]
        /\ [cached[i] EXCEPT !.pw = NoSecret] = asked[i]
        /\ editing[i] = NoEdit => Password(cached[i]) = asked[i].enc

\* What is stored as a password was once typed or configured, never the mask.
NoMaskStored == \A i \in CheckIDs : docs[i].enc # SecretMask /\ docs[i].pw = NoSecret

\* A cached result is in the collection until it is older than the retention.
ResultsKept == readResults(cachedResults) \subseteq docResults

(***************************************************************************)
(* The store is sound: after any sequence of requests, failed writes and   *)
(* restarts, cache and collection hold what was acknowledged, except for a *)
(* check with a failed write or a refused edit, whose cached settings were *)
(* edited in place.                                                        *)
(***************************************************************************)
CheckStoreSound == ChecksAgree /\ NoMaskStored /\ ResultsKept
=============================================================================
