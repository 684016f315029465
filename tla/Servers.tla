------------------------------ MODULE Servers ------------------------------
(***************************************************************************)
(* Monitored servers: the MongoDB collection, the list in Config.Servers   *)
(* that the handlers keep as a cache and the runner looks servers up in,   *)
(* without a lock, and the runs of checks on servers.                      *)
(*                                                                         *)
(* Handlers read and write the collection and then the cache, so requests  *)
(* that overlap may leave the two apart.  resolveServer returns a pointer  *)
(* into the list; removeCachedServer moves the servers behind the removed  *)
(* one up inside the same array.                                           *)
(***************************************************************************)
EXTENDS Integers, Sequences, FiniteSets, SequencesExt

CONSTANTS ServerIDs,    \* servers
          ServerPws,    \* passwords users type
          ServerCalls,  \* requests in flight
          MaxChanges    \* bound: requests that change something

NoServer == "none"      \* no document
Kept     == "masked"    \* the password field of a form that does not change it
NoPw     == "empty"     \* a server without a password
NoRun    == [st |-> "idle"]
NoSrvCall == [op |-> "idle"]
NoDocs    == [i \in ServerIDs |-> NoServer]

ASSUME ServersAssumption == IsFiniteSet(ServerIDs) /\ NoServer \notin ServerPws /\ Kept \notin ServerPws

VARIABLES
    srvDocs,   \* the collection: id -> password, or NoServer
    backing,   \* the array behind Config.Servers: a sequence of [id, pw]
    srvLen,    \* the list is its first srvLen elements
    refs,      \* servers that stored checks name
    srvCall,   \* what each request is in the middle of
    srvRun,    \* a run of a check on a server; one run per behaviour; cut when
               \* a server was removed from the list under it
    typedPw,   \* history: the password typed last
    doubt,     \* history: requests have overlapped or a write failed since the cache was reloaded
    srvChanges \* requests that changed something so far

serverVars == <<srvDocs, backing, srvLen, refs, srvCall, srvRun, typedPw, doubt, srvChanges>>

Server(i, p) == [id |-> i, pw |-> p]
Existing     == {i \in ServerIDs : srvDocs[i] # NoServer}
Active       == {r \in ServerCalls : srvCall[r] # NoSrvCall}
Cached(i)    == {n \in 1..srvLen : backing[n].id = i}

\* List sorts by id: the servers of the documents d in some fixed order.
Listed(d) == LET ids == {i \in ServerIDs : d[i] # NoServer}
             IN  [n \in 1..Cardinality(ids) |-> LET i == SetToSeq(ids)[n] IN Server(i, d[i])]

PwsOf(d) == [i \in ServerIDs |-> IF d[i] = NoServer THEN NoPw ELSE d[i]]

ServersInit ==
    /\ srvDocs = [i \in ServerIDs |-> NoPw]
    /\ backing = Listed(srvDocs) /\ srvLen = Len(backing)
    /\ refs = {} /\ srvRun = NoRun
    /\ srvCall = [r \in ServerCalls |-> NoSrvCall]
    /\ typedPw = [i \in ServerIDs |-> NoPw] /\ doubt = FALSE /\ srvChanges = 0

\* A restart: the collection is read into the list; seeding an empty collection
\* is in Init.
RestartServers ==
    /\ backing' = Listed(srvDocs) /\ srvLen' = Len(backing')
    /\ srvCall' = [r \in ServerCalls |-> NoSrvCall] /\ srvRun' = NoRun
    /\ typedPw' = PwsOf(srvDocs)
    /\ doubt' = FALSE
    /\ UNCHANGED <<srvDocs, refs, srvChanges>>

\* The run keeps its pointer when the list moves to another array.
Detached == IF srvRun.st = "resolved" /\ srvRun.at > 0
            THEN [srvRun EXCEPT !.at = 0, !.val = backing[srvRun.at]] ELSE srvRun

setCachedServer(s) ==
    \/ /\ Cached(s.id) # {}
       /\ backing' = [n \in 1..Len(backing) |-> IF n \in Cached(s.id) THEN s ELSE backing[n]]
       /\ UNCHANGED <<srvLen, srvRun>>
    \/ /\ Cached(s.id) = {} /\ srvLen' = srvLen + 1
       /\ backing' = [n \in 1..Len(backing) \cup {srvLen + 1} |-> IF n = srvLen + 1 THEN s ELSE backing[n]]
       /\ \/ UNCHANGED srvRun
          \/ Len(backing) = srvLen /\ srvRun' = Detached

setCachedServers(d) == backing' = Listed(d) /\ srvLen' = Len(backing') /\ srvRun' = Detached

removeCachedServer(i) ==
    LET before(k) == Cardinality({n \in Cached(i) : n < k})
        kept(n)   == CHOOSE k \in 1..srvLen \ Cached(i) : k - before(k) = n
    IN  /\ srvLen' = srvLen - Cardinality(Cached(i))
        /\ backing' = [n \in 1..Len(backing) |-> IF n <= srvLen' THEN backing[kept(n)] ELSE backing[n]]
        /\ srvRun' = IF srvRun.st = "resolved" THEN [srvRun EXCEPT !.cut = TRUE] ELSE srvRun

\* Storing what the form shows, for the mutant of ServersSound.
prepareServerSecretsLiteral(sent, prev) == IF sent = NoPw THEN prev ELSE sent

\* A mask keeps the stored password, a missing one too.
prepareServerSecrets(sent, prev) == IF sent \in {Kept, NoPw} THEN prev ELSE sent

-----------------------------------------------------------------------------
\* A request starts; whatever is under way no longer has the servers to itself.
BeginCall(r, call) ==
    /\ srvCall[r] = NoSrvCall
    /\ srvCall' = [q \in ServerCalls |->
                      IF q = r THEN call
                      ELSE IF srvCall[q] = NoSrvCall THEN NoSrvCall ELSE [srvCall[q] EXCEPT !.alone = FALSE]]

\* What a request in flight is, and whether it shares the servers from the start.
SrvCall(op, s, typed, view) == [op |-> op, s |-> s, typed |-> typed, view |-> view, alone |-> Active = {}]

Crossed == doubt \/ Active # {}

EndCall(r) == srvCall' = [srvCall EXCEPT ![r] = NoSrvCall]

\* GET: the list that was read replaces the cache; on an error the cache is shown.
ListRead(r) ==
    /\ BeginCall(r, SrvCall("list", Server(NoServer, NoPw), NoPw, srvDocs)) /\ doubt' = Crossed
    /\ UNCHANGED <<srvDocs, backing, srvLen, refs, srvRun, typedPw, srvChanges>>

ListCache(r) ==
    /\ srvCall[r].op = "list"
    /\ \/ /\ setCachedServers(srvCall[r].view)
          /\ \/ srvCall[r].alone /\ doubt' = FALSE /\ typedPw' = PwsOf(srvDocs)
             \/ ~srvCall[r].alone /\ UNCHANGED <<doubt, typedPw>>
       \/ UNCHANGED <<backing, srvLen, srvRun, doubt, typedPw>>
    /\ EndCall(r) /\ UNCHANGED <<srvDocs, refs, srvChanges>>

\* POST: the document, then the cache and a check for the new server.
CreateServer(r) ==
    /\ srvChanges < MaxChanges /\ srvChanges' = srvChanges + 1
    /\ \E i \in ServerIDs \ Existing, p \in ServerPws \cup {NoPw} :
          \/ /\ BeginCall(r, SrvCall("created", Server(i, p), p, NoDocs)) /\ doubt' = Crossed
             /\ srvDocs' = [srvDocs EXCEPT ![i] = p] /\ typedPw' = [typedPw EXCEPT ![i] = p]
          \/ /\ BeginCall(r, NoSrvCall) /\ doubt' = TRUE /\ UNCHANGED typedPw     \* an error
             /\ srvDocs' \in {srvDocs, [srvDocs EXCEPT ![i] = p]}
    /\ UNCHANGED <<backing, srvLen, refs, srvRun>>

CreateCached(r) ==
    /\ srvCall[r].op = "created"
    /\ setCachedServer(srvCall[r].s)
    /\ refs' \in {refs, refs \cup {srvCall[r].s.id}}
    /\ EndCall(r) /\ UNCHANGED <<srvDocs, typedPw, doubt, srvChanges>>

\* PUT: the stored server is read, and cached, for its password; then the
\* document is replaced, then the cache.
UpdateRead(r) ==
    /\ \E i \in Existing, p \in ServerPws \cup {Kept} :
          /\ BeginCall(r, SrvCall("put", Server(i, prepareServerSecrets(p, srvDocs[i])), p, NoDocs)) /\ doubt' = Crossed
          /\ setCachedServer(Server(i, srvDocs[i]))
    /\ UNCHANGED <<srvDocs, refs, typedPw, srvChanges>>

ReplaceServer(r) ==
    /\ srvCall[r].op = "put" /\ srvChanges < MaxChanges /\ srvChanges' = srvChanges + 1
    /\ LET s == srvCall[r].s IN
       \/ /\ s.id \in Existing
          /\ srvDocs' = [srvDocs EXCEPT ![s.id] = s.pw]
          /\ typedPw' = IF srvCall[r].typed = Kept THEN typedPw ELSE [typedPw EXCEPT ![s.id] = s.pw]
          /\ srvCall' = [srvCall EXCEPT ![r].op = "created"] /\ UNCHANGED doubt
       \/ /\ srvDocs' \in {srvDocs, IF s.id \in Existing THEN [srvDocs EXCEPT ![s.id] = s.pw] ELSE srvDocs}
          /\ EndCall(r) /\ doubt' = TRUE /\ UNCHANGED typedPw
    /\ UNCHANGED <<backing, srvLen, refs, srvRun>>

\* DELETE: refused while a check names the server.
DeleteCheckRefs(r) ==
    /\ \E i \in ServerIDs \ refs : BeginCall(r, SrvCall("delete", Server(i, NoPw), NoPw, NoDocs))
    /\ doubt' = Crossed
    /\ UNCHANGED <<srvDocs, backing, srvLen, refs, srvRun, typedPw, srvChanges>>

DeleteServer(r) ==
    /\ srvCall[r].op = "delete" /\ srvChanges < MaxChanges /\ srvChanges' = srvChanges + 1
    /\ \/ /\ srvCall[r].s.id \in Existing
          /\ srvDocs' = [srvDocs EXCEPT ![srvCall[r].s.id] = NoServer]
          /\ srvCall' = [srvCall EXCEPT ![r].op = "deleted"] /\ UNCHANGED doubt
       \/ /\ srvDocs' \in {srvDocs, [srvDocs EXCEPT ![srvCall[r].s.id] = NoServer]}
          /\ EndCall(r) /\ doubt' = TRUE
    /\ UNCHANGED <<backing, srvLen, refs, srvRun, typedPw>>

DeleteCached(r) ==
    /\ srvCall[r].op = "deleted"
    /\ removeCachedServer(srvCall[r].s.id)
    /\ EndCall(r) /\ UNCHANGED <<srvDocs, refs, typedPw, doubt, srvChanges>>

-----------------------------------------------------------------------------
\* A check may name any server, and goes away with its own DELETE: only the
\* configuration file is validated.  One such check is followed, beside the ones
\* that come with new servers.
StoreCheckFor(i) == refs = {} /\ refs' = {i} /\ UNCHANGED <<srvDocs, backing, srvLen, srvCall, srvRun, typedPw, doubt, srvChanges>>
DropCheckFor(i)  == i \in refs /\ refs' = refs \ {i} /\ UNCHANGED <<srvDocs, backing, srvLen, srvCall, srvRun, typedPw, doubt, srvChanges>>

\* A command, process or log check looks its server up; without one it runs on
\* the machine of HealthOps.
resolveServer(i) ==
    /\ srvRun.st = "idle" /\ i \in refs
    /\ srvRun' = IF Cached(i) = {} THEN [st |-> "ran", want |-> i, on |-> "local", cut |-> FALSE]
                 ELSE [st |-> "resolved", want |-> i, at |-> CHOOSE n \in Cached(i) : \A k \in Cached(i) : n <= k,
                       val |-> Server(i, NoPw), cut |-> FALSE]
    /\ UNCHANGED <<srvDocs, backing, srvLen, refs, srvCall, typedPw, doubt, srvChanges>>

\* The pointer is followed.
sshDialAndRun ==
    /\ srvRun.st = "resolved"
    /\ srvRun' = [st |-> "ran", want |-> srvRun.want, cut |-> srvRun.cut,
                on |-> IF srvRun.at = 0 THEN srvRun.val.id ELSE backing[srvRun.at].id]
    /\ UNCHANGED <<srvDocs, backing, srvLen, refs, srvCall, typedPw, doubt, srvChanges>>

ServersNext ==
    \/ \E r \in ServerCalls : \/ ListRead(r) \/ ListCache(r) \/ CreateServer(r) \/ CreateCached(r)
                              \/ UpdateRead(r) \/ ReplaceServer(r)
                              \/ DeleteCheckRefs(r) \/ DeleteServer(r) \/ DeleteCached(r)
    \/ \E i \in ServerIDs : StoreCheckFor(i) \/ DropCheckFor(i) \/ resolveServer(i)
    \/ sshDialAndRun \/ RestartServers

ServersSpec == ServersInit /\ [][ServersNext]_serverVars
-----------------------------------------------------------------------------
(***************************************************************************)
(* The servers the runner connects to are the ones of the collection, each *)
(* once and with the password typed last, whenever no request is under way *)
(* and none overlapped another or failed since the list was last read in   *)
(* quiet.  The list never holds a server twice, whatever overlaps.  A run  *)
(* keeps a pointer into the list: it connects to the server its check      *)
(* names, or stays on this machine when the list lacks it, unless a server *)
(* is removed from the list between the look-up and the connection         *)
(* (server_repository.go, server_api.go removeCachedServer, runner.go).     *)
(***************************************************************************)
ServersSound ==
    /\ \A i \in ServerIDs : Cardinality(Cached(i)) <= 1
    /\ srvRun.st = "ran" => srvRun.on \in {srvRun.want, "local"} \/ srvRun.cut
    /\ Active = {} /\ ~doubt =>
          /\ {backing[n] : n \in 1..srvLen} = {Server(i, srvDocs[i]) : i \in Existing}
          /\ \A i \in Existing : srvDocs[i] = typedPw[i]
=============================================================================
