---------------------------- MODULE HybridStore ----------------------------
(***************************************************************************)
(* HybridStore: a state file that every write goes to first, and a MongoDB *)
(* mirror that is brought up to date after each write, best effort, and    *)
(* that readers prefer while it is believed to be up.  A sync upserts the  *)
(* checks of the file one by one; it removes nothing.                      *)
(*                                                                         *)
(* A check is its version; results are upserted and read in the same way.  *)
(***************************************************************************)
EXTENDS Naturals, FiniteSets

CONSTANTS HybridIDs,    \* ids of checks
          ConfigIDs,    \* those of the configuration file, version 1
          MaxVersion,   \* bound: versions of a check
          Writers       \* requests and runs that write

Absent == 0

VARIABLES
    local,     \* FileStore: memory and file, which agree (write, rename, then assign)
    mirror,    \* the collection of checks in MongoDB
    hasMirror, \* MongoDB answered at the start
    mongoDown, \* the last sync failed
    syncMu,    \* who is syncing
    shot,      \* the snapshot being synced
    writer,    \* what each writer does: idle, or waiting to sync
    synced,    \* history: a sync has succeeded since the start
    removed    \* history: checks deleted, or dropped with the file, since they were last written

hybridVars == <<local, mirror, hasMirror, mongoDown, syncMu, shot, writer, synced, removed>>

Nobody   == "nobody"
Starter  == "starter"        \* the goroutine of the initial sync
Syncers  == Writers \cup {Starter}
ASSUME HybridAssumption == {Nobody, Starter} \cap Writers = {}
NewMongoMirror == {"up", "unreadable", "down"}    \* how MongoDB is found at a start
Defaults == [i \in HybridIDs |-> IF i \in ConfigIDs THEN 1 ELSE Absent]

\* m with the checks of s in ids put over it.
Upserted(m, s, ids) == [i \in HybridIDs |-> IF i \in ids /\ s[i] # Absent THEN s[i] ELSE m[i]]

HybridInit ==
    /\ local = Defaults
    /\ mirror \in {[i \in HybridIDs |-> Absent], Defaults}
    /\ hasMirror = TRUE /\ mongoDown = FALSE
    /\ syncMu = Nobody /\ shot = Defaults /\ synced = FALSE
    /\ writer = [w \in Syncers |-> IF w = Starter THEN "sync" ELSE "idle"]
    /\ removed = {}

\* A start.  Without a file (a new volume) the configuration's checks are
\* taken, and since NewFileStore stamps the state it is never empty: the mirror
\* is not read back, it is synced from the file.  When the mirror cannot be
\* read there is no initial sync; when it cannot be reached, no mirror.
NewHybridStore ==
    /\ \/ UNCHANGED <<local, removed>>
       \/ /\ local' = Defaults
          /\ removed' = removed \cup {i \in HybridIDs : local[i] # Absent /\ Defaults[i] = Absent}
    /\ \E reach \in NewMongoMirror :
          /\ hasMirror' = (reach # "down") /\ mongoDown' = (reach = "down")
          /\ writer' = [w \in Syncers |-> IF w = Starter /\ reach = "up" THEN "sync" ELSE "idle"]
    /\ syncMu' = Nobody /\ synced' = FALSE
    /\ UNCHANGED <<mirror, shot>>

\* UpsertCheck, DeleteCheck: the file first; a failure there ends the request.
LocalUpdate(w) ==
    /\ writer[w] = "idle" /\ w \in Writers
    /\ \E i \in HybridIDs :
          \/ /\ local[i] < MaxVersion
             /\ local' = [local EXCEPT ![i] = @ + 1] /\ removed' = removed \ {i}
          \/ /\ local[i] # Absent
             /\ local' = [local EXCEPT ![i] = Absent] /\ removed' = removed \cup {i}
    /\ writer' = [writer EXCEPT ![w] = IF hasMirror THEN "sync" ELSE "idle"]
    /\ UNCHANGED <<mirror, hasMirror, mongoDown, syncMu, shot, synced>>

\* Taking the snapshot of the write itself, for the mutant of HybridReads: an
\* older one may be synced last.
SyncBeginStale(w) ==
    /\ writer[w] = "sync" /\ syncMu = Nobody
    /\ syncMu' = w /\ shot' = shot
    /\ UNCHANGED <<local, mirror, hasMirror, mongoDown, writer, synced, removed>>

\* The snapshot is taken under the lock.
SyncBegin(w) ==
    /\ writer[w] = "sync" /\ syncMu = Nobody
    /\ syncMu' = w /\ shot' = local
    /\ UNCHANGED <<local, mirror, hasMirror, mongoDown, writer, synced, removed>>

\* syncToMongo: all of the checks, or, when MongoDB fails, some of them.
SyncEnd(w) ==
    /\ syncMu = w
    /\ \/ /\ mirror' = Upserted(mirror, shot, HybridIDs)
          /\ mongoDown' = FALSE /\ synced' = TRUE
       \/ /\ \E ids \in SUBSET HybridIDs : mirror' = Upserted(mirror, shot, ids)
          /\ mongoDown' = TRUE /\ UNCHANGED synced
    /\ syncMu' = Nobody /\ writer' = [writer EXCEPT ![w] = "idle"]
    /\ UNCHANGED <<local, hasMirror, shot, removed>>

HybridNext ==
    \/ NewHybridStore
    \/ \E w \in Syncers : LocalUpdate(w) \/ SyncBegin(w) \/ SyncEnd(w)

HybridSpec == HybridInit /\ [][HybridNext]_hybridVars
-----------------------------------------------------------------------------
\* Readers ask the mirror unless it is absent, believed down or empty.
MirrorPreferred == hasMirror /\ ~mongoDown /\ mirror # [i \in HybridIDs |-> Absent]

\* What a reader may get: a read of the mirror that fails gives the file's state.
Snapshots == IF MirrorPreferred THEN {mirror, local} ELSE {local}

(***************************************************************************)
(* Read your writes: once a sync has succeeded since the start, and while  *)
(* no write is under way, every reader sees every check of the file as it  *)
(* was written last, whether the mirror was up, failed midway or came      *)
(* back; and a check it sees beyond those is one that was deleted, which   *)
(* the mirror never forgets.                                               *)
(***************************************************************************)
HybridReads ==
    (synced /\ \A w \in Syncers : writer[w] = "idle") =>
        \A s \in Snapshots, i \in HybridIDs :
            /\ local[i] # Absent => s[i] = local[i]
            /\ local[i] = Absent /\ s[i] # Absent => i \in removed
=============================================================================
