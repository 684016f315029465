----------------------------- MODULE Retention -----------------------------
(***************************************************************************)
(* The retention job and the repositories it prunes.  The job makes a pass *)
(* when the process starts and then one at every tick of a 24-hour ticker. *)
(* A pass computes every cutoff from the time it began, and goes on to the *)
(* next repository when one fails.  A repository may own two collections   *)
(* and stops at the first that fails.  Deletions fail now and then, and    *)
(* those of a broken repository always (its collection has outgrown the 30 *)
(* seconds a deletion gets, say).  Documents of one collection do not      *)
(* affect each other, so one document of each collection is followed.      *)
(***************************************************************************)
EXTENDS Integers, Sequences, SequencesExt

CONSTANTS RetRepos,    \* registered repositories: a subset of the names in Parts
          RetConfig,   \* DefaultRetentionConfig: days per kind of data
          FallbackDays,\* the days of a repository registered without any: 7
          MaxAge,      \* bound: ages of documents from here on are not told apart
          MaxRetFaults \* bound: failed deletions and restarts

\* The collections of a repository, in the order in which it prunes them.
Parts == [snapshots |-> <<"snapshots">>, mysql_metrics |-> <<"samples", "deltas">>,
          notifications |-> <<"notifications">>, ai_queue |-> <<"queue", "results">>,
          incidents |-> <<"incidents">>, server_metrics |-> <<"server_metrics">>]

\* main registers the MySQL metrics with the retention of the snapshots.
Requested(r) ==
    CASE r \in {"snapshots", "mysql_metrics", "server_metrics"} -> RetConfig.snapshot
      [] r = "notifications" -> RetConfig.notification
      [] r = "ai_queue"      -> RetConfig.aiQueue
      [] r = "incidents"     -> RetConfig.incident

Registration(r) == IF Requested(r) <= 0 THEN FallbackDays ELSE Requested(r)

Collections == UNION {ToSet(Parts[r]) : r \in RetRepos}
OwnerOf(c)  == CHOOSE r \in RetRepos : c \in ToSet(Parts[r])
NoDoc       == [age |-> -1, open |-> FALSE]
Waiting     == [on |-> FALSE, left |-> {}, doing |-> <<>>, elapsed |-> 0]
FirstStep   == [on |-> TRUE, left |-> RetRepos, doing |-> <<>>, elapsed |-> 0]

ASSUME RetentionAssumption ==
    /\ RetRepos \subseteq DOMAIN Parts /\ FallbackDays \in Nat \ {0} /\ MaxAge \in Nat
    /\ \A f \in {"snapshot", "notification", "aiQueue", "incident"} : RetConfig[f] \in Int
    /\ \A r \in RetRepos : Registration(r) + 2 <= MaxAge

VARIABLES
    doc,       \* a document of each collection: days since its time stamp, and
               \* whether it is an incident that is not resolved
    pass,      \* the pass under way: repositories still to come, collections
               \* of the present one, days since the pass began
    retTick,   \* the ticker's channel holds a tick
    retBroken, \* repositories whose deletions always fail
    retFaults  \* other failures, and restarts, so far

retVars == <<doc, pass, retTick, retBroken, retFaults>>

\* RunDaily begins with a pass.
RetentionInit ==
    /\ doc = [c \in Collections |-> NoDoc]
    /\ pass = FirstStep
    /\ retTick = FALSE /\ retFaults = 0 /\ retBroken \in SUBSET RetRepos

\* AppendSample, Enqueue, Save, SaveSnapshots, ... add a document.
Insert(c) ==
    /\ doc[c] = NoDoc
    /\ doc' = [doc EXCEPT ![c] = [age |-> 0, open |-> c = "incidents"]]
    /\ UNCHANGED <<pass, retTick, retBroken, retFaults>>

\* Every change of an incident renews updatedAt; resolving it makes it prunable.
UpdateIncident(c, open) ==
    /\ doc[c].open
    /\ doc' = [doc EXCEPT ![c] = [age |-> 0, open |-> open]]
    /\ UNCHANGED <<pass, retTick, retBroken, retFaults>>

\* A day passes; the ticker drops a tick nobody took.
NextDay ==
    /\ pass.elapsed = 0
    /\ doc' = [c \in Collections |->
                 IF doc[c] = NoDoc \/ doc[c].age = MaxAge THEN doc[c] ELSE [doc[c] EXCEPT !.age = @ + 1]]
    /\ pass' = IF pass.on THEN [pass EXCEPT !.elapsed = 1] ELSE pass
    /\ retTick' = TRUE /\ UNCHANGED <<retBroken, retFaults>>

RunDaily ==
    /\ ~pass.on /\ retTick
    /\ pass' = FirstStep
    /\ retTick' = FALSE /\ UNCHANGED <<doc, retBroken, retFaults>>

\* RunOnce visits the repositories in the order of a Go map, which is any.
RunOnce(r) ==
    /\ pass.on /\ pass.doing = <<>> /\ r \in pass.left
    /\ pass' = [pass EXCEPT !.left = @ \ {r}, !.doing = Parts[r]]
    /\ UNCHANGED <<doc, retTick, retBroken, retFaults>>

RunOnceEnds ==
    /\ pass.on /\ pass.doing = <<>> /\ pass.left = {}
    /\ pass' = Waiting /\ UNCHANGED <<doc, retTick, retBroken, retFaults>>

\* Deleting by age alone, for the mutant of KeptForRetention.
PrunedWhateverStatus(c) == doc[c].age - pass.elapsed > Registration(OwnerOf(c))

\* The time stamp lies before the cutoff; an incident must also be resolved.
Pruned(c) == doc[c].age - pass.elapsed > Registration(OwnerOf(c)) /\ ~doc[c].open

PruneBefore ==
    LET c == Head(pass.doing)
    IN  /\ pass.doing # <<>> /\ OwnerOf(c) \notin retBroken
        /\ doc' = [doc EXCEPT ![c] = IF Pruned(c) THEN NoDoc ELSE @]
        /\ pass' = [pass EXCEPT !.doing = Tail(@)]
        /\ UNCHANGED <<retTick, retBroken, retFaults>>

\* Ending the pass at the first failure, for the mutant of ExpiredIsPruned.
AfterFailureAbort == [pass EXCEPT !.doing = <<>>, !.left = {}]

\* The rest of this repository is left out, and the others go on.
AfterFailure == [pass EXCEPT !.doing = <<>>]

PruneRefused ==
    /\ pass.doing # <<>> /\ OwnerOf(Head(pass.doing)) \in retBroken
    /\ pass' = AfterFailure /\ UNCHANGED <<doc, retTick, retBroken, retFaults>>

\* A deletion fails, or times out having been applied.
PruneFails ==
    LET c == Head(pass.doing)
    IN  /\ pass.doing # <<>> /\ retFaults < MaxRetFaults /\ retFaults' = retFaults + 1
        /\ \E applied \in BOOLEAN : doc' = [doc EXCEPT ![c] = IF applied /\ Pruned(c) THEN NoDoc ELSE @]
        /\ pass' = AfterFailure /\ UNCHANGED <<retTick, retBroken>>

\* The process stops and starts: RunDaily makes its first pass.
RestartRetention ==
    /\ retFaults < MaxRetFaults /\ retFaults' = retFaults + 1
    /\ pass' = FirstStep
    /\ retTick' = FALSE /\ UNCHANGED <<doc, retBroken>>

RetentionNext ==
    \/ NextDay \/ RunDaily \/ RunOnceEnds \/ PruneBefore \/ PruneRefused \/ PruneFails \/ RestartRetention
    \/ \E r \in RetRepos : RunOnce(r)
    \/ \E c \in Collections : Insert(c) \/ \E open \in BOOLEAN : UpdateIncident(c, open)

RetentionSpec == RetentionInit /\ [][RetentionNext]_retVars

\* Days pass, and the job's goroutine runs.
RetentionFairness ==
    /\ WF_retVars(NextDay) /\ WF_retVars(RunDaily) /\ WF_retVars(RunOnceEnds) 
    /\ WF_retVars(PruneBefore) /\ WF_retVars(PruneRefused)
    /\ \A r \in RetRepos : WF_retVars(RunOnce(r))

-----------------------------------------------------------------------------
\* The job removes nothing before its retention is over, and no incident that
\* is not resolved, however long the pass takes and whenever a day ends in it
\* (retention_jobs.go RunOnce, PruneBefore of the repositories).
KeptForRetention ==
    [][\A c \in Collections :
         (doc[c] # NoDoc /\ doc'[c] = NoDoc) => doc[c].age > Registration(OwnerOf(c)) /\ ~doc[c].open]_retVars

\* Once other failures and restarts end, a document past its retention is
\* removed unless its own repository is broken, however many others are and in
\* whatever order a pass meets them (retention_jobs.go RunOnce, RunDaily).
ExpiredIsPruned ==
    \A c \in Collections :
      (OwnerOf(c) \notin retBroken /\ doc[c].age > Registration(OwnerOf(c)) /\ ~doc[c].open) ~> doc[c] = NoDoc

\* Data lives as long as its retention says: not less, and in the end not more.
RetentionKept == KeptForRetention /\ ExpiredIsPruned

=============================================================================
