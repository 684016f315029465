------------------------------- MODULE AIQueue -------------------------------
(***************************************************************************)
(* The AI analysis queue (ai/repositories/mongo_ai_queue.go) and what works *)
(* on it: the incident-created callback, which enqueues; the worker of      *)
(* AIService, which claims a batch and analyses each item in a goroutine;   *)
(* the on-demand analysis of an incident; and the API by which an external  *)
(* worker reports an item done or failed.                                   *)
(*                                                                          *)
(* Complete is two writes: the item is marked completed, then the result is *)
(* inserted.  The worker takes the oldest item; here it takes any, since    *)
(* an incident is enqueued at most once (Incidents!AnnouncedAtMostOnce).    *)
(***************************************************************************)
EXTENDS Naturals, FiniteSets

CONSTANTS
    Incidents,
    Requests,       \* bound: HTTP handlers at a time
    MaxConcurrent,  \* cfg.MaxConcurrent
    RetryCount      \* cfg.RetryCount

ASSUME AIQueueAssumption ==
    /\ Incidents # {}
    /\ MaxConcurrent \in Nat \ {0} /\ RetryCount \in Nat

VARIABLES
    enabled,    \* cfg.Enabled and an enabled provider
    enqueued,   \* incidents whose created callback has run
    queue,      \* the queue collection, by incident
    results,    \* how many results the results collection has for an incident
    worker,     \* where workerLoop is
    claimed,    \* the items ClaimPending returned
    job,        \* the goroutines of processQueue, one per claimed item
    request,    \* the handlers
    faults      \* whether Mongo calls may fail and the process may restart, at all

vars == <<faults, enabled, enqueued, queue, results, worker, claimed, job, request>>

Active == {"pending", "processing"}
Statuses == Active \cup {"none", "completed", "failed"}
WorkPCs == {"idle", "start", "call", "fail", "mark", "insert"}
IdleJob == [pc |-> "idle", attempt |-> 0]
AnyIncident == CHOOSE i \in Incidents : TRUE
IdleRequest == [pc |-> "idle", incident |-> AnyIncident]
JobStates == [pc : WorkPCs, attempt : 0..RetryCount]
RequestStates == [pc : WorkPCs \ {"start"}, incident : Incidents]

Init ==
    /\ faults \in BOOLEAN
    /\ enabled \in BOOLEAN
    /\ enqueued = {}
    /\ queue = [i \in Incidents |-> "none"]
    /\ results = [i \in Incidents |-> 0]
    /\ worker = "waiting"
    /\ claimed = {}
    /\ job = [i \in Incidents |-> IdleJob]
    /\ request = [r \in Requests |-> IdleRequest]

-----------------------------------------------------------------------------
(***************************************************************************)
(* The repository.                                                         *)
(***************************************************************************)
\* Mutant: the update does not look at the item's status.
SetStatusUnfiltered(i, status) == queue' = [queue EXCEPT ![i] = status]

\* UpdateOne with the status filter; it matches when the item is active.
SetStatus(i, status) ==
    queue' = [queue EXCEPT ![i] = IF @ \in Active THEN status ELSE @]

\* Mutant: any item can be completed.
MatchedAlways(i) == TRUE

\* Mutant: a completed item can be completed again.
MatchedCompleted(i) == queue[i] \in Active \cup {"completed"}

Matched(i) == queue[i] \in Active

\* Fail; a write may be lost, and the caller ignores the error.
Fail(i) ==
    /\ SetStatus(i, "failed") \/ (faults /\ UNCHANGED queue)
    /\ UNCHANGED results

\* The second write of Complete.
InsertResult(i) ==
    /\ \/ results' = [results EXCEPT ![i] = @ + 1]
       \/ faults /\ UNCHANGED results
    /\ UNCHANGED queue

\* EnqueueIncidentAnalysis: skipped when AI is off; an active item is left alone.
Enqueue(i) ==
    /\ i \notin enqueued
    /\ enqueued' = enqueued \cup {i}
    /\ \/ enabled /\ queue' = [queue EXCEPT ![i] = IF @ \in Active THEN @ ELSE "pending"]
       \/ (~enabled \/ faults) /\ UNCHANGED queue
    /\ UNCHANGED <<faults, enabled, results, worker, claimed, job, request>>

\* The retention job deletes by age, whatever the status.
PruneBefore(i) ==
    /\ queue[i] # "none" \/ results[i] > 0
    /\ \/ queue' = [queue EXCEPT ![i] = "none"] /\ UNCHANGED results
       \/ results' = [results EXCEPT ![i] = 0] /\ queue' = [queue EXCEPT ![i] = "none"]
    /\ UNCHANGED <<faults, enabled, enqueued, worker, claimed, job, request>>

-----------------------------------------------------------------------------
(***************************************************************************)
(* The worker.                                                             *)
(***************************************************************************)
Tick ==
    /\ worker = "waiting" /\ enabled
    /\ worker' = "claiming"
    /\ UNCHANGED <<faults, enabled, enqueued, queue, results, claimed, job, request>>

Claim(i) ==
    /\ worker = "claiming" /\ Cardinality(claimed) < MaxConcurrent
    /\ queue[i] = "pending"
    /\ queue' = [queue EXCEPT ![i] = "processing"]
    /\ claimed' = claimed \cup {i}
    /\ UNCHANGED <<faults, enabled, enqueued, results, worker, job, request>>

\* processQueue drops the items claimed before the error.
ClaimError ==
    /\ faults /\ worker = "claiming"
    /\ \/ UNCHANGED queue
       \/ \E i \in Incidents : queue[i] = "pending" /\ queue' = [queue EXCEPT ![i] = "processing"]
    /\ worker' = "waiting"
    /\ claimed' = {}
    /\ UNCHANGED <<faults, enabled, enqueued, results, job, request>>

StartJobs ==
    /\ worker = "claiming"
    /\ Cardinality(claimed) = MaxConcurrent \/ \A i \in Incidents : queue[i] # "pending"
    /\ worker' = IF claimed = {} THEN "waiting" ELSE "running"
    /\ job' = [i \in Incidents |->
                 IF i \in claimed THEN [IdleJob EXCEPT !.pc = "start"] ELSE job[i]]
    /\ UNCHANGED <<faults, enabled, enqueued, queue, results, claimed, request>>

\* wg.Wait
JobsDone ==
    /\ worker = "running" /\ \A i \in claimed : job[i].pc = "idle"
    /\ worker' = "waiting"
    /\ claimed' = {}
    /\ UNCHANGED <<faults, enabled, enqueued, queue, results, job, request>>

JobGoto(i, label) == job' = [job EXCEPT ![i].pc = label]
JobReturns(i) == job' = [job EXCEPT ![i] = IdleJob]

\* Mutant: the early returns forget to fail the item.
PrepareReturns(i) ==
    /\ job[i].pc = "start"
    /\ JobGoto(i, "call") \/ JobReturns(i)
    /\ UNCHANGED <<faults, enabled, enqueued, queue, results, worker, claimed, request>>

\* No provider, or the incident or template cannot be read: Fail.
Prepare(i) ==
    /\ job[i].pc = "start"
    /\ JobGoto(i, "call") \/ JobGoto(i, "fail")
    /\ UNCHANGED <<faults, enabled, enqueued, queue, results, worker, claimed, request>>

\* Mutant: one attempt too many.
MoreAttemptsInclusive(n) == n <= RetryCount

MoreAttempts(n) == n < RetryCount

Analyze(i) ==
    /\ job[i].pc = "call"
    /\ \/ JobGoto(i, "mark")
       \/ /\ MoreAttempts(job[i].attempt)
          /\ job' = [job EXCEPT ![i].attempt = @ + 1]
       \/ ~MoreAttempts(job[i].attempt) /\ JobGoto(i, "fail")
    /\ UNCHANGED <<faults, enabled, enqueued, queue, results, worker, claimed, request>>

FailItem(i) ==
    /\ job[i].pc = "fail"
    /\ Fail(i)
    /\ JobReturns(i)
    /\ UNCHANGED <<faults, enabled, enqueued, worker, claimed, request>>

\* Complete, its first write and its second.
CompleteItem(i) ==
    /\ job[i].pc = "mark"
    /\ \/ SetStatus(i, "completed") /\ Matched(i) /\ JobGoto(i, "insert")
       \/ ~Matched(i) /\ UNCHANGED queue /\ JobReturns(i)
       \/ faults /\ (SetStatus(i, "completed") \/ UNCHANGED queue) /\ JobReturns(i)
    /\ UNCHANGED results
    /\ UNCHANGED <<faults, enabled, enqueued, worker, claimed, request>>

StoreResult(i) ==
    /\ job[i].pc = "insert"
    /\ InsertResult(i)
    /\ JobReturns(i)
    /\ UNCHANGED <<faults, enabled, enqueued, worker, claimed, request>>

-----------------------------------------------------------------------------
(***************************************************************************)
(* The handlers: AnalyzeIncident, and done and failed for external workers. *)
(***************************************************************************)
RequestGoto(r, label) == request' = [request EXCEPT ![r].pc = label]
RequestReturns(r) == request' = [request EXCEPT ![r] = IdleRequest]

Begin(r, i, label) ==
    /\ request[r].pc = "idle"
    /\ request' = [request EXCEPT ![r] = [pc |-> label, incident |-> i]]
    /\ UNCHANGED <<faults, enabled, enqueued, queue, results, worker, claimed, job>>

AnalyzeIncident(r) == \E i \in enqueued : enabled /\ Begin(r, i, "call")
ReportDone(r) == \E i \in enqueued : Begin(r, i, "mark")
ReportFailed(r) == \E i \in enqueued : Begin(r, i, "fail")

\* The provider answers, or the request ends with its error.
ProviderAnswers(r) ==
    /\ request[r].pc = "call"
    /\ RequestGoto(r, "mark") \/ RequestReturns(r)
    /\ UNCHANGED <<faults, enabled, enqueued, queue, results, worker, claimed, job>>

RequestFails(r) ==
    LET i == request[r].incident IN
    /\ request[r].pc = "fail"
    /\ Fail(i)
    /\ RequestReturns(r)
    /\ UNCHANGED <<faults, enabled, enqueued, worker, claimed, job>>

\* Without an active item Complete is an error and the result is not stored.
RequestCompletes(r) ==
    LET i == request[r].incident IN
    /\ request[r].pc = "mark"
    /\ \/ SetStatus(i, "completed") /\ Matched(i) /\ RequestGoto(r, "insert")
       \/ ~Matched(i) /\ UNCHANGED queue /\ RequestReturns(r)
       \/ faults /\ (SetStatus(i, "completed") \/ UNCHANGED queue) /\ RequestReturns(r)
    /\ UNCHANGED results
    /\ UNCHANGED <<faults, enabled, enqueued, worker, claimed, job>>

RequestStores(r) ==
    LET i == request[r].incident IN
    /\ request[r].pc = "insert"
    /\ InsertResult(i)
    /\ RequestReturns(r)
    /\ UNCHANGED <<faults, enabled, enqueued, worker, claimed, job>>

-----------------------------------------------------------------------------
SaveConfig ==
    /\ enabled' = ~enabled
    /\ UNCHANGED <<faults, enqueued, queue, results, worker, claimed, job, request>>

\* The process ends (StopWorker does not wait for the analyses) and starts.
Restart ==
    /\ faults
    /\ worker' = "waiting" /\ claimed' = {}
    /\ job' = [i \in Incidents |-> IdleJob]
    /\ request' = [r \in Requests |-> IdleRequest]
    /\ UNCHANGED <<faults, enabled, enqueued, queue, results>>

Job(i) == Prepare(i) \/ Analyze(i) \/ FailItem(i) \/ CompleteItem(i) \/ StoreResult(i)

Handle(r) ==
    \/ AnalyzeIncident(r) \/ ReportDone(r) \/ ReportFailed(r)
    \/ ProviderAnswers(r) \/ RequestFails(r) \/ RequestCompletes(r) \/ RequestStores(r)

Next ==
    \/ \E i \in Incidents : Enqueue(i) \/ PruneBefore(i) \/ Claim(i) \/ Job(i)
    \/ Tick \/ ClaimError \/ StartJobs \/ JobsDone
    \/ \E r \in Requests : Handle(r)
    \/ SaveConfig \/ Restart

Spec == Init /\ [][Next]_vars

\* The ticker fires and goroutines proceed; a provider call has a timeout.
Fairness ==
    /\ WF_vars(Tick) /\ WF_vars(StartJobs) /\ WF_vars(JobsDone)
    /\ \A i \in Incidents : WF_vars(Claim(i)) /\ WF_vars(Job(i))

FairSpec == Spec /\ Fairness

-----------------------------------------------------------------------------
TypeOK ==
    /\ faults \in BOOLEAN
    /\ enabled \in BOOLEAN
    /\ enqueued \subseteq Incidents
    /\ queue \in [Incidents -> Statuses]
    /\ results \in [Incidents -> Nat]
    /\ worker \in {"waiting", "claiming", "running"}
    /\ claimed \subseteq Incidents
    /\ job \in [Incidents -> JobStates]
    /\ request \in [Requests -> RequestStates]

\* However the worker, on-demand analyses and external workers race for one
\* item, at most one of them gets to store its result: Complete's conditional
\* update decides.
OneResult == \A i \in Incidents : results[i] <= 1

\* An item reported failed has no result, now or later: a failure that loses the
\* race against a completion does not overwrite it, nor the other way round.
FailedHasNoResult ==
    \A i \in Incidents : queue[i] = "failed" =>
        /\ results[i] = 0
        /\ job[i].pc # "insert"
        /\ \A r \in Requests : request[r].incident = i => request[r].pc # "insert"

\* A finished item is never taken up again, only deleted.
FinishedIsFinal ==
    [][\A i \in Incidents :
         queue[i] \in {"completed", "failed"} => queue'[i] \in {queue[i], "none"}]_vars

\* While AI stays enabled, what is queued is analysed: the item leaves the queue
\* as completed or failed (or is pruned).  A fault may break this for good, since
\* nothing returns an item that is processing to the queue.
QueuedIsAnalysed ==
    \A i \in Incidents :
        (~faults /\ queue[i] \in Active) ~> (queue[i] \notin Active \/ ~enabled)

=============================================================================
