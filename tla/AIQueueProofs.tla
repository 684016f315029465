---------------------------- MODULE AIQueueProofs ----------------------------
(***************************************************************************)
(* Proofs about AIQueue: type correctness, at most one result per item, no *)
(* result for a failed item, and that finished items stay finished; and    *)
(* about AIConfig, beside it: the providers' documents stay sound.         *)
(*                                                                         *)
(* OneResult alone is not inductive: a result is stored two steps after    *)
(* the conditional update that allows it.  What is preserved is that of    *)
(* the results stored and the goroutines about to store one there is at    *)
(* most one per incident, and only when its item is no longer active and   *)
(* cannot become so again, because its incident has been enqueued.         *)
(***************************************************************************)
EXTENDS AIQueue, AIConfig, TLAPS

\* The goroutines about to insert a result for i.
Inserting(r, i) == request[r].pc = "insert" /\ request[r].incident = i

Spent(i) == i \in enqueued /\ queue[i] \in {"completed", "none"}

ResultInv ==
    \A i \in Incidents :
        /\ results[i] <= 1
        /\ queue[i] # "none" => i \in enqueued
        /\ results[i] > 0 => Spent(i)
        /\ job[i].pc = "insert" =>
             Spent(i) /\ results[i] = 0 /\ \A r \in Requests : ~Inserting(r, i)
        /\ \A r \in Requests : Inserting(r, i) =>
             /\ Spent(i) /\ results[i] = 0
             /\ \A s \in Requests \ {r} : ~Inserting(s, i)

IInv == TypeOK /\ ResultInv

-----------------------------------------------------------------------------
LEMMA InitIInv == Init => IInv
<1> SUFFICES ASSUME Init PROVE IInv
  OBVIOUS
<1> AnyIncident \in Incidents
  BY AIQueueAssumption DEF AnyIncident
<1>1. TypeOK
  BY AIQueueAssumption DEF Init, TypeOK, IdleJob, IdleRequest, WorkPCs, Statuses, JobStates,
                           RequestStates
<1>2. ResultInv
  BY DEF Init, ResultInv, IdleJob, IdleRequest, Inserting
<1> QED
  BY <1>1, <1>2 DEF IInv

(***************************************************************************)
(* Type correctness, an action at a time.                                  *)
(***************************************************************************)
LEMMA GotoType ==
  ASSUME TypeOK
  PROVE  /\ \A i \in Incidents, label \in WorkPCs :
              JobGoto(i, label) => job' \in [Incidents -> JobStates]
         /\ \A r \in Requests, label \in WorkPCs \ {"start"} :
              RequestGoto(r, label) => request' \in [Requests -> RequestStates]
<1>1. ASSUME NEW i \in Incidents, NEW label \in WorkPCs, JobGoto(i, label)
      PROVE job' \in [Incidents -> JobStates]
  <2>1. [job[i] EXCEPT !.pc = label] \in JobStates
    BY DEF TypeOK, JobStates
  <2> QED
    BY <1>1, <2>1 DEF TypeOK, JobGoto
<1>2. ASSUME NEW r \in Requests, NEW label \in WorkPCs \ {"start"}, RequestGoto(r, label)
      PROVE request' \in [Requests -> RequestStates]
  <2>1. [request[r] EXCEPT !.pc = label] \in RequestStates
    BY DEF TypeOK, RequestStates
  <2> QED
    BY <1>2, <2>1 DEF TypeOK, RequestGoto
<1> QED
  BY <1>1, <1>2

LEMMA TypeNext == TypeOK /\ [Next]_vars => TypeOK'
<1> SUFFICES ASSUME TypeOK, [Next]_vars PROVE TypeOK'
  OBVIOUS
<1> USE DEF TypeOK, Statuses, Active
<1>0. IdleRequest \in RequestStates /\ IdleJob \in JobStates
  BY AIQueueAssumption DEF IdleRequest, IdleJob, AnyIncident, RequestStates, JobStates, WorkPCs
<1>1. ASSUME NEW i \in Incidents, Enqueue(i) \/ PruneBefore(i) \/ Claim(i)
      PROVE TypeOK'
  BY <1>1 DEF Enqueue, PruneBefore, Claim
<1>2. ASSUME NEW i \in Incidents, Job(i) PROVE TypeOK'
  <2>1. CASE Prepare(i)
    <3>1. job' \in [Incidents -> JobStates]
      BY <2>1, GotoType DEF Prepare, WorkPCs
    <3> QED
      BY <2>1, <3>1 DEF Prepare
  <2>2. CASE Analyze(i)
    <3>1. job' \in [Incidents -> JobStates]
      <4>1. CASE JobGoto(i, "mark") \/ JobGoto(i, "fail")
        BY <4>1, GotoType DEF WorkPCs
      <4>2. CASE MoreAttempts(job[i].attempt) /\ job' = [job EXCEPT ![i].attempt = @ + 1]
        BY <4>2, AIQueueAssumption DEF MoreAttempts, JobStates
      <4> QED
        BY <2>2, <4>1, <4>2 DEF Analyze
    <3> QED
      BY <2>2, <3>1 DEF Analyze
  <2>3. CASE FailItem(i)
    BY <1>0, <2>3 DEF FailItem, Fail, SetStatus, JobReturns
  <2>4. CASE CompleteItem(i)
    <3>1. job' \in [Incidents -> JobStates]
      BY <1>0, <2>4, GotoType DEF CompleteItem, JobReturns, WorkPCs
    <3> QED
      BY <2>4, <3>1 DEF CompleteItem, SetStatus
  <2>5. CASE StoreResult(i)
    BY <1>0, <2>5 DEF StoreResult, InsertResult, JobReturns
  <2> QED
    BY <1>2, <2>1, <2>2, <2>3, <2>4, <2>5 DEF Job
<1>3. CASE Tick \/ ClaimError \/ JobsDone \/ SaveConfig
  BY <1>3 DEF Tick, ClaimError, JobsDone, SaveConfig
<1>4. CASE StartJobs
  BY <1>0, <1>4 DEF StartJobs, IdleJob, JobStates, WorkPCs
<1>5. ASSUME NEW r \in Requests, Handle(r) PROVE TypeOK'
  <2>1. CASE AnalyzeIncident(r) \/ ReportDone(r) \/ ReportFailed(r)
    BY <2>1 DEF AnalyzeIncident, ReportDone, ReportFailed, Begin, RequestStates, WorkPCs
  <2>2. CASE ProviderAnswers(r)
    <3>1. request' \in [Requests -> RequestStates]
      BY <1>0, <2>2, GotoType DEF ProviderAnswers, RequestReturns, WorkPCs
    <3> QED
      BY <2>2, <3>1 DEF ProviderAnswers
  <2>3. CASE RequestFails(r)
    BY <1>0, <2>3 DEF RequestFails, Fail, SetStatus, RequestReturns
  <2>4. CASE RequestCompletes(r)
    <3>1. request' \in [Requests -> RequestStates]
      BY <1>0, <2>4, GotoType DEF RequestCompletes, RequestReturns, WorkPCs
    <3> QED
      BY <2>4, <3>1 DEF RequestCompletes, SetStatus, RequestStates
  <2>5. CASE RequestStores(r)
    BY <1>0, <2>5 DEF RequestStores, InsertResult, RequestReturns
  <2> QED
    BY <1>5, <2>1, <2>2, <2>3, <2>4, <2>5 DEF Handle
<1>6. CASE Restart
  BY <1>0, <1>6 DEF Restart
<1>7. CASE UNCHANGED vars
  BY <1>7 DEF vars
<1> QED
  BY <1>1, <1>2, <1>3, <1>4, <1>5, <1>6, <1>7 DEF Next

(***************************************************************************)
(* A step that takes up no insertion, stores nothing, and leaves spent     *)
(* items spent keeps ResultInv.                                            *)
(***************************************************************************)
LEMMA ResultFrame ==
  ASSUME TypeOK, ResultInv, TypeOK',
         enqueued \subseteq enqueued',
         \A i \in Incidents : results'[i] \in {0, results[i]},
         \A i \in Incidents : queue'[i] # "none" => i \in enqueued',
         \A i \in Incidents : Spent(i) => Spent(i)',
         \A i \in Incidents : job'[i].pc = "insert" => job[i].pc = "insert",
         \A r \in Requests : request'[r].pc = "insert" => request'[r] = request[r]
  PROVE  ResultInv'
<1> \A i \in Incidents : results[i] \in Nat
  BY DEF TypeOK, JobStates, RequestStates
<1> \A r \in Requests, i \in Incidents : Inserting(r, i)' => Inserting(r, i)
  BY DEF Inserting
<1> QED
  BY DEF ResultInv

LEMMA ResultNext == IInv /\ [Next]_vars => ResultInv'
<1> SUFFICES ASSUME IInv, [Next]_vars PROVE ResultInv'
  OBVIOUS
<1>0. TypeOK /\ ResultInv /\ TypeOK'
  BY TypeNext DEF IInv
<1>q. \A i \in Incidents : queue[i] # "none" => i \in enqueued
  BY <1>0 DEF ResultInv
<1> USE <1>0
<1>1. ASSUME NEW i \in Incidents, Enqueue(i) PROVE ResultInv'
  <2>1. \A x \in Incidents : Spent(x) => Spent(x)'
    BY <1>1 DEF Enqueue, Spent, TypeOK
  <2>2. \A x \in Incidents : queue'[x] # "none" => x \in enqueued'
    BY <1>1, <1>q DEF Enqueue, TypeOK
  <2> QED
    BY <1>1, <2>1, <2>2, ResultFrame DEF Enqueue
<1>2. ASSUME NEW i \in Incidents, PruneBefore(i) \/ Claim(i) PROVE ResultInv'
  <2>1. \A x \in Incidents : Spent(x) => Spent(x)'
    BY <1>2 DEF PruneBefore, Claim, Spent, TypeOK
  <2>2. \A x \in Incidents : queue'[x] # "none" => x \in enqueued'
    BY <1>2, <1>q DEF PruneBefore, Claim, TypeOK
  <2>3. \A x \in Incidents : results'[x] \in {0, results[x]}
    BY <1>2 DEF PruneBefore, Claim, TypeOK
  <2> QED
    BY <1>2, <2>1, <2>2, <2>3, ResultFrame DEF PruneBefore, Claim
<1>3. ASSUME NEW i \in Incidents, Job(i) PROVE ResultInv'
  <2>1. CASE Prepare(i) \/ Analyze(i)
    <3>1. \A x \in Incidents : job'[x].pc = "insert" => job[x].pc = "insert"
      BY <2>1 DEF Prepare, Analyze, JobGoto, TypeOK, JobStates
    <3> QED
      BY <2>1, <3>1, <1>q, ResultFrame DEF Prepare, Analyze, Spent
  <2>2. CASE FailItem(i)
    <3>1. \A x \in Incidents : Spent(x) => Spent(x)'
      BY <2>2 DEF FailItem, Fail, SetStatus, Spent, Active, TypeOK
    <3>2. \A x \in Incidents : queue'[x] # "none" => x \in enqueued'
      BY <2>2, <1>q DEF FailItem, Fail, SetStatus, Active, TypeOK
    <3>3. \A x \in Incidents : job'[x].pc = "insert" => job[x].pc = "insert"
      BY <2>2 DEF FailItem, JobReturns, IdleJob, TypeOK, JobStates
    <3> QED
      BY <2>2, <3>1, <3>2, <3>3, ResultFrame DEF FailItem, Fail
  <2>3. CASE CompleteItem(i)
    <3>1. \A x \in Incidents : Spent(x) => Spent(x)'
      BY <2>3 DEF CompleteItem, SetStatus, Spent, Active, TypeOK
    <3>2. \A x \in Incidents : queue'[x] # "none" => x \in enqueued'
      BY <2>3, <1>q DEF CompleteItem, SetStatus, Active, TypeOK
    <3>3. CASE job'[i].pc # "insert"
      <4>1. \A x \in Incidents : job'[x].pc = "insert" => job[x].pc = "insert"
        BY <2>3, <3>3 DEF CompleteItem, JobGoto, JobReturns, TypeOK, JobStates
      <4> QED
        BY <2>3, <3>1, <3>2, <4>1, ResultFrame DEF CompleteItem
    <3>4. CASE job'[i].pc = "insert"
      <4>1. Matched(i) /\ queue' = [queue EXCEPT ![i] = "completed"]
            /\ job' = [job EXCEPT ![i].pc = "insert"]
        BY <2>3, <3>4 DEF CompleteItem, SetStatus, Matched, JobGoto, JobReturns, IdleJob,
                          TypeOK, JobStates
      <4>2. ~Spent(i) /\ Spent(i)'
        BY <2>3, <4>1, <1>q DEF Matched, Active, Spent, CompleteItem, TypeOK, JobStates,
                                RequestStates
      <4>3. results[i] = 0 /\ \A r \in Requests : ~Inserting(r, i)
        BY <4>2 DEF ResultInv, TypeOK, JobStates, RequestStates
      <4> QED
        BY <2>3, <3>1, <3>2, <4>1, <4>2, <4>3 DEF CompleteItem, ResultInv, Inserting,
                                                  TypeOK, JobStates, RequestStates
    <3> QED
      BY <3>3, <3>4
  <2>4. CASE StoreResult(i)
    <3>1. Spent(i) /\ results[i] = 0 /\ \A r \in Requests : ~Inserting(r, i)
      BY <2>4 DEF StoreResult, ResultInv
    <3>2. /\ job' = [job EXCEPT ![i] = IdleJob]
          /\ UNCHANGED <<queue, request, enqueued>>
          /\ \A x \in Incidents \ {i} : results'[x] = results[x]
          /\ results'[i] <= 1
      BY <2>4, <3>1 DEF StoreResult, InsertResult, JobReturns, TypeOK, JobStates, RequestStates
    <3> QED
      BY <3>1, <3>2 DEF ResultInv, Inserting, Spent, IdleJob, TypeOK, JobStates, RequestStates
  <2> QED
    BY <1>3, <2>1, <2>2, <2>3, <2>4 DEF Job
<1>4. CASE Tick \/ JobsDone \/ SaveConfig \/ StartJobs
  <2>1. \A x \in Incidents : job'[x].pc = "insert" => job[x].pc = "insert"
    BY <1>4 DEF Tick, JobsDone, SaveConfig, StartJobs, IdleJob, TypeOK, JobStates
  <2> QED
    BY <1>4, <1>q, <2>1, ResultFrame DEF Tick, JobsDone, SaveConfig, StartJobs, Spent
<1>5. CASE ClaimError
  <2>1. \A x \in Incidents : Spent(x) => Spent(x)'
    BY <1>5 DEF ClaimError, Spent, TypeOK
  <2>2. \A x \in Incidents : queue'[x] # "none" => x \in enqueued'
    BY <1>5, <1>q DEF ClaimError, TypeOK
  <2> QED
    BY <1>5, <2>1, <2>2, ResultFrame DEF ClaimError
<1>6. ASSUME NEW r \in Requests, Handle(r) PROVE ResultInv'
  <2>1. CASE AnalyzeIncident(r) \/ ReportDone(r) \/ ReportFailed(r) \/ ProviderAnswers(r)
    <3>1. \A s \in Requests : request'[s].pc = "insert" => request'[s] = request[s]
      BY <2>1 DEF AnalyzeIncident, ReportDone, ReportFailed, ProviderAnswers, Begin,
                  RequestGoto, RequestReturns, IdleRequest, TypeOK, JobStates, RequestStates
    <3> QED
      BY <2>1, <3>1, <1>q, ResultFrame DEF AnalyzeIncident, ReportDone, ReportFailed,
                                           ProviderAnswers, Begin, Spent
  <2> DEFINE i == request[r].incident
  <2>i. i \in Incidents
    BY DEF TypeOK, JobStates, RequestStates
  <2>2. CASE RequestFails(r)
    <3>1. \A x \in Incidents : Spent(x) => Spent(x)'
      BY <2>2, <2>i DEF RequestFails, Fail, SetStatus, Spent, Active, TypeOK
    <3>2. \A x \in Incidents : queue'[x] # "none" => x \in enqueued'
      BY <2>2, <2>i, <1>q DEF RequestFails, Fail, SetStatus, Active, TypeOK
    <3>3. \A s \in Requests : request'[s].pc = "insert" => request'[s] = request[s]
      BY <2>2 DEF RequestFails, RequestReturns, IdleRequest, TypeOK, JobStates, RequestStates
    <3> QED
      BY <2>2, <3>1, <3>2, <3>3, ResultFrame DEF RequestFails, Fail
  <2>3. CASE RequestCompletes(r)
    <3>1. \A x \in Incidents : Spent(x) => Spent(x)'
      BY <2>3, <2>i DEF RequestCompletes, SetStatus, Spent, Active, TypeOK
    <3>2. \A x \in Incidents : queue'[x] # "none" => x \in enqueued'
      BY <2>3, <2>i, <1>q DEF RequestCompletes, SetStatus, Active, TypeOK
    <3>3. CASE request'[r].pc # "insert"
      <4>1. \A s \in Requests : request'[s].pc = "insert" => request'[s] = request[s]
        BY <2>3, <3>3 DEF RequestCompletes, RequestGoto, RequestReturns, TypeOK, JobStates,
                          RequestStates
      <4> QED
        BY <2>3, <3>1, <3>2, <4>1, ResultFrame DEF RequestCompletes
    <3>4. CASE request'[r].pc = "insert"
      <4>1. Matched(i) /\ queue' = [queue EXCEPT ![i] = "completed"]
            /\ request' = [request EXCEPT ![r].pc = "insert"]
        BY <2>3, <2>i, <3>4 DEF RequestCompletes, SetStatus, Matched, RequestGoto,
                                RequestReturns, IdleRequest, TypeOK, JobStates, RequestStates
      <4>2. ~Spent(i) /\ Spent(i)'
        BY <2>3, <2>i, <4>1, <1>q DEF Matched, Active, Spent, RequestCompletes, TypeOK,
                                      JobStates, RequestStates
      <4>3. results[i] = 0 /\ job[i].pc # "insert" /\ \A s \in Requests : ~Inserting(s, i)
        BY <4>2, <2>i DEF ResultInv, TypeOK, JobStates
      <4>4. \A s \in Requests, x \in Incidents :
              Inserting(s, x)' => Inserting(s, x) \/ (s = r /\ x = i)
        BY <4>1 DEF Inserting, TypeOK, JobStates, RequestStates
      <4> QED
        BY <2>3, <2>i, <3>1, <3>2, <4>1, <4>2, <4>3, <4>4 DEF RequestCompletes, ResultInv,
                                                              TypeOK, JobStates, RequestStates
    <3> QED
      BY <3>3, <3>4
  <2>4. CASE RequestStores(r)
    <3>0. Inserting(r, i)
      BY <2>4 DEF RequestStores, Inserting
    <3>1. Spent(i) /\ results[i] = 0 /\ job[i].pc # "insert"
          /\ \A s \in Requests \ {r} : ~Inserting(s, i)
      BY <2>i, <3>0 DEF ResultInv
    <3>2. /\ request' = [request EXCEPT ![r] = IdleRequest]
          /\ UNCHANGED <<queue, job, enqueued>>
          /\ \A x \in Incidents \ {i} : results'[x] = results[x]
          /\ results'[i] <= 1
      BY <2>4, <2>i, <3>1 DEF RequestStores, InsertResult, RequestReturns, TypeOK,
                              JobStates, RequestStates
    <3>3. \A s \in Requests, x \in Incidents : Inserting(s, x)' => Inserting(s, x) /\ s # r
      BY <3>2 DEF Inserting, IdleRequest, TypeOK, JobStates, RequestStates
    <3> QED
      BY <2>i, <3>1, <3>2, <3>3 DEF ResultInv, Spent
  <2> QED
    BY <1>6, <2>1, <2>2, <2>3, <2>4 DEF Handle
<1>7. CASE Restart
  <2>1. \A x \in Incidents : job'[x].pc # "insert"
    BY <1>7 DEF Restart, IdleJob
  <2>2. \A s \in Requests : request'[s].pc # "insert"
    BY <1>7 DEF Restart, IdleRequest
  <2> QED
    BY <1>7, <1>q, <2>1, <2>2, ResultFrame DEF Restart, Spent
<1>8. CASE UNCHANGED vars
  BY <1>8, <1>q, ResultFrame DEF vars, Spent
<1> QED
  BY <1>1, <1>2, <1>3, <1>4, <1>5, <1>6, <1>7, <1>8 DEF Next

(***************************************************************************)
(* The queue, the results and the goroutines keep their types, for any     *)
(* incidents, handlers, retries and faults.                                *)
(***************************************************************************)
THEOREM TypeCorrect == Spec => []TypeOK
<1>1. Init => TypeOK
  BY InitIInv DEF IInv
<1> QED
  BY <1>1, TypeNext, PTL DEF Spec

LEMMA Invariant == Spec => []IInv
<1>1. IInv /\ [Next]_vars => IInv'
  BY TypeNext, ResultNext DEF IInv
<1> QED
  BY InitIInv, <1>1, PTL DEF Spec

(***************************************************************************)
(* Complete's conditional update lets at most one of the worker, on-demand *)
(* analyses and external workers store a result for an incident, and none  *)
(* once the item was reported failed.                                      *)
(***************************************************************************)
THEOREM OneResultTheorem == Spec => [](OneResult /\ FailedHasNoResult)
<1>1. IInv => OneResult
  BY DEF IInv, ResultInv, OneResult
<1>2. IInv => FailedHasNoResult
  BY DEF IInv, ResultInv, TypeOK, FailedHasNoResult, Inserting, Spent
<1> QED
  BY Invariant, <1>1, <1>2, PTL

(***************************************************************************)
(* Neither a late completion, nor a late failure, nor the worker takes up  *)
(* an item again once it is completed or failed.                           *)
(***************************************************************************)
THEOREM FinishedTheorem == Spec => FinishedIsFinal
<1> DEFINE Kept == \A i \in Incidents :
              queue[i] \in {"completed", "failed"} => queue'[i] \in {queue[i], "none"}
<1>1. IInv /\ [Next]_vars => [Kept]_vars
  <2> SUFFICES ASSUME IInv, [Next]_vars PROVE Kept \/ UNCHANGED vars
    OBVIOUS
  <2>0. TypeOK /\ \A i \in Incidents : queue[i] # "none" => i \in enqueued
    BY DEF IInv, ResultInv
  <2> USE DEF TypeOK, Active
  <2>1. ASSUME NEW i \in Incidents, Enqueue(i) \/ PruneBefore(i) \/ Claim(i) PROVE Kept
    BY <2>0, <2>1 DEF Enqueue, PruneBefore, Claim
  <2>2. ASSUME NEW i \in Incidents, Job(i) PROVE Kept
    BY <2>0, <2>2 DEF Job, Prepare, Analyze, FailItem, CompleteItem, StoreResult,
                      Fail, InsertResult, SetStatus
  <2>3. ASSUME NEW r \in Requests, Handle(r) PROVE Kept
    <3>1. request[r].incident \in Incidents
      BY <2>0 DEF RequestStates
    <3>2. UNCHANGED queue \/ SetStatus(request[r].incident, "failed")
                         \/ SetStatus(request[r].incident, "completed")
      BY <2>3 DEF Handle, AnalyzeIncident, ReportDone, ReportFailed, ProviderAnswers, Begin,
                  RequestFails, RequestCompletes, RequestStores, Fail, InsertResult
    <3> QED
      BY <2>0, <3>1, <3>2 DEF SetStatus
  <2>4. CASE Tick \/ StartJobs \/ JobsDone \/ SaveConfig \/ Restart
    BY <2>4 DEF Tick, StartJobs, JobsDone, SaveConfig, Restart
  <2>5. CASE ClaimError
    BY <2>0, <2>5 DEF ClaimError
  <2> QED
    BY <2>1, <2>2, <2>3, <2>4, <2>5 DEF Next
<1> QED
  BY Invariant, <1>1, PTL DEF Spec, FinishedIsFinal

-----------------------------------------------------------------------------
(***************************************************************************)
(* The configuration of the providers.  One request at a time writes; what *)
(* it is going to write has typed keys, and when it has cleared the flags  *)
(* no document has one.  A view that nothing overtook is what the          *)
(* documents say, and an update that no reload follows (of the prompts)    *)
(* writes the providers as they are.  As long as no rotation is botched,   *)
(* the key of version 2 that a rotation may delete is one that nothing was *)
(* encrypted with.                                                         *)
(***************************************************************************)
AnyPrompts == SUBSET (Prompts \cup DefaultPrompts)
AnyOp      == [kind : {"update", "insert"}, p : Providers, c : Configs]
                \cup [kind : {"delete"}, p : Providers, c : {NoConfig}]
                \cup [kind : {"settings"}, p : {""}, c : {NoConfig}]
Views      == SUBSET (Providers \X Secrets)
Tasks      == [phase : {"idle", "write", "get", "swap"}, plan : SUBSET AnyOp, cleared : SUBSET AnyOp,
               prompts : AnyPrompts, view : Views, after : {"idle", "get"}, stale : BOOLEAN]
Servers    == [state : {"down", "boot", "up"}, key : Nat, cache : AnyPrompts, held : Views]
Document   == [secret : Secrets, under : Nat, default : BOOLEAN, enabled : BOOLEAN]

ProvidersTypeOK ==
    /\ docs \in [Providers -> {Absent} \cup Document] /\ settings \in AnyPrompts
    /\ keyFiles \in [KeyPaths -> Nat] /\ keys \in Nat
    /\ server \in Servers
    /\ todo \in [Actors -> Tasks]
    /\ rotation = [phase |-> rotation.phase, left |-> rotation.left, old |-> rotation.old,
                   new |-> rotation.new, wrote |-> rotation.wrote]
    /\ rotation.phase \in {"idle", "run"} /\ rotation.new \in Nat /\ rotation.wrote \in BOOLEAN
    /\ \A p \in DOMAIN rotation.left : p \in Providers /\ rotation.left[p].secret \in Secrets
    /\ lags \in BOOLEAN /\ botched \in BOOLEAN

\* Who may be under way in which state of the server.
TasksRight ==
    /\ \A a, b \in Actors : todo[a].phase = "write" /\ todo[b].phase = "write" => a = b
    /\ server.state = "down" => \A a \in Actors : todo[a].phase = "idle"
    /\ server.state = "boot" => \A h \in Handlers : todo[h].phase = "idle"
    /\ server.state = "up" => todo["boot"].phase = "idle"
    /\ todo["boot"].phase \in {"idle", "write"} /\ (todo["boot"].phase = "write" => todo["boot"].after = "idle")

DefaultsRight ==
    /\ AtMostOneDefault
    /\ \A a \in Actors : todo[a].phase = "write" /\ todo[a].cleared # {} => \A p \in Present : ~docs[p].default

\* A write that changes nothing the service works with.
Harmless(op) ==
    \/ op.kind = "settings"
    \/ /\ op.kind = "update" /\ Opens(server.key, docs[op.p])
       /\ op.c.secret = docs[op.p].secret /\ op.c.enabled = docs[op.p].enabled

Quiet(a) == todo[a].phase = "write" /\ todo[a].after = "idle"

QuietWrites ==
    server.state = "up" /\ ~lags =>
        \A a \in Actors : Quiet(a) => \A op \in todo[a].plan \cup todo[a].cleared : Harmless(op)

ActiveMeanwhile ==
    server.state = "up" /\ ~lags /\ (\A a \in Actors : todo[a].phase = "idle" \/ Quiet(a))
        => active = Enabled(server.key)

ViewsRight ==
    /\ \A a \in Actors : todo[a].phase = "swap" /\ ~todo[a].stale => LockFree /\ todo[a].view = Enabled(server.key)
    /\ ActiveMeanwhile /\ QuietWrites

KeysRight ==
    /\ \A p \in Present : docs[p].under \in 1..keys
    /\ \A f \in KeyPaths : keyFiles[f] <= keys
    /\ IF server.state = "down" THEN server.key = 0 ELSE server.key \in 1..keys
    /\ rotation.phase = "run" => /\ keyFiles["v2"] = rotation.new /\ keyFiles["current"] # rotation.new
                                 /\ rotation.new \in 1..keys
    /\ ~botched =>
          /\ KeysRecoverable
          /\ server.state # "down" => \E f \in KeyPaths : keyFiles[f] = server.key
          /\ rotation.phase = "run" /\ ~rotation.wrote =>
                server.key # rotation.new /\ \A p \in Present : docs[p].under # rotation.new

ProvidersInv == ProvidersTypeOK /\ TasksRight /\ DefaultsRight /\ ViewsRight /\ KeysRight

-----------------------------------------------------------------------------
ConfigOK(cfg) == DOMAIN cfg \subseteq Providers /\ \A p \in DOMAIN cfg : cfg[p] \in Configs

LEMMA ListedOK == ASSUME ProvidersTypeOK, NEW k PROVE ConfigOK(Listed(k))
<1>1. DOMAIN Listed(k) = List(k) /\ List(k) \subseteq Providers
  BY DEF Listed, List, Present
<1>2. ASSUME NEW p \in List(k) PROVE Listed(k)[p] \in Configs
  <2>1. p \in Providers /\ docs[p] # Absent
    BY <1>2 DEF List, Present
  <2>2. docs[p] \in Document
    BY <2>1 DEF ProvidersTypeOK
  <2>3. Listed(k)[p] = [secret |-> docs[p].secret, default |-> docs[p].default, enabled |-> docs[p].enabled]
    BY <1>2 DEF Listed
  <2> QED
    BY <2>2, <2>3 DEF Document, Configs
<1> QED
  BY <1>1, <1>2 DEF ConfigOK

LEMMA WithoutDefaultOK == ASSUME NEW cfg, ConfigOK(cfg) PROVE ConfigOK(WithoutDefault(cfg))
<1>1. DOMAIN WithoutDefault(cfg) = DOMAIN cfg
  BY DEF WithoutDefault
<1>2. ASSUME NEW p \in DOMAIN cfg PROVE WithoutDefault(cfg)[p] \in Configs
  <2>1. cfg[p] \in Configs /\ WithoutDefault(cfg)[p] = [cfg[p] EXCEPT !.default = FALSE]
    BY <1>2 DEF WithoutDefault, ConfigOK
  <2> QED
    BY <2>1 DEF Configs
<1> QED
  BY <1>1, <1>2 DEF ConfigOK

LEMMA WithOK == ASSUME NEW cfg, ConfigOK(cfg), NEW p \in Providers, NEW c \in Configs PROVE ConfigOK(With(cfg, p, c))
BY DEF With, ConfigOK

LEMMA AddOK ==
    ASSUME NEW cfg, ConfigOK(cfg), NEW p \in Providers, NEW c \in Configs, NEW new \in AddProvider(cfg, p, c)
    PROVE  ConfigOK(new)
<1>1. new = With(IF c.default THEN WithoutDefault(cfg) ELSE cfg, p, c)
  BY DEF AddProvider
<1>2. ConfigOK(IF c.default THEN WithoutDefault(cfg) ELSE cfg)
  BY WithoutDefaultOK
<1> QED
  BY <1>1, <1>2, WithOK

LEMMA EditOK ==
    ASSUME NEW cfg, ConfigOK(cfg), NEW p \in Providers, NEW c \in Edits, NEW new \in EditProvider(cfg, p, c)
    PROVE  ConfigOK(new)
<1> DEFINE kept == KeptSecret(cfg[p].secret, c.secret)
<1>1. p \in DOMAIN cfg /\ new = With(IF c.default THEN WithoutDefault(cfg) ELSE cfg, p, [c EXCEPT !.secret = kept])
  BY DEF EditProvider, Edits
<1>2. ConfigOK(IF c.default THEN WithoutDefault(cfg) ELSE cfg)
  BY WithoutDefaultOK
<1>3. cfg[p].secret \in Secrets
  BY <1>1 DEF ConfigOK, Configs
<1>4. kept \in Secrets
  BY <1>3 DEF KeptSecret, Edits
<1> HIDE DEF kept
<1>5. [c EXCEPT !.secret = kept] \in Configs
  BY <1>4 DEF Edits, Configs
<1> QED
  BY <1>1, <1>2, <1>5, WithOK

LEMMA DropOK ==
    ASSUME NEW cfg, ConfigOK(cfg), NEW p, NEW new \in DropProvider(cfg, p)
    PROVE  ConfigOK(new)
BY DEF DropProvider, ConfigOK

LEMMA BootstrapOK ==
    ASSUME NEW cfg, ConfigOK(cfg), NEW p \in Providers, NEW c \in Configs, NEW reset, NEW before
    PROVE  ConfigOK(BootstrapProvider(cfg, p, c, reset, before))
<1> DEFINE cleared == [q \in DOMAIN cfg |-> IF q \in before THEN [cfg[q] EXCEPT !.default = FALSE] ELSE cfg[q]]
           own == IF reset THEN c ELSE [cfg[p] EXCEPT !.default = TRUE]
<1>1. ConfigOK(cleared)
  <2>1. ASSUME NEW q \in DOMAIN cfg PROVE cleared[q] \in Configs
    <3>1. cfg[q] \in Configs /\ (cleared[q] = [cfg[q] EXCEPT !.default = FALSE] \/ cleared[q] = cfg[q])
      BY <2>1 DEF ConfigOK
    <3> HIDE DEF cleared
    <3> QED
      BY <3>1 DEF Configs
  <2> QED
    BY <2>1 DEF ConfigOK
<1>2. BootstrapProvider(cfg, p, c, reset, before) =
        IF p \notin DOMAIN cfg THEN With(WithoutDefault(cfg), p, c) ELSE With(cleared, p, own)
  BY DEF BootstrapProvider
<1>3. p \in DOMAIN cfg => own \in Configs
  BY DEF ConfigOK, Configs
<1> HIDE DEF cleared, own
<1> QED
  BY <1>1, <1>2, <1>3, WithoutDefaultOK, WithOK

LEMMA PlanOK == ASSUME NEW existing, existing \subseteq Providers, NEW cfg, ConfigOK(cfg) PROVE WriteOps(existing, cfg) \subseteq AnyOp
<1>1. ASSUME NEW p \in DOMAIN cfg PROVE Op(IF p \in existing THEN "update" ELSE "insert", p, cfg[p]) \in AnyOp
  BY <1>1 DEF ConfigOK, Op, AnyOp
<1>2. ASSUME NEW p \in existing PROVE Op("delete", p, NoConfig) \in AnyOp
  BY <1>2 DEF Op, AnyOp
<1>3. Op("settings", "", NoConfig) \in AnyOp
  BY DEF Op, AnyOp
<1> QED
  BY <1>1, <1>2, <1>3 DEF WriteOps

LEMMA ServingOK == ASSUME NEW cfg, ConfigOK(cfg) PROVE Serving(cfg) \in Views
<1> SUFFICES ASSUME NEW p \in DOMAIN cfg PROVE p \in Providers /\ cfg[p].secret \in Secrets
  BY DEF Serving, Views
<1> QED
  BY DEF ConfigOK, Configs

LEMMA EnabledOK == ASSUME ProvidersTypeOK, NEW k PROVE Enabled(k) \in Views
<1> SUFFICES ASSUME NEW p \in List(k) PROVE p \in Providers /\ docs[p].secret \in Secrets
  BY DEF Enabled, Views
<1>1. p \in Providers /\ docs[p] # Absent
  BY DEF List, Present
<1>2. docs[p] \in Document
  BY <1>1 DEF ProvidersTypeOK
<1> QED
  BY <1>1, <1>2 DEF Document

LEMMA RefreshedOK ==
    ASSUME ProvidersTypeOK, NEW seen \in AnyPrompts
    PROVE  Refreshed(seen) \in Servers /\ Refreshed(seen).state = server.state /\ Refreshed(seen).key = server.key
<1> DEFINE view == Enabled(server.key)
<1>1. view \in Views /\ Refreshed(seen) = [server EXCEPT !.cache = seen, !.held = view]
  BY EnabledOK DEF Refreshed
<1> HIDE DEF view
<1> QED
  BY <1>1 DEF Servers, ProvidersTypeOK

LEMMA GotOK == ASSUME ProvidersTypeOK, NEW listed \in BOOLEAN PROVE Got(listed) \in Views
BY EnabledOK DEF Got, ProvidersTypeOK, Servers

\* What the five requests that edit have in common.
Begins(a, cfg, seen, prompts, after) ==
    /\ BeginEdit(a, cfg, seen, prompts, after) /\ LockFree
    /\ a \in Actors /\ ConfigOK(cfg) /\ seen \in AnyPrompts /\ prompts \in AnyPrompts /\ after \in {"idle", "get"}
    /\ a \in Handlers => server.state = "up" /\ todo[a].phase = "idle" /\ (after = "idle" => cfg = Listed(server.key))
    /\ a = "boot" => server.state = "boot" /\ after = "idle"

LEMMA SettingsOK == ASSUME ProvidersTypeOK, NEW fails \in BOOLEAN PROVE SettingsSeen(fails) \in AnyPrompts
BY DEF SettingsSeen, ProvidersTypeOK, Servers, AnyPrompts

LEMMA EditsBegin ==
    ASSUME ProvidersTypeOK,
           \/ bootstrapAIProviderFromEnv
           \/ \E h \in Handlers : handleAIProviders(h) \/ handleAIProviderByID(h) \/ handleAIPrompts(h) \/ handleAIConfig(h)
    PROVE  \E a, cfg, seen, prompts, after : Begins(a, cfg, seen, prompts, after)
<1>1. CASE bootstrapAIProviderFromEnv
  <2>1. PICK p \in Providers, s \in Secrets, reset \in BOOLEAN, fails \in BOOLEAN, before \in SUBSET List(server.key) :
          BeginEdit("boot", BootstrapProvider(Listed(server.key), p, [secret |-> s, default |-> TRUE, enabled |-> TRUE], reset, before),
                    SettingsSeen(fails), SettingsSeen(fails), "idle")
    BY <1>1 DEF bootstrapAIProviderFromEnv
  <2>2. [secret |-> s, default |-> TRUE, enabled |-> TRUE] \in Configs
    BY DEF Configs
  <2>3. ConfigOK(BootstrapProvider(Listed(server.key), p, [secret |-> s, default |-> TRUE, enabled |-> TRUE], reset, before))
    BY <2>2, ListedOK, BootstrapOK
  <2>4. LockFree /\ server.state = "boot" /\ "boot" \in Actors /\ "boot" \notin Handlers
    BY <1>1, AIConfigAssumption DEF bootstrapAIProviderFromEnv, Actors
  <2>5. SettingsSeen(fails) \in AnyPrompts
    BY SettingsOK
  <2> QED
    BY <2>1, <2>3, <2>4, <2>5 DEF Begins
<1>2. ASSUME NEW h \in Handlers, handleAIProviders(h) \/ handleAIProviderByID(h) \/ handleAIPrompts(h) \/ handleAIConfig(h)
      PROVE  \E a, cfg, seen, prompts, after : Begins(a, cfg, seen, prompts, after)
  <2>1. Ready(h)
    BY <1>2 DEF handleAIProviders, handleAIProviderByID, handleAIPrompts, handleAIConfig
  <2>2. \E cfg, seen, prompts, after :
          /\ BeginEdit(h, cfg, seen, prompts, after) /\ ConfigOK(cfg) /\ seen \in AnyPrompts /\ prompts \in AnyPrompts
          /\ after \in {"idle", "get"} /\ (after = "idle" => cfg = Listed(server.key))
    <3>0. SettingsSeen(FALSE) \in AnyPrompts /\ ConfigOK(Listed(server.key))
      BY SettingsOK, ListedOK
    <3>1. CASE handleAIProviders(h)
      <4>1. PICK p \in Providers, c \in Configs : \E cfg \in AddProvider(Listed(server.key), p, c) :
              BeginEdit(h, cfg, SettingsSeen(FALSE), SettingsSeen(FALSE), "get")
        BY <3>1 DEF handleAIProviders
      <4>2. PICK cfg \in AddProvider(Listed(server.key), p, c) : BeginEdit(h, cfg, SettingsSeen(FALSE), SettingsSeen(FALSE), "get")
        BY <4>1
      <4>3. ConfigOK(cfg)
        BY <3>0, AddOK
      <4>4. "get" \in {"idle", "get"} /\ "get" # "idle"
        OBVIOUS
      <4> DEFINE seen == SettingsSeen(FALSE)
                 after == "get"
      <4>5. /\ BeginEdit(h, cfg, seen, seen, after) /\ ConfigOK(cfg) /\ seen \in AnyPrompts
            /\ after \in {"idle", "get"} /\ (after = "idle" => cfg = Listed(server.key))
        BY <3>0, <4>2, <4>3, <4>4
      <4> HIDE DEF seen, after
      <4> QED
        BY <4>5
    <3>2. CASE handleAIProviderByID(h)
      <4>1. PICK p \in Providers, c \in Edits :
              \E cfg \in EditProvider(Listed(server.key), p, c) \cup DropProvider(Listed(server.key), p) :
                 BeginEdit(h, cfg, SettingsSeen(FALSE), SettingsSeen(FALSE), "get")
        BY <3>2 DEF handleAIProviderByID
      <4>2. PICK cfg \in EditProvider(Listed(server.key), p, c) \cup DropProvider(Listed(server.key), p) :
              BeginEdit(h, cfg, SettingsSeen(FALSE), SettingsSeen(FALSE), "get")
        BY <4>1
      <4>3. ConfigOK(cfg)
        BY <3>0, EditOK, DropOK
      <4>4. "get" \in {"idle", "get"} /\ "get" # "idle"
        OBVIOUS
      <4> DEFINE seen == SettingsSeen(FALSE)
                 after == "get"
      <4>5. /\ BeginEdit(h, cfg, seen, seen, after) /\ ConfigOK(cfg) /\ seen \in AnyPrompts
            /\ after \in {"idle", "get"} /\ (after = "idle" => cfg = Listed(server.key))
        BY <3>0, <4>2, <4>3, <4>4
      <4> HIDE DEF seen, after
      <4> QED
        BY <4>5
    <3>3. CASE handleAIPrompts(h)
      <4>1. PICK q \in Prompts \cup DefaultPrompts :
              BeginEdit(h, Listed(server.key), SettingsSeen(FALSE),
                        IF q \in SettingsSeen(FALSE) THEN SettingsSeen(FALSE) \ {q} ELSE SettingsSeen(FALSE) \cup {q}, "idle")
        BY <3>3 DEF handleAIPrompts
      <4>2. (IF q \in SettingsSeen(FALSE) THEN SettingsSeen(FALSE) \ {q} ELSE SettingsSeen(FALSE) \cup {q}) \in AnyPrompts
        BY <3>0 DEF AnyPrompts
      <4> QED
        BY <3>0, <4>1, <4>2
    <3>4. CASE handleAIConfig(h)
      BY <3>0, <3>4 DEF handleAIConfig
    <3> QED
      BY <1>2, <3>1, <3>2, <3>3, <3>4
  <2>3. h \in Actors /\ h # "boot" /\ LockFree /\ server.state = "up" /\ todo[h].phase = "idle"
    BY <2>1, AIConfigAssumption DEF Ready, Actors
  <2> QED
    BY <2>1, <2>2, <2>3 DEF Begins
<1> QED
  BY <1>1, <1>2

-----------------------------------------------------------------------------
LEMMA NoTaskIs ==
    /\ NoTask \in Tasks /\ NoTask.phase = "idle" /\ NoTask.cleared = {}
    /\ \A after \in {"idle", "get"} : [NoTask EXCEPT !.phase = after] \in Tasks /\ [NoTask EXCEPT !.phase = after].phase = after
BY DEF NoTask, Tasks, AnyPrompts, Views

Starts(u, t, prompts, view, after, plan) ==
    u = [t EXCEPT !.phase = "write", !.prompts = prompts, !.view = view, !.after = after, !.plan = plan]

LEMMA TaskBegins ==
    ASSUME NEW t \in Tasks, NEW plan, plan \subseteq AnyOp, NEW prompts \in AnyPrompts, NEW view \in Views,
           NEW after \in {"idle", "get"}, NEW u, Starts(u, t, prompts, view, after, plan)
    PROVE  u \in Tasks /\ u.phase = "write" /\ u.cleared = t.cleared /\ u.plan = plan /\ u.after = after
BY DEF Tasks, Starts

\* Writing the listed providers as listed.
LEMMA ListedIsHarmless ==
    ASSUME NEW op \in WriteOps(List(server.key), Listed(server.key))
    PROVE  Harmless(op)
<1>1. DOMAIN Listed(server.key) = List(server.key)
  BY DEF Listed
<1>2. ASSUME NEW p \in List(server.key), op = Op("update", p, Listed(server.key)[p])
      PROVE  Harmless(op)
  <2>1. op.kind = "update" /\ op.p = p /\ op.c = Listed(server.key)[p]
    BY <1>2 DEF Op
  <2>2. Listed(server.key)[p] = [secret |-> docs[p].secret, default |-> docs[p].default, enabled |-> docs[p].enabled]
    BY <1>2 DEF Listed
  <2>3. Opens(server.key, docs[p])
    BY <1>2 DEF List
  <2> QED
    BY <2>1, <2>2, <2>3 DEF Harmless
<1>3. ASSUME op = Op("settings", "", NoConfig) PROVE Harmless(op)
  BY <1>3 DEF Op, Harmless
<1> QED
  BY <1>1, <1>2, <1>3 DEF WriteOps

LEMMA OpIs ==
    ASSUME NEW op \in AnyOp
    PROVE  /\ op.kind \in {"update", "insert", "delete", "settings"} /\ op.c.default \in BOOLEAN
           /\ op.kind \in {"update", "insert"} => op.p \in Providers /\ op.c \in Configs
           /\ op.kind = "delete" => op.p \in Providers
           /\ op.kind \in {"delete", "settings"} => ~op.c.default
<1>0. NoConfig.default = FALSE
  BY DEF NoConfig
<1>1. CASE op \in [kind : {"update", "insert"}, p : Providers, c : Configs]
  BY <1>1 DEF Configs
<1>2. CASE op \in [kind : {"delete"}, p : Providers, c : {NoConfig}]
  BY <1>0, <1>2
<1>3. CASE op \in [kind : {"settings"}, p : {""}, c : {NoConfig}]
  BY <1>0, <1>3
<1> QED
  BY <1>1, <1>2, <1>3 DEF AnyOp

LEMMA OvertakenIs ==
    ASSUME todo \in [Actors -> Tasks]
    PROVE  /\ Overtaken \in [Actors -> Tasks]
           /\ \A b \in Actors : /\ Overtaken[b].phase = todo[b].phase /\ Overtaken[b].cleared = todo[b].cleared
                                /\ Overtaken[b].after = todo[b].after
                                /\ Overtaken[b].phase = "swap" => Overtaken[b].stale
<1> SUFFICES ASSUME NEW b \in Actors
             PROVE  /\ Overtaken[b] \in Tasks
                    /\ Overtaken[b].phase = todo[b].phase /\ Overtaken[b].cleared = todo[b].cleared
                    /\ Overtaken[b].after = todo[b].after
                    /\ Overtaken[b].phase = "swap" => Overtaken[b].stale
  BY DEF Overtaken
<1>1. Overtaken[b] = IF todo[b].phase = "swap" THEN [todo[b] EXCEPT !.stale = TRUE] ELSE todo[b]
  BY DEF Overtaken
<1>2. todo[b] \in Tasks
  OBVIOUS
<1>3. CASE todo[b].phase = "swap"
  <2>1. Overtaken[b] = [todo[b] EXCEPT !.stale = TRUE]
    BY <1>1, <1>3
  <2> QED
    BY <1>2, <1>3, <2>1 DEF Tasks
<1>4. CASE todo[b].phase # "swap"
  BY <1>1, <1>2, <1>4
<1> QED
  BY <1>3, <1>4

LEMMA BeginIs ==
    ASSUME ProvidersTypeOK, NEW a, NEW cfg, NEW seen, NEW prompts, NEW after, Begins(a, cfg, seen, prompts, after)
    PROVE  /\ a \in Actors /\ todo' \in [Actors -> Tasks]
           /\ todo'[a].phase = "write" /\ todo'[a].cleared = {}
           /\ todo'[a].plan = WriteOps(List(server.key), cfg) /\ todo'[a].after = after
           /\ \A b \in Actors \ {a} : /\ todo'[b].phase = todo[b].phase /\ todo'[b].cleared = todo[b].cleared
                                      /\ todo'[b].phase = "swap" => todo'[b].stale
           /\ server' \in Servers /\ server'.state = server.state /\ server'.key = server.key
           /\ UNCHANGED <<docs, settings, keyFiles, keys, active, rotation, lags, botched>>
<1> DEFINE plan == WriteOps(List(server.key), cfg)
           view == Serving(cfg)
           t == [NoTask EXCEPT !.phase = "write", !.prompts = prompts, !.view = view, !.after = after, !.plan = plan]
<1>1. todo' = [Overtaken EXCEPT ![a] = t]
  BY DEF Begins, BeginEdit
<1>2. plan \subseteq AnyOp
  <2>1. List(server.key) \subseteq Providers
    BY DEF List, Present
  <2> QED
    BY <2>1, PlanOK DEF Begins
<1>3. t \in Tasks /\ t.phase = "write" /\ t.cleared = {} /\ t.plan = plan /\ t.after = after
  <2> DEFINE none == NoTask
  <2>1. none \in Tasks /\ none.cleared = {} /\ prompts \in AnyPrompts /\ view \in Views /\ after \in {"idle", "get"}
    BY NoTaskIs, ServingOK DEF Begins
  <2> HIDE DEF plan, view
  <2>2. Starts(t, none, prompts, view, after, plan)
    BY DEF Starts
  <2> HIDE DEF none, t
  <2> QED
    BY <1>2, <2>1, <2>2, TaskBegins
<1> HIDE DEF t
<1>4. a \in Actors /\ UNCHANGED <<docs, settings, keyFiles, keys, active, rotation, lags, botched>>
  BY DEF Begins, BeginEdit
<1>7. server' \in Servers /\ server'.state = server.state /\ server'.key = server.key
  BY RefreshedOK DEF Begins, BeginEdit
<1>5. Overtaken \in [Actors -> Tasks]
  BY OvertakenIs DEF ProvidersTypeOK
<1>6. todo' \in [Actors -> Tasks] /\ todo'[a] = t /\ \A b \in Actors \ {a} : todo'[b] = Overtaken[b]
  BY <1>1, <1>3, <1>4, <1>5
<1> QED
  BY <1>3, <1>4, <1>6, <1>7, OvertakenIs DEF ProvidersTypeOK

\* One call of the repository.
LEMMA WriteIs ==
    ASSUME ProvidersTypeOK, TasksRight, DefaultsRight, NEW a \in Actors, WriteStep(a)
    PROVE  /\ todo[a].phase = "write" /\ todo' \in [Actors -> Tasks]
           /\ \A b \in Actors \ {a} : todo'[b] = todo[b]
           /\ todo'[a].phase \in {"write", "get", "idle"} /\ (a = "boot" => todo'[a].phase # "get")
           /\ todo'[a].phase = "idle" => todo[a].after = "idle" \/ lags'
           /\ todo'[a].phase = "write" => todo'[a].after = todo[a].after
           /\ ~lags' => ~lags
           /\ lags' \in BOOLEAN
           /\ docs' \in [Providers -> {Absent} \cup Document]
           /\ \A p \in Providers : docs'[p] # Absent =>
                 \/ docs[p] # Absent /\ docs'[p].under = docs[p].under
                 \/ docs'[p].under = server.key
           /\ DefaultsRight'
           /\ settings' \in AnyPrompts
           /\ server' \in Servers
           /\ server'.state = server.state /\ server'.key = server.key
           /\ UNCHANGED <<keyFiles, keys, edits, active, rotation, botched>>
<1>1. PICK op \in NextOps(todo[a]), outcome \in {"done", "refused", "lost", "late"} :
          LET applied == outcome \in {"done", "late"} IN
          /\ applied => Applies(op)
          /\ outcome = "refused" => ~Applies(op)
          /\ docs' = IF ~applied THEN docs ELSE IF Clears(a, op) THEN clearDefault ELSE Effect(op)
          /\ settings' = IF op.kind = "settings" /\ applied THEN todo[a].prompts ELSE settings
          /\ todo' = [todo EXCEPT ![a] = IF outcome = "done" THEN AfterCall(a, op) ELSE NoTask]
          /\ server' = IF op.kind = "settings" THEN [server EXCEPT !.cache = todo[a].prompts, !.held = todo[a].view]
                                               ELSE server
          /\ lags' = (lags \/ outcome # "done")
  BY DEF WriteStep
<1> DEFINE clears  == Clears(a, op)
           applied == outcome \in {"done", "late"}
           t == todo[a]
           t1 == IF outcome = "done" THEN AfterCall(a, op) ELSE NoTask
<1>2. t \in Tasks /\ t.phase = "write" /\ UNCHANGED <<keyFiles, keys, edits, active, rotation, botched>>
  BY DEF WriteStep, ProvidersTypeOK
<1>3. op \in AnyOp
  <2>1. t.plan \subseteq AnyOp /\ t.cleared \subseteq AnyOp
    BY <1>2 DEF Tasks
  <2> QED
    BY <2>1 DEF NextOps
<1>4. op.kind \in {"update", "insert", "delete", "settings"} /\ op.c.default \in BOOLEAN
  BY <1>3, OpIs
<1>5. /\ op.kind \in {"update", "insert"} => op.p \in Providers /\ op.c \in Configs
      /\ op.kind = "delete" => op.p \in Providers
      /\ op.kind \in {"delete", "settings"} => ~op.c.default
  BY <1>3, OpIs
<1>6. t1 \in Tasks /\ t1.phase \in {"write", "get", "idle"} /\ (a = "boot" => t1.phase # "get")
      /\ (t1.phase = "idle" => t.after = "idle" \/ outcome # "done") /\ (t1.phase = "write" => t1.after = t.after)
      /\ (t1.phase = "write" => (outcome = "done" /\ clears) \/ t1.cleared = {})
  <2>1. CASE outcome # "done"
    BY <2>1, NoTaskIs
  <2>2. CASE outcome = "done" /\ clears
    <3>1. t1 = [t EXCEPT !.cleared = {op}]
      BY <2>2 DEF AfterCall
    <3> QED
      BY <1>2, <1>3, <2>2, <3>1 DEF Tasks
  <2>3. CASE outcome = "done" /\ ~clears /\ op.kind # "settings"
    <3>1. t1 = [t EXCEPT !.plan = t.plan \ {op}, !.cleared = {}]
      BY <2>3 DEF AfterCall
    <3> HIDE DEF t, t1
    <3> QED
      BY <1>2, <2>3, <3>1 DEF Tasks
  <2>4. CASE outcome = "done" /\ ~clears /\ op.kind = "settings"
    <3>1. t1 = [NoTask EXCEPT !.phase = t.after]
      BY <2>4 DEF AfterCall
    <3>2. t.after \in {"idle", "get"} /\ (a = "boot" => t.after = "idle")
      BY <1>2 DEF Tasks, TasksRight
    <3> HIDE DEF t, t1
    <3> QED
      BY <3>1, <3>2, NoTaskIs
  <2> QED
    BY <2>1, <2>2, <2>3, <2>4
<1>7. todo' = [todo EXCEPT ![a] = t1]
  BY <1>1
<1>8. /\ docs' = IF ~applied THEN docs ELSE IF clears THEN clearDefault ELSE Effect(op)
      /\ settings' = IF op.kind = "settings" /\ applied THEN t.prompts ELSE settings
      /\ server' = IF op.kind = "settings" THEN [server EXCEPT !.cache = t.prompts, !.held = t.view] ELSE server
      /\ lags' = (lags \/ outcome # "done")
      /\ outcome = "done" => applied
  BY <1>1
<1> HIDE DEF t1, clears, applied, t
<1>9. todo' \in [Actors -> Tasks] /\ todo'[a] = t1 /\ \A b \in Actors \ {a} : todo'[b] = todo[b]
  BY <1>6, <1>7 DEF ProvidersTypeOK
<1>10. settings' \in AnyPrompts
  BY <1>2, <1>8 DEF Tasks, ProvidersTypeOK
<1>11. server' \in Servers
       /\ server'.state = server.state /\ server'.key = server.key
  BY <1>2, <1>8 DEF Tasks, ProvidersTypeOK, Servers
<1>12. \A p \in Providers : docs[p] = Absent \/ docs[p] \in Document
  BY DEF ProvidersTypeOK
<1>13. /\ docs' \in [Providers -> {Absent} \cup Document]
       /\ \A p \in Providers : docs'[p] # Absent =>
             \/ docs[p] # Absent /\ docs'[p].under = docs[p].under
             \/ docs'[p].under = server.key
       /\ applied /\ clears => \A p \in Providers : docs'[p] # Absent => ~docs'[p].default
       /\ ~(applied /\ clears) =>
            \/ \A p \in Providers : docs'[p] # Absent => docs'[p] = docs[p]
            \/ \E q \in Providers :
                  /\ \A p \in Providers \ {q} : docs'[p] = docs[p]
                  /\ op.c.default => t.cleared # {}
                  /\ docs'[q].default = op.c.default
  <2>1. CASE ~applied
    BY <1>8, <2>1 DEF ProvidersTypeOK
  <2>2. CASE applied /\ clears
    <3>1. docs' = clearDefault
      BY <1>8, <2>2
    <3>2. ASSUME NEW p \in Providers
          PROVE  /\ docs'[p] \in {Absent} \cup Document
                 /\ docs'[p] # Absent => docs[p] # Absent /\ docs'[p].under = docs[p].under /\ ~docs'[p].default
      <4>1. docs'[p] = IF docs[p] = Absent THEN Absent ELSE [docs[p] EXCEPT !.default = FALSE]
        BY <3>1 DEF clearDefault
      <4>2. CASE docs[p] = Absent
        BY <4>1, <4>2
      <4>3. CASE docs[p] # Absent
        <5>1. docs[p] \in Document /\ docs'[p] = [docs[p] EXCEPT !.default = FALSE]
          BY <1>12, <4>1, <4>3
        <5> QED
          BY <4>3, <5>1 DEF Document
      <4> QED
        BY <4>2, <4>3
    <3>3. docs' \in [Providers -> {Absent} \cup Document]
      BY <3>1, <3>2 DEF clearDefault
    <3> QED
      BY <2>2, <3>2, <3>3
  <2>3. CASE applied /\ ~clears
    <3>1. docs' = Effect(op) /\ (op.c.default => t.cleared # {})
      BY <1>4, <1>8, <2>3 DEF clears, Clears, t
    <3>2. CASE op.kind \in {"update", "insert"}
      <4> DEFINE d == encryptProvider(op.c)
      <4>1. d \in Document /\ d.under = server.key /\ d.default = op.c.default
        BY <1>5, <3>2 DEF encryptProvider, Document, Configs, ProvidersTypeOK, Servers
      <4>2. docs' = [docs EXCEPT ![op.p] = d] /\ op.p \in Providers
        BY <1>5, <3>1, <3>2 DEF Effect
      <4> HIDE DEF d
      <4>3. docs' \in [Providers -> {Absent} \cup Document] /\ docs'[op.p] = d
            /\ \A p \in Providers \ {op.p} : docs'[p] = docs[p]
        BY <4>1, <4>2 DEF ProvidersTypeOK
      <4>4. \A p \in Providers : docs'[p] # Absent =>
               \/ docs[p] # Absent /\ docs'[p].under = docs[p].under
               \/ docs'[p].under = server.key
        <5> SUFFICES ASSUME NEW p \in Providers, docs'[p] # Absent
                     PROVE  \/ docs[p] # Absent /\ docs'[p].under = docs[p].under
                            \/ docs'[p].under = server.key
          OBVIOUS
        <5> QED
          BY <4>1, <4>3
      <4>5. docs'[op.p].default = op.c.default
        BY <4>1, <4>3
      <4> QED
        BY <2>3, <3>1, <4>2, <4>3, <4>4, <4>5
    <3>3. CASE op.kind = "delete"
      <4>1. docs' = [docs EXCEPT ![op.p] = Absent] /\ op.p \in Providers
        BY <1>5, <3>1, <3>3 DEF Effect
      <4>2. docs' \in [Providers -> {Absent} \cup Document] /\ docs'[op.p] = Absent
            /\ \A p \in Providers \ {op.p} : docs'[p] = docs[p]
        BY <4>1 DEF ProvidersTypeOK
      <4>3. \A p \in Providers : docs'[p] # Absent => docs'[p] = docs[p]
        BY <4>2
      <4> QED
        BY <2>3, <4>2, <4>3
    <3>4. CASE op.kind = "settings"
      <4>1. docs' = docs
        BY <3>1, <3>4 DEF Effect
      <4> QED
        BY <2>3, <4>1 DEF ProvidersTypeOK
    <3> QED
      BY <1>4, <3>2, <3>3, <3>4
  <2> QED
    BY <2>1, <2>2, <2>3
<1>14. Present' = {p \in Providers : docs'[p] # Absent}
  BY DEF Present
<1>15. t.cleared # {} => \A p \in Present : ~docs[p].default
  BY <1>2 DEF DefaultsRight, t
<1>16. \A p, q \in Present' : docs'[p].default /\ docs'[q].default => p = q
  <2>1. CASE applied /\ clears
    BY <1>13, <1>14, <2>1
  <2>2. CASE \A p \in Providers : docs'[p] # Absent => docs'[p] = docs[p]
    <3>1. \A p \in Present' : p \in Present /\ docs'[p] = docs[p]
      BY <1>14, <2>2 DEF Present
    <3> QED
      BY <3>1 DEF DefaultsRight, AtMostOneDefault
  <2>3. ASSUME NEW q \in Providers, \A p \in Providers \ {q} : docs'[p] = docs[p],
               op.c.default => t.cleared # {}, docs'[q].default = op.c.default
        PROVE  \A p, r \in Present' : docs'[p].default /\ docs'[r].default => p = r
    <3>1. \A p \in Present' \ {q} : p \in Present /\ docs'[p] = docs[p]
      BY <1>14, <2>3 DEF Present
    <3>2. CASE op.c.default
      <4>1. \A p \in Present' \ {q} : ~docs'[p].default
        BY <1>15, <2>3, <3>1, <3>2
      <4> QED
        BY <4>1
    <3>3. CASE ~op.c.default
      <4>1. \A p, r \in Present' \ {q} : docs'[p].default /\ docs'[r].default => p = r
        BY <3>1 DEF DefaultsRight, AtMostOneDefault
      <4> QED
        BY <2>3, <3>3, <4>1
    <3> QED
      BY <1>4, <3>2, <3>3
  <2> QED
    BY <1>13, <2>1, <2>2, <2>3
<1>17. t1.phase = "write" /\ t1.cleared # {} => \A p \in Present' : ~docs'[p].default
  BY <1>6, <1>8, <1>13, <1>14
<1>21. todo[a].phase = "write"
  BY <1>2 DEF t
<1>18. \A b \in Actors \ {a} : todo'[b].phase = "write" /\ todo'[b].cleared # {} => \A p \in Present' : ~docs'[p].default
  BY <1>9, <1>21 DEF TasksRight
<1>19. DefaultsRight'
  BY <1>9, <1>16, <1>17, <1>18 DEF DefaultsRight, AtMostOneDefault
<1>20. lags' \in BOOLEAN /\ (outcome # "done" => lags') /\ (~lags' => ~lags)
  BY <1>8 DEF ProvidersTypeOK
<1>22. (todo'[a].phase = "idle" => todo[a].after = "idle" \/ lags') /\ (todo'[a].phase = "write" => todo'[a].after = todo[a].after)
  BY <1>6, <1>9, <1>20 DEF t
<1> QED
  BY <1>2, <1>6, <1>9, <1>10, <1>11, <1>13, <1>19, <1>20, <1>21, <1>22

\* What the service would load stays the same.
SameServing ==
    \A p \in Providers :
        /\ docs'[p] = Absent <=> docs[p] = Absent
        /\ docs[p] # Absent => /\ docs'[p].secret = docs[p].secret /\ docs'[p].enabled = docs[p].enabled
                               /\ docs'[p].under = docs[p].under

LEMMA SameServingIs ==
    ASSUME SameServing, server'.key = server.key
    PROVE  /\ Enabled(server.key)' = Enabled(server.key)
           /\ \A op : op.p \in Providers /\ Harmless(op) => Harmless(op)'
<1>1. Present' = Present /\ \A p \in Present : /\ docs'[p].secret = docs[p].secret /\ docs'[p].enabled = docs[p].enabled
                                              /\ docs'[p].under = docs[p].under /\ docs'[p] # Absent /\ docs[p] # Absent
  BY DEF SameServing, Present
<1>2. List(server.key)' = List(server.key)
  BY <1>1 DEF List, Opens
<1>3. List(server.key) \subseteq Present
  BY DEF List
<1>4. Enabled(server.key)' = Enabled(server.key)
  BY <1>1, <1>2, <1>3 DEF Enabled
<1>5. ASSUME NEW op, op.p \in Providers, Harmless(op) PROVE Harmless(op)'
  BY <1>5 DEF Harmless, SameServing, Opens
<1> QED
  BY <1>4, <1>5

\* A call of an update that no reload follows.
LEMMA QuietStep ==
    ASSUME ProvidersTypeOK, NEW a \in Actors, WriteStep(a), ~lags',
           \A op \in todo[a].plan \cup todo[a].cleared : Harmless(op)
    PROVE  /\ SameServing
           /\ todo'[a].phase = "write" => todo'[a].plan \cup todo'[a].cleared \subseteq todo[a].plan \cup todo[a].cleared
<1>1. PICK op \in NextOps(todo[a]) :
          /\ docs' = IF Clears(a, op) THEN clearDefault ELSE Effect(op)
          /\ todo' = [todo EXCEPT ![a] = AfterCall(a, op)]
  BY DEF WriteStep
<1> DEFINE t == todo[a]
<1>2. op \in t.plan \cup t.cleared /\ Harmless(op)
  BY DEF NextOps
<1>3. t \in Tasks /\ op \in AnyOp
  <2>1. t \in Tasks
    BY DEF ProvidersTypeOK
  <2> QED
    BY <1>2, <2>1 DEF Tasks
<1>4. SameServing
  <2>1. CASE Clears(a, op)
    <3> SUFFICES ASSUME NEW p \in Providers
                 PROVE  /\ docs'[p] = Absent <=> docs[p] = Absent
                        /\ docs[p] # Absent => /\ docs'[p].secret = docs[p].secret /\ docs'[p].enabled = docs[p].enabled
                                               /\ docs'[p].under = docs[p].under
      BY DEF SameServing
    <3>1. docs'[p] = IF docs[p] = Absent THEN Absent ELSE [docs[p] EXCEPT !.default = FALSE]
      BY <1>1, <2>1 DEF clearDefault
    <3>2. CASE docs[p] = Absent
      BY <3>1, <3>2
    <3>3. CASE docs[p] # Absent
      <4>1. docs[p] \in Document /\ docs'[p] = [docs[p] EXCEPT !.default = FALSE]
        BY <3>1, <3>3 DEF ProvidersTypeOK
      <4>2. docs'[p] \in Document /\ docs'[p].secret = docs[p].secret /\ docs'[p].enabled = docs[p].enabled
            /\ docs'[p].under = docs[p].under
        BY <4>1 DEF Document
      <4>3. docs'[p] # Absent
        BY <4>2 DEF Absent, Document
      <4> QED
        BY <3>3, <4>2, <4>3
    <3> QED
      BY <3>2, <3>3
  <2>2. CASE ~Clears(a, op) /\ op.kind = "settings"
    <3>1. docs' = docs
      BY <1>1, <2>2 DEF Effect
    <3> QED
      BY <3>1 DEF SameServing
  <2>3. CASE ~Clears(a, op) /\ op.kind = "update"
    <3> DEFINE d == encryptProvider(op.c)
    <3>1. op.p \in Providers /\ op.c \in Configs
      BY <1>3, <2>3, OpIs
    <3>2. docs' = [docs EXCEPT ![op.p] = d]
      BY <1>1, <2>3 DEF Effect
    <3>3. docs[op.p] # Absent /\ docs[op.p].under = server.key /\ docs[op.p].secret = op.c.secret
          /\ docs[op.p].enabled = op.c.enabled
      BY <1>2, <2>3 DEF Harmless, Opens
    <3>4. d \in Document /\ d.under = server.key /\ d.secret = op.c.secret /\ d.enabled = op.c.enabled
      BY <3>1 DEF encryptProvider, Document, Configs, ProvidersTypeOK, Servers
    <3>5. d # Absent
      BY <3>4 DEF Absent, Document
    <3> HIDE DEF d
    <3>6. docs'[op.p] = d /\ \A p \in Providers \ {op.p} : docs'[p] = docs[p]
      BY <3>1, <3>2 DEF ProvidersTypeOK
    <3> SUFFICES ASSUME NEW p \in Providers
                 PROVE  /\ docs'[p] = Absent <=> docs[p] = Absent
                        /\ docs[p] # Absent => /\ docs'[p].secret = docs[p].secret /\ docs'[p].enabled = docs[p].enabled
                                               /\ docs'[p].under = docs[p].under
      BY DEF SameServing
    <3> QED
      BY <3>3, <3>4, <3>5, <3>6
  <2> QED
    BY <1>2, <2>1, <2>2, <2>3 DEF Harmless
<1>5. ASSUME todo'[a].phase = "write"
      PROVE  todo'[a].plan \cup todo'[a].cleared \subseteq t.plan \cup t.cleared
  <2>1. todo'[a] = AfterCall(a, op)
    BY <1>1 DEF ProvidersTypeOK
  <2>2. CASE Clears(a, op)
    <3>1. todo'[a] = [t EXCEPT !.cleared = {op}]
      BY <2>1, <2>2 DEF AfterCall
    <3> HIDE DEF t
    <3> QED
      BY <1>2, <1>3, <3>1 DEF Tasks
  <2>3. CASE ~Clears(a, op) /\ op.kind # "settings"
    <3>1. todo'[a] = [t EXCEPT !.plan = t.plan \ {op}, !.cleared = {}]
      BY <2>1, <2>3 DEF AfterCall
    <3> HIDE DEF t
    <3> QED
      BY <1>3, <3>1 DEF Tasks
  <2>4. CASE ~Clears(a, op) /\ op.kind = "settings"
    <3>1. todo'[a] = [NoTask EXCEPT !.phase = t.after]
      BY <2>1, <2>4 DEF AfterCall
    <3>2. t.after \in {"idle", "get"}
      BY <1>3 DEF Tasks
    <3> HIDE DEF t
    <3>3. todo'[a].phase = t.after
      BY <3>1, <3>2, NoTaskIs
    <3> QED
      BY <1>5, <3>2, <3>3
  <2> QED
    BY <2>2, <2>3, <2>4
<1> QED
  BY <1>4, <1>5

-----------------------------------------------------------------------------
LEMMA ProvidersInit == AIConfigInit => ProvidersInv
<1> SUFFICES ASSUME AIConfigInit PROVE ProvidersInv
  OBVIOUS
<1>1. /\ docs = [p \in Providers |-> Absent] /\ settings = DefaultPrompts
      /\ keyFiles = [f \in KeyPaths |-> 0] /\ keys = 0
      /\ server = [state |-> "down", key |-> 0, cache |-> {}, held |-> {}]
      /\ todo = [a \in Actors |-> NoTask]
      /\ rotation = NoRun /\ lags = FALSE /\ botched = FALSE
  BY DEF AIConfigInit, NoServer
<1>2. Present = {} /\ \A a \in Actors : todo[a].phase = "idle"
  BY <1>1, NoTaskIs DEF Present
<1>3. rotation.phase = "idle" /\ rotation.new = 0 /\ rotation.wrote = FALSE /\ DOMAIN rotation.left = {}
      /\ rotation = [phase |-> rotation.phase, left |-> rotation.left, old |-> rotation.old,
                     new |-> rotation.new, wrote |-> rotation.wrote]
  BY <1>1 DEF NoRun
<1>4. todo \in [Actors -> Tasks]
  <2> DEFINE none == NoTask
  <2>1. none \in Tasks /\ todo = [a \in Actors |-> none]
    BY <1>1, NoTaskIs
  <2> HIDE DEF none
  <2> QED
    BY <2>1
<1>5. ProvidersTypeOK
  <2>1. docs \in [Providers -> {Absent} \cup Document] /\ keyFiles \in [KeyPaths -> Nat] /\ keys \in Nat
    BY <1>1
  <2>2. settings \in AnyPrompts /\ server \in Servers
    BY <1>1 DEF AnyPrompts, Servers, Views
  <2>3. lags \in BOOLEAN /\ botched \in BOOLEAN
    BY <1>1
  <2>4. rotation.phase \in {"idle", "run"} /\ rotation.new \in Nat
    BY <1>3
  <2>7. rotation.wrote \in BOOLEAN
    BY <1>3, Zenon
  <2>5. \A p \in DOMAIN rotation.left : p \in Providers /\ rotation.left[p].secret \in Secrets
    BY <1>3
  <2>6. rotation = [phase |-> rotation.phase, left |-> rotation.left, old |-> rotation.old,
                    new |-> rotation.new, wrote |-> rotation.wrote]
    BY <1>3
  <2> QED
    BY <1>4, <2>1, <2>2, <2>3, <2>4, <2>5, <2>6, <2>7, Zenon DEF ProvidersTypeOK
<1>6. TasksRight /\ DefaultsRight /\ ViewsRight
  <2>1. "boot" \in Actors /\ Handlers \subseteq Actors /\ server.state = "down"
    BY <1>1 DEF Actors
  <2>2. TasksRight
    BY <1>2, <2>1 DEF TasksRight
  <2>3. DefaultsRight
    BY <1>2 DEF DefaultsRight, AtMostOneDefault
  <2>4. ViewsRight
    BY <1>2, <2>1 DEF ViewsRight, ActiveMeanwhile, QuietWrites
  <2> QED
    BY <2>2, <2>3, <2>4
<1>7. KeysRight
  BY <1>1, <1>2, <1>3 DEF KeysRight, KeysRecoverable
<1> QED
  BY <1>5, <1>6, <1>7 DEF ProvidersInv

\* What is enabled is what documents and key say.
LEMMA EnabledKept ==
    ASSUME UNCHANGED docs, server'.key = server.key
    PROVE  Enabled(server.key)' = Enabled(server.key) /\ Present' = Present
BY DEF Enabled, List, Present, Opens

\* Defaults while the documents stay and nobody else has cleared the flags.
LEMMA DefaultsKept ==
    ASSUME DefaultsRight, UNCHANGED docs,
           \A a \in Actors : todo'[a].phase = "write" /\ todo'[a].cleared # {} =>
                                todo[a].phase = "write" /\ todo[a].cleared # {}
    PROVE  DefaultsRight'
<1>1. Present' = Present
  BY DEF Present
<1> QED
  BY <1>1 DEF DefaultsRight, AtMostOneDefault

\* Views while the documents and the key stay and nothing begins or ends.
LEMMA ViewsKept ==
    ASSUME ViewsRight, UNCHANGED <<docs, todo, active, lags>>, server'.key = server.key, server'.state = server.state
    PROVE  ViewsRight'
<1>1. Enabled(server.key)' = Enabled(server.key) /\ LockFree' = LockFree
  BY EnabledKept DEF LockFree
<1>2. ActiveMeanwhile'
  BY <1>1 DEF ViewsRight, ActiveMeanwhile, Quiet
<1>3. QuietWrites'
  BY DEF ViewsRight, QuietWrites, Quiet, Harmless, Opens
<1> QED
  BY <1>1, <1>2, <1>3 DEF ViewsRight

\* Keys while documents, key files, rotation and the server's key stay.
LEMMA KeysKept ==
    ASSUME KeysRight, UNCHANGED <<docs, keyFiles, keys, rotation, botched>>, server'.key = server.key,
           server'.state = "down" <=> server.state = "down"
    PROVE  KeysRight'
<1>1. Present' = Present /\ KeysRecoverable' = KeysRecoverable
  BY DEF Present, KeysRecoverable
<1> QED
  BY <1>1 DEF KeysRight

LEMMA EditKeeps ==
    ASSUME ProvidersInv, NEW a, NEW cfg, NEW seen, NEW prompts, NEW after, Begins(a, cfg, seen, prompts, after)
    PROVE  ProvidersInv'
<1> USE DEF ProvidersInv
<1>1. /\ a \in Actors /\ todo' \in [Actors -> Tasks]
      /\ todo'[a].phase = "write" /\ todo'[a].cleared = {}
      /\ todo'[a].plan = WriteOps(List(server.key), cfg) /\ todo'[a].after = after
      /\ \A b \in Actors \ {a} : /\ todo'[b].phase = todo[b].phase /\ todo'[b].cleared = todo[b].cleared
                                 /\ todo'[b].phase = "swap" => todo'[b].stale
      /\ server' \in Servers /\ server'.state = server.state /\ server'.key = server.key
      /\ UNCHANGED <<docs, settings, keyFiles, keys, active, rotation, lags, botched>>
  BY BeginIs
<1>2. ProvidersTypeOK'
  BY <1>1 DEF ProvidersTypeOK
<1>3. TasksRight'
  <2>1. \A b \in Actors : todo[b].phase # "write"
    BY DEF Begins, LockFree
  <2>2. a \in Handlers => server.state = "up"
    BY DEF Begins
  <2>3. a = "boot" => server.state = "boot" /\ after = "idle"
    BY DEF Begins
  <2>4. a \in Handlers \/ a = "boot"
    BY <1>1 DEF Actors
  <2>5. Handlers \subseteq Actors /\ "boot" \in Actors /\ "boot" \notin Handlers
    BY AIConfigAssumption DEF Actors
  <2> QED
    BY <1>1, <2>1, <2>2, <2>3, <2>4, <2>5 DEF TasksRight
<1>4. DefaultsRight'
  BY <1>1, DefaultsKept
<1>5. ViewsRight'
  <2>1. \A b \in Actors : todo[b].phase # "write"
    BY DEF Begins, LockFree
  <2>2. server.state = "up" => a \in Handlers /\ todo[a].phase = "idle" /\ (after = "idle" => cfg = Listed(server.key))
    BY <1>1 DEF Begins, Actors
  <2>3. Enabled(server.key)' = Enabled(server.key)
    BY <1>1, EnabledKept
  <2>4. ActiveMeanwhile'
    <3> SUFFICES ASSUME server.state = "up", ~lags, \A b \in Actors : todo'[b].phase = "idle" \/ Quiet(b)'
                 PROVE  active = Enabled(server.key)
      BY <1>1, <2>3 DEF ActiveMeanwhile
    <3>1. \A b \in Actors : todo[b].phase = "idle"
      BY <1>1, <2>1, <2>2 DEF Quiet
    <3> QED
      BY <3>1 DEF ViewsRight, ActiveMeanwhile
  <2>5. QuietWrites'
    <3> SUFFICES ASSUME server.state = "up", NEW b \in Actors, Quiet(b)',
                        NEW op \in todo'[b].plan \cup todo'[b].cleared
                 PROVE  Harmless(op)'
      BY <1>1 DEF QuietWrites
    <3>1. b = a
      BY <1>1, <2>1 DEF Quiet
    <3>2. op \in WriteOps(List(server.key), Listed(server.key))
      BY <1>1, <2>2, <3>1 DEF Quiet
    <3>3. Harmless(op)
      BY <3>2, ListedIsHarmless
    <3> QED
      BY <1>1, <3>3 DEF Harmless, Opens
  <2>6. \A b \in Actors : todo'[b].phase = "swap" => todo'[b].stale
    BY <1>1
  <2> QED
    BY <2>4, <2>5, <2>6 DEF ViewsRight
<1>6. KeysRight'
  BY <1>1, KeysKept
<1> QED
  BY <1>2, <1>3, <1>4, <1>5, <1>6

LEMMA WriteKeeps ==
    ASSUME ProvidersInv, NEW a \in Actors, WriteStep(a)
    PROVE  ProvidersInv'
<1>0. ProvidersTypeOK /\ TasksRight /\ DefaultsRight /\ ViewsRight /\ KeysRight
  BY DEF ProvidersInv
<1>1. /\ todo[a].phase = "write" /\ todo' \in [Actors -> Tasks]
      /\ \A b \in Actors \ {a} : todo'[b] = todo[b]
      /\ todo'[a].phase \in {"write", "get", "idle"} /\ (a = "boot" => todo'[a].phase # "get")
      /\ todo'[a].phase = "idle" => todo[a].after = "idle" \/ lags'
      /\ todo'[a].phase = "write" => todo'[a].after = todo[a].after
      /\ ~lags' => ~lags
      /\ lags' \in BOOLEAN
      /\ docs' \in [Providers -> {Absent} \cup Document]
      /\ \A p \in Providers : docs'[p] # Absent =>
            \/ docs[p] # Absent /\ docs'[p].under = docs[p].under
            \/ docs'[p].under = server.key
      /\ DefaultsRight'
      /\ settings' \in AnyPrompts
      /\ server' \in Servers
      /\ server'.state = server.state /\ server'.key = server.key
      /\ UNCHANGED <<keyFiles, keys, edits, active, rotation, botched>>
  BY <1>0, WriteIs
<1>2. server.state # "down" /\ (server.state = "up" => a # "boot")
      /\ (server.state = "boot" => a = "boot")
  BY <1>0, <1>1 DEF TasksRight, Actors
<1>3. ProvidersTypeOK'
  BY <1>0, <1>1 DEF ProvidersTypeOK
<1>4. TasksRight'
  <2>1. Handlers \subseteq Actors /\ "boot" \in Actors /\ "boot" \notin Handlers
    BY AIConfigAssumption DEF Actors
  <2> QED
    BY <1>0, <1>1, <1>2, <2>1 DEF TasksRight
<1>5. ViewsRight'
  <2>1. \A b \in Actors : todo'[b].phase = "swap" => todo'[b].stale
    <3>1. \A b \in Actors \ {a} : todo[b].phase = "swap" => todo[b].stale
      BY <1>0, <1>1 DEF ViewsRight, LockFree
    <3> QED
      BY <1>1, <3>1
  <2>2. ASSUME server.state = "up", ~lags', todo[a].after = "idle"
        PROVE  /\ Enabled(server.key)' = Enabled(server.key)
               /\ todo'[a].phase = "write" => \A op \in todo'[a].plan \cup todo'[a].cleared : Harmless(op)'
    <3>1. \A op \in todo[a].plan \cup todo[a].cleared : Harmless(op)
      BY <1>0, <1>1, <2>2 DEF ViewsRight, QuietWrites, Quiet
    <3>2. /\ SameServing
          /\ todo'[a].phase = "write" => todo'[a].plan \cup todo'[a].cleared \subseteq todo[a].plan \cup todo[a].cleared
      BY <1>0, <2>2, <3>1, QuietStep
    <3>3. ASSUME NEW op \in todo[a].plan \cup todo[a].cleared PROVE Harmless(op)'
      <4>1. op \in AnyOp
        BY <1>0 DEF ProvidersTypeOK, Tasks
      <4>2. CASE op.kind = "settings"
        BY <4>2 DEF Harmless
      <4>3. CASE op.kind # "settings"
        <5>1. op.p \in Providers
          BY <4>1, <4>3, OpIs
        <5> QED
          BY <1>1, <3>1, <3>2, <5>1, SameServingIs
      <4> QED
        BY <4>2, <4>3
    <3>4. Enabled(server.key)' = Enabled(server.key)
      BY <1>1, <3>2, SameServingIs
    <3> QED
      BY <3>2, <3>3, <3>4
  <2>3. ActiveMeanwhile'
    <3> SUFFICES ASSUME server.state = "up", ~lags', \A b \in Actors : todo'[b].phase = "idle" \/ Quiet(b)'
                 PROVE  active = Enabled(server.key)'
      BY <1>1 DEF ActiveMeanwhile
    <3>1. todo[a].after = "idle"
      BY <1>1 DEF Quiet
    <3>2. \A b \in Actors : todo[b].phase = "idle" \/ Quiet(b)
      BY <1>1, <3>1 DEF Quiet
    <3> QED
      BY <1>0, <1>1, <2>2, <3>1, <3>2 DEF ViewsRight, ActiveMeanwhile
  <2>4. QuietWrites'
    <3> SUFFICES ASSUME server.state = "up", ~lags', NEW b \in Actors, Quiet(b)',
                        NEW op \in todo'[b].plan \cup todo'[b].cleared
                 PROVE  Harmless(op)'
      BY <1>1 DEF QuietWrites
    <3>1. b = a
      BY <1>0, <1>1 DEF Quiet, TasksRight
    <3> QED
      BY <1>1, <2>2, <3>1 DEF Quiet
  <2> QED
    BY <2>1, <2>3, <2>4 DEF ViewsRight
<1>6. KeysRight'
  <2>1. server.key \in 1..keys
    BY <1>0, <1>2 DEF KeysRight
  <2>2. \A p \in Present' : (p \in Present /\ docs'[p].under = docs[p].under) \/ docs'[p].under = server.key
    BY <1>1 DEF Present
  <2>3. \A p \in Present' : docs'[p].under \in 1..keys
    BY <1>0, <2>1, <2>2 DEF KeysRight
  <2>4. ~botched => KeysRecoverable'
    <3> SUFFICES ASSUME ~botched, NEW p \in Present' PROVE \E f \in KeyPaths : keyFiles[f] = docs'[p].under
      BY <1>1 DEF KeysRecoverable
    <3> QED
      BY <1>0, <1>2, <2>2 DEF KeysRight, KeysRecoverable
  <2>5. ~botched /\ rotation.phase = "run" /\ ~rotation.wrote => \A p \in Present' : docs'[p].under # rotation.new
    BY <1>0, <2>2 DEF KeysRight
  <2> QED
    BY <1>0, <1>1, <2>3, <2>4, <2>5 DEF KeysRight
<1> QED
  BY <1>1, <1>3, <1>4, <1>5, <1>6 DEF ProvidersInv

LEMMA ReloadKeeps ==
    ASSUME ProvidersInv, NEW h \in Handlers, ReloadGet(h) \/ ReloadSwap(h)
    PROVE  ProvidersInv'
<1>0. ProvidersTypeOK /\ TasksRight /\ DefaultsRight /\ ViewsRight /\ KeysRight
  BY DEF ProvidersInv
<1>1. h \in Actors /\ h # "boot" /\ todo[h] \in Tasks
  BY <1>0, AIConfigAssumption DEF Actors, ProvidersTypeOK
<1>2. UNCHANGED <<docs, settings, keyFiles, keys, rotation, botched>>
  BY DEF ReloadGet, ReloadSwap
<1> DEFINE t == todo'[h]
<1>3. /\ todo' \in [Actors -> Tasks] /\ t.phase \in {"swap", "idle"} /\ todo[h].phase # "idle"
      /\ \A b \in Actors \ {h} : todo'[b] = todo[b]
      /\ server' \in Servers
      /\ server'.state = server.state /\ server'.key = server.key
      /\ lags' \in BOOLEAN
      /\ t.phase = "swap" => LockFree /\ (t.stale \/ t.view = Enabled(server.key)) /\ UNCHANGED lags
      /\ t.phase = "idle" => todo[h].phase = "swap" /\ active' = todo[h].view /\ lags' = todo[h].stale
      /\ t.phase = "swap" => UNCHANGED active
  <2>1. CASE ReloadGet(h)
    <3>1. PICK listed \in BOOLEAN :
            /\ todo' = [todo EXCEPT ![h] = [@ EXCEPT !.phase = "swap", !.view = Got(listed),
                                                    !.stale = (Got(listed) # Enabled(server.key))]]
            /\ server' = IF listed THEN Refreshed(SettingsSeen(FALSE)) ELSE server
      BY <2>1 DEF ReloadGet
    <3>2. todo[h].phase = "get" /\ LockFree /\ UNCHANGED <<active, lags>>
      BY <2>1 DEF ReloadGet
    <3> DEFINE view == Got(listed)
               behind == (Got(listed) # Enabled(server.key))
    <3>3. view \in Views /\ behind \in BOOLEAN /\ (behind \/ view = Enabled(server.key))
      BY <1>0, GotOK
    <3>4. server' \in Servers /\ server'.state = server.state /\ server'.key = server.key
      BY <1>0, <3>1, SettingsOK, RefreshedOK DEF ProvidersTypeOK
    <3>7. todo' = [todo EXCEPT ![h] = [@ EXCEPT !.phase = "swap", !.view = view, !.stale = behind]]
      BY <3>1
    <3> HIDE DEF view, behind
    <3>5. /\ todo' \in [Actors -> Tasks] /\ t.phase = "swap" /\ t.view = view /\ t.stale = behind
          /\ \A b \in Actors \ {h} : todo'[b] = todo[b]
      <4> DEFINE u == [todo[h] EXCEPT !.phase = "swap", !.view = view, !.stale = behind]
      <4>1. u \in Tasks /\ u.phase = "swap" /\ u.view = view /\ u.stale = behind
        BY <1>1, <3>3 DEF Tasks
      <4>2. todo' = [todo EXCEPT ![h] = u]
        BY <3>7
      <4> HIDE DEF u
      <4> QED
        BY <1>0, <1>1, <4>1, <4>2 DEF ProvidersTypeOK
    <3>6. lags' \in BOOLEAN
      BY <1>0, <3>2 DEF ProvidersTypeOK
    <3> QED
      BY <3>2, <3>3, <3>4, <3>5, <3>6
  <2>2. CASE ReloadSwap(h)
    <3> DEFINE none == NoTask
    <3>1. todo' = [todo EXCEPT ![h] = none] /\ todo[h].phase = "swap" /\ UNCHANGED server
          /\ active' = todo[h].view /\ lags' = todo[h].stale
      BY <2>2 DEF ReloadSwap
    <3>2. none \in Tasks /\ none.phase = "idle"
      BY NoTaskIs
    <3> HIDE DEF none
    <3>3. todo' \in [Actors -> Tasks] /\ t = none /\ \A b \in Actors \ {h} : todo'[b] = todo[b]
      BY <1>0, <1>1, <3>1, <3>2 DEF ProvidersTypeOK
    <3>4. lags' \in BOOLEAN
      BY <1>1, <3>1 DEF Tasks
    <3> QED
      BY <1>0, <3>1, <3>2, <3>3, <3>4 DEF ProvidersTypeOK
  <2> QED
    BY <2>1, <2>2
<1> HIDE DEF t
<1>4. ProvidersTypeOK'
  BY <1>0, <1>2, <1>3 DEF ProvidersTypeOK
<1>5. TasksRight'
  <2>1. "boot" \in Actors /\ Handlers \subseteq Actors
    BY DEF Actors
  <2>2. server.state = "up"
    BY <1>0, <1>1, <1>3 DEF TasksRight, ProvidersTypeOK, Servers
  <2> QED
    BY <1>0, <1>1, <1>3, <2>1, <2>2 DEF TasksRight, t
<1>6. DefaultsRight'
  BY <1>0, <1>1, <1>2, <1>3, DefaultsKept DEF t
<1>7. Enabled(server.key)' = Enabled(server.key)
  BY <1>2, <1>3, EnabledKept
<1>8. LockFree => LockFree'
  BY <1>1, <1>3 DEF LockFree, t
<1>9. ViewsRight'
  <2>1. ASSUME NEW b \in Actors, todo'[b].phase = "swap", ~todo'[b].stale
        PROVE  LockFree' /\ todo'[b].view = Enabled(server.key)'
    <3>1. CASE b = h
      BY <1>3, <1>7, <1>8, <2>1, <3>1 DEF t
    <3>2. CASE b # h
      BY <1>0, <1>3, <1>7, <1>8, <2>1, <3>2 DEF ViewsRight
    <3> QED
      BY <3>1, <3>2
  <2>2. ASSUME server'.state = "up", ~lags', \A b \in Actors : todo'[b].phase = "idle" \/ Quiet(b)'
        PROVE  active' = Enabled(server.key)'
    <3>1. t.phase = "idle"
      BY <1>1, <1>3, <2>2 DEF t, Quiet
    <3>2. todo[h].phase = "swap" /\ ~todo[h].stale /\ active' = todo[h].view
      BY <1>3, <2>2, <3>1
    <3> QED
      BY <1>0, <1>1, <1>7, <3>2 DEF ViewsRight
  <2>3. ASSUME ~lags', NEW b \in Actors, Quiet(b)' PROVE FALSE
    <3>1. b # h /\ todo[b].phase = "write"
      BY <1>3, <2>3 DEF Quiet, t
    <3>2. ~LockFree
      BY <3>1 DEF LockFree
    <3>3. t.phase = "idle" /\ todo[h].phase = "swap" /\ ~todo[h].stale
      BY <1>3, <2>3, <3>2
    <3> QED
      BY <1>0, <1>1, <3>2, <3>3 DEF ViewsRight
  <2>4. ActiveMeanwhile' /\ QuietWrites'
    BY <2>2, <2>3 DEF ActiveMeanwhile, QuietWrites
  <2> QED
    BY <2>1, <2>4 DEF ViewsRight
<1>10. KeysRight'
  BY <1>0, <1>2, <1>3, KeysKept
<1> QED
  BY <1>4, <1>5, <1>6, <1>9, <1>10 DEF ProvidersInv

LEMMA StartKeeps ==
    ASSUME ProvidersInv, StartServer
    PROVE  ProvidersInv'
<1>0. ProvidersTypeOK /\ TasksRight /\ DefaultsRight /\ ViewsRight /\ KeysRight
  BY DEF ProvidersInv
<1>1. server.state = "down" /\ UNCHANGED <<docs, settings, edits, todo, active, rotation, lags, botched>>
  BY DEF StartServer
<1>2. PICK f \in KeyPaths :
        /\ f = "v2" => keyFiles[f] # 0 /\ rotation.phase = "idle"
        /\ loadOrCreateEncKey(f)
        /\ server' = [state |-> "boot", key |-> keyFiles'[f], cache |-> DefaultPrompts, held |-> {}]
  BY DEF StartServer
<1>3. keys \in Nat /\ keyFiles \in [KeyPaths -> Nat] /\ KeyPaths = {"current", "v2"}
  BY <1>0 DEF ProvidersTypeOK, Servers, KeyPaths
<1> DEFINE key == IF keyFiles[f] = 0 THEN keys + 1 ELSE keyFiles[f]
<1>4. keyFiles' = [keyFiles EXCEPT ![f] = key] /\ keys' = IF keyFiles[f] = 0 THEN keys + 1 ELSE keys
  BY <1>2 DEF loadOrCreateEncKey
<1>5. key \in Nat /\ key \in 1..keys' /\ keys <= keys' /\ keys' \in Nat /\ (keyFiles[f] # 0 => key = keyFiles[f])
      /\ (keyFiles[f] = 0 => key > keys)
  BY <1>0, <1>3, <1>4 DEF KeysRight
<1> HIDE DEF key
<1>6. keyFiles' \in [KeyPaths -> Nat] /\ keyFiles'[f] = key /\ \A g \in KeyPaths \ {f} : keyFiles'[g] = keyFiles[g]
  BY <1>3, <1>4, <1>5
<1>7. server' = [state |-> "boot", key |-> key, cache |-> DefaultPrompts, held |-> {}]
  BY <1>2, <1>6
<1>8. server' \in Servers /\ server'.state = "boot" /\ server'.key = key
  BY <1>5, <1>7 DEF AnyPrompts, Servers, Views
<1>9. ProvidersTypeOK'
  BY <1>0, <1>1, <1>5, <1>6, <1>8 DEF ProvidersTypeOK
<1>10. \A a \in Actors : todo'[a].phase = "idle"
  BY <1>0, <1>1 DEF TasksRight
<1>11. TasksRight' /\ DefaultsRight' /\ ViewsRight'
  <2>1. TasksRight'
    BY <1>8, <1>10 DEF TasksRight, Actors
  <2>2. DefaultsRight'
    BY <1>0, <1>1, DefaultsKept
  <2>3. ViewsRight'
    BY <1>8, <1>10 DEF ViewsRight, ActiveMeanwhile, QuietWrites
  <2> QED
    BY <2>1, <2>2, <2>3
<1>12. \A g \in KeyPaths : keyFiles[g] # 0 => keyFiles'[g] = keyFiles[g]
  BY <1>5, <1>6
<1>13. Present' = Present /\ \A p \in Present : docs[p].under \in 1..keys
  BY <1>0, <1>1 DEF Present, KeysRight
<1>14. KeysRight'
  <2>1. \A p \in Present' : docs'[p].under \in 1..keys'
    BY <1>1, <1>3, <1>5, <1>13
  <2>2. \A g \in KeyPaths : keyFiles'[g] <= keys'
    BY <1>0, <1>3, <1>5, <1>6 DEF KeysRight
  <2>3. rotation.phase = "run" => /\ keyFiles'["v2"] = rotation.new /\ keyFiles'["current"] # rotation.new
                                  /\ rotation.new \in 1..keys' /\ key # rotation.new
    <3> SUFFICES ASSUME rotation.phase = "run"
                 PROVE  /\ keyFiles'["v2"] = rotation.new /\ keyFiles'["current"] # rotation.new
                        /\ rotation.new \in 1..keys' /\ key # rotation.new
      OBVIOUS
    <3>1. f = "current"
      BY <1>2, <1>3
    <3>2. keyFiles["v2"] = rotation.new /\ keyFiles["current"] # rotation.new /\ rotation.new \in 1..keys
      BY <1>0 DEF KeysRight
    <3>3. keyFiles'["v2"] = keyFiles["v2"] /\ keyFiles'["current"] = key
      BY <1>3, <1>6, <3>1
    <3>4. key # rotation.new
      BY <1>3, <1>5, <3>1, <3>2
    <3> QED
      BY <1>3, <1>5, <3>2, <3>3, <3>4
  <2>4. ~botched => KeysRecoverable'
    <3> SUFFICES ASSUME ~botched, NEW p \in Present PROVE \E g \in KeyPaths : keyFiles'[g] = docs[p].under
      BY <1>1, <1>13 DEF KeysRecoverable
    <3>1. PICK g \in KeyPaths : keyFiles[g] = docs[p].under
      BY <1>0 DEF KeysRight, KeysRecoverable
    <3>2. keyFiles[g] # 0
      BY <1>13, <3>1
    <3> QED
      BY <1>12, <3>1, <3>2
  <2>5. ~botched /\ rotation.phase = "run" /\ ~rotation.wrote => \A p \in Present' : docs'[p].under # rotation.new
    BY <1>0, <1>1, <1>13 DEF KeysRight
  <2>6. \E g \in KeyPaths : keyFiles'[g] = server'.key
    BY <1>6, <1>8
  <2> QED
    BY <1>1, <1>5, <1>8, <2>1, <2>2, <2>3, <2>4, <2>5, <2>6 DEF KeysRight
<1> QED
  BY <1>9, <1>11, <1>14 DEF ProvidersInv

LEMMA ServiceKeeps ==
    ASSUME ProvidersInv, NewAIService \/ CrashServer
    PROVE  ProvidersInv'
<1>0. ProvidersTypeOK /\ TasksRight /\ DefaultsRight /\ ViewsRight /\ KeysRight
  BY DEF ProvidersInv
<1>1. UNCHANGED <<docs, settings, keyFiles, keys, rotation, botched>>
  BY DEF NewAIService, CrashServer
<1>2. CASE NewAIService
  <2>1. /\ server.state = "boot" /\ LockFree /\ UNCHANGED todo
    BY <1>2 DEF NewAIService
  <2>2. PICK listed \in BOOLEAN :
          /\ server' = [(IF listed THEN Refreshed(SettingsSeen(FALSE)) ELSE server) EXCEPT !.state = "up"]
          /\ active' = Got(listed)
          /\ lags' = (Got(listed) # Enabled(server.key))
    BY <1>2 DEF NewAIService
  <2> DEFINE base == IF listed THEN Refreshed(SettingsSeen(FALSE)) ELSE server
  <2>10. base \in Servers /\ base.key = server.key
    BY <1>0, SettingsOK, RefreshedOK DEF ProvidersTypeOK
  <2>11. server' = [base EXCEPT !.state = "up"]
    BY <2>2
  <2> HIDE DEF base
  <2>3. server' \in Servers
        /\ server'.state = "up" /\ server'.key = server.key
    BY <2>10, <2>11 DEF Servers
  <2>12. lags' \in BOOLEAN /\ (~lags' => active' = Enabled(server.key))
    BY <2>2
  <2>4. ProvidersTypeOK'
    BY <1>0, <1>1, <2>1, <2>3, <2>12 DEF ProvidersTypeOK
  <2>5. TasksRight'
    BY <1>0, <2>1, <2>3 DEF TasksRight, LockFree, Actors
  <2>6. DefaultsRight'
    BY <1>0, <1>1, <2>1, DefaultsKept
  <2>7. Enabled(server.key)' = Enabled(server.key)
    BY <1>1, <2>3, EnabledKept
  <2>8. ViewsRight'
    <3>1. \A a \in Actors : todo'[a].phase # "write"
      BY <2>1 DEF LockFree
    <3>2. ActiveMeanwhile'
      BY <2>7, <2>12 DEF ActiveMeanwhile
    <3>3. QuietWrites'
      BY <3>1 DEF QuietWrites, Quiet
    <3>4. \A a \in Actors : todo'[a].phase # "swap"
      BY <1>0, <2>1 DEF TasksRight, Actors
    <3> QED
      BY <3>2, <3>3, <3>4 DEF ViewsRight
  <2>9. KeysRight'
    BY <1>0, <1>1, <2>1, <2>3, KeysKept
  <2> QED
    BY <2>4, <2>5, <2>6, <2>8, <2>9 DEF ProvidersInv
<1>3. CASE CrashServer
  <2> DEFINE none == NoTask
  <2>1. /\ server' = NoServer /\ UNCHANGED lags
        /\ todo' = [a \in Actors |-> none]
    BY <1>3 DEF CrashServer
  <2>2. none \in Tasks /\ none.phase = "idle"
    BY NoTaskIs
  <2> HIDE DEF none
  <2>3. todo' \in [Actors -> Tasks] /\ \A a \in Actors : todo'[a].phase = "idle"
    BY <2>1, <2>2
  <2>4. server' \in Servers
        /\ server'.state = "down" /\ server'.key = 0
    BY <2>1 DEF NoServer, Servers, AnyPrompts, Views
  <2>5. ProvidersTypeOK'
    BY <1>0, <1>1, <2>1, <2>3, <2>4 DEF ProvidersTypeOK
  <2>6. TasksRight'
    BY <2>3, <2>4 DEF TasksRight, Actors
  <2>7. DefaultsRight'
    BY <1>0, <1>1, <2>3, DefaultsKept
  <2>8. ViewsRight'
    BY <2>3, <2>4 DEF ViewsRight, ActiveMeanwhile, QuietWrites
  <2>9. Present' = Present /\ KeysRecoverable' = KeysRecoverable
    BY <1>1 DEF Present, KeysRecoverable
  <2>10. rotation.phase = "run" => rotation.new # 0
    BY <1>0 DEF KeysRight, ProvidersTypeOK
  <2>11. KeysRight'
    BY <1>0, <1>1, <2>4, <2>9, <2>10 DEF KeysRight
  <2> QED
    BY <2>5, <2>6, <2>7, <2>8, <2>11 DEF ProvidersInv
<1> QED
  BY <1>2, <1>3

LEMMA GetKeeps ==
    ASSUME ProvidersInv, Get
    PROVE  ProvidersInv'
<1>0. ProvidersTypeOK /\ TasksRight /\ DefaultsRight /\ ViewsRight /\ KeysRight
  BY DEF ProvidersInv
<1>1. UNCHANGED <<docs, settings, keyFiles, keys, edits, todo, active, rotation, lags, botched>>
  BY DEF Get
<1>2. server' \in Servers /\ server'.state = server.state /\ server'.key = server.key
  BY <1>0, SettingsOK, RefreshedOK DEF Get
<1>3. ProvidersTypeOK'
  BY <1>0, <1>1, <1>2 DEF ProvidersTypeOK
<1>4. TasksRight'
  BY <1>0, <1>1, <1>2 DEF TasksRight
<1>5. DefaultsRight' /\ KeysRight' /\ ViewsRight'
  BY <1>0, <1>1, <1>2, DefaultsKept, KeysKept, ViewsKept
<1> QED
  BY <1>3, <1>4, <1>5 DEF ProvidersInv

LEMMA RotationKeeps ==
    ASSUME ProvidersInv, RotateStart \/ RotateFail \/ RotateDone
    PROVE  ProvidersInv'
<1>0. ProvidersTypeOK /\ TasksRight /\ DefaultsRight /\ ViewsRight /\ KeysRight
  BY DEF ProvidersInv
<1>1. UNCHANGED <<docs, settings, server, todo, active, lags>>
  BY DEF RotateStart, RotateFail, RotateDone
<1>2. Present' = Present /\ TasksRight' /\ DefaultsRight' /\ ViewsRight'
  <2>1. Present' = Present /\ TasksRight' /\ LockFree' = LockFree
    BY <1>0, <1>1 DEF Present, TasksRight, LockFree
  <2>2. DefaultsRight'
    BY <1>0, <1>1, DefaultsKept
  <2>3. ViewsRight'
    BY <1>0, <1>1, ViewsKept
  <2> QED
    BY <2>1, <2>2, <2>3
<1>3. keys \in Nat /\ keyFiles \in [KeyPaths -> Nat] /\ KeyPaths = {"current", "v2"} /\ server.key \in Nat
  BY <1>0 DEF ProvidersTypeOK, Servers, KeyPaths
<1>4. \A p \in Present : docs[p].under \in 1..keys
  BY <1>0 DEF KeysRight
<1>5. CASE RotateStart
  <2> DEFINE left == [p \in Present |-> [secret |-> docs[p].secret, under |-> docs[p].under]]
  <2>1. PICK f \in KeyPaths :
          /\ keyFiles' = [keyFiles EXCEPT !["v2"] = keys + 1] /\ keys' = keys + 1
          /\ rotation' = [phase |-> "run", left |-> left, old |-> keyFiles[f], new |-> keys + 1, wrote |-> FALSE]
          /\ botched' = (botched \/ keyFiles["v2"] # 0)
    BY <1>5 DEF RotateStart
  <2>2. \A p \in DOMAIN left : p \in Providers /\ left[p].secret \in Secrets
    <3> SUFFICES ASSUME NEW p \in Present PROVE p \in Providers /\ left[p].secret \in Secrets
      OBVIOUS
    <3>1. p \in Providers /\ docs[p] \in Document /\ left[p].secret = docs[p].secret
      BY <1>0 DEF Present, ProvidersTypeOK
    <3> QED
      BY <3>1 DEF Document
  <2> HIDE DEF left
  <2>3. /\ rotation'.phase = "run" /\ rotation'.new = keys + 1 /\ ~rotation'.wrote /\ rotation'.left = left
        /\ rotation' = [phase |-> rotation'.phase, left |-> rotation'.left, old |-> rotation'.old,
                        new |-> rotation'.new, wrote |-> rotation'.wrote]
    BY <2>1
  <2>4. rotation'.wrote \in BOOLEAN /\ botched' \in BOOLEAN
    BY <2>1
  <2>5. keyFiles' \in [KeyPaths -> Nat] /\ keyFiles'["v2"] = keys + 1 /\ keyFiles'["current"] = keyFiles["current"]
    BY <1>3, <2>1
  <2>6. ProvidersTypeOK'
    <3>1. rotation'.phase \in {"idle", "run"} /\ rotation'.new \in Nat /\ keys' \in Nat
      BY <1>3, <2>1, <2>3
    <3>2. \A p \in DOMAIN rotation'.left : p \in Providers /\ rotation'.left[p].secret \in Secrets
      BY <2>2, <2>3
    <3> QED
      BY <1>0, <1>1, <2>3, <2>4, <2>5, <3>1, <3>2 DEF ProvidersTypeOK
  <2>7. KeysRight'
    <3>1. \A p \in Present' : docs'[p].under \in 1..keys'
      BY <1>1, <1>2, <1>3, <1>4, <2>1
    <3>2. (\A f1 \in KeyPaths : keyFiles'[f1] <= keys') /\ keyFiles["current"] <= keys
      BY <1>0, <1>3, <2>1, <2>5 DEF KeysRight
    <3>3. server.state # "down" => server.key \in 1..keys
      BY <1>0 DEF KeysRight
    <3>4. ~botched' => ~botched /\ keyFiles["v2"] = 0
      BY <2>1
    <3>5. \A k \in Nat : k # 0 /\ keyFiles["v2"] = 0 /\ (\E g \in KeyPaths : keyFiles[g] = k)
             => \E g \in KeyPaths : keyFiles'[g] = k
      BY <1>3, <2>5
    <3>6. ~botched' => KeysRecoverable'
      <4> SUFFICES ASSUME ~botched', NEW p \in Present PROVE \E g \in KeyPaths : keyFiles'[g] = docs[p].under
        BY <1>1, <1>2 DEF KeysRecoverable
      <4>1. docs[p].under \in Nat /\ docs[p].under # 0
        BY <1>3, <1>4
      <4>2. \E g \in KeyPaths : keyFiles[g] = docs[p].under
        BY <1>0, <3>4 DEF KeysRight, KeysRecoverable
      <4> QED
        BY <3>4, <3>5, <4>1, <4>2
    <3>7. ~botched' /\ server.state # "down" => \E g \in KeyPaths : keyFiles'[g] = server.key
      <4> SUFFICES ASSUME ~botched', server.state # "down" PROVE \E g \in KeyPaths : keyFiles'[g] = server.key
        OBVIOUS
      <4>1. server.key # 0
        BY <3>3
      <4> QED
        BY <1>0, <1>3, <3>4, <3>5, <4>1 DEF KeysRight
    <3>8. server.key # keys + 1
      <4>1. CASE server.state # "down"
        BY <1>3, <3>3, <4>1
      <4>2. CASE server.state = "down"
        BY <1>0, <1>3, <4>2 DEF KeysRight
      <4> QED
        BY <4>1, <4>2
    <3>9. \A p \in Present : docs[p].under # keys + 1
      BY <1>3, <1>4
    <3>10. rotation'.new \in 1..keys' /\ keyFiles'["current"] # rotation'.new
      BY <1>3, <2>1, <2>3, <2>5, <3>2
    <3>11. IF server.state = "down" THEN server.key = 0 ELSE server.key \in 1..keys'
      BY <1>0, <1>3, <2>1 DEF KeysRight
    <3> QED
      BY <1>1, <1>2, <2>3, <2>5, <3>1, <3>2, <3>6, <3>7, <3>8, <3>9, <3>10, <3>11 DEF KeysRight
  <2> QED
    BY <1>2, <2>6, <2>7 DEF ProvidersInv
<1>6. CASE RotateFail \/ RotateDone
  <2>1. /\ rotation' = NoRun /\ UNCHANGED keys /\ rotation.phase = "run"
        /\ \/ keyFiles' = [keyFiles EXCEPT !["v2"] = 0] /\ botched' = (botched \/ rotation.wrote)
           \/ UNCHANGED <<keyFiles, botched>>
    BY <1>6 DEF RotateFail, RotateDone
  <2>2. rotation'.phase = "idle" /\ rotation'.new = 0 /\ rotation'.wrote = FALSE /\ DOMAIN rotation'.left = {}
        /\ rotation' = [phase |-> rotation'.phase, left |-> rotation'.left, old |-> rotation'.old,
                        new |-> rotation'.new, wrote |-> rotation'.wrote]
    BY <2>1 DEF NoRun
  <2>3. keyFiles' \in [KeyPaths -> Nat] /\ keyFiles'["current"] = keyFiles["current"]
        /\ (keyFiles'["v2"] = 0 \/ keyFiles'["v2"] = keyFiles["v2"])
    BY <1>3, <2>1
  <2>4. rotation'.wrote \in BOOLEAN
    BY <2>2, Zenon
  <2>5. botched' \in BOOLEAN
    BY <1>0, <2>1 DEF ProvidersTypeOK
  <2>6. ProvidersTypeOK'
    <3>1. rotation'.phase \in {"idle", "run"} /\ rotation'.new \in Nat /\ keys' \in Nat
      BY <1>3, <2>1, <2>2
    <3>2. \A p \in DOMAIN rotation'.left : p \in Providers /\ rotation'.left[p].secret \in Secrets
      BY <2>2
    <3>3. rotation' = [phase |-> rotation'.phase, left |-> rotation'.left, old |-> rotation'.old,
                       new |-> rotation'.new, wrote |-> rotation'.wrote]
      BY <2>2
    <3> QED
      BY <1>0, <1>1, <2>3, <2>4, <2>5, <3>1, <3>2, <3>3 DEF ProvidersTypeOK
  <2>7. KeysRight'
    <3>1. \A g \in KeyPaths : keyFiles'[g] <= keys
      BY <1>0, <1>3, <2>3 DEF KeysRight
    <3>2. ~botched' => ~botched /\ (keyFiles' = keyFiles \/ ~rotation.wrote)
      BY <2>1
    <3>3. keyFiles["v2"] = rotation.new
      BY <1>0, <2>1 DEF KeysRight
    <3>4. \A k : (\E g \in KeyPaths : keyFiles[g] = k) /\ k # rotation.new => \E g \in KeyPaths : keyFiles'[g] = k
      BY <1>3, <2>3, <3>3
    <3>5. ~botched' => KeysRecoverable'
      <4> SUFFICES ASSUME ~botched', NEW p \in Present PROVE \E g \in KeyPaths : keyFiles'[g] = docs[p].under
        BY <1>1, <1>2 DEF KeysRecoverable
      <4>1. \E g \in KeyPaths : keyFiles[g] = docs[p].under
        BY <1>0, <3>2 DEF KeysRight, KeysRecoverable
      <4>2. keyFiles' = keyFiles \/ docs[p].under # rotation.new
        BY <1>0, <2>1, <3>2 DEF KeysRight
      <4> QED
        BY <3>4, <4>1, <4>2
    <3>6. ~botched' /\ server.state # "down" => \E g \in KeyPaths : keyFiles'[g] = server.key
      <4> SUFFICES ASSUME ~botched', server.state # "down" PROVE \E g \in KeyPaths : keyFiles'[g] = server.key
        OBVIOUS
      <4>1. \E g \in KeyPaths : keyFiles[g] = server.key
        BY <1>0, <3>2 DEF KeysRight
      <4>2. keyFiles' = keyFiles \/ server.key # rotation.new
        BY <1>0, <2>1, <3>2 DEF KeysRight
      <4> QED
        BY <3>4, <4>1, <4>2
    <3>7. IF server.state = "down" THEN server.key = 0 ELSE server.key \in 1..keys
      BY <1>0 DEF KeysRight
    <3> QED
      BY <1>1, <1>2, <1>4, <2>1, <2>2, <3>1, <3>5, <3>6, <3>7 DEF KeysRight
  <2> QED
    BY <1>2, <2>6, <2>7 DEF ProvidersInv
<1> QED
  BY <1>5, <1>6

LEMMA RotateOneKeeps ==
    ASSUME ProvidersInv, NEW p \in Providers, RotateOne(p)
    PROVE  ProvidersInv'
<1>0. ProvidersTypeOK /\ TasksRight /\ DefaultsRight /\ ViewsRight /\ KeysRight
  BY DEF ProvidersInv
<1> DEFINE less == [q \in (DOMAIN rotation.left) \ {p} |-> rotation.left[q]]
           d == [docs[p] EXCEPT !.secret = rotation.left[p].secret, !.under = rotation.new]
<1>1. /\ rotation.phase = "run" /\ p \in DOMAIN rotation.left /\ docs[p] # Absent
      /\ docs' = [docs EXCEPT ![p] = d]
      /\ rotation' = [rotation EXCEPT !.left = less, !.wrote = TRUE]
      /\ lags' = TRUE /\ todo' = Overtaken
      /\ UNCHANGED <<settings, keyFiles, keys, edits, server, active, botched>>
  BY DEF RotateOne
<1>2. docs[p] \in Document /\ rotation.left[p].secret \in Secrets /\ rotation.new \in Nat
  BY <1>0, <1>1 DEF ProvidersTypeOK
<1>3. d \in Document /\ d.under = rotation.new /\ d.default = docs[p].default
  BY <1>2 DEF Document
<1>4. \A q \in DOMAIN less : q \in Providers /\ less[q].secret \in Secrets
  BY <1>0 DEF ProvidersTypeOK
<1> HIDE DEF less, d
<1>5. docs' \in [Providers -> {Absent} \cup Document] /\ docs'[p] = d /\ \A q \in Providers \ {p} : docs'[q] = docs[q]
  BY <1>0, <1>1, <1>3 DEF ProvidersTypeOK
<1>6. /\ rotation'.phase = "run" /\ rotation'.left = less /\ rotation'.wrote /\ rotation'.new = rotation.new
      /\ rotation'.wrote \in BOOLEAN
      /\ rotation' = [phase |-> rotation'.phase, left |-> rotation'.left, old |-> rotation'.old,
                      new |-> rotation'.new, wrote |-> rotation'.wrote]
  <2>1. rotation = [phase |-> rotation.phase, left |-> rotation.left, old |-> rotation.old,
                    new |-> rotation.new, wrote |-> rotation.wrote]
    BY <1>0 DEF ProvidersTypeOK
  <2> QED
    BY <1>1, <2>1
<1>7. /\ todo' \in [Actors -> Tasks]
      /\ \A b \in Actors : /\ todo'[b].phase = todo[b].phase /\ todo'[b].cleared = todo[b].cleared
                           /\ todo'[b].after = todo[b].after
                           /\ todo'[b].phase = "swap" => todo'[b].stale
  BY <1>0, <1>1, OvertakenIs DEF ProvidersTypeOK
<1>8. ProvidersTypeOK'
  <2>1. rotation'.phase \in {"idle", "run"} /\ rotation'.new \in Nat
    BY <1>2, <1>6
  <2>2. \A q \in DOMAIN rotation'.left : q \in Providers /\ rotation'.left[q].secret \in Secrets
    BY <1>4, <1>6
  <2>3. lags' \in BOOLEAN
    BY <1>1
  <2> QED
    BY <1>0, <1>1, <1>5, <1>6, <1>7, <2>1, <2>2, <2>3 DEF ProvidersTypeOK
<1>9. TasksRight'
  <2>1. Handlers \subseteq Actors /\ "boot" \in Actors
    BY DEF Actors
  <2> QED
    BY <1>0, <1>1, <1>7, <2>1 DEF TasksRight
<1>10. docs'[p] # Absent
  <2>1. d # Absent
    BY <1>3 DEF Absent, Document
  <2> QED
    BY <1>5, <2>1
<1>11. Present' = Present
  BY <1>1, <1>5, <1>10 DEF Present
<1>12. \A q \in Present : docs'[q].default = docs[q].default
  BY <1>3, <1>5 DEF Present
<1>13. DefaultsRight'
  BY <1>0, <1>7, <1>11, <1>12 DEF DefaultsRight, AtMostOneDefault
<1>14. ViewsRight'
  BY <1>1, <1>7 DEF ViewsRight, ActiveMeanwhile, QuietWrites
<1>15. KeysRight'
  <2>1. \A q \in Present : docs'[q].under = rotation.new \/ docs'[q].under = docs[q].under
    BY <1>3, <1>5 DEF Present
  <2>2. keyFiles["v2"] = rotation.new /\ keyFiles["current"] # rotation.new /\ rotation.new \in 1..keys /\ "v2" \in KeyPaths
    BY <1>0, <1>1 DEF KeysRight, KeyPaths
  <2>3. \A q \in Present' : docs'[q].under \in 1..keys'
    BY <1>0, <1>1, <1>11, <2>1, <2>2 DEF KeysRight
  <2>4. ~botched => KeysRecoverable'
    <3> SUFFICES ASSUME ~botched, NEW q \in Present PROVE \E g \in KeyPaths : keyFiles[g] = docs'[q].under
      BY <1>1, <1>11 DEF KeysRecoverable
    <3> QED
      BY <1>0, <2>1, <2>2 DEF KeysRight, KeysRecoverable
  <2> QED
    BY <1>0, <1>1, <1>6, <2>2, <2>3, <2>4 DEF KeysRight
<1> QED
  BY <1>8, <1>9, <1>13, <1>14, <1>15 DEF ProvidersInv

LEMMA ProvidersStutter == ASSUME ProvidersInv, UNCHANGED aiVars PROVE ProvidersInv'
<1>1. UNCHANGED <<docs, settings, keyFiles, keys, edits, server, todo, active, rotation, lags, botched>>
  BY DEF aiVars
<1>2. Enabled(server.key)' = Enabled(server.key) /\ Present' = Present
  BY <1>1, EnabledKept
<1>3. ProvidersTypeOK' /\ TasksRight' /\ LockFree' = LockFree
  BY <1>1 DEF ProvidersInv, ProvidersTypeOK, TasksRight, LockFree
<1>4. DefaultsRight' /\ KeysRight'
  BY <1>1, DefaultsKept, KeysKept DEF ProvidersInv
<1>5. ViewsRight'
  BY <1>1, ViewsKept DEF ProvidersInv
<1> QED
  BY <1>3, <1>4, <1>5 DEF ProvidersInv

LEMMA ProvidersHold == ASSUME ProvidersInv PROVE ProvidersSound
<1>1. NoMaskStored
  <2> SUFFICES ASSUME NEW p \in Present PROVE docs[p].secret \in Secrets
    BY DEF NoMaskStored
  <2>1. docs[p] \in Document
    BY DEF ProvidersInv, ProvidersTypeOK, Present
  <2> QED
    BY <2>1 DEF Document
<1> QED
  BY <1>1 DEF ProvidersInv, ProvidersSound, DefaultsRight, ViewsRight, KeysRight, ActiveMeanwhile, ActiveIsCurrent

\* The provider documents stay sound: at most one default provider, a service
\* that works with what is stored unless something lets it lag, no mask stored
\* as a key, and keys that some file opens until a rotation is botched
\* (mongo_config_repository.go, config_store_adapter.go, api.go, service.go).
THEOREM ProvidersTheorem == AIConfigSpec => []ProvidersSound
<1>1. ProvidersInv /\ [AIConfigNext]_aiVars => ProvidersInv'
  <2> SUFFICES ASSUME ProvidersInv, [AIConfigNext]_aiVars PROVE ProvidersInv'
    OBVIOUS
  <2>1. CASE \/ bootstrapAIProviderFromEnv
             \/ \E h \in Handlers : handleAIProviders(h) \/ handleAIProviderByID(h) \/ handleAIPrompts(h) \/ handleAIConfig(h)
    BY <2>1, EditsBegin, EditKeeps DEF ProvidersInv
  <2>2. CASE StartServer
    BY <2>2, StartKeeps
  <2>3. CASE NewAIService \/ CrashServer
    BY <2>3, ServiceKeeps
  <2>4. CASE \E h \in Handlers : ReloadGet(h) \/ ReloadSwap(h)
    BY <2>4, ReloadKeeps
  <2>5. CASE \E a \in Actors : WriteStep(a)
    BY <2>5, WriteKeeps
  <2>6. CASE RotateStart \/ RotateFail \/ RotateDone
    BY <2>6, RotationKeeps
  <2>7. CASE \E p \in Providers : RotateOne(p)
    BY <2>7, RotateOneKeeps
  <2>8. CASE UNCHANGED aiVars
    BY <2>8, ProvidersStutter
  <2>9. CASE Get
    BY <2>9, GetKeeps
  <2> QED
    BY <2>1, <2>2, <2>3, <2>4, <2>5, <2>6, <2>7, <2>8, <2>9 DEF AIConfigNext
<1> QED
  BY <1>1, ProvidersInit, ProvidersHold, PTL DEF AIConfigSpec

=============================================================================
