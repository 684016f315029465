------------------------ MODULE CheckSchedulerProofs ------------------------
(***************************************************************************)
(* Safety of the CheckScheduler for any number of checks, loops, handlers  *)
(* and retries: what Stop guarantees once it has returned.  Sections of    *)
(* their own follow for what runs beside it, each with its specification,  *)
(* invariant and theorem: the default rules a start seeds, heartbeats, the *)
(* retention job, the rate limiters, and the servers that checks run on.   *)
(***************************************************************************)
EXTENDS CheckScheduler, RuleSeeding, Heartbeats, Retention, RateLimiter, Servers,
        FiniteSetTheorems, SequenceTheorems, TLAPS

\* The wait group holds exactly the loops that are between Add and Done.
WaitGroupExact == \A l \in Loops : l \in wg <=> pc[l] \in InRun

\* A cancelled scheduler has no timer on record: Stop cleared them, and
\* UpsertSchedule refuses from then on.
CancelledClears == ctxDone => \A k \in Checks : timers[k] = NoLoop

\* Stop only leaves its wait when the wait group is empty, and Enter adds nothing later.
StoppedEmpty == main = "stopped" => wg = {}

\* While Start is at a check that no handler schedules, the record of its timer
\* is the one Start looked up, or gone; and what Start armed is for that check.
StartAlone ==
    /\ (main \in {"sweepDrop", "drop"} /\ begun.check \notin raced)
         => timers[begun.check] \in {begun.timer, NoLoop}
    /\ (main \in {"arm", "record"} /\ begun.check \notin raced) => timers[begun.check] = NoLoop
    /\ main = "record" =>
         /\ begun.timer \in Loops
         /\ pc[begun.timer] = "armed" => loop[begun.timer].check = begun.check

Safe == ArmedIsRecorded /\ StartAlone /\ WaitGroupExact /\ CancelledClears /\ StoppedEmpty
IInv == TypeOK /\ Safe

\* Every step of Next is one of these.
LEMMA NextCases ==
    ASSUME Next
    PROVE  \/ Start \/ SweepOne \/ DropOld \/ getEnabledChecks \/ StartOne
           \/ ArmTimer \/ RecordTimer \/ Started
           \/ Stop \/ StopLock \/ StopWait \/ CooldownExpires
           \/ \E h \in Handlers : \/ PostCheck(h) \/ PutCheck(h) \/ DeleteCheck(h)
                                  \/ WriteStore(h) \/ UpsertSchedule(h) \/ RemoveSchedule(h)
           \/ \E l \in Loops : LoopStep(l)
BY DEF Next, StartStep, StopStep, HandlerStep

\* timer.Stop() on some timers frees the loops that have not fired and leaves the others.
LEMMA StopTimersFacts ==
    ASSUME TypeOK, NEW K \in SUBSET Checks
    PROVE  /\ StopTimers(K) \in [Loops -> PCs]
           /\ \A l \in Loops : StopTimers(K)[l] =
                IF pc[l] = "armed" /\ \E k \in K : timers[k] = l THEN "free" ELSE pc[l]
BY DEF TypeOK, StopTimers, PCs, InRun

LEMMA FreshType ==
    ASSUME NEW k \in Checks
    PROVE  /\ Fresh(k) \in [check : Checks, attempt : Attempts, result : Results]
           /\ Fresh(k).check = k
BY SchedulerAssumption DEF Fresh, Attempts, Results

LEMMA IdleLoopType == IdleLoop \in [check : Checks, attempt : Attempts, result : Results]
BY SchedulerAssumption DEF IdleLoop, AnyCheck, Attempts, Results

\* What one scheduleCheck under the mutex does to the timers, the loops and the
\* invariants about them.
LEMMA ScheduleKeeps ==
    ASSUME TypeOK, ArmedIsRecorded, StartAlone, WaitGroupExact,
           wg' = wg, main' = main, begun' = begun, raced \subseteq raced',
           NEW k \in Checks, NEW e \in BOOLEAN, scheduleCheck(k, e),
           main \in AtCheck /\ begun.check = k => k \in raced'
    PROVE  /\ timers' \in [Checks -> Loops \cup {NoLoop}]
           /\ pc' \in [Loops -> PCs]
           /\ loop' \in [Loops -> [check : Checks, attempt : Attempts, result : Results]]
           /\ ArmedIsRecorded'
           /\ StartAlone'
           /\ WaitGroupExact'
<1>0. {k} \in SUBSET Checks
  OBVIOUS
<1>1. /\ StopTimers({k}) \in [Loops -> PCs]
      /\ \A l \in Loops : StopTimers({k})[l] =
           IF pc[l] = "armed" /\ \E j \in {k} : timers[j] = l THEN "free" ELSE pc[l]
  BY <1>0, StopTimersFacts
<1>2. CASE ~e
  <2>1. pc' = StopTimers({k}) /\ timers' = [timers EXCEPT ![k] = NoLoop] /\ loop' = loop
    BY <1>2 DEF scheduleCheck
  <2>2. StartAlone'
    BY <2>1, <1>1 DEF TypeOK, StartAlone
  <2> QED BY <2>1, <2>2, <1>1 DEF TypeOK, ArmedIsRecorded, WaitGroupExact, InRun
<1>3. CASE e
  <2>1. PICK l \in FreeLoops :
             /\ pc' = [StopTimers({k}) EXCEPT ![l] = "armed"]
             /\ loop' = [loop EXCEPT ![l] = Fresh(k)]
             /\ timers' = [timers EXCEPT ![k] = l]
    BY <1>3 DEF scheduleCheck
  <2>2. l \in Loops /\ pc[l] = "free" /\ begun.timer # l
    BY DEF FreeLoops
  <2>3. /\ Fresh(k) \in [check : Checks, attempt : Attempts, result : Results]
        /\ Fresh(k).check = k
    BY FreshType
  <2>4. /\ timers' \in [Checks -> Loops \cup {NoLoop}]
        /\ pc' \in [Loops -> PCs]
        /\ loop' \in [Loops -> [check : Checks, attempt : Attempts, result : Results]]
    BY <2>1, <2>2, <2>3, <1>1 DEF TypeOK, PCs
  <2>5. ArmedIsRecorded'
    <3> SUFFICES ASSUME NEW m \in Loops, pc'[m] = "armed"
                 PROVE  \/ timers'[loop'[m].check] = m
                        \/ (main' = "record" /\ begun'.timer = m)
                        \/ loop'[m].check \in raced'
      BY DEF ArmedIsRecorded
    <3>1. CASE m = l
      BY <3>1, <2>1, <2>2, <2>3 DEF TypeOK
    <3>2. CASE m # l
      <4>1. pc[m] = "armed" /\ timers[k] # m /\ loop'[m] = loop[m]
        BY <3>2, <2>1, <2>2, <1>1 DEF TypeOK
      <4>2. \/ timers[loop[m].check] = m
            \/ (main = "record" /\ begun.timer = m)
            \/ loop[m].check \in raced
        BY <4>1 DEF ArmedIsRecorded
      <4> QED BY <4>1, <4>2, <2>1 DEF TypeOK
    <3> QED BY <3>1, <3>2
  <2>6. StartAlone'
    <3>1. \A m \in Loops : m # l => loop'[m] = loop[m] /\ (pc'[m] = "armed" => pc[m] = "armed")
      BY <2>1, <2>2, <1>1 DEF TypeOK
    <3>2. main \in AtCheck /\ begun.check \notin raced' => timers'[begun.check] = timers[begun.check]
      BY <2>1 DEF TypeOK
    <3> QED BY <3>1, <3>2, <2>2 DEF StartAlone, AtCheck
  <2>7. WaitGroupExact'
    BY <2>1, <2>2, <1>1 DEF WaitGroupExact, TypeOK, InRun
  <2> QED BY <2>4, <2>5, <2>6, <2>7
<1> QED BY <1>2, <1>3

-----------------------------------------------------------------------------
LEMMA InitInv == Init => IInv
<1> SUFFICES ASSUME Init PROVE IInv
  OBVIOUS
<1>1. AtNone \in [check : Checks, timer : Loops \cup {NoLoop}]
  BY SchedulerAssumption DEF AtNone, AnyCheck
<1>2. TypeOK
  BY <1>1, IdleLoopType, SchedulerAssumption
     DEF Init, TypeOK, MainPCs, StoreStates, PCs, InRun, IdleHandler, HandlerPCs, AnyCheck
<1> QED BY <1>2 DEF Init, IInv, Safe, ArmedIsRecorded, StartAlone, WaitGroupExact, CancelledClears,
                    StoppedEmpty, ctxDone, InRun

\* Start's accesses to the timers, each between what handlers do.
LEMMA StartKeeps ==
    ASSUME IInv, SweepOne \/ DropOld \/ getEnabledChecks \/ StartOne \/ ArmTimer \/ RecordTimer
    PROVE  IInv'
<1> USE DEF IInv, Safe, ctxDone, InRun
<1>1. ASSUME SweepOne \/ StartOne PROVE IInv'
  <2>1. PICK k \in toStart, found \in {"sweepDrop", "drop"}, label \in {"sweep", "arm"} :
              /\ toStart' = toStart \ {k}
              /\ begun' = [check |-> k, timer |-> timers[k]]
              /\ main' = IF timers[k] = NoLoop THEN label ELSE found
    BY <1>1 DEF SweepOne, StartOne, LookUp
  <2>2. UNCHANGED <<raced, store, timers, cooling, wg, pc, loop, handler>> /\ main \in {"sweep", "schedule"}
    BY <1>1 DEF SweepOne, StartOne
  <2>3. TypeOK'
    BY <2>1, <2>2 DEF TypeOK, MainPCs, StartPCs
  <2>4. StartAlone' /\ ArmedIsRecorded'
    BY <2>1, <2>2, SchedulerAssumption DEF TypeOK, StartAlone, ArmedIsRecorded
  <2> QED BY <2>1, <2>2, <2>3, <2>4 DEF WaitGroupExact, CancelledClears, StoppedEmpty
<1>2. CASE DropOld
  <2>1. /\ main \in {"sweepDrop", "drop"} /\ main' \in {"arm", "sweep"}
        /\ pc' = [l \in Loops |-> IF l = begun.timer /\ pc[l] = "armed" THEN "free" ELSE pc[l]]
        /\ timers' = [timers EXCEPT ![begun.check] = NoLoop]
        /\ begun' = [begun EXCEPT !.timer = NoLoop]
        /\ UNCHANGED <<toStart, raced, store, cooling, wg, loop, handler>>
    BY <1>2 DEF DropOld
  <2>2. TypeOK'
    BY <2>1 DEF TypeOK, MainPCs, StartPCs, PCs
  <2>3. begun'.check = begun.check
    BY <2>1 DEF TypeOK
  <2>4. ArmedIsRecorded'
    <3> SUFFICES ASSUME NEW l \in Loops, pc'[l] = "armed", loop[l].check \notin raced
                 PROVE  timers'[loop[l].check] = l
      BY <2>1 DEF ArmedIsRecorded
    <3>1. pc[l] = "armed" /\ l # begun.timer
      BY <2>1 DEF TypeOK
    <3>2. timers[loop[l].check] = l
      BY <3>1, <2>1 DEF ArmedIsRecorded
    <3>3. loop[l].check # begun.check
      BY <3>1, <3>2, <2>1, SchedulerAssumption DEF StartAlone
    <3> QED BY <3>2, <3>3, <2>1 DEF TypeOK
  <2>5. StartAlone'
    BY <2>1, <2>3 DEF StartAlone, TypeOK
  <2>6. WaitGroupExact'
    BY <2>1 DEF WaitGroupExact, TypeOK
  <2> QED BY <2>1, <2>2, <2>4, <2>5, <2>6 DEF CancelledClears, StoppedEmpty
<1>3. CASE getEnabledChecks
  BY <1>3 DEF getEnabledChecks, TypeOK, MainPCs, StartPCs, ArmedIsRecorded, StartAlone,
              WaitGroupExact, CancelledClears, StoppedEmpty
<1>4. CASE ArmTimer
  <2>1. PICK l \in FreeLoops :
         /\ pc' = [pc EXCEPT ![l] = "armed"]
         /\ loop' = [loop EXCEPT ![l] = Fresh(begun.check)]
         /\ begun' = [begun EXCEPT !.timer = l]
    BY <1>4 DEF ArmTimer
  <2>2. /\ main = "arm" /\ main' = "record" /\ UNCHANGED <<toStart, raced, store, timers, cooling, wg, handler>>
        /\ l \in Loops /\ pc[l] = "free"
    BY <1>4 DEF ArmTimer, FreeLoops
  <2>3. /\ Fresh(begun.check) \in [check : Checks, attempt : Attempts, result : Results]
        /\ Fresh(begun.check).check = begun.check
    BY FreshType DEF TypeOK
  <2>4. TypeOK'
    BY <2>1, <2>2, <2>3 DEF TypeOK, MainPCs, StartPCs, PCs
  <2>5. begun'.check = begun.check /\ begun'.timer = l /\ loop'[l].check = begun.check
        /\ \A m \in Loops : m # l => pc'[m] = pc[m] /\ loop'[m] = loop[m]
    BY <2>1, <2>2, <2>3 DEF TypeOK
  <2>6. ArmedIsRecorded'
    BY <2>2, <2>5 DEF ArmedIsRecorded
  <2>7. StartAlone'
    BY <2>2, <2>5 DEF StartAlone
  <2>8. WaitGroupExact'
    BY <2>1, <2>2 DEF WaitGroupExact, TypeOK
  <2> QED BY <2>2, <2>4, <2>6, <2>7, <2>8 DEF CancelledClears, StoppedEmpty
<1>5. CASE RecordTimer
  <2>1. /\ main = "record" /\ main' = "schedule" /\ begun' = AtNone
        /\ timers' = [timers EXCEPT ![begun.check] = begun.timer]
        /\ UNCHANGED <<toStart, raced, store, cooling, wg, pc, loop, handler>>
    BY <1>5 DEF RecordTimer
  <2>2. AtNone \in [check : Checks, timer : Loops \cup {NoLoop}]
    BY SchedulerAssumption DEF AtNone, AnyCheck
  <2>3. TypeOK'
    BY <2>1, <2>2 DEF TypeOK, MainPCs, StartPCs
  <2>4. ArmedIsRecorded'
    <3> SUFFICES ASSUME NEW l \in Loops, pc[l] = "armed", loop[l].check \notin raced
                 PROVE  timers'[loop[l].check] = l
      BY <2>1 DEF ArmedIsRecorded
    <3>1. CASE l = begun.timer
      BY <3>1, <2>1 DEF StartAlone, TypeOK
    <3>2. CASE l # begun.timer
      <4>1. timers[loop[l].check] = l
        BY <3>2, <2>1 DEF ArmedIsRecorded
      <4>2. loop[l].check # begun.check
        BY <4>1, <2>1, SchedulerAssumption DEF StartAlone
      <4> QED BY <4>1, <4>2, <2>1 DEF TypeOK
    <3> QED BY <3>1, <3>2
  <2> QED BY <2>1, <2>3, <2>4 DEF StartAlone, WaitGroupExact, CancelledClears, StoppedEmpty
<1> QED BY <1>1, <1>2, <1>3, <1>4, <1>5

\* The other steps of Service.Run.
LEMMA MainKeeps ==
    ASSUME IInv, Start \/ Started \/ Stop \/ StopLock \/ StopWait \/ CooldownExpires
    PROVE  IInv'
<1> USE DEF IInv, Safe, MainPCs, StartPCs, ctxDone, InRun
<1>1. Checks \in SUBSET Checks
  OBVIOUS
<1>2. CASE Start
  BY <1>2 DEF Start, TypeOK, ArmedIsRecorded, StartAlone, WaitGroupExact, CancelledClears, StoppedEmpty
<1>3. CASE Started
  BY <1>3 DEF Started, TypeOK, ArmedIsRecorded, StartAlone, WaitGroupExact, CancelledClears, StoppedEmpty
<1>4. CASE Stop
  BY <1>4, <1>1, StopTimersFacts
     DEF Stop, TypeOK, ArmedIsRecorded, StartAlone, WaitGroupExact, CancelledClears, StoppedEmpty
<1>5. CASE StopLock
  BY <1>5 DEF StopLock, TypeOK, ArmedIsRecorded, StartAlone, WaitGroupExact, CancelledClears, StoppedEmpty
<1>6. CASE StopWait
  BY <1>6 DEF StopWait, TypeOK, ArmedIsRecorded, StartAlone, WaitGroupExact, CancelledClears, StoppedEmpty
<1>7. CASE CooldownExpires
  BY <1>7 DEF CooldownExpires, TypeOK, ArmedIsRecorded, StartAlone, WaitGroupExact, CancelledClears,
              StoppedEmpty
<1> QED BY <1>2, <1>3, <1>4, <1>5, <1>6, <1>7

\* The steps of the HTTP handlers.
LEMMA HandlersKeep ==
    ASSUME IInv, NEW h \in Handlers,
           \/ PostCheck(h) \/ PutCheck(h) \/ DeleteCheck(h)
           \/ WriteStore(h) \/ UpsertSchedule(h) \/ RemoveSchedule(h)
    PROVE  IInv'
<1> USE DEF IInv, Safe, ctxDone, InRun
<1>1. CASE PostCheck(h) \/ PutCheck(h) \/ DeleteCheck(h)
  <2>1. PICK label \in {"write", "delete"}, k \in Checks, to \in StoreStates : Request(h, label, k, to)
    BY <1>1 DEF PostCheck, PutCheck, DeleteCheck, StoreStates
  <2>2. /\ handler' = [handler EXCEPT ![h] = [pc |-> label, check |-> k, to |-> to]]
        /\ UNCHANGED <<main, toStart, begun, raced, store, timers, cooling, wg, pc, loop>>
    BY <2>1 DEF Request
  <2> QED BY <2>2 DEF TypeOK, HandlerPCs, ArmedIsRecorded, StartAlone, WaitGroupExact,
                      CancelledClears, StoppedEmpty
<1>2. CASE WriteStore(h)
  <2>1. PICK label \in {"schedule", "remove", "idle"} : handler' = [handler EXCEPT ![h].pc = label]
    BY <1>2 DEF WriteStore, HandlerGoto
  <2>2. store' \in [Checks -> StoreStates] /\ UNCHANGED <<main, toStart, begun, raced, timers, cooling, wg, pc, loop>>
    BY <1>2 DEF WriteStore, TypeOK
  <2>3. TypeOK'
    BY <2>1, <2>2 DEF TypeOK, HandlerPCs
  <2> QED BY <2>2, <2>3 DEF ArmedIsRecorded, StartAlone, WaitGroupExact, CancelledClears, StoppedEmpty
<1>3. CASE UpsertSchedule(h)
  <2>1. /\ UNCHANGED <<main, toStart, begun, store, cooling, wg>>
        /\ handler' = [handler EXCEPT ![h].pc = "idle"]
        /\ handler[h].check \in Checks
        /\ raced' = raced \cup ({handler[h].check} \cap BeingStarted)
    BY <1>3 DEF UpsertSchedule, HandlerGoto, TypeOK
  <2>2. /\ handler' \in [Handlers -> [pc : HandlerPCs, check : Checks, to : StoreStates]]
        /\ raced' \subseteq Checks /\ raced \subseteq raced'
    BY <2>1 DEF TypeOK, HandlerPCs
  <2>3. CASE running
    <3> DEFINE k == handler[h].check
               e == handler[h].to = "enabled"
    <3>1. k \in Checks /\ e \in BOOLEAN /\ scheduleCheck(k, e)
      BY <1>3, <2>1, <2>3 DEF UpsertSchedule
    <3>2. main \in AtCheck /\ begun.check = k => k \in raced'
      BY <2>1 DEF BeingStarted
    <3> HIDE DEF k, e
    <3>3. /\ timers' \in [Checks -> Loops \cup {NoLoop}]
          /\ pc' \in [Loops -> PCs]
          /\ loop' \in [Loops -> [check : Checks, attempt : Attempts, result : Results]]
          /\ ArmedIsRecorded' /\ StartAlone' /\ WaitGroupExact'
      BY <3>1, <3>2, <2>1, <2>2, ScheduleKeeps
    <3>4. TypeOK'
      BY <2>1, <2>2, <3>3 DEF TypeOK
    <3> QED BY <2>1, <2>3, <3>3, <3>4 DEF running, StartPCs, CancelledClears, StoppedEmpty
  <2>4. CASE ~running
    <3>1. UNCHANGED <<timers, pc, loop>>
      BY <1>3, <2>4 DEF UpsertSchedule
    <3>2. TypeOK'
      BY <2>1, <2>2, <3>1 DEF TypeOK
    <3> QED
      BY <2>1, <2>2, <3>1, <3>2
         DEF ArmedIsRecorded, StartAlone, WaitGroupExact, CancelledClears, StoppedEmpty
  <2> QED BY <2>3, <2>4
<1>4. CASE RemoveSchedule(h)
  <2>1. PICK k \in Checks :
             /\ pc' = StopTimers({k})
             /\ timers' = [timers EXCEPT ![k] = NoLoop]
             /\ cooling' = [cooling EXCEPT ![k] = FALSE]
    BY <1>4 DEF RemoveSchedule, TypeOK
  <2>2. /\ UNCHANGED <<main, toStart, begun, raced, store, wg, loop>>
        /\ handler' = [handler EXCEPT ![h].pc = "idle"]
    BY <1>4 DEF RemoveSchedule, HandlerGoto
  <2>3. {k} \in SUBSET Checks
    OBVIOUS
  <2>4. /\ pc' \in [Loops -> PCs]
        /\ \A l \in Loops : pc'[l] =
             IF pc[l] = "armed" /\ \E j \in {k} : timers[j] = l THEN "free" ELSE pc[l]
    BY <2>1, <2>3, StopTimersFacts
  <2>5. TypeOK'
    <3>1. cooling' \in [Checks -> BOOLEAN] /\ timers' \in [Checks -> Loops \cup {NoLoop}]
      BY <2>1 DEF TypeOK
    <3>2. handler' \in [Handlers -> [pc : HandlerPCs, check : Checks, to : StoreStates]]
      BY <2>2 DEF TypeOK, HandlerPCs
    <3> QED BY <2>2, <2>4, <3>1, <3>2 DEF TypeOK
  <2>6. ArmedIsRecorded' /\ WaitGroupExact'
    BY <2>1, <2>2, <2>4 DEF TypeOK, ArmedIsRecorded, WaitGroupExact
  <2>7. StartAlone'
    BY <2>1, <2>2, <2>4 DEF TypeOK, StartAlone
  <2> QED BY <2>1, <2>2, <2>5, <2>6, <2>7 DEF TypeOK, CancelledClears, StoppedEmpty
<1> QED BY <1>1, <1>2, <1>3, <1>4

\* The steps of the loops.  Only Enter adds to the wait group, and it looks at the
\* context in the same critical section of wgMu.
LEMMA LoopsKeep ==
    ASSUME IInv, NEW l \in Loops, LoopStep(l)
    PROVE  IInv'
<1> USE DEF IInv, Safe, ctxDone, InRun
<1>1. /\ UNCHANGED <<main, toStart, begun, raced, store, timers, handler>>
      /\ cooling' \in [Checks -> BOOLEAN]
  BY DEF LoopStep, Fire, Enter, Guard, RunCheck, Report, RetryDelay, Exhausted, Tick,
         TickCooldown,
         TypeOK
<1>2. loop' \in [Loops -> [check : Checks, attempt : Attempts, result : Results]]
  <2>1. MoreAttempts(l) => loop[l].attempt + 1 \in Attempts
    BY SchedulerAssumption DEF MoreAttempts, Attempts, TypeOK
  <2>2. 0 \in Attempts
    BY SchedulerAssumption DEF Attempts
  <2>3. CASE UNCHANGED loop
    BY <2>3 DEF TypeOK
  <2>4. CASE loop' = [loop EXCEPT ![l] = IdleLoop]
    BY <2>4, IdleLoopType DEF TypeOK
  <2>5. CASE loop' = [loop EXCEPT ![l] = Fresh(loop[l].check)]
    BY <2>5, FreshType DEF TypeOK
  <2>6. CASE MoreAttempts(l) /\ loop' = [loop EXCEPT ![l].attempt = @ + 1]
    BY <2>6, <2>1 DEF TypeOK
  <2>7. CASE \E r \in Results : loop' = [loop EXCEPT ![l].result = r]
    BY <2>7 DEF TypeOK
  <2> QED
    BY <2>3, <2>4, <2>5, <2>6, <2>7
       DEF LoopStep, Fire, Enter, Guard, RunCheck, Report, RetryDelay, Exhausted, Tick,
           TickCooldown, Retry, Return, End, Results
<1>3. \E label \in PCs \ {"armed"} :
         /\ pc' = [pc EXCEPT ![l] = label]
         /\ \/ label \in InRun /\ pc[l] \in InRun /\ wg' = wg
            \/ label \notin InRun /\ pc[l] \in InRun /\ wg' = wg \ {l}
            \/ label \notin InRun /\ pc[l] \notin InRun /\ wg' = wg
            \/ label \in InRun /\ ~ctxDone /\ wg' = wg \cup {l}
  BY DEF LoopStep, Fire, Enter, Guard, RunCheck, Report, RetryDelay, Exhausted, Tick,
         TickCooldown,
         Retry, Return, End, Goto, PCs
<1>4. \A m \in Loops : m # l => loop'[m] = loop[m]
  BY DEF LoopStep, Fire, Enter, Guard, RunCheck, Report, RetryDelay, Exhausted, Tick,
         TickCooldown,
         Retry, Return, End, TypeOK
<1>5. TypeOK'
  BY <1>1, <1>2, <1>3 DEF TypeOK
<1>6. ArmedIsRecorded'
  BY <1>1, <1>3, <1>4 DEF TypeOK, ArmedIsRecorded
<1>7. StartAlone'
  BY <1>1, <1>3, <1>4 DEF TypeOK, StartAlone
<1>8. WaitGroupExact'
  BY <1>3 DEF TypeOK, WaitGroupExact
<1>9. CancelledClears' /\ StoppedEmpty'
  BY <1>1, <1>3 DEF TypeOK, CancelledClears, StoppedEmpty, WaitGroupExact
<1> QED BY <1>5, <1>6, <1>7, <1>8, <1>9

LEMMA NextInv == IInv /\ [Next]_vars => IInv'
<1> SUFFICES ASSUME IInv, [Next]_vars PROVE IInv'
  OBVIOUS
<1>1. CASE UNCHANGED vars
  BY <1>1 DEF vars, IInv, Safe, TypeOK, ArmedIsRecorded, StartAlone, WaitGroupExact,
              CancelledClears, StoppedEmpty, ctxDone
<1>2. CASE Next
  BY <1>2, NextCases, StartKeeps, MainKeeps, HandlersKeep, LoopsKeep
<1> QED BY <1>1, <1>2

\* An empty wait group, no timer on record, and exactness of both: nothing is left.
LEMMA InvQuiet == IInv => StoppedIsQuiet
BY SchedulerAssumption DEF IInv, Safe, StoppedIsQuiet, ArmedIsRecorded, WaitGroupExact,
                           CancelledClears, StoppedEmpty,
       ctxDone, TypeOK, InRun

-----------------------------------------------------------------------------
\* The scheduler's state has its types whatever the interleaving of requests, loops, Start and Stop.
THEOREM TypeCorrect == Spec => []TypeOK
<1>1. IInv => TypeOK
  BY DEF IInv
<1> QED BY <1>1, InitInv, NextInv, PTL DEF Spec

\* Every timer that has not fired is on record for its check, so it can be stopped, but
\* where a handler scheduled the check while Start, without the mutex, was at it.
THEOREM RecordedTheorem == Spec => []ArmedIsRecorded
<1>1. IInv => ArmedIsRecorded
  BY DEF IInv, Safe
<1> QED BY <1>1, InitInv, NextInv, PTL DEF Spec

\* Once CheckScheduler.Stop has returned, no check runs, and none will.
THEOREM QuietTheorem == Spec => []StoppedIsQuiet
BY InitInv, NextInv, InvQuiet, PTL DEF Spec

-----------------------------------------------------------------------------
(***************************************************************************)
(* The default MySQL rules.  While a start seeds without a failure, every  *)
(* rule before the next one is stored unless an operator deleted it, so    *)
(* that all are when it ends; and a start that seeds has noted that every  *)
(* rule may come back.                                                     *)
(***************************************************************************)
Rules    == [threshold : Nat]
RuleDocs == {NoDocument} \cup {mongoAlertRuleDocumentFromAlertRule(rule) : rule \in Rules}
Judged(i, rule) == rule = DefaultMySQLRules[i] \/ rule.threshold = OwnThreshold

SeedingTypeOK ==
    /\ ruleDocs \in [MySQLRuleIDs -> RuleDocs]
    /\ starting \in [pc : {"down", "list", "seed", "load", "serving"}, next : 1 .. Len(DefaultIDs)]
    /\ wanted \in [MySQLRuleIDs -> {"nothing", "edited", "deleted"}]
    /\ cutShort \in BOOLEAN /\ reseeded \subseteq MySQLRuleIDs

\* What is said of one rule.
RuleKept(i) ==
    /\ wanted[i] = "edited" => ruleDocs[i].present /\ toAlertRule(ruleDocs[i]).threshold = OwnThreshold
    /\ (wanted[i] = "deleted" /\ ruleDocs[i].present) => i \in reseeded
    /\ ruleDocs[i].present => Judged(i, toAlertRule(ruleDocs[i]))

Untouched(i) == wanted[i] = "nothing" => ruleDocs[i].present

SeedingInv ==
    /\ SeedingTypeOK
    /\ \A i \in MySQLRuleIDs : RuleKept(i)
    /\ starting.pc = "list" => starting.next = 1
    /\ starting.pc = "seed" =>
         /\ reseeded = MySQLRuleIDs
         /\ cutShort \/ \A k \in 1 .. starting.next - 1 : Untouched(DefaultIDs[k])
    /\ (starting.pc # "seed" /\ ~cutShort) => RulesStored = {} \/ \A i \in MySQLRuleIDs : Untouched(i)
    /\ \A i \in DOMAIN engineRules : i \in MySQLRuleIDs /\ Judged(i, engineRules[i])

LEMMA SeedConstants ==
    /\ Len(DefaultIDs) \in Nat \ {0}
    /\ \A k \in 1 .. Len(DefaultIDs) : DefaultIDs[k] \in MySQLRuleIDs
    /\ \A i \in MySQLRuleIDs : \E k \in 1 .. Len(DefaultIDs) : DefaultIDs[k] = i
    /\ NoDocument \in RuleDocs /\ ~NoDocument.present
    /\ \A i \in MySQLRuleIDs : DefaultMySQLRules[i] \in Rules
    /\ [threshold |-> OwnThreshold] \in Rules
<1>1. DefaultIDs \in Seq(MySQLRuleIDs) /\ DefaultIDs # <<>>
  BY SeedingAssumption DEF MySQLRuleIDs
<1>2. Len(DefaultIDs) \in Nat \ {0} /\ DOMAIN DefaultIDs = 1 .. Len(DefaultIDs)
  BY <1>1
<1>3. \A i \in MySQLRuleIDs : \E k \in DOMAIN DefaultIDs : DefaultIDs[k] = i
  BY DEF MySQLRuleIDs, ToSet
<1>4. \A k \in 1 .. Len(DefaultIDs) : DefaultIDs[k] \in MySQLRuleIDs
  BY <1>1, <1>2
<1>5. \A i \in MySQLRuleIDs : DefaultMySQLRules[i] \in Rules
  BY SeedingAssumption DEF DefaultMySQLRules, Rules, MySQLRuleIDs
<1> QED
  BY <1>2, <1>3, <1>4, <1>5, SeedingAssumption DEF RuleDocs, NoDocument, Rules

\* Reading back what was stored, a zero threshold included.
LEMMA ReadBack ==
    ASSUME NEW rule \in Rules
    PROVE  LET d == mongoAlertRuleDocumentFromAlertRule(rule) IN
           d \in RuleDocs /\ d.present /\ toAlertRule(d) = rule
<1>1. rule = [threshold |-> rule.threshold] /\ rule.threshold \in Nat
  BY DEF Rules
<1>2. CASE rule.threshold = 0
  <2>1. "thresholdNum" \notin DOMAIN [present |-> TRUE]
    OBVIOUS
  <2> QED
    BY <1>1, <1>2, <2>1 DEF mongoAlertRuleDocumentFromAlertRule, toAlertRule, RuleDocs
<1>3. CASE rule.threshold # 0
  BY <1>1, <1>3 DEF mongoAlertRuleDocumentFromAlertRule, toAlertRule, RuleDocs
<1> QED
  BY <1>2, <1>3

LEMMA SeedingInitInv == SeedingInit => SeedingInv
<1> SUFFICES ASSUME SeedingInit PROVE SeedingInv
  OBVIOUS
<1>1. SeedingTypeOK
  <2>1. starting \in [pc : {"down", "list", "seed", "load", "serving"}, next : 1 .. Len(DefaultIDs)]
    BY SeedConstants DEF SeedingInit, NotStarted
  <2>2. ruleDocs \in [MySQLRuleIDs -> RuleDocs]
    BY SeedConstants DEF SeedingInit
  <2> QED
    BY <2>1, <2>2 DEF SeedingInit, SeedingTypeOK
<1>2. RulesStored = {} /\ \A i \in MySQLRuleIDs : RuleKept(i)
  BY SeedConstants DEF SeedingInit, RulesStored, RuleKept
<1>3. DOMAIN engineRules = {}
  BY DEF SeedingInit
<1> QED
  BY <1>1, <1>2, <1>3 DEF SeedingInv, SeedingInit, NotStarted

LEMMA SeedingStepInv == SeedingInv /\ [SeedingNext]_seedVars => SeedingInv'
<1> SUFFICES ASSUME SeedingInv, [SeedingNext]_seedVars PROVE SeedingInv'
  OBVIOUS
<1> USE DEF StartAt
<1>0. SeedingTypeOK
  BY DEF SeedingInv
<1>a. ASSUME UNCHANGED <<ruleDocs, wanted>>, reseeded \subseteq reseeded'
      PROVE  /\ RulesStored' = RulesStored
             /\ \A i \in MySQLRuleIDs : RuleKept(i)' /\ (Untouched(i)' <=> Untouched(i))
  BY <1>a DEF SeedingInv, RuleKept, RulesStored, Untouched
<1>1. CASE NewMongoAlertRuleRepository
  <2>1. UNCHANGED <<ruleDocs, wanted, cutShort, reseeded>> /\ starting.pc = "down"
    BY <1>1 DEF NewMongoAlertRuleRepository
  <2>2. starting'.pc \in {"list", "serving"} /\ starting'.next = 1 /\ SeedingTypeOK'
    BY <1>0, <1>1, <2>1, SeedConstants DEF NewMongoAlertRuleRepository, SeedingTypeOK
  <2>3. \A i \in DOMAIN engineRules' : i \in MySQLRuleIDs /\ Judged(i, engineRules'[i])
    <3>1. DOMAIN DefaultMySQLRules = MySQLRuleIDs
      BY DEF DefaultMySQLRules
    <3>2. engineRules' = engineRules \/ engineRules' = DefaultMySQLRules
      BY <1>1 DEF NewMongoAlertRuleRepository
    <3> QED
      BY <3>1, <3>2 DEF SeedingInv, Judged
  <2> QED
    BY <1>a, <2>1, <2>2, <2>3 DEF SeedingInv
<1>2. CASE RuleContextExpires
  <2>1. UNCHANGED <<ruleDocs, starting, engineRules, wanted, cutShort, reseeded>>
    BY <1>2 DEF RuleContextExpires
  <2>2. SeedingTypeOK'
    BY <1>0, <2>1 DEF SeedingTypeOK
  <2>3. /\ RulesStored' = RulesStored
        /\ \A i \in MySQLRuleIDs : RuleKept(i)' /\ (Untouched(i)' <=> Untouched(i))
    BY <1>a, <2>1
  <2>4. \A k \in 1 .. starting.next - 1 : DefaultIDs[k] \in MySQLRuleIDs
    BY <1>0, SeedConstants DEF SeedingTypeOK
  <2> QED
    BY <2>1, <2>2, <2>3, <2>4 DEF SeedingInv, Judged
<1>3. CASE ListBeforeSeeding
  <2>1. UNCHANGED <<ruleDocs, engineRules, wanted, cutShort>> /\ starting.pc = "list" /\ starting.next = 1
    BY <1>3 DEF ListBeforeSeeding, SeedingInv
  <2>2. \/ starting'.pc = "load" /\ reseeded' = reseeded
        \/ starting'.pc = "seed" /\ reseeded' = MySQLRuleIDs /\ starting'.next = 1
    BY <1>0, <1>3, <2>1 DEF ListBeforeSeeding, SeedingTypeOK
  <2>3. SeedingTypeOK'
    BY <1>0, <1>3, <2>1 DEF ListBeforeSeeding, SeedingTypeOK
  <2>4. reseeded \subseteq reseeded'
    BY <1>0, <2>2 DEF SeedingTypeOK
  <2>5. 1 .. starting'.next - 1 = {} \/ starting'.pc = "load"
    BY <2>2
  <2> QED
    BY <1>a, <2>1, <2>2, <2>3, <2>4, <2>5 DEF SeedingInv
<1>4. CASE Create
  <2> DEFINE n == starting.next
             i == DefaultIDs[n]
  <2>1. /\ UNCHANGED <<ruleTimeout, engineRules, wanted, reseeded>> /\ starting.pc = "seed"
        /\ n \in 1 .. Len(DefaultIDs) /\ i \in MySQLRuleIDs /\ reseeded = MySQLRuleIDs
        /\ DefaultDocument(i) \in RuleDocs /\ DefaultDocument(i).present
        /\ toAlertRule(DefaultDocument(i)) = DefaultMySQLRules[i]
    <3>1. n \in 1 .. Len(DefaultIDs) /\ i \in MySQLRuleIDs
      BY <1>0, SeedConstants DEF SeedingTypeOK
    <3>2. DefaultMySQLRules[i] \in Rules
      BY <3>1, SeedConstants
    <3> QED
      BY <1>4, <3>1, <3>2, ReadBack DEF Create, SeedingInv, DefaultDocument
  <2>2. \/ /\ ruleDocs' = [ruleDocs EXCEPT ![i] = IF ruleDocs[i].present THEN ruleDocs[i] ELSE DefaultDocument(i)]
           /\ cutShort' = cutShort
        \/ ruleDocs' = ruleDocs /\ cutShort' = TRUE
    BY <1>4 DEF Create, InsertRule
  <2>3. /\ \A j \in MySQLRuleIDs : ruleDocs'[j] = ruleDocs[j] \/ (j = i /\ ~ruleDocs[i].present /\ ruleDocs'[i] = DefaultDocument(i))
        /\ ruleDocs'[i].present \/ cutShort'
    BY <1>0, <2>1, <2>2 DEF SeedingTypeOK
  <2>4. /\ \/ n < Len(DefaultIDs) /\ starting'.pc = "seed" /\ starting'.next = n + 1
           \/ n = Len(DefaultIDs) /\ starting'.pc = "load"
        /\ starting' \in [pc : {"down", "list", "seed", "load", "serving"}, next : 1 .. Len(DefaultIDs)]
    <3>1. CASE n < Len(DefaultIDs)
      <4>1. starting' = [starting EXCEPT !.next = n + 1]
        BY <1>4, <3>1 DEF Create
      <4>2. n + 1 \in 1 .. Len(DefaultIDs)
        BY <2>1, <3>1, SeedConstants
      <4> QED
        BY <1>0, <2>1, <3>1, <4>1, <4>2 DEF SeedingTypeOK
    <3>2. CASE n = Len(DefaultIDs)
      <4>1. starting' = [starting EXCEPT !.pc = "load"]
        BY <1>4, <3>2, SeedConstants DEF Create
      <4> QED
        BY <1>0, <3>2, <4>1 DEF SeedingTypeOK
    <3> QED
      BY <2>1, <3>1, <3>2, SeedConstants
  <2>5. SeedingTypeOK'
    <3>1. ruleDocs' \in [MySQLRuleIDs -> RuleDocs]
      BY <1>0, <2>1, <2>2 DEF SeedingTypeOK
    <3> QED
      BY <1>0, <2>1, <2>2, <2>4, <3>1 DEF SeedingTypeOK
  <2>6. \A j \in MySQLRuleIDs : RuleKept(j)'
    <3> SUFFICES ASSUME NEW j \in MySQLRuleIDs PROVE RuleKept(j)'
      OBVIOUS
    <3>1. CASE ruleDocs'[j] = ruleDocs[j]
      BY <2>1, <3>1 DEF SeedingInv, RuleKept
    <3>2. CASE j = i /\ ~ruleDocs[i].present /\ ruleDocs'[i] = DefaultDocument(i)
      BY <2>1, <3>2 DEF SeedingInv, RuleKept, Judged
    <3> QED
      BY <2>3, <3>1, <3>2
  <2>7. \A j \in MySQLRuleIDs : Untouched(j) => Untouched(j)'
    BY <2>1, <2>3 DEF Untouched
  <2>8. cutShort' \/ \A k \in 1 .. n : Untouched(DefaultIDs[k])'
    <3> SUFFICES ASSUME ~cutShort', NEW k \in 1 .. n PROVE Untouched(DefaultIDs[k])'
      OBVIOUS
    <3>1. ~cutShort
      BY <2>2
    <3>2. CASE k = n
      BY <2>3, <3>2 DEF Untouched
    <3>3. CASE k # n
      <4>1. k \in 1 .. n - 1 /\ DefaultIDs[k] \in MySQLRuleIDs
        BY <2>1, <3>3, SeedConstants
      <4> QED
        BY <2>1, <2>7, <3>1, <4>1 DEF SeedingInv
    <3> QED
      BY <3>2, <3>3
  <2>9. CASE n < Len(DefaultIDs)
    <3>1. starting'.pc = "seed" /\ 1 .. starting'.next - 1 = 1 .. n
      BY <2>1, <2>4, <2>9, SeedConstants
    <3> QED
      BY <2>1, <2>5, <2>6, <2>8, <3>1 DEF SeedingInv
  <2>10. CASE n = Len(DefaultIDs)
    <3>1. starting'.pc = "load"
      BY <2>4, <2>10, SeedConstants
    <3>2. ~cutShort' => \A j \in MySQLRuleIDs : Untouched(j)'
      BY <2>8, <2>10, SeedConstants
    <3> QED
      BY <2>1, <2>5, <2>6, <3>1, <3>2 DEF SeedingInv
  <2> QED
    BY <2>1, <2>9, <2>10, SeedConstants
<1>5. CASE ListAgain
  <2>1. UNCHANGED <<ruleDocs, wanted, cutShort, reseeded>> /\ starting.pc = "load" /\ starting'.pc = "serving"
    BY <1>0, <1>5 DEF ListAgain, SeedingTypeOK
  <2>2. SeedingTypeOK'
    BY <1>0, <1>5, <2>1 DEF ListAgain, SeedingTypeOK
  <2>3. \A i \in DOMAIN engineRules' : i \in MySQLRuleIDs /\ Judged(i, engineRules'[i])
    <3>1. CASE engineRules' = [i \in RulesStored |-> toAlertRule(ruleDocs[i])]
      BY <3>1 DEF SeedingInv, RuleKept, RulesStored
    <3>2. CASE engineRules' = DefaultMySQLRules
      BY <3>2 DEF DefaultMySQLRules, Judged
    <3> QED
      BY <1>5, <3>1, <3>2 DEF ListAgain
  <2> QED
    BY <1>a, <2>1, <2>2, <2>3 DEF SeedingInv
<1>6. CASE KillStart
  <2>1. /\ UNCHANGED <<ruleDocs, wanted, reseeded>> /\ starting' = NotStarted
        /\ cutShort' = (cutShort \/ starting.pc = "seed") /\ engineRules' = <<>>
    BY <1>6 DEF KillStart
  <2>2. SeedingTypeOK'
    BY <1>0, <2>1, SeedConstants DEF SeedingTypeOK, NotStarted
  <2>3. DOMAIN engineRules' = {} /\ starting'.pc = "down"
    BY <2>1 DEF NotStarted
  <2> QED
    BY <1>a, <2>1, <2>2, <2>3 DEF SeedingInv
<1>7. ASSUME NEW i \in MySQLRuleIDs, OperatorChanges(i) PROVE SeedingInv'
  <2> DEFINE own == [threshold |-> OwnThreshold]
             written == mongoAlertRuleDocumentFromAlertRule(own)
  <2>1. UNCHANGED <<starting, ruleTimeout, engineRules, cutShort>> /\ ruleDocs[i].present
    BY <1>7 DEF OperatorChanges
  <2>2. written \in RuleDocs /\ written.present /\ toAlertRule(written) = own /\ own.threshold = OwnThreshold
    BY SeedConstants, ReadBack
  <2> HIDE DEF written, own
  <2>3. \/ /\ ruleDocs' = [ruleDocs EXCEPT ![i] = written] /\ wanted' = [wanted EXCEPT ![i] = "edited"]
           /\ reseeded' = reseeded
        \/ /\ ruleDocs' = [ruleDocs EXCEPT ![i] = NoDocument] /\ wanted' = [wanted EXCEPT ![i] = "deleted"]
           /\ reseeded' = IF starting.pc = "seed" THEN reseeded ELSE reseeded \ {i}
    BY <1>7 DEF OperatorChanges, written, own
  <2>4. SeedingTypeOK'
    <3>1. ruleDocs' \in [MySQLRuleIDs -> RuleDocs]
      BY <1>0, <2>2, <2>3, SeedConstants DEF SeedingTypeOK
    <3>2. wanted' \in [MySQLRuleIDs -> {"nothing", "edited", "deleted"}]
      BY <1>0, <2>3 DEF SeedingTypeOK
    <3> QED
      BY <1>0, <2>1, <2>3, <3>1, <3>2 DEF SeedingTypeOK
  <2>5. \A j \in MySQLRuleIDs \ {i} : /\ ruleDocs'[j] = ruleDocs[j] /\ wanted'[j] = wanted[j]
                                      /\ j \in reseeded' <=> j \in reseeded
    BY <1>0, <2>3 DEF SeedingTypeOK
  <2>6. \/ ruleDocs'[i] = written /\ wanted'[i] = "edited"
        \/ ruleDocs'[i] = NoDocument /\ wanted'[i] = "deleted"
    BY <1>0, <2>3 DEF SeedingTypeOK
  <2>7. \A j \in MySQLRuleIDs : RuleKept(j)'
    <3>1. RuleKept(i)'
      BY <2>2, <2>6, SeedConstants DEF RuleKept, Judged
    <3>2. ASSUME NEW j \in MySQLRuleIDs \ {i} PROVE RuleKept(j)'
      <4>1. RuleKept(j)
        BY DEF SeedingInv
      <4>2. ruleDocs'[j] = ruleDocs[j] /\ wanted'[j] = wanted[j] /\ (j \in reseeded' <=> j \in reseeded)
        BY <2>5
      <4> QED
        BY <4>1, <4>2 DEF RuleKept, Judged
    <3> QED
      BY <3>1, <3>2
  <2>8. \A j \in MySQLRuleIDs : Untouched(j) => Untouched(j)'
    <3>1. \A j \in MySQLRuleIDs \ {i} : Untouched(j) => Untouched(j)'
      BY <2>5 DEF Untouched
    <3>2. Untouched(i)'
      BY <2>6 DEF Untouched
    <3> QED
      BY <3>1, <3>2
  <2>9. i \in RulesStored /\ (starting.pc = "seed" => reseeded' = reseeded)
    BY <2>1, <2>3 DEF RulesStored
  <2>10. \A k \in 1 .. starting.next - 1 : DefaultIDs[k] \in MySQLRuleIDs
    BY <1>0, SeedConstants DEF SeedingTypeOK
  <2> QED
    BY <2>1, <2>4, <2>7, <2>8, <2>9, <2>10 DEF SeedingInv
<1>8. CASE UNCHANGED seedVars
  <2>1. SeedingTypeOK'
    BY <1>0, <1>8 DEF SeedingTypeOK, seedVars
  <2>2. /\ RulesStored' = RulesStored
        /\ \A i \in MySQLRuleIDs : RuleKept(i)' /\ (Untouched(i)' <=> Untouched(i))
    BY <1>8, <1>a DEF seedVars
  <2>3. \A k \in 1 .. starting.next - 1 : DefaultIDs[k] \in MySQLRuleIDs
    BY <1>0, SeedConstants DEF SeedingTypeOK
  <2> QED
    BY <1>8, <2>1, <2>2, <2>3 DEF SeedingInv, Judged, seedVars
<1> QED
  BY <1>1, <1>2, <1>3, <1>4, <1>5, <1>6, <1>7, <1>8 DEF SeedingNext

\* What the default MySQL rules become over failing starts and edits by hand: a
\* rule that is stored is judged by the default or by an operator's threshold, and
\* one nobody deleted is missing after a start only when an insertion failed or a
\* start was cut off (main.go seeding, Create, List).
THEOREM SeedingTheorem == SeedingSpec => []SeedingSound
<1>1. SeedingSpec => []SeedingInv
  BY SeedingInitInv, SeedingStepInv, PTL DEF SeedingSpec
<1>2. SeedingInv => SeedingSound
  BY DEF SeedingInv, SeedingTypeOK, RuleKept, Untouched, Judged, SeedingSound
<1> QED
  BY <1>1, <1>2, PTL

-----------------------------------------------------------------------------
(***************************************************************************)
(* Heartbeats.  The age of a successful ping is the time since the job     *)
(* called; a run that no ping came in has a copy that is still right; and  *)
(* only a run that one came in marks a fresh ping missed.                  *)
(***************************************************************************)
Ages    == 0 .. Far
Pings   == [age : Ages, st : {"none", "success", "fail"}]
HbRuns  == [ping : Pings, on : BOOLEAN, pinged : BOOLEAN]

HeartbeatsTypeOK ==
    /\ inFile \subseteq HbTokens /\ hbKnown \subseteq HbTokens
    /\ hbState \in [HbTokens -> [ping : Pings, shown : {"unknown", "missed", "healthy"}]]
    /\ hbRun \in [HbTokens -> HbRuns]
    /\ hbVerdict \in [HbTokens -> {"starting", "none", "failed", "late", "warning", "ok"}]
    /\ jobAge \in [HbTokens -> Ages]

\* What the store knows of the job.
StateTrue(t) ==
    /\ t \in hbKnown <=> hbState[t].shown # "unknown"
    /\ hbState[t].shown = "unknown" => hbState[t].ping = NoPing
    /\ t \in hbKnown => IF hbState[t].ping.st = "success" THEN jobAge[t] = hbState[t].ping.age ELSE jobAge[t] = Far
    /\ hbState[t].ping.st = "none" => hbState[t].ping.age = Far
    /\ (hbState[t].shown = "missed" /\ hbState[t].ping.age <= Interval) => t \in crossed

CopyTrue(t) == (hbRun[t].on /\ ~hbRun[t].pinged) => hbRun[t].ping = hbState[t].ping

HeartbeatsInv == HeartbeatsTypeOK /\ \A t \in HbTokens : StateTrue(t) /\ CopyTrue(t)

\* What a step may do to a token.
TokenSound(t) ==
    /\ (hbRun[t].on /\ ~hbRun'[t].on /\ hbVerdict'[t] = "ok" /\ ~hbRun[t].pinged) => jobAge[t] <= Interval
    /\ (hbRun[t].on /\ ~hbRun'[t].on /\ hbVerdict'[t] \in {"late", "warning", "none"})
           => jobAge[t] > Interval \/ hbRun[t].pinged \/ t \notin hbKnown

LEMMA AgeFacts ==
    /\ Interval \in Nat \ {0} /\ GracePeriod \in Nat \ {0} /\ Deadline \in Nat /\ Far \in Nat
    /\ Interval < Deadline /\ Deadline < Far /\ 0 \in Ages /\ Far \in Ages
    /\ NoPing \in Pings /\ NoPing.st = "none" /\ NoPing.age = Far
BY HeartbeatAssumption DEF Deadline, Far, Ages, Pings, NoPing

\* The two states a token has before its first ping.
LEMMA FreshStates ==
    /\ NotRegistered \in [ping : Pings, shown : {"unknown", "missed", "healthy"}]
    /\ Registered \in [ping : Pings, shown : {"unknown", "missed", "healthy"}]
    /\ NotRegistered.ping = NoPing /\ NotRegistered.shown = "unknown"
    /\ Registered.ping = NoPing /\ Registered.shown = "missed"
    /\ NoHbRun \in HbRuns /\ ~NoHbRun.on
BY AgeFacts DEF NotRegistered, Registered, NoHbRun, HbRuns

LEMMA HeartbeatsInitInv == HeartbeatsInit => HeartbeatsInv
<1> SUFFICES ASSUME HeartbeatsInit PROVE HeartbeatsInv
  OBVIOUS
<1>1. HeartbeatsTypeOK
  BY AgeFacts, FreshStates DEF HeartbeatsInit, HeartbeatsTypeOK
<1>2. ASSUME NEW t \in HbTokens PROVE StateTrue(t) /\ CopyTrue(t)
  BY AgeFacts, FreshStates DEF HeartbeatsInit, StateTrue, CopyTrue
<1> QED
  BY <1>1, <1>2 DEF HeartbeatsInv

\* Every step is one of these for each token: the token is left alone, ...
TokenUntouched(t) ==
    /\ hbState'[t] = hbState[t] /\ hbRun'[t] = hbRun[t] /\ jobAge'[t] = jobAge[t]
    /\ t \in hbKnown' <=> t \in hbKnown
    /\ t \in crossed' <=> t \in crossed

LEMMA TokenUntouchedKeeps ==
    ASSUME HeartbeatsInv, NEW t \in HbTokens, TokenUntouched(t)
    PROVE  StateTrue(t)' /\ CopyTrue(t)' /\ TokenSound(t)
<1>1. StateTrue(t) /\ CopyTrue(t)
  BY DEF HeartbeatsInv
<1> QED
  BY <1>1 DEF TokenUntouched, StateTrue, CopyTrue, TokenSound

LEMMA SaveStep ==
    ASSUME HeartbeatsInv, NEW t \in HbTokens, SaveHeartbeat(t)
    PROVE  HeartbeatsInv' /\ \A u \in HbTokens : TokenSound(u)
<1> DEFINE new == IF hbState[t] = NotRegistered THEN Registered ELSE hbState[t]
<1>0. HeartbeatsTypeOK /\ StateTrue(t) /\ CopyTrue(t)
  BY DEF HeartbeatsInv
<1>1. /\ hbState' = [hbState EXCEPT ![t] = new] /\ hbKnown' = hbKnown \cup {t}
      /\ jobAge' = [jobAge EXCEPT ![t] = IF t \in hbKnown THEN jobAge[t] ELSE Far]
      /\ UNCHANGED <<inFile, hbRun, hbVerdict, crossed>>
  BY DEF SaveHeartbeat, Register
<1>2. /\ new \in [ping : Pings, shown : {"unknown", "missed", "healthy"}] /\ new.ping = hbState[t].ping /\ new.shown # "unknown"
      /\ new.shown = "missed" /\ new.ping.age <= Interval => t \in crossed
  <2>1. hbState[t] \in [ping : Pings, shown : {"unknown", "missed", "healthy"}]
    BY <1>0 DEF HeartbeatsTypeOK
  <2>2. CASE hbState[t] = NotRegistered
    BY <2>2, FreshStates, AgeFacts
  <2>3. CASE hbState[t] # NotRegistered
    <3>1. hbState[t].shown # "unknown"
      BY <1>0, <2>1, <2>3 DEF StateTrue, NotRegistered
    <3> QED
      BY <1>0, <2>1, <2>3, <3>1 DEF StateTrue
  <2> QED
    BY <2>2, <2>3
<1> HIDE DEF new
<1>3. HeartbeatsTypeOK'
  BY <1>0, <1>1, <1>2, AgeFacts DEF HeartbeatsTypeOK
<1>4. StateTrue(t)' /\ CopyTrue(t)' /\ TokenSound(t)
  <2>1. hbState'[t] = new /\ hbRun'[t] = hbRun[t] /\ t \in hbKnown' /\ crossed' = crossed
        /\ jobAge'[t] = IF t \in hbKnown THEN jobAge[t] ELSE Far
    BY <1>0, <1>1 DEF HeartbeatsTypeOK
  <2>2. t \notin hbKnown => hbState[t].ping = NoPing
    BY <1>0 DEF StateTrue
  <2> QED
    BY <1>0, <1>2, <2>1, <2>2, AgeFacts DEF StateTrue, CopyTrue, TokenSound
<1>5. ASSUME NEW u \in HbTokens, u # t PROVE StateTrue(u)' /\ CopyTrue(u)' /\ TokenSound(u)
  <2>1. TokenUntouched(u)
    BY <1>0, <1>1, <1>5 DEF HeartbeatsTypeOK, TokenUntouched
  <2> QED
    BY <2>1, TokenUntouchedKeeps
<1> QED
  BY <1>3, <1>4, <1>5 DEF HeartbeatsInv

LEMMA PingStep ==
    ASSUME HeartbeatsInv, NEW t \in HbTokens, NEW st \in {"success", "fail"}, handlePing(t, st)
    PROVE  HeartbeatsInv' /\ \A u \in HbTokens : TokenSound(u)
<1> DEFINE new == [ping |-> [age |-> 0, st |-> st], shown |-> "healthy"]
           run == [hbRun[t] EXCEPT !.pinged = hbRun[t].pinged \/ hbRun[t].on]
<1>0. HeartbeatsTypeOK /\ StateTrue(t) /\ CopyTrue(t)
  BY DEF HeartbeatsInv
<1>1. /\ \/ hbState[t] # NotRegistered /\ hbState' = [hbState EXCEPT ![t] = new]
         \/ hbState[t] = NotRegistered /\ hbState' = hbState
      /\ hbRun' = [hbRun EXCEPT ![t] = run]
      /\ jobAge' = [jobAge EXCEPT ![t] = IF st = "fail" THEN Far ELSE 0]
      /\ crossed' = crossed \ {t} /\ UNCHANGED <<inFile, hbVerdict, hbKnown>>
  BY DEF handlePing, RecordPing
<1>2. new \in [ping : Pings, shown : {"unknown", "missed", "healthy"}]
      /\ new.ping.st = st /\ new.ping.age = 0 /\ new.shown = "healthy"
  BY AgeFacts DEF Pings
<1>3. hbRun[t] \in HbRuns /\ run \in HbRuns /\ run.on = hbRun[t].on /\ run.ping = hbRun[t].ping /\ (run.on => run.pinged)
  BY <1>0 DEF HeartbeatsTypeOK, HbRuns
<1> HIDE DEF new, run
<1>4. HeartbeatsTypeOK'
  BY <1>0, <1>1, <1>2, <1>3, AgeFacts DEF HeartbeatsTypeOK
<1>5. StateTrue(t)' /\ CopyTrue(t)' /\ TokenSound(t)
  <2>1. hbRun'[t] = run /\ jobAge'[t] = (IF st = "fail" THEN Far ELSE 0) /\ hbVerdict' = hbVerdict
    BY <1>0, <1>1 DEF HeartbeatsTypeOK
  <2>2. CopyTrue(t)' /\ TokenSound(t)
    BY <1>3, <2>1 DEF CopyTrue, TokenSound
  <2>3. CASE hbState[t] # NotRegistered
    <3>1. hbState[t].shown # "unknown"
      BY <1>0, <2>3 DEF HeartbeatsTypeOK, StateTrue, NotRegistered
    <3>2. hbState'[t] = new /\ hbKnown' = hbKnown
      BY <1>0, <1>1, <2>3 DEF HeartbeatsTypeOK
    <3> QED
      BY <1>0, <1>2, <2>1, <2>2, <3>1, <3>2 DEF StateTrue
  <2>4. CASE hbState[t] = NotRegistered
    <3>1. hbState'[t] = hbState[t] /\ hbKnown' = hbKnown /\ hbState[t].shown = "unknown"
      BY <1>1, <2>4, FreshStates
    <3> QED
      BY <1>0, <2>2, <3>1, FreshStates, AgeFacts DEF StateTrue
  <2> QED
    BY <2>2, <2>3, <2>4
<1>6. ASSUME NEW u \in HbTokens, u # t PROVE StateTrue(u)' /\ CopyTrue(u)' /\ TokenSound(u)
  <2>1. TokenUntouched(u)
    BY <1>0, <1>1, <1>6 DEF HeartbeatsTypeOK, TokenUntouched
  <2> QED
    BY <2>1, TokenUntouchedKeeps
<1> QED
  BY <1>4, <1>5, <1>6 DEF HeartbeatsInv

LEMMA TickStep ==
    ASSUME HeartbeatsInv, TickHeartbeats
    PROVE  HeartbeatsInv' /\ \A u \in HbTokens : TokenSound(u)
<1> DEFINE Older(a) == IF a < Far THEN a + 1 ELSE Far
<1>0. HeartbeatsTypeOK
  BY DEF HeartbeatsInv
<1>1. /\ hbState' = [t \in HbTokens |-> [hbState[t] EXCEPT !.ping = [hbState[t].ping EXCEPT !.age = Older(hbState[t].ping.age)]]]
      /\ hbRun' = [t \in HbTokens |-> [hbRun[t] EXCEPT !.ping = [hbRun[t].ping EXCEPT !.age = Older(hbRun[t].ping.age)]]]
      /\ jobAge' = [t \in HbTokens |-> Older(jobAge[t])]
      /\ UNCHANGED <<inFile, hbCheck, hbVerdict, hbKnown, crossed>>
  BY DEF TickHeartbeats
<1>2. \A a \in Ages : Older(a) \in Ages /\ a <= Older(a) /\ (a = Far => Older(a) = Far)
  BY AgeFacts DEF Ages
<1> DEFINE P(p) == [p EXCEPT !.age = Older(p.age)]
<1>3. \A p \in Pings : P(p) \in Pings /\ P(p).st = p.st /\ P(p).age = Older(p.age)
  BY <1>2 DEF Pings
<1>4. /\ \A t \in HbTokens : hbState[t].ping \in Pings /\ hbRun[t].ping \in Pings /\ jobAge[t] \in Ages
      /\ \A t \in HbTokens : hbState'[t] = [hbState[t] EXCEPT !.ping = P(hbState[t].ping)]
      /\ \A t \in HbTokens : hbRun'[t] = [hbRun[t] EXCEPT !.ping = P(hbRun[t].ping)]
  BY <1>0, <1>1 DEF HeartbeatsTypeOK, HbRuns
<1> HIDE DEF P, Older
<1>5. ASSUME NEW t \in HbTokens
      PROVE  /\ hbState'[t] \in [ping : Pings, shown : {"unknown", "missed", "healthy"}]
             /\ hbState'[t].ping = P(hbState[t].ping) /\ hbState'[t].shown = hbState[t].shown
             /\ hbRun'[t] \in HbRuns /\ hbRun'[t].ping = P(hbRun[t].ping)
             /\ hbRun'[t].on = hbRun[t].on /\ hbRun'[t].pinged = hbRun[t].pinged
  <2> DEFINE p == P(hbState[t].ping)
             q == P(hbRun[t].ping)
  <2>1. p \in Pings /\ q \in Pings /\ hbState'[t] = [hbState[t] EXCEPT !.ping = p] /\ hbRun'[t] = [hbRun[t] EXCEPT !.ping = q]
    BY <1>3, <1>4
  <2>2. hbState[t] \in [ping : Pings, shown : {"unknown", "missed", "healthy"}] /\ hbRun[t] \in HbRuns
    BY <1>0 DEF HeartbeatsTypeOK
  <2> HIDE DEF p, q
  <2>3. /\ hbState'[t] \in [ping : Pings, shown : {"unknown", "missed", "healthy"}]
        /\ hbState'[t].ping = p /\ hbState'[t].shown = hbState[t].shown
        /\ hbRun'[t] \in HbRuns /\ hbRun'[t].ping = q
        /\ hbRun'[t].on = hbRun[t].on /\ hbRun'[t].pinged = hbRun[t].pinged
    BY <2>1, <2>2 DEF HbRuns
  <2> QED
    BY <2>3 DEF p, q
<1>6. HeartbeatsTypeOK'
  BY <1>0, <1>1, <1>2, <1>5 DEF HeartbeatsTypeOK
<1>7. ASSUME NEW t \in HbTokens PROVE StateTrue(t)' /\ CopyTrue(t)' /\ TokenSound(t)
  <2>1. StateTrue(t) /\ CopyTrue(t)
    BY DEF HeartbeatsInv
  <2>2. /\ hbState'[t].ping.st = hbState[t].ping.st /\ hbState'[t].ping.age = Older(hbState[t].ping.age)
        /\ hbState[t].ping.age \in Ages /\ jobAge'[t] = Older(jobAge[t]) /\ P(NoPing) = NoPing
    <3>1. P(NoPing) = NoPing
      BY <1>2, AgeFacts DEF P, NoPing
    <3> QED
      <4>1. hbState[t].ping \in Pings /\ hbState'[t].ping = P(hbState[t].ping) /\ jobAge'[t] = Older(jobAge[t])
        BY <1>1, <1>4, <1>5
      <4> QED
        BY <1>3, <3>1, <4>1 DEF Pings
  <2>3. hbState'[t].ping.age <= Interval => hbState[t].ping.age <= Interval
    BY <1>2, <2>2, AgeFacts DEF Ages
  <2>4. jobAge[t] \in Ages /\ hbKnown' = hbKnown /\ crossed' = crossed /\ hbState'[t].shown = hbState[t].shown
        /\ hbState'[t].ping = P(hbState[t].ping)
    BY <1>1, <1>4, <1>5
  <2>5. StateTrue(t)'
    BY <1>2, <2>1, <2>2, <2>3, <2>4 DEF StateTrue
  <2>6. CopyTrue(t)' /\ TokenSound(t)
    BY <1>5, <2>1, <2>4 DEF CopyTrue, TokenSound
  <2> QED
    BY <2>5, <2>6
<1> QED
  BY <1>6, <1>7 DEF HeartbeatsInv

LEMMA OtherSteps ==
    ASSUME HeartbeatsInv, RestartHeartbeats \/ \E t \in HbTokens : DeleteHeartbeat(t) \/ GetState(t)
    PROVE  HeartbeatsInv' /\ \A u \in HbTokens : TokenSound(u)
<1>0. HeartbeatsTypeOK
  BY DEF HeartbeatsInv
<1>1. CASE RestartHeartbeats
  <2>1. HeartbeatsTypeOK'
    BY <1>0, <1>1, AgeFacts, FreshStates DEF RestartHeartbeats, HeartbeatsTypeOK
  <2>2. ASSUME NEW t \in HbTokens PROVE StateTrue(t)' /\ CopyTrue(t)' /\ TokenSound(t)
    BY <1>1, AgeFacts, FreshStates DEF RestartHeartbeats, StateTrue, CopyTrue, TokenSound
  <2> QED
    BY <2>1, <2>2 DEF HeartbeatsInv
<1>2. ASSUME NEW t \in HbTokens, DeleteHeartbeat(t) PROVE HeartbeatsInv' /\ \A u \in HbTokens : TokenSound(u)
  <2>1. HeartbeatsTypeOK' /\ \A u \in HbTokens : TokenUntouched(u)
    BY <1>0, <1>2 DEF DeleteHeartbeat, HeartbeatsTypeOK, TokenUntouched
  <2> QED
    BY <2>1, TokenUntouchedKeeps DEF HeartbeatsInv
<1>3. ASSUME NEW t \in HbTokens, GetState(t) PROVE HeartbeatsInv' /\ \A u \in HbTokens : TokenSound(u)
  <2> DEFINE run == [ping |-> hbState[t].ping, on |-> TRUE, pinged |-> FALSE]
  <2>1. hbRun' = [hbRun EXCEPT ![t] = run] /\ UNCHANGED <<inFile, hbCheck, hbState, hbVerdict, jobAge, hbKnown, crossed>>
    BY <1>3 DEF GetState
  <2>2. run \in HbRuns /\ run.ping = hbState[t].ping /\ run.on
    BY <1>0 DEF HeartbeatsTypeOK, HbRuns
  <2> HIDE DEF run
  <2>3. HeartbeatsTypeOK'
    BY <1>0, <2>1, <2>2 DEF HeartbeatsTypeOK
  <2>4. StateTrue(t)' /\ CopyTrue(t)' /\ TokenSound(t)
    <3>1. hbRun'[t] = run /\ StateTrue(t)
      BY <1>0, <2>1 DEF HeartbeatsTypeOK, HeartbeatsInv
    <3> QED
      BY <2>1, <2>2, <3>1 DEF StateTrue, CopyTrue, TokenSound
  <2>5. ASSUME NEW u \in HbTokens, u # t PROVE StateTrue(u)' /\ CopyTrue(u)' /\ TokenSound(u)
    <3>1. TokenUntouched(u)
      BY <1>0, <2>1, <2>5 DEF HeartbeatsTypeOK, TokenUntouched
    <3> QED
      BY <3>1, TokenUntouchedKeeps
  <2> QED
    BY <2>3, <2>4, <2>5 DEF HeartbeatsInv
<1> QED
  BY <1>1, <1>2, <1>3

LEMMA ExecuteStep ==
    ASSUME HeartbeatsInv, NEW t \in HbTokens, Execute(t)
    PROVE  HeartbeatsInv' /\ \A u \in HbTokens : TokenSound(u)
<1> DEFINE v == HbVerdict(hbRun[t].ping)
           new == [hbState[t] EXCEPT !.shown = IF hbState[t] = NotRegistered THEN hbState[t].shown ELSE "missed"]
<1>0. HeartbeatsTypeOK /\ StateTrue(t) /\ CopyTrue(t)
  BY DEF HeartbeatsInv
<1>1. /\ hbRun[t].on /\ hbVerdict' = [hbVerdict EXCEPT ![t] = v] /\ hbRun' = [hbRun EXCEPT ![t] = NoHbRun]
      /\ \/ v # "late" /\ hbState' = hbState /\ crossed' = crossed
         \/ /\ v = "late" /\ hbState' = [hbState EXCEPT ![t] = new]
            /\ crossed' = IF hbRun[t].pinged THEN crossed \cup {t} ELSE crossed
      /\ UNCHANGED <<inFile, hbCheck, jobAge, hbKnown>>
  BY DEF Execute
<1>2. /\ v \in {"none", "failed", "late", "warning", "ok"}
      /\ v \in {"late", "warning"} => hbRun[t].ping.st = "success" /\ hbRun[t].ping.age > Interval
      /\ v = "late" => hbRun[t].ping.age > Deadline
      /\ v = "none" => hbRun[t].ping.st = "none"
      /\ v = "ok" => hbRun[t].ping.st = "success" /\ hbRun[t].ping.age <= Interval
  <2>1. hbRun[t].ping \in Pings
    BY <1>0 DEF HeartbeatsTypeOK, HbRuns
  <2>2. hbRun[t].ping.st \in {"none", "success", "fail"} /\ hbRun[t].ping.age \in Nat
    BY <2>1, AgeFacts DEF Pings, Ages
  <2> QED
    BY <2>2, AgeFacts DEF HbVerdict
<1>3. hbState[t] \in [ping : Pings, shown : {"unknown", "missed", "healthy"}] /\ hbState[t].ping.age \in Nat
  BY <1>0, AgeFacts DEF HeartbeatsTypeOK, Pings, Ages
<1>4. /\ new \in [ping : Pings, shown : {"unknown", "missed", "healthy"}] /\ new.ping = hbState[t].ping
      /\ new.shown = IF t \in hbKnown THEN "missed" ELSE "unknown"
  <2>1. hbState[t] = NotRegistered <=> t \notin hbKnown
    <3>1. t \notin hbKnown => hbState[t].shown = "unknown" /\ hbState[t].ping = NoPing
      BY <1>0 DEF StateTrue
    <3>2. t \notin hbKnown => hbState[t] = NotRegistered
      BY <1>3, <3>1 DEF NotRegistered
    <3> QED
      BY <1>0, <3>2, FreshStates DEF StateTrue
  <2> QED
    BY <1>3, <2>1, FreshStates
<1> HIDE DEF v, new
<1>5. HeartbeatsTypeOK'
  BY <1>0, <1>1, <1>2, <1>4, FreshStates DEF HeartbeatsTypeOK
<1>6. StateTrue(t)' /\ CopyTrue(t)' /\ TokenSound(t)
  <2>1. hbVerdict'[t] = v /\ hbRun'[t] = NoHbRun /\ hbKnown' = hbKnown /\ jobAge' = jobAge
    BY <1>0, <1>1 DEF HeartbeatsTypeOK
  <2>2. CopyTrue(t)'
    BY <2>1, FreshStates DEF CopyTrue
  <2>3. TokenSound(t)
    BY <1>0, <1>1, <1>2, <2>1, AgeFacts DEF TokenSound, StateTrue, CopyTrue
  <2>4. CASE v # "late"
    <3>1. hbState' = hbState /\ crossed' = crossed
      BY <1>1, <2>4
    <3> QED
      BY <1>0, <2>1, <2>2, <2>3, <3>1 DEF StateTrue
  <2>5. CASE v = "late"
    <3>1. hbState'[t] = new /\ (t \in crossed \/ hbRun[t].pinged => t \in crossed')
      BY <1>0, <1>1, <2>5 DEF HeartbeatsTypeOK
    <3>2. hbRun[t].pinged \/ hbState[t].ping.age > Interval
      BY <1>0, <1>1, <1>2, <1>3, <2>5, AgeFacts DEF CopyTrue
    <3> QED
      BY <1>0, <1>3, <1>4, <2>1, <2>2, <2>3, <3>1, <3>2, AgeFacts DEF StateTrue
  <2> QED
    BY <2>4, <2>5
<1>7. ASSUME NEW u \in HbTokens, u # t PROVE StateTrue(u)' /\ CopyTrue(u)' /\ TokenSound(u)
  <2>1. TokenUntouched(u)
    BY <1>0, <1>1, <1>7 DEF HeartbeatsTypeOK, TokenUntouched
  <2> QED
    BY <2>1, TokenUntouchedKeeps
<1> QED
  BY <1>5, <1>6, <1>7 DEF HeartbeatsInv

LEMMA HeartbeatsStep ==
    ASSUME HeartbeatsInv, [HeartbeatsNext]_hbVars
    PROVE  HeartbeatsInv' /\ \A u \in HbTokens : TokenSound(u)
<1>1. CASE HeartbeatsNext
  BY <1>1, SaveStep, PingStep, TickStep, OtherSteps, ExecuteStep DEF HeartbeatsNext
<1>2. CASE UNCHANGED hbVars
  <2>1. HeartbeatsTypeOK' /\ \A u \in HbTokens : TokenUntouched(u)
    BY <1>2 DEF hbVars, HeartbeatsInv, HeartbeatsTypeOK, TokenUntouched
  <2> QED
    BY <2>1, TokenUntouchedKeeps DEF HeartbeatsInv
<1> QED
  BY <1>1, <1>2

\* A run calls a job healthy only if it called within the interval and raises no
\* false alarm, unless a ping came in during the run or the token was lost in a
\* restart; and only such a run marks a fresh ping missed (check_heartbeat.go
\* Execute, RecordPing).
THEOREM HeartbeatsTheorem == HeartbeatsSpec => HeartbeatsSound
<1>1. HeartbeatsInit => HeartbeatsInv
  BY HeartbeatsInitInv
<1>2. HeartbeatsInv /\ [HeartbeatsNext]_hbVars => HeartbeatsInv'
  BY HeartbeatsStep
<1> DEFINE Step ==
      \A t \in HbTokens :
         /\ (hbRun[t].on /\ ~hbRun'[t].on /\ hbVerdict'[t] = "ok" /\ ~hbRun[t].pinged)
                => jobAge[t] <= Interval
         /\ (hbRun[t].on /\ ~hbRun'[t].on /\ hbVerdict'[t] \in {"late", "warning", "none"})
                => jobAge[t] > Interval \/ hbRun[t].pinged \/ t \notin hbKnown
         /\ (hbState[t].shown = "missed" /\ hbState[t].ping.age <= Interval) => t \in crossed
<1>3. HeartbeatsInv /\ [HeartbeatsNext]_hbVars => [Step]_hbVars
  BY HeartbeatsStep DEF TokenSound, HeartbeatsInv, StateTrue
<1> HIDE DEF Step
<1>4. HeartbeatsSpec => [][Step]_hbVars
  BY <1>1, <1>2, <1>3, PTL DEF HeartbeatsSpec
<1> QED
  BY <1>4 DEF HeartbeatsSound, Step

-----------------------------------------------------------------------------
(***************************************************************************)
(* Retention.  A pass lags by what it has lasted, never the other way      *)
(* round, so a document it finds expired is at least as old as it thinks.  *)
(***************************************************************************)
Documents == {NoDoc} \cup [age : 0..MaxAge, open : BOOLEAN]

IsPass(p) ==
    /\ p = [on |-> p.on, left |-> p.left, doing |-> p.doing, elapsed |-> p.elapsed]
    /\ p.elapsed \in {0, 1}

RetentionTypeOK ==
    /\ doc \in [Collections -> Documents]
    /\ IsPass(pass)

KeptBy(c) == (doc[c] # NoDoc /\ doc'[c] = NoDoc) => doc[c].age > Registration(OwnerOf(c)) /\ ~doc[c].open

LEMMA RetentionStep ==
    ASSUME RetentionTypeOK, RetentionNext
    PROVE  RetentionTypeOK' /\ \A c \in Collections : KeptBy(c)
<1>t. doc \in [Collections -> Documents] /\ IsPass(pass)
  BY DEF RetentionTypeOK
<1>n. MaxAge \in Nat
  BY RetentionAssumption
<1>1. CASE UNCHANGED doc /\ IsPass(pass')
  BY <1>t, <1>1 DEF RetentionTypeOK, KeptBy
<1>2. ASSUME NEW r \in RetRepos, RunOnce(r) PROVE UNCHANGED doc /\ IsPass(pass')
  BY <1>t, <1>2 DEF IsPass, FirstStep, Waiting, RunOnce
<1>3. RunDaily \/ RunOnceEnds \/ RestartRetention => UNCHANGED doc /\ IsPass(pass')
  BY <1>t DEF IsPass, FirstStep, Waiting, RunDaily, RunOnceEnds, RestartRetention
<1>4. PruneRefused => UNCHANGED doc /\ IsPass(pass')
  BY <1>t DEF IsPass, PruneRefused, AfterFailure
<1>5. ASSUME NEW c \in Collections, NEW d \in Documents \ {NoDoc}, doc' = [doc EXCEPT ![c] = d], pass' = pass
      PROVE  RetentionTypeOK' /\ \A k \in Collections : KeptBy(k)
  <2>1. doc' \in [Collections -> Documents] /\ \A k \in Collections : doc'[k] = IF k = c THEN d ELSE doc[k]
    BY <1>t, <1>5
  <2> QED
    BY <1>t, <1>5, <2>1 DEF RetentionTypeOK, KeptBy
<1>6. ASSUME NEW open \in BOOLEAN PROVE [age |-> 0, open |-> open] \in Documents \ {NoDoc}
  <2>1. [age |-> 0, open |-> open] \in [age : 0..MaxAge, open : BOOLEAN]
    BY <1>n
  <2>2. [age |-> 0, open |-> open].age = 0 /\ NoDoc.age = -1
    BY DEF NoDoc
  <2>3. [age |-> 0, open |-> open] # NoDoc
    BY <2>2
  <2> QED
    BY <2>1, <2>3 DEF Documents
<1>7. ASSUME NEW c \in Collections, Insert(c) PROVE RetentionTypeOK' /\ \A k \in Collections : KeptBy(k)
  <2>1. (c = "incidents") \in BOOLEAN
    OBVIOUS
  <2>2. doc' = [doc EXCEPT ![c] = [age |-> 0, open |-> c = "incidents"]] /\ pass' = pass
    BY <1>7 DEF Insert
  <2> QED
    BY <1>5, <1>6, <2>1, <2>2
<1>8. ASSUME NEW c \in Collections, NEW open \in BOOLEAN, UpdateIncident(c, open)
      PROVE  RetentionTypeOK' /\ \A k \in Collections : KeptBy(k)
  <2>1. doc' = [doc EXCEPT ![c] = [age |-> 0, open |-> open]] /\ pass' = pass
    BY <1>8 DEF UpdateIncident
  <2> QED
    BY <1>5, <1>6, <2>1
<1>9. CASE NextDay
  <2>1. IsPass(pass')
    BY <1>t, <1>9 DEF IsPass, NextDay
  <2>2. ASSUME NEW c \in Collections
        PROVE  doc'[c] \in Documents /\ (doc'[c] = NoDoc => doc[c] = NoDoc)
    <3>1. doc'[c] = IF doc[c] = NoDoc \/ doc[c].age = MaxAge THEN doc[c] ELSE [doc[c] EXCEPT !.age = @ + 1]
      BY <1>9 DEF NextDay
    <3>2. CASE doc[c] = NoDoc \/ doc[c].age = MaxAge
      BY <1>t, <3>1, <3>2
    <3>3. CASE ~(doc[c] = NoDoc \/ doc[c].age = MaxAge)
      <4>1. doc[c] \in [age : 0..MaxAge, open : BOOLEAN]
        BY <1>t, <3>3 DEF Documents
      <4>2. doc'[c] \in [age : 0..MaxAge, open : BOOLEAN] /\ doc'[c].age >= 1
        BY <1>n, <3>1, <3>3, <4>1
      <4>3. doc'[c] # NoDoc
        BY <4>2 DEF NoDoc
      <4> QED
        BY <4>2, <4>3 DEF Documents
    <3> QED
      BY <3>2, <3>3
  <2>3. doc' \in [Collections -> Documents]
    BY <1>9, <2>2 DEF NextDay
  <2> QED
    BY <2>1, <2>2, <2>3 DEF RetentionTypeOK, KeptBy
\* A deletion removes the document it found expired or none.
<1>10. ASSUME NEW c, NEW applied \in BOOLEAN, IsPass(pass'),
              doc' = [doc EXCEPT ![c] = IF applied /\ Pruned(c) THEN NoDoc ELSE @]
       PROVE  RetentionTypeOK' /\ \A k \in Collections : KeptBy(k)
  <2>1. ASSUME NEW k \in Collections
        PROVE  doc'[k] = doc[k] \/ (doc'[k] = NoDoc /\ Pruned(k))
    BY <1>t, <1>10
  <2>2. doc' \in [Collections -> Documents]
    <3>1. NoDoc \in Documents
      BY DEF Documents
    <3>2. \A k \in Collections : doc'[k] \in Documents
      BY <1>t, <2>1, <3>1
    <3>3. doc' = [k \in Collections |-> doc'[k]]
      BY <1>t, <1>10
    <3> QED
      BY <3>2, <3>3
  <2>3. ASSUME NEW k \in Collections, doc[k] # NoDoc, Pruned(k)
        PROVE  doc[k].age > Registration(OwnerOf(k)) /\ ~doc[k].open
    <3>1. doc[k].age \in Nat /\ pass.elapsed \in {0, 1}
      BY <1>t, <1>n, <2>3 DEF Documents, IsPass
    <3>2. OwnerOf(k) \in RetRepos
      BY DEF Collections, OwnerOf
    <3>3. Registration(OwnerOf(k)) \in Int
      <4>1. OwnerOf(k) \in {"snapshots", "mysql_metrics", "notifications", "ai_queue", "incidents", "server_metrics"}
        BY <3>2, RetentionAssumption DEF Parts
      <4>2. Requested(OwnerOf(k)) \in Int
        BY <4>1, RetentionAssumption DEF Requested
      <4> QED
        BY <4>2, RetentionAssumption DEF Registration
    <3> QED
      BY <2>3, <3>1, <3>3 DEF Pruned
  <2> QED
    BY <1>10, <2>1, <2>2, <2>3 DEF RetentionTypeOK, KeptBy
<1>11. CASE PruneBefore
  <2> DEFINE c == Head(pass.doing)
  <2>1. doc' = [doc EXCEPT ![c] = IF TRUE /\ Pruned(c) THEN NoDoc ELSE @]
    BY <1>11 DEF PruneBefore
  <2>2. pass' = [pass EXCEPT !.doing = Tail(@)] /\ pass.doing # <<>>
    BY <1>11 DEF PruneBefore
  <2>4. IsPass(pass')
    BY <1>t, <2>2 DEF IsPass
  <2> HIDE DEF c
  <2> QED
    BY <1>10, <2>1, <2>4
<1>12. CASE PruneFails
  <2> DEFINE c == Head(pass.doing)
  <2>1. PICK applied \in BOOLEAN : doc' = [doc EXCEPT ![c] = IF applied /\ Pruned(c) THEN NoDoc ELSE @]
    BY <1>12 DEF PruneFails
  <2>2. pass' = [pass EXCEPT !.doing = <<>>]
    BY <1>12 DEF PruneFails, AfterFailure
  <2>3. IsPass(pass')
    BY <1>t, <2>2 DEF IsPass
  <2> HIDE DEF c
  <2> QED
    BY <1>10, <2>1, <2>3
<1> QED
  BY <1>1, <1>2, <1>3, <1>4, <1>7, <1>8, <1>9, <1>11, <1>12 DEF RetentionNext

\* Nothing is removed before its retention is over, and no incident that is not
\* resolved, for every configuration, failure and duration of a pass: the half
\* of RetentionKept that is about safety (retention_jobs.go RunOnce).
THEOREM RetentionTheorem == RetentionSpec => KeptForRetention
<1>1. RetentionInit => RetentionTypeOK
  BY DEF IsPass, FirstStep, Waiting, RetentionInit, RetentionTypeOK, Documents
<1>2. RetentionTypeOK /\ [RetentionNext]_retVars
        => RetentionTypeOK' /\ [\A c \in Collections : KeptBy(c)]_retVars
  BY RetentionStep DEF retVars, RetentionTypeOK
<1>3. [\A c \in Collections : KeptBy(c)]_retVars
        => [\A c \in Collections :
              (doc[c] # NoDoc /\ doc'[c] = NoDoc) => doc[c].age > Registration(OwnerOf(c)) /\ ~doc[c].open]_retVars
  BY DEF KeptBy
<1> QED
  BY <1>1, <1>2, <1>3, PTL DEF RetentionSpec, KeptForRetention

-----------------------------------------------------------------------------
(***************************************************************************)
(* Rate limiter.  A bucket younger than the window has let through what it *)
(* lacks; what was let through before it, within a window of its refill,   *)
(* is what one earlier bucket gave.                                        *)
(***************************************************************************)
Buckets         == [tokens : Nat, age : 0..Forgettable, known : BOOLEAN]
Histories(rate) == [0..RateWindow -> 0..rate]

\* The requests that history m has let through from a to b ticks ago.
RequestsIn(m, a, b) == UNION {{t} \X (1..m[t]) : t \in a..b}
Count(m, a, b)      == Cardinality(RequestsIn(m, a, b))

BucketSound(v, m, rate) ==
    /\ v \in Buckets /\ m \in Histories(rate)
    /\ v.tokens <= rate
    /\ v.age < RateWindow => v.known
    /\ \A t \in 0..RateWindow : t <= v.age - RateWindow => m[t] = 0
    /\ v.age < RateWindow => Count(m, 0, v.age) = rate - v.tokens
    /\ v.age < RateWindow => Count(m, v.age + 1, RateWindow - 1) <= rate
    /\ v.age >= RateWindow => Count(m, 0, RateWindow - 1) <= rate

RatesInv ==
    /\ visitors \in [Limiters -> [Clients -> Buckets]]
    /\ admitted \in [Limiters -> [Clients -> [0..RateWindow -> Nat]]]
    /\ \A l \in Limiters, c \in Clients : BucketSound(visitors[l][c], admitted[l][c], RateOf[l])

LEMMA RequestsFinite ==
    ASSUME NEW rate \in Nat, NEW m \in Histories(rate), NEW a \in Nat, NEW b \in Int, b <= RateWindow
    PROVE  IsFiniteSet(RequestsIn(m, a, b)) /\ Count(m, a, b) \in Nat
<1>1. IsFiniteSet((a..b) \X (1..rate))
  <2>1. IsFiniteSet(a..b) /\ IsFiniteSet(1..rate)
    BY FS_Interval
  <2> QED
    BY <2>1, FS_Product
<1>2. RequestsIn(m, a, b) \subseteq (a..b) \X (1..rate)
  <2> SUFFICES ASSUME NEW t \in a..b, NEW k \in 1..m[t] PROVE <<t, k>> \in (a..b) \X (1..rate)
    BY DEF RequestsIn
  <2> QED
    BY RateAssumption DEF Histories
<1> QED
  BY <1>1, <1>2, FS_Subset, FS_CardinalityType DEF Count

LEMMA CountSplits ==
    ASSUME NEW rate \in Nat, NEW m \in Histories(rate), NEW a \in Nat, NEW k \in Int, NEW b \in Int,
           a <= k + 1, k <= b, b <= RateWindow
    PROVE  Count(m, a, b) = Count(m, a, k) + Count(m, k + 1, b)
<1>1. RequestsIn(m, a, b) = RequestsIn(m, a, k) \cup RequestsIn(m, k + 1, b)
  <2>1. a..b = (a..k) \cup ((k + 1)..b)
    OBVIOUS
  <2> QED
    BY <2>1, Zenon DEF RequestsIn
<1>2. RequestsIn(m, a, k) \cap RequestsIn(m, k + 1, b) = {}
  <2> SUFFICES ASSUME NEW x, x \in RequestsIn(m, a, k), x \in RequestsIn(m, k + 1, b) PROVE FALSE
    OBVIOUS
  <2>1. PICK t \in a..k : x \in {t} \X (1..m[t])
    BY DEF RequestsIn
  <2>2. PICK u \in (k + 1)..b : x \in {u} \X (1..m[u])
    BY DEF RequestsIn
  <2>3. x[1] = t /\ x[1] = u
    BY <2>1, <2>2
  <2> QED
    BY <2>3
<1>3. k + 1 \in Nat /\ k <= RateWindow
  BY RateAssumption
<1>4. IsFiniteSet(RequestsIn(m, a, k)) /\ IsFiniteSet(RequestsIn(m, k + 1, b))
      /\ Count(m, a, k) \in Nat /\ Count(m, k + 1, b) \in Nat
  BY <1>3, RequestsFinite
<1> DEFINE S == RequestsIn(m, a, k)
           T == RequestsIn(m, k + 1, b)
<1>5. Cardinality(S \cap T) = 0
  BY <1>2, FS_EmptySet
<1>6. Cardinality(S) \in Nat /\ Cardinality(T) \in Nat
  BY <1>4 DEF Count
<1>7. Cardinality(S \cup T) = Cardinality(S) + Cardinality(T) - Cardinality(S \cap T)
  <2> HIDE DEF S, T
  <2>1. IsFiniteSet(S) /\ IsFiniteSet(T)
    BY <1>4 DEF S, T
  <2> QED
    BY <2>1, FS_Union
<1>8. Cardinality(S \cup T) = Cardinality(S) + Cardinality(T)
  BY <1>5, <1>6, <1>7
<1> QED
  BY <1>1, <1>8 DEF Count

\* A tick moves every request one tick back.
LEMMA CountShifts ==
    ASSUME NEW rate \in Nat, NEW m \in Histories(rate), NEW n \in Histories(rate),
           NEW a \in Nat, NEW b \in Int, b < RateWindow,
           \A t \in 1..RateWindow : n[t] = m[t - 1]
    PROVE  Count(n, a + 1, b + 1) = Count(m, a, b)
<1> DEFINE S == RequestsIn(m, a, b)
           T == RequestsIn(n, a + 1, b + 1)
           f == [x \in S |-> <<x[1] + 1, x[2]>>]
<1>0. RateWindow \in Nat
  BY RateAssumption
<1>1. ASSUME NEW x \in S
      PROVE  x = <<x[1], x[2]>> /\ x[1] \in a..b /\ x[2] \in 1..m[x[1]]
  <2>1. PICK t \in a..b : x \in {t} \X (1..m[t])
    BY DEF RequestsIn
  <2> QED
    BY <2>1
<1>2. ASSUME NEW x \in T
      PROVE  x = <<x[1], x[2]>> /\ x[1] \in (a + 1)..(b + 1) /\ x[2] \in 1..n[x[1]]
  <2>1. PICK t \in (a + 1)..(b + 1) : x \in {t} \X (1..n[t])
    BY DEF RequestsIn
  <2> QED
    BY <2>1
<1>3. ASSUME NEW t \in a..b, NEW k \in 1..m[t] PROVE <<t + 1, k>> \in T
  <2>1. t + 1 \in 1..RateWindow /\ t + 1 \in (a + 1)..(b + 1) /\ t + 1 - 1 = t
    BY <1>0
  <2>2. n[t + 1] = m[t]
    BY <2>1
  <2>3. <<t + 1, k>> \in {t + 1} \X (1..n[t + 1])
    BY <2>2
  <2> QED
    BY <2>1, <2>3 DEF RequestsIn
<1>4. ASSUME NEW t \in (a + 1)..(b + 1), NEW k \in 1..n[t] PROVE <<t - 1, k>> \in S
  <2>1. t \in 1..RateWindow /\ t - 1 \in a..b
    BY <1>0
  <2>2. n[t] = m[t - 1]
    BY <2>1
  <2>3. <<t - 1, k>> \in {t - 1} \X (1..m[t - 1])
    BY <2>2
  <2> QED
    BY <2>1, <2>3 DEF RequestsIn
<1> HIDE DEF S, T
<1>5. f \in [S -> T]
  BY <1>1, <1>3
<1>6. \A x, y \in S : f[x] = f[y] => x = y
  <2> SUFFICES ASSUME NEW x \in S, NEW y \in S, <<x[1] + 1, x[2]>> = <<y[1] + 1, y[2]>> PROVE x = y
    OBVIOUS
  <2>1. x[1] + 1 = y[1] + 1 /\ x[2] = y[2]
    OBVIOUS
  <2>2. x[1] \in Int /\ y[1] \in Int
    BY <1>1
  <2>3. x[1] = y[1]
    BY <2>1, <2>2
  <2> QED
    BY <1>1, <2>1, <2>3
<1>7. ASSUME NEW y \in T PROVE \E x \in S : f[x] = y
  <2>1. y = <<y[1], y[2]>> /\ y[1] \in (a + 1)..(b + 1) /\ y[2] \in 1..n[y[1]]
    BY <1>2
  <2>2. <<y[1] - 1, y[2]>> \in S
    BY <1>4, <2>1
  <2>3. f[<<y[1] - 1, y[2]>>] = <<y[1] - 1 + 1, y[2]>>
    BY <2>2
  <2>4. y[1] - 1 + 1 = y[1]
    BY <2>1
  <2> QED
    BY <2>1, <2>2, <2>3, <2>4
<1>8. f \in Bijection(S, T)
  BY <1>5, <1>6, <1>7 DEF Bijection, Injection, Surjection, IsInjective
<1>9. ExistsBijection(S, T)
  BY <1>8, Zenon DEF ExistsBijection
<1>10. IsFiniteSet(S)
  BY <1>0, RequestsFinite DEF S
<1> QED
  BY <1>9, <1>10, FS_Bijection DEF Count, S, T

\* A request that is let through counts once.
LEMMA CountBumps ==
    ASSUME NEW rate \in Nat, NEW m \in Histories(rate), NEW b \in 0..RateWindow, m[0] < rate
    PROVE  /\ Count([m EXCEPT ![0] = m[0] + 1], 0, b) = Count(m, 0, b) + 1
           /\ [m EXCEPT ![0] = m[0] + 1] \in Histories(rate)
<1> DEFINE n == [m EXCEPT ![0] = m[0] + 1]
           k == m[0] + 1
<1>0. RateWindow \in Nat /\ 0 \in 0..RateWindow /\ m[0] \in Nat
  BY RateAssumption DEF Histories
<1>1. n \in Histories(rate)
  BY <1>0 DEF Histories
<1>2. n[0] = k /\ \A t \in 0..RateWindow : t # 0 => n[t] = m[t]
  BY <1>0 DEF Histories
<1> HIDE DEF n
<1>3. RequestsIn(n, 0, b) \subseteq RequestsIn(m, 0, b) \cup {<<0, k>>}
  <2> SUFFICES ASSUME NEW t \in 0..b, NEW j \in 1..n[t]
               PROVE  <<t, j>> \in RequestsIn(m, 0, b) \cup {<<0, k>>}
    BY DEF RequestsIn
  <2>1. t \in 0..RateWindow /\ m[t] \in Nat
    BY <1>0 DEF Histories
  <2>2. j \in 1..m[t] \/ <<t, j>> = <<0, k>>
    BY <1>0, <1>2, <2>1
  <2>3. CASE j \in 1..m[t]
    <3>1. <<t, j>> \in {t} \X (1..m[t])
      BY <2>3
    <3> QED
      BY <3>1 DEF RequestsIn
  <2> QED
    BY <2>2, <2>3
<1>4. RequestsIn(m, 0, b) \subseteq RequestsIn(n, 0, b)
  <2> SUFFICES ASSUME NEW t \in 0..b, NEW j \in 1..m[t] PROVE <<t, j>> \in RequestsIn(n, 0, b)
    BY DEF RequestsIn
  <2>1. t \in 0..RateWindow /\ m[t] \in Nat
    BY <1>0 DEF Histories
  <2>2. j \in 1..n[t]
    BY <1>0, <1>2, <2>1
  <2>3. <<t, j>> \in {t} \X (1..n[t])
    BY <2>2
  <2> QED
    BY <2>3 DEF RequestsIn
<1>5. <<0, k>> \in RequestsIn(n, 0, b)
  <2>1. <<0, k>> \in {0} \X (1..n[0]) /\ 0 \in 0..b
    BY <1>0, <1>2
  <2> QED
    BY <2>1 DEF RequestsIn
<1>6. <<0, k>> \notin RequestsIn(m, 0, b)
  <2> SUFFICES ASSUME NEW t \in 0..b, <<0, k>> \in {t} \X (1..m[t]) PROVE FALSE
    BY DEF RequestsIn
  <2>1. t = 0 /\ k \in 1..m[0]
    OBVIOUS
  <2> QED
    BY <1>0, <2>1
<1>7. RequestsIn(n, 0, b) = RequestsIn(m, 0, b) \cup {<<0, k>>}
  BY <1>3, <1>4, <1>5
<1>8. IsFiniteSet(RequestsIn(m, 0, b))
  BY <1>0, RequestsFinite
<1>9. Count(n, 0, b) = Count(m, 0, b) + 1
  BY <1>6, <1>7, <1>8, FS_AddElement DEF Count
<1> QED
  BY <1>1, <1>9 DEF n

\* A count looks at its ticks only.
LEMMA CountAgrees ==
    ASSUME NEW m, NEW n, NEW a, NEW b, \A t \in a..b : n[t] = m[t]
    PROVE  Count(n, a, b) = Count(m, a, b)
<1>1. RequestsIn(n, a, b) = RequestsIn(m, a, b)
  BY DEF RequestsIn
<1> QED
  BY <1>1 DEF Count

LEMMA CountOfOne ==
    ASSUME NEW m, m[0] \in Nat
    PROVE  Count(m, 0, 0) = m[0]
<1> DEFINE f == [k \in 1..m[0] |-> <<0, k>>]
           T == RequestsIn(m, 0, 0)
<1>1. T = {0} \X (1..m[0])
  BY DEF RequestsIn
<1>2. f \in [1..m[0] -> T] /\ (\A j, k \in 1..m[0] : f[j] = f[k] => j = k) /\ \A y \in T : \E k \in 1..m[0] : f[k] = y
  BY <1>1
<1> HIDE DEF f, T
<1>3. f \in Bijection(1..m[0], T)
  BY <1>2 DEF Bijection, Injection, Surjection, IsInjective
<1>4. ExistsBijection(1..m[0], T)
  BY <1>3, Zenon DEF ExistsBijection
<1> QED
  BY <1>4, FS_CountingElements DEF Count, T

LEMMA RateFacts ==
    /\ RateWindow \in Nat /\ RateWindow >= 1 /\ Forgettable \in Nat /\ Forgettable = 2 * RateWindow + 1
    /\ \A l \in Limiters : RateOf[l] \in Nat /\ RateOf[l] >= 1
    /\ NoBucket \in Buckets /\ NoBucket.age = Forgettable /\ NoBucket.tokens = 0
BY RateAssumption DEF Limiters, Forgettable, NoBucket, Buckets

\* A bucket that is due for a refill saw no request in this tick.
LEMMA BucketRefilled ==
    ASSUME NEW rate \in Nat, rate >= 1, NEW v, NEW m, BucketSound(v, m, rate), v.age >= RateWindow
    PROVE  BucketSound([tokens |-> rate - 1, age |-> 0, known |-> TRUE], [m EXCEPT ![0] = m[0] + 1], rate)
<1> DEFINE n == [m EXCEPT ![0] = m[0] + 1]
           w == [tokens |-> rate - 1, age |-> 0, known |-> TRUE]
<1>0. v.age \in Nat /\ m \in Histories(rate)
  BY RateFacts DEF BucketSound, Buckets
<1>1. 0 \in 0..RateWindow /\ 0 <= v.age - RateWindow
  BY <1>0, RateFacts
<1>2. m[0] = 0
  BY <1>1 DEF BucketSound
<1>3. n \in Histories(rate)
  BY <1>0, <1>1, <1>2, CountBumps
<1>4. n[0] = 1 /\ \A t \in 1..(RateWindow - 1) : n[t] = m[t]
  BY <1>0, <1>1, <1>2, RateFacts DEF Histories
<1> HIDE DEF n
<1>5. Count(n, 0, 0) = 1
  BY <1>4, CountOfOne
<1>6. Count(n, 1, RateWindow - 1) = Count(m, 1, RateWindow - 1)
  BY <1>4, CountAgrees
<1>7. Count(m, 0, RateWindow - 1) = Count(m, 0, 0) + Count(m, 1, RateWindow - 1)
  <2>1. 0 \in Nat /\ 0 \in Int /\ RateWindow - 1 \in Int /\ 0 <= 0 + 1 /\ 0 <= RateWindow - 1 /\ RateWindow - 1 <= RateWindow
    BY RateFacts
  <2>2. Count(m, 0, RateWindow - 1) = Count(m, 0, 0) + Count(m, 0 + 1, RateWindow - 1)
    BY <1>0, <2>1, CountSplits
  <2> QED
    BY <2>2
<1>8. Count(m, 0, 0) \in Nat /\ Count(m, 1, RateWindow - 1) \in Nat
  BY <1>0, RequestsFinite, RateFacts
<1>9. Count(m, 0, RateWindow - 1) <= rate
  BY DEF BucketSound
<1>10. w \in Buckets /\ w.tokens = rate - 1 /\ w.age = 0 /\ w.known
  BY RateFacts DEF Buckets
<1> HIDE DEF w
<1>11. Count(n, w.age + 1, RateWindow - 1) <= rate
  <2>1. w.age + 1 = 1
    BY <1>10
  <2> QED
    BY <2>1, <1>6, <1>7, <1>8, <1>9
<1>12. \A t \in 0..RateWindow : ~(t <= w.age - RateWindow)
  BY <1>10, RateFacts
<1>13. BucketSound(w, n, rate)
  BY <1>3, <1>5, <1>10, <1>11, <1>12, RateFacts DEF BucketSound
<1> QED
  BY <1>13 DEF w, n

LEMMA BucketCharged ==
    ASSUME NEW rate \in Nat, NEW v, NEW m, BucketSound(v, m, rate), v.age < RateWindow, v.tokens > 0
    PROVE  BucketSound([v EXCEPT !.tokens = @ - 1], [m EXCEPT ![0] = m[0] + 1], rate)
<1> DEFINE n == [m EXCEPT ![0] = m[0] + 1]
           w == [v EXCEPT !.tokens = @ - 1]
<1>0. v.age \in Nat /\ v.tokens \in Nat /\ m \in Histories(rate) /\ v \in Buckets
  BY RateFacts DEF BucketSound, Buckets
<1>1. 0 \in 0..RateWindow /\ v.age \in 0..RateWindow /\ m[0] \in Nat
  BY <1>0, RateFacts DEF Histories
<1>2. Count(m, 0, v.age) = rate - v.tokens
  BY DEF BucketSound
<1>3. m[0] < rate
  <2>1. Count(m, 0, v.age) = Count(m, 0, 0) + Count(m, 0 + 1, v.age)
    BY <1>0, <1>1, CountSplits
  <2>2. Count(m, 0, 0) = m[0] /\ Count(m, 0 + 1, v.age) \in Nat
    BY <1>0, <1>1, CountOfOne, RequestsFinite
  <2> QED
    BY <1>0, <1>1, <1>2, <2>1, <2>2
<1>4. n \in Histories(rate) /\ Count(n, 0, v.age) = Count(m, 0, v.age) + 1
  BY <1>0, <1>1, <1>3, CountBumps
<1>5. \A t \in (v.age + 1)..(RateWindow - 1) : n[t] = m[t]
  BY <1>0, RateFacts DEF Histories
<1> HIDE DEF n
<1>6. Count(n, v.age + 1, RateWindow - 1) = Count(m, v.age + 1, RateWindow - 1)
  BY <1>5, CountAgrees
<1>7. w \in Buckets /\ w.tokens = v.tokens - 1 /\ w.age = v.age /\ w.known = v.known
  BY <1>0 DEF Buckets
<1> HIDE DEF w
<1>8. \A t \in 0..RateWindow : ~(t <= w.age - RateWindow)
  BY <1>0, <1>7, RateFacts
<1>9. Count(n, 0, w.age) = rate - w.tokens
  BY <1>0, <1>2, <1>4, <1>7
<1>10. w.known
  BY <1>7, Zenon DEF BucketSound
<1>11. Count(n, w.age + 1, RateWindow - 1) <= rate /\ w.tokens <= rate
  <2>1. Count(m, v.age + 1, RateWindow - 1) <= rate /\ v.tokens <= rate
    BY DEF BucketSound
  <2> QED
    BY <1>0, <1>6, <1>7, <2>1
<1>12. ~(w.age >= RateWindow)
  BY <1>0, <1>7, RateFacts
<1>13. BucketSound(w, n, rate)
  BY <1>4, <1>7, <1>8, <1>9, <1>10, <1>11, <1>12 DEF BucketSound
<1> QED
  BY <1>13 DEF w, n

LEMMA BucketAges ==
    ASSUME NEW rate \in Nat, NEW v, NEW m, NEW n, BucketSound(v, m, rate),
           n = [t \in 0..RateWindow |-> IF t = 0 THEN 0 ELSE m[t - 1]]
    PROVE  BucketSound([v EXCEPT !.age = IF @ < Forgettable THEN @ + 1 ELSE @], n, rate)
<1> DEFINE w == [v EXCEPT !.age = IF @ < Forgettable THEN @ + 1 ELSE @]
           W == RateWindow
<1>0. v.age \in Nat /\ v.age <= Forgettable /\ v.tokens \in Nat /\ m \in Histories(rate) /\ v \in Buckets /\ v.tokens <= rate
  BY RateFacts DEF BucketSound, Buckets
<1>1. w \in Buckets /\ w.tokens = v.tokens /\ w.known = v.known
      /\ w.age = IF v.age < Forgettable THEN v.age + 1 ELSE v.age
  BY <1>0, RateFacts DEF Buckets
<1> HIDE DEF w
<1>2. ASSUME NEW t \in 1..W PROVE n[t] = m[t - 1]
  BY RateFacts
<1>3. n \in Histories(rate) /\ n[0] = 0
  <2>1. \A t \in 0..W : t # 0 => t - 1 \in 0..W
    BY RateFacts
  <2> QED
    BY <1>0, <2>1, RateFacts DEF Histories
<1>4. Count(n, 0, 0) = 0
  <2>1. n[0] \in Nat
    BY <1>3
  <2>2. Count(n, 0, 0) = n[0]
    BY <2>1, CountOfOne
  <2> QED
    BY <1>3, <2>2
<1>c. ASSUME NEW a \in Nat, NEW b \in Int, b <= W PROVE Count(m, a, b) \in Nat
  BY <1>0, <1>c, RequestsFinite
<1>5. ASSUME NEW a \in Nat, NEW b \in Int, b < W PROVE Count(n, a + 1, b + 1) = Count(m, a, b)
  BY <1>0, <1>2, <1>3, <1>5, CountShifts
<1>6. ASSUME NEW b \in Int, 0 <= b + 1, b < W PROVE Count(n, 0, b + 1) = Count(m, 0, b)
  <2>1. Count(n, 0, b + 1) = Count(n, 0, 0) + Count(n, 0 + 1, b + 1)
    BY <1>3, <1>6, CountSplits, RateFacts
  <2>2. Count(n, 0 + 1, b + 1) = Count(m, 0, b)
    BY <1>5, <1>6
  <2>3. Count(m, 0, b) \in Nat
    <3>1. b <= W /\ 0 \in Nat
      BY <1>6, RateFacts
    <3> QED
      BY <1>c, <3>1
  <2> QED
    BY <1>4, <2>1, <2>2, <2>3
<1>7. \A t \in 0..W : t <= w.age - W => n[t] = 0
  <2> SUFFICES ASSUME NEW t \in 0..W, t <= w.age - W PROVE n[t] = 0
    OBVIOUS
  <2>1. CASE t = 0
    BY <1>3, <2>1
  <2>2. CASE t # 0
    <3>1. n[t] = m[t - 1] /\ t - 1 \in 0..W
      BY <1>2, <2>2, RateFacts
    <3>2. t - 1 <= v.age - W
      BY <1>0, <1>1, RateFacts
    <3> QED
      BY <3>1, <3>2 DEF BucketSound
  <2> QED
    BY <2>1, <2>2
\* What a shorter window saw is no more.
<1>8. ASSUME NEW a \in Nat, a <= W - 1 PROVE Count(m, a, W - 2) <= Count(m, a, W - 1)
  <2>1. W - 2 \in Int /\ W - 1 \in Int /\ a <= (W - 2) + 1 /\ W - 2 <= W - 1 /\ W - 1 <= W /\ W - 2 <= W
        /\ W - 1 \in Nat /\ (W - 2) + 1 = W - 1
    BY <1>8, RateFacts
  <2>2. Count(m, a, W - 1) = Count(m, a, W - 2) + Count(m, W - 1, W - 1)
    BY <1>0, <2>1, CountSplits
  <2>3. Count(m, a, W - 2) \in Nat /\ Count(m, W - 1, W - 1) \in Nat
    BY <1>0, <2>1, RequestsFinite
  <2> QED
    BY <2>2, <2>3
<1>9. CASE v.age + 1 < W
  <2>1. w.age = v.age + 1 /\ v.age < W /\ v.age < Forgettable
    BY <1>0, <1>1, <1>9, RateFacts
  <2>2. Count(n, 0, w.age) = rate - w.tokens
    BY <1>0, <1>1, <1>6, <2>1 DEF BucketSound
  <2>3. Count(n, w.age + 1, W - 1) <= rate
    <3>1. v.age + 1 \in Nat /\ W - 2 \in Int /\ W - 2 < W /\ v.age + 1 <= W - 1 /\ (W - 2) + 1 = W - 1
      BY <1>0, <1>9, RateFacts
    <3>2. Count(n, (v.age + 1) + 1, (W - 2) + 1) = Count(m, v.age + 1, W - 2)
      BY <1>5, <3>1
    <3>3. Count(m, v.age + 1, W - 2) <= Count(m, v.age + 1, W - 1)
      BY <1>8, <3>1
    <3>4. Count(m, v.age + 1, W - 1) <= rate
      BY <2>1 DEF BucketSound
    <3>5. Count(m, v.age + 1, W - 2) \in Nat /\ Count(m, v.age + 1, W - 1) \in Nat
      <4>1. W - 1 \in Int /\ W - 2 <= W /\ W - 1 <= W
        BY RateFacts
      <4> QED
        BY <1>c, <3>1, <4>1
    <3> QED
      BY <2>1, <3>1, <3>2, <3>3, <3>4, <3>5
  <2>4. w.known
    BY <1>1, <2>1, Zenon DEF BucketSound
  <2>5. ~(w.age >= W)
    BY <1>0, <1>9, <2>1, RateFacts
  <2> QED
    BY <1>0, <1>1, <1>3, <1>7, <2>2, <2>3, <2>4, <2>5 DEF BucketSound, w
<1>10. CASE v.age + 1 >= W
  <2>1. ~(w.age < W) /\ W - 2 \in Int /\ 0 <= (W - 2) + 1 /\ W - 2 < W /\ (W - 2) + 1 = W - 1 /\ W - 1 \in Nat
    BY <1>0, <1>1, <1>10, RateFacts
  <2>2. Count(n, 0, W - 1) = Count(m, 0, W - 2)
    BY <1>6, <2>1
  <2>3. Count(m, 0, W - 2) <= Count(m, 0, W - 1)
    BY <1>8, <2>1
  <2>4. Count(m, 0, W - 1) <= rate
    <3>1. CASE v.age >= W
      BY <3>1 DEF BucketSound
    <3>2. CASE v.age < W
      <4>1. v.age = W - 1
        BY <1>0, <1>10, <3>2, RateFacts
      <4>2. Count(m, 0, v.age) = rate - v.tokens
        BY <3>2 DEF BucketSound
      <4> QED
        BY <1>0, <4>1, <4>2
    <3> QED
      BY <1>0, <3>1, <3>2, RateFacts
  <2>5. Count(m, 0, W - 2) \in Nat /\ Count(m, 0, W - 1) \in Nat
    <3>1. W - 1 \in Int /\ W - 2 <= W /\ W - 1 <= W /\ 0 \in Nat
      BY RateFacts
    <3> QED
      BY <1>c, <2>1, <3>1
  <2>6. Count(n, 0, W - 1) <= rate
    BY <2>2, <2>3, <2>4, <2>5
  <2> QED
    BY <1>0, <1>1, <1>3, <1>7, <2>1, <2>6 DEF BucketSound, w
<1> QED
  BY <1>0, <1>9, <1>10, RateFacts

LEMMA RatesInitInv == RateInit => RatesInv
<1> SUFFICES ASSUME RateInit PROVE RatesInv
  OBVIOUS
<1> DEFINE m == [t \in 0..RateWindow |-> 0]
<1>1. visitors = [l \in Limiters |-> [c \in Clients |-> NoBucket]]
      /\ admitted = [l \in Limiters |-> [c \in Clients |-> m]]
  BY DEF RateInit
<1>2. m \in [0..RateWindow -> Nat] /\ \A t \in 0..RateWindow : m[t] = 0
  OBVIOUS
<1> HIDE DEF m
<1>3. RequestsIn(m, 0, RateWindow - 1) = {}
  <2> SUFFICES ASSUME NEW t \in 0..(RateWindow - 1), NEW k \in 1..m[t] PROVE FALSE
    BY DEF RequestsIn
  <2>1. m[t] = 0
    BY <1>2, RateFacts
  <2> QED
    BY <2>1
<1>4. Count(m, 0, RateWindow - 1) = 0
  BY <1>3, FS_EmptySet DEF Count
<1>5. ASSUME NEW rate \in Nat PROVE BucketSound(NoBucket, m, rate)
  <2>1. m \in Histories(rate)
    BY <1>2 DEF Histories
  <2>2. ~(NoBucket.age < RateWindow)
    BY RateFacts
  <2> QED
    BY <1>2, <1>4, <2>1, <2>2, RateFacts DEF BucketSound
<1> QED
  BY <1>1, <1>2, <1>5, RateFacts DEF RatesInv

\* Every step does one of these to each bucket.
LEMMA RateStep ==
    ASSUME RatesInv, RateNext, NEW l \in Limiters, NEW c \in Clients
    PROVE  /\ BucketSound(visitors'[l][c], admitted'[l][c], RateOf[l])
           /\ admitted'[l][c] \in [0..RateWindow -> Nat]
<1> DEFINE v == visitors[l][c]
           m == admitted[l][c]
           rate == RateOf[l]
<1>0. BucketSound(v, m, rate) /\ v \in Buckets /\ m \in [0..RateWindow -> Nat] /\ v.age \in Nat /\ v.tokens \in Nat
      /\ rate \in Nat /\ rate >= 1 /\ RateWindow \in Nat
  <2>1. v \in Buckets /\ m \in [0..RateWindow -> Nat] /\ BucketSound(v, m, rate)
    BY DEF RatesInv
  <2> QED
    BY <2>1, RateFacts DEF Buckets
<1>1. ASSUME NEW w, NEW n, BucketSound(w, n, rate), visitors'[l][c] = w, admitted'[l][c] = n
      PROVE  BucketSound(visitors'[l][c], admitted'[l][c], RateOf[l]) /\ admitted'[l][c] \in [0..RateWindow -> Nat]
  <2>1. n \in [0..RateWindow -> 0..rate]
    BY <1>1 DEF BucketSound, Histories
  <2>2. n \in [0..RateWindow -> Nat]
    BY <1>0, <2>1
  <2> QED
    BY <1>1, <2>2
<1>2. ASSUME NEW s \in HttpSources, NEW path \in Paths, HttpRequest(s, path)
      PROVE  BucketSound(visitors'[l][c], admitted'[l][c], RateOf[l]) /\ admitted'[l][c] \in [0..RateWindow -> Nat]
  <2> DEFINE d == extractIP(s)
             ask == Charging(path)
             first == IF "login" \in ask /\ ~allows("login", d) THEN {} ELSE ask
             through == {k \in first : allows(k, d)}
  <2>0. d \in Clients
    BY SourcesAssumption
  <2>1. /\ visitors' = [k \in Limiters |-> IF k \in through THEN [visitors[k] EXCEPT ![d] = Charged(k, d)]
                                           ELSE visitors[k]]
        /\ admitted' = [k \in Limiters |-> IF k \in through THEN [admitted[k] EXCEPT ![d][0] = @ + 1]
                                           ELSE admitted[k]]
    BY <1>2 DEF HttpRequest
  <2>2. l \in through => allows(l, d)
    OBVIOUS
  <2>t. visitors[l] \in [Clients -> Buckets] /\ admitted[l] \in [Clients -> [0..RateWindow -> Nat]]
    BY DEF RatesInv
  <2> HIDE DEF d, through
  <2>3. CASE l \in through /\ c = d
    <3>1. visitors'[l][c] = Charged(l, c) /\ admitted'[l][c] = [m EXCEPT ![0] = m[0] + 1]
      <4>1. visitors'[l] = [visitors[l] EXCEPT ![d] = Charged(l, d)]
        BY <2>1, <2>3
      <4>2. admitted'[l] = [admitted[l] EXCEPT ![d][0] = @ + 1]
        BY <2>1, <2>3
      <4> QED
        BY <2>0, <2>3, <2>t, <4>1, <4>2
    <3>2. CASE Refill(l, c)
      <4>1. v.age >= RateWindow
        BY <1>0, <3>2 DEF Refill, BucketSound
      <4>2. Charged(l, c) = [tokens |-> rate - 1, age |-> 0, known |-> TRUE]
        BY <3>2 DEF Charged
      <4>3. BucketSound(Charged(l, c), [m EXCEPT ![0] = m[0] + 1], rate)
        BY <1>0, <4>1, <4>2, BucketRefilled
      <4> QED
        BY <1>1, <3>1, <4>3
    <3>3. CASE ~Refill(l, c)
      <4>1. v.age < RateWindow /\ v.tokens > 0
        BY <1>0, <2>2, <2>3, <3>3 DEF Refill, allows
      <4>2. Charged(l, c) = [v EXCEPT !.tokens = @ - 1]
        BY <3>3 DEF Charged
      <4>3. BucketSound(Charged(l, c), [m EXCEPT ![0] = m[0] + 1], rate)
        BY <1>0, <4>1, <4>2, BucketCharged
      <4> QED
        BY <1>1, <3>1, <4>3
    <3> QED
      BY <3>2, <3>3
  <2>4. CASE l \in through /\ c # d
    <3>1. visitors'[l] = [visitors[l] EXCEPT ![d] = Charged(l, d)]
      BY <2>1, <2>4
    <3>2. admitted'[l] = [admitted[l] EXCEPT ![d][0] = @ + 1]
      BY <2>1, <2>4
    <3>3. visitors'[l][c] = v /\ admitted'[l][c] = m
      BY <2>4, <2>t, <3>1, <3>2
    <3> QED
      BY <1>0, <3>3
  <2>5. CASE l \notin through
    <3>1. visitors'[l] = visitors[l] /\ admitted'[l] = admitted[l]
      BY <2>1, <2>5
    <3> QED
      BY <1>0, <3>1
  <2> QED
    BY <2>3, <2>4, <2>5
<1>3. CASE cleanup
  <2>1. admitted'[l][c] = m /\ visitors'[l][c] = IF Stale(v) THEN NoBucket ELSE v
    BY <1>3 DEF cleanup
  <2>2. CASE Stale(v)
    <3>1. v.age >= RateWindow /\ v.age = NoBucket.age /\ ~(NoBucket.age < RateWindow)
      BY <1>0, <2>2, RateFacts DEF Stale, Buckets
    <3>2. BucketSound(NoBucket, m, rate)
      <4>1. /\ m \in Histories(rate) /\ Count(m, 0, RateWindow - 1) <= rate
            /\ \A t \in 0..RateWindow : t <= NoBucket.age - RateWindow => m[t] = 0
        BY <1>0, <3>1 DEF BucketSound
      <4>2. NoBucket \in Buckets /\ NoBucket.tokens <= rate
        BY <1>0, RateFacts
      <4> QED
        BY <3>1, <4>1, <4>2 DEF BucketSound
    <3> QED
      BY <1>0, <2>1, <2>2, <3>2
  <2> QED
    BY <1>0, <2>1, <2>2
<1>4. CASE RateTick
  <2>1. /\ visitors'[l][c] = [v EXCEPT !.age = IF @ < Forgettable THEN @ + 1 ELSE @]
        /\ admitted'[l][c] = [t \in 0..RateWindow |-> IF t = 0 THEN 0 ELSE m[t - 1]]
    BY <1>4 DEF RateTick
  <2>2. BucketSound([v EXCEPT !.age = IF @ < Forgettable THEN @ + 1 ELSE @],
                    [t \in 0..RateWindow |-> IF t = 0 THEN 0 ELSE m[t - 1]], rate)
    BY <1>0, BucketAges
  <2> HIDE DEF v, m
  <2> QED
    BY <1>1, <2>1, <2>2
<1> QED
  BY <1>2, <1>3, <1>4 DEF RateNext

LEMMA RatesStepInv == RatesInv /\ [RateNext]_rateVars => RatesInv'
<1> SUFFICES ASSUME RatesInv, [RateNext]_rateVars PROVE RatesInv'
  OBVIOUS
<1>1. CASE RateNext
  <2>1. visitors' \in [Limiters -> [Clients -> Buckets]] /\ admitted' \in [Limiters -> [Clients -> [0..RateWindow -> Nat]]]
    <3>1. ASSUME NEW l \in Limiters, NEW c \in Clients
          PROVE  visitors'[l][c] \in Buckets /\ admitted'[l][c] \in [0..RateWindow -> Nat]
      BY <1>1, RateStep DEF BucketSound
    <3>3. /\ visitors' = [l \in Limiters |-> [c \in Clients |-> visitors'[l][c]]]
          /\ admitted' = [l \in Limiters |-> [c \in Clients |-> admitted'[l][c]]]
      <4>1. ASSUME NEW s \in HttpSources, NEW path \in Paths, HttpRequest(s, path)
            PROVE  /\ visitors' = [l \in Limiters |-> visitors'[l]] /\ admitted' = [l \in Limiters |-> admitted'[l]]
                   /\ \A l \in Limiters : visitors'[l] = [c \in Clients |-> visitors'[l][c]]
                                        /\ admitted'[l] = [c \in Clients |-> admitted'[l][c]]
        BY <4>1 DEF HttpRequest, RatesInv
      <4>2. cleanup => /\ visitors' = [l \in Limiters |-> [c \in Clients |-> visitors'[l][c]]]
                       /\ admitted' = [l \in Limiters |-> [c \in Clients |-> admitted'[l][c]]]
        BY DEF cleanup, RatesInv
      <4>3. RateTick => /\ visitors' = [l \in Limiters |-> [c \in Clients |-> visitors'[l][c]]]
                        /\ admitted' = [l \in Limiters |-> [c \in Clients |-> admitted'[l][c]]]
        BY DEF RateTick, RatesInv
      <4> QED
        BY <1>1, <4>1, <4>2, <4>3 DEF RateNext
    <3> QED
      BY <3>1, <3>3
  <2>2. \A l \in Limiters, c \in Clients : BucketSound(visitors'[l][c], admitted'[l][c], RateOf[l])
    BY <1>1, RateStep
  <2> QED
    BY <2>1, <2>2 DEF RatesInv
<1>2. CASE UNCHANGED rateVars
  BY <1>2 DEF rateVars, RatesInv
<1> QED
  BY <1>1, <1>2

LEMMA RatesInvSound == RatesInv => RatesKept
<1> SUFFICES ASSUME RatesInv, NEW l \in Limiters, NEW c \in Clients
             PROVE  /\ LetThrough(l, c, RateWindow - 1) <= 2 * RateOf[l]
                    /\ ~allows(l, c) => LetThrough(l, c, visitors[l][c].age) = RateOf[l]
  BY DEF RatesKept
<1> DEFINE v == visitors[l][c]
           m == admitted[l][c]
           rate == RateOf[l]
           W == RateWindow
<1>0. BucketSound(v, m, rate) /\ v.age \in Nat /\ v.tokens \in Nat /\ m \in Histories(rate) /\ rate \in Nat
  BY RateFacts DEF RatesInv, BucketSound, Buckets
<1>1. ASSUME NEW n PROVE LetThrough(l, c, n) = Count(m, 0, n)
  BY DEF LetThrough, Count, RequestsIn
<1> HIDE DEF v, m, rate
<1>2. Count(m, 0, W - 1) <= 2 * rate
  <2>1. CASE v.age >= W
    <3>1. Count(m, 0, W - 1) <= rate /\ Count(m, 0, W - 1) \in Nat
      BY <1>0, <2>1, RequestsFinite, RateFacts DEF BucketSound
    <3> QED
      BY <1>0, <3>1
  <2>2. CASE v.age < W
    <3>1. v.age + 1 \in Nat /\ W - 1 \in Int /\ v.age <= W - 1 /\ W - 1 <= W /\ v.age <= W /\ v.age \in Int /\ 0 <= v.age + 1 /\ 0 \in Nat
      BY <1>0, <2>2, RateFacts
    <3>2. Count(m, 0, W - 1) = Count(m, 0, v.age) + Count(m, v.age + 1, W - 1)
      BY <1>0, <3>1, CountSplits
    <3>3. Count(m, 0, v.age) \in Nat /\ Count(m, v.age + 1, W - 1) \in Nat
      BY <1>0, <3>1, RequestsFinite
    <3>4. Count(m, 0, v.age) = rate - v.tokens /\ Count(m, v.age + 1, W - 1) <= rate
      BY <1>0, <2>2 DEF BucketSound
    <3> QED
      BY <1>0, <3>2, <3>3, <3>4
  <2> QED
    BY <1>0, <2>1, <2>2, RateFacts
<1>3. ~allows(l, c) => Count(m, 0, v.age) = rate
  <2> SUFFICES ASSUME ~allows(l, c) PROVE Count(m, 0, v.age) = rate
    OBVIOUS
  <2>1. v.age < W /\ v.tokens = 0
    BY <1>0, RateFacts DEF allows, Refill, v
  <2> QED
    BY <1>0, <2>1 DEF BucketSound
<1> QED
  BY <1>1, <1>2, <1>3 DEF v, m, rate

\* Each client is let through at most twice the rate within a window, and
\* refused only when it had its whole rate since the refill, for every rate,
\* window, client and time of a cleanup (ratelimit.go allow, cleanup).
THEOREM RatesTheorem == RateSpec => []RatesKept
<1>1. RateInit => RatesInv
  BY RatesInitInv
<1>2. RatesInv /\ [RateNext]_rateVars => RatesInv'
  BY RatesStepInv
<1>3. RatesInv => RatesKept
  BY RatesInvSound
<1> QED
  BY <1>1, <1>2, <1>3, PTL DEF RateSpec

-----------------------------------------------------------------------------
(***************************************************************************)
(* Servers.  While nothing is in doubt one request at most is under way,   *)
(* and the cache differs from the collection in the server of that request *)
(* only.  A pointer that nothing cut stays inside the list, and on the     *)
(* server it was taken for: no step moves a server but removeCachedServer. *)
(***************************************************************************)
StoredPws == ServerPws \cup {NoPw}
Entries   == [id : ServerIDs, pw : StoredPws]
ServerDocs == [ServerIDs -> StoredPws \cup {NoServer}]
SrvCalls  == [op : {"list", "created", "put", "delete", "deleted"},
              s : [id : ServerIDs \cup {NoServer}, pw : StoredPws],
              typed : StoredPws \cup {Kept}, view : ServerDocs, alone : BOOLEAN]

ServersTypeOK ==
    /\ srvDocs \in ServerDocs /\ typedPw \in [ServerIDs -> StoredPws]
    /\ backing \in Seq(Entries) /\ srvLen \in 0..Len(backing)
    /\ refs \subseteq ServerIDs /\ doubt \in BOOLEAN
    /\ srvCall \in [ServerCalls -> {NoSrvCall} \cup SrvCalls]
    /\ \A r \in ServerCalls : srvCall[r].op \in {"created", "put", "delete", "deleted"} => srvCall[r].s.id \in ServerIDs

\* The first k servers of list b: each is there once, and they are those of the
\* documents d, but for the ones of X.
EachOnce(b, k)    == \A m, n \in 1..k : b[m].id = b[n].id => m = n
Shows(b, k, d, X) ==
    /\ \A n \in 1..k : b[n].id \notin X => d[b[n].id] = b[n].pw
    /\ \A j \in ServerIDs \ X : d[j] # NoServer => \E n \in 1..k : b[n].id = j

\* The servers that a request has changed in the collection and not yet in the list.
Pending == {srvCall[r].s.id : r \in {q \in ServerCalls : srvCall[q].op \in {"created", "deleted"}}}

CallRight(r) ==
    /\ srvCall[r].op = "created" => srvDocs[srvCall[r].s.id] = srvCall[r].s.pw
    /\ srvCall[r].op = "deleted" => srvDocs[srvCall[r].s.id] = NoServer
    /\ (srvCall[r].op = "put" /\ srvCall[r].typed = Kept) => srvCall[r].s.pw = srvDocs[srvCall[r].s.id]

TypedRight == \A j \in ServerIDs : srvDocs[j] # NoServer => srvDocs[j] = typedPw[j]

Agreed ==
    ~doubt => /\ \A r \in Active : srvCall[r].alone /\ CallRight(r)
              /\ Shows(backing, srvLen, srvDocs, Pending) /\ TypedRight

AloneIsAlone == \A r \in Active :
    srvCall[r].alone => Active = {r} /\ (srvCall[r].op = "list" => srvCall[r].view = srvDocs)

RunRight ==
    \/ srvRun = NoRun
    \/ /\ srvRun = [st |-> "ran", want |-> srvRun.want, on |-> srvRun.on, cut |-> srvRun.cut]
       /\ srvRun.on \in {srvRun.want, "local"} \/ srvRun.cut
    \/ /\ srvRun = [st |-> "resolved", want |-> srvRun.want, at |-> srvRun.at, val |-> srvRun.val, cut |-> srvRun.cut]
       /\ srvRun.at \in Nat /\ srvRun.cut \in BOOLEAN
       /\ ~srvRun.cut => /\ (srvRun.at = 0 => srvRun.val.id = srvRun.want)
                         /\ (srvRun.at > 0 => (srvRun.at <= srvLen /\ backing[srvRun.at].id = srvRun.want))

ServersInv == ServersTypeOK /\ EachOnce(backing, srvLen) /\ Agreed /\ AloneIsAlone /\ RunRight

-----------------------------------------------------------------------------
LEMMA SequenceIs ==
    ASSUME NEW S, NEW k \in Nat, NEW f \in [1..k -> S]
    PROVE  f \in Seq(S) /\ Len(f) = k
OBVIOUS

LEMMA ServerWords ==
    /\ NoServer \notin StoredPws /\ Kept \notin StoredPws /\ NoPw \in StoredPws
    /\ NoServer # NoPw /\ NoSrvCall \notin SrvCalls /\ NoSrvCall.op = "idle"
<1>1. NoSrvCall.op = "idle" /\ \A k \in SrvCalls : k.op # "idle"
  BY DEF NoSrvCall, SrvCalls
<1> QED
  BY <1>1, ServersAssumption DEF StoredPws, NoServer, Kept, NoPw

\* A request is under way when it has an operation.
LEMMA ActiveIs ==
    ASSUME ServersTypeOK, NEW r \in ServerCalls
    PROVE  /\ r \in Active <=> srvCall[r].op # "idle"
           /\ r \in Active => srvCall[r] \in SrvCalls
<1>1. srvCall[r] \in {NoSrvCall} \cup SrvCalls
  BY DEF ServersTypeOK
<1>2. \A k \in SrvCalls : k.op # "idle"
  BY DEF SrvCalls
<1> QED
  BY <1>1, <1>2, ServerWords DEF Active

\* A listing holds the servers of the documents, each once.
LEMMA ListedIs ==
    ASSUME NEW d \in ServerDocs
    PROVE  /\ Listed(d) \in Seq(Entries) /\ Len(Listed(d)) \in Nat
           /\ \A m, n \in 1..Len(Listed(d)) : Listed(d)[m].id = Listed(d)[n].id => m = n
           /\ \A n \in 1..Len(Listed(d)) : d[Listed(d)[n].id] = Listed(d)[n].pw
           /\ \A j \in ServerIDs : d[j] # NoServer => \E n \in 1..Len(Listed(d)) : Listed(d)[n].id = j
<1> DEFINE ids == {i \in ServerIDs : d[i] # NoServer}
           k == Cardinality(ids)
           f == SetToSeq(ids)
<1>1. IsFiniteSet(ids)
  BY ServersAssumption, FS_Subset
<1>2. k \in Nat /\ ExistsBijection(1..k, ids)
  BY <1>1, FS_CardinalityType
<1>3. PICK g \in [1..k -> ids] : IsInjective(g) /\ \A j \in ids : \E n \in 1..k : g[n] = j
  BY <1>2 DEF ExistsBijection, Bijection, Injection, Surjection
<1>4. f \in [1..k -> ids] /\ IsInjective(f)
  BY <1>3 DEF SetToSeq
<1>5. \A j \in ids : \E n \in 1..k : f[n] = j
  <2>1. f \in Injection(1..k, ids)
    BY <1>4 DEF Injection
  <2>2. IsFiniteSet(1..k) /\ Cardinality(1..k) = k
    BY <1>2, FS_Interval
  <2>3. f \in Surjection(1..k, ids)
    BY <1>1, <2>1, <2>2, FS_Injection
  <2> QED
    BY <2>3 DEF Surjection
<1> HIDE DEF f
<1>6. Listed(d) = [n \in 1..k |-> Server(f[n], d[f[n]])]
  BY DEF Listed, f
<1> HIDE DEF k
<1>7. \A n \in 1..k : f[n] \in ServerIDs /\ d[f[n]] \in StoredPws
  <2> SUFFICES ASSUME NEW n \in 1..k PROVE f[n] \in ServerIDs /\ d[f[n]] \in StoredPws
    OBVIOUS
  <2>1. f[n] \in ids
    BY <1>4
  <2>2. d[f[n]] \in StoredPws \cup {NoServer}
    BY <2>1 DEF ServerDocs
  <2> QED
    BY <2>1, <2>2
<1>8. Listed(d) \in [1..k -> Entries]
  BY <1>6, <1>7 DEF Server, Entries
<1>9. Listed(d) \in Seq(Entries) /\ Len(Listed(d)) = k
  BY <1>2, <1>8, SequenceIs
<1>10. \A n \in 1..k : Listed(d)[n].id = f[n] /\ Listed(d)[n].pw = d[f[n]]
  BY <1>6 DEF Server
<1>11. \A m, n \in 1..k : Listed(d)[m].id = Listed(d)[n].id => m = n
  BY <1>4, <1>10 DEF IsInjective
<1>12. \A n \in 1..k : d[Listed(d)[n].id] = Listed(d)[n].pw
  BY <1>10
<1>13. ASSUME NEW j \in ServerIDs, d[j] # NoServer PROVE \E n \in 1..k : Listed(d)[n].id = j
  BY <1>5, <1>10, <1>13
<1> QED
  BY <1>2, <1>9, <1>11, <1>12, <1>13

\* A pointer into a list that has moved away holds what it pointed to.
LEMMA DetachedRight ==
    ASSUME RunRight, srvRun' = Detached
    PROVE  RunRight'
<1>1. CASE srvRun = NoRun
  <2>1. srvRun.st = "idle"
    BY <1>1 DEF NoRun
  <2> QED
    BY <1>1, <2>1 DEF Detached, RunRight
<1>2. CASE /\ srvRun = [st |-> "ran", want |-> srvRun.want, on |-> srvRun.on, cut |-> srvRun.cut]
           /\ srvRun.on \in {srvRun.want, "local"} \/ srvRun.cut
  <2>1. srvRun.st = "ran"
    BY <1>2
  <2> QED
    BY <1>2, <2>1 DEF Detached, RunRight
<1>3. CASE /\ srvRun = [st |-> "resolved", want |-> srvRun.want, at |-> srvRun.at, val |-> srvRun.val, cut |-> srvRun.cut]
           /\ srvRun.at \in Nat /\ srvRun.cut \in BOOLEAN
           /\ ~srvRun.cut => /\ (srvRun.at = 0 => srvRun.val.id = srvRun.want)
                             /\ (srvRun.at > 0 => (srvRun.at <= srvLen /\ backing[srvRun.at].id = srvRun.want))
  <2> DEFINE p == backing[srvRun.at]
  <2>1. CASE srvRun.at > 0
    <3>1. srvRun' = [srvRun EXCEPT !.at = 0, !.val = p]
      BY <1>3, <2>1 DEF Detached
    <3> HIDE DEF p
    <3>2. srvRun' = [st |-> "resolved", want |-> srvRun.want, at |-> 0, val |-> p, cut |-> srvRun.cut]
      <4> DEFINE moved == [srvRun EXCEPT !.at = 0]
      <4>1. srvRun' = [moved EXCEPT !.val = p]
        BY <3>1
      <4>2. moved = [st |-> "resolved", want |-> srvRun.want, at |-> 0, val |-> srvRun.val, cut |-> srvRun.cut]
        BY <1>3
      <4> HIDE DEF moved
      <4> QED
        BY <4>1, <4>2
    <3>3. ~srvRun.cut => p.id = srvRun.want
      BY <1>3, <2>1 DEF p
    <3>4. srvRun'.st = "resolved" /\ srvRun'.want = srvRun.want /\ srvRun'.at = 0 /\ srvRun'.val = p /\ srvRun'.cut = srvRun.cut
      BY <3>2
    <3> QED
      BY <1>3, <3>2, <3>3, <3>4 DEF RunRight
  <2>2. CASE srvRun.at = 0
    <3>1. srvRun' = srvRun
      BY <2>2 DEF Detached
    <3> QED
      BY <1>3, <2>2, <3>1 DEF RunRight
  <2> QED
    BY <1>3, <2>1, <2>2
<1> QED
  BY <1>1, <1>2, <1>3 DEF RunRight

\* What replacing or adding a server does to the list.
LEMMA SetOneIs ==
    ASSUME ServersInv, NEW s \in Entries, setCachedServer(s)
    PROVE  /\ backing' \in Seq(Entries) /\ srvLen' \in 0..Len(backing') /\ EachOnce(backing', srvLen') /\ RunRight'
           /\ \A n \in 1..srvLen' : (n <= srvLen /\ backing'[n] = backing[n]) \/ backing'[n] = s
           /\ \A n \in 1..srvLen : backing'[n].id = backing[n].id /\ n <= srvLen'
           /\ \E n \in 1..srvLen' : backing'[n] = s
<1>t. backing \in Seq(Entries) /\ srvLen \in 0..Len(backing) /\ Len(backing) \in Nat
      /\ backing \in [1..Len(backing) -> Entries] /\ EachOnce(backing, srvLen) /\ RunRight
  BY LenProperties DEF ServersInv, ServersTypeOK
<1>1. CASE /\ Cached(s.id) # {}
           /\ backing' = [n \in 1..Len(backing) |-> IF n \in Cached(s.id) THEN s ELSE backing[n]]
           /\ UNCHANGED <<srvLen, srvRun>>
  <2>1. backing' \in [1..Len(backing) -> Entries] /\ srvLen' = srvLen /\ srvRun' = srvRun
    BY <1>t, <1>1
  <2>2. backing' \in Seq(Entries) /\ Len(backing') = Len(backing)
    BY <1>t, <2>1, SequenceIs
  <2>3. \A n \in 1..srvLen : IF backing[n].id = s.id THEN backing'[n] = s ELSE backing'[n] = backing[n]
    BY <1>t, <1>1 DEF Cached
  <2>4. \A n \in 1..srvLen : backing'[n].id = backing[n].id
    BY <2>3
  <2>5. EachOnce(backing', srvLen')
    BY <1>t, <2>1, <2>4 DEF EachOnce
  <2>6. \E n \in 1..srvLen : backing'[n] = s
    BY <1>1, <2>3 DEF Cached
  <2>7. RunRight'
    BY <1>t, <2>1, <2>4 DEF RunRight
  <2> QED
    BY <1>t, <2>1, <2>2, <2>3, <2>4, <2>5, <2>6, <2>7
<1>2. CASE /\ Cached(s.id) = {} /\ srvLen' = srvLen + 1
           /\ backing' = [n \in 1..Len(backing) \cup {srvLen + 1} |-> IF n = srvLen + 1 THEN s ELSE backing[n]]
           /\ \/ UNCHANGED srvRun
              \/ Len(backing) = srvLen /\ srvRun' = Detached
  <2> DEFINE k == IF Len(backing) = srvLen THEN srvLen + 1 ELSE Len(backing)
             N == Len(backing)
  <2>n. N \in Nat /\ srvLen \in 0..N /\ srvLen \in Nat /\ backing \in [1..N -> Entries]
    BY <1>t
  <2>c. /\ Cached(s.id) = {} /\ srvLen' = srvLen + 1
        /\ backing' = [n \in 1..N \cup {srvLen + 1} |-> IF n = srvLen + 1 THEN s ELSE backing[n]]
        /\ \/ UNCHANGED srvRun
           \/ N = srvLen /\ srvRun' = Detached
    BY <1>2
  <2> HIDE DEF N
  <2>1. 1..N \cup {srvLen + 1} = 1..k /\ k \in Nat /\ srvLen + 1 \in 1..k
    <3>1. k = IF N = srvLen THEN srvLen + 1 ELSE N
      BY DEF N
    <3> HIDE DEF k
    <3>2. k \in Nat /\ srvLen + 1 \in 1..k /\ \A n \in Int : n \in 1..k <=> (n \in 1..N \/ n = srvLen + 1)
      BY <2>n, <3>1
    <3>3. 1..k \subseteq Int /\ 1..N \subseteq Int /\ srvLen + 1 \in Int
      BY <2>n
    <3> QED
      BY <3>2, <3>3
  <2> HIDE DEF k
  <2>2. backing' \in [1..k -> Entries]
    <3>1. \A n \in 1..k : n # srvLen + 1 => n \in 1..N
      BY <2>1
    <3> QED
      BY <2>n, <2>c, <2>1, <3>1
  <2>3. backing' \in Seq(Entries) /\ Len(backing') = k
    BY <2>1, <2>2, SequenceIs
  <2>4. backing'[srvLen + 1] = s /\ \A n \in 1..srvLen : backing'[n] = backing[n] /\ backing[n].id # s.id
    <3>1. \A n \in 1..srvLen : n \in 1..N /\ n # srvLen + 1
      BY <2>n
    <3>2. \A n \in 1..srvLen : backing[n].id # s.id
      BY <2>c DEF Cached
    <3> QED
      BY <2>n, <2>c, <3>1, <3>2
  <2>5. EachOnce(backing', srvLen')
    <3>1. \A n \in 1..(srvLen + 1) : n \in 1..srvLen \/ n = srvLen + 1
      BY <2>n
    <3> SUFFICES ASSUME NEW m \in 1..(srvLen + 1), NEW n \in 1..(srvLen + 1), backing'[m].id = backing'[n].id PROVE m = n
      BY <2>c DEF EachOnce
    <3>2. m \in 1..srvLen /\ n \in 1..srvLen => m = n
      BY <1>t, <2>4 DEF EachOnce
    <3> QED
      BY <2>4, <3>1, <3>2
  <2>6. RunRight'
    <3>1. CASE UNCHANGED srvRun
      BY <1>t, <1>2, <2>4, <3>1 DEF RunRight
    <3>2. CASE srvRun' = Detached
      BY <1>t, <3>2, DetachedRight
    <3> QED
      BY <1>2, <3>1, <3>2
  <2>7. srvLen' \in 0..Len(backing')
    <3>1. srvLen' = srvLen + 1 /\ Len(backing') = k /\ srvLen + 1 \in 1..k
      BY <2>c, <2>1, <2>3
    <3> QED
      BY <2>n, <2>1, <3>1
  <2>8. \A n \in 1..srvLen' : (n <= srvLen /\ backing'[n] = backing[n]) \/ backing'[n] = s
    BY <2>n, <2>c, <2>4
  <2>9. \A n \in 1..srvLen : backing'[n].id = backing[n].id /\ n <= srvLen'
    BY <2>n, <2>c, <2>4
  <2>10. \E n \in 1..srvLen' : backing'[n] = s
    <3>1. srvLen + 1 \in 1..srvLen'
      BY <2>n, <2>c
    <3> QED
      BY <2>4, <3>1
  <2> QED
    BY <2>3, <2>5, <2>6, <2>7, <2>8, <2>9, <2>10
<1> QED
  BY <1>1, <1>2 DEF setCachedServer

\* The list then shows the server that was set, if that is what is stored.
LEMMA SetOneShows ==
    ASSUME ServersInv, NEW s \in Entries, setCachedServer(s), NEW d, NEW X,
           Shows(backing, srvLen, d, X \cup {s.id}), d[s.id] = s.pw
    PROVE  Shows(backing', srvLen', d, X)
<1>1. /\ \A n \in 1..srvLen' : (n \in 1..srvLen /\ backing'[n] = backing[n]) \/ backing'[n] = s
      /\ \A n \in 1..srvLen : backing'[n].id = backing[n].id /\ n \in 1..srvLen'
      /\ \E n \in 1..srvLen' : backing'[n] = s
  <2>1. srvLen \in Int /\ srvLen' \in Int
    BY SetOneIs DEF ServersInv, ServersTypeOK
  <2> QED
    BY <2>1, SetOneIs
<1>2. ASSUME NEW n \in 1..srvLen', backing'[n].id \notin X PROVE d[backing'[n].id] = backing'[n].pw
  <2>1. CASE backing'[n] = s
    BY <2>1
  <2>2. CASE n \in 1..srvLen /\ backing'[n] = backing[n] /\ backing'[n] # s
    <3>1. CASE backing[n].id \notin X \cup {s.id}
      BY <2>2, <3>1 DEF Shows
    <3>2. CASE backing[n].id = s.id
      <4>1. PICK m \in 1..srvLen' : backing'[m] = s
        BY <1>1
      <4>2. m = n
        BY <2>2, <3>2, <4>1, SetOneIs DEF EachOnce
      <4> QED
        BY <2>2, <4>1, <4>2
    <3> QED
      BY <1>2, <2>2, <3>1, <3>2
  <2> QED
    BY <1>1, <2>1, <2>2
<1>3. ASSUME NEW j \in ServerIDs \ X, d[j] # NoServer PROVE \E n \in 1..srvLen' : backing'[n].id = j
  <2>1. CASE j = s.id
    BY <1>1, <2>1
  <2>2. CASE j # s.id
    <3>1. PICK n \in 1..srvLen : backing[n].id = j
      BY <1>3, <2>2 DEF Shows
    <3> QED
      BY <1>1, <3>1
  <2> QED
    BY <2>1, <2>2
<1> QED
  BY <1>2, <1>3 DEF Shows

\* A list that was read replaces the cache.
LEMMA SetAllIs ==
    ASSUME ServersInv, NEW d \in ServerDocs, setCachedServers(d)
    PROVE  /\ backing' \in Seq(Entries) /\ srvLen' \in 0..Len(backing') /\ EachOnce(backing', srvLen') /\ RunRight'
           /\ Shows(backing', srvLen', d, {})
<1> DEFINE b == Listed(d)
<1>1. backing' = b /\ srvLen' = Len(b) /\ srvRun' = Detached
  BY DEF setCachedServers
<1>2. b \in Seq(Entries) /\ Len(b) \in Nat
  BY ListedIs
<1>3. EachOnce(b, Len(b))
  BY ListedIs DEF EachOnce
<1>4. Shows(b, Len(b), d, {})
  BY ListedIs DEF Shows
<1> HIDE DEF b
<1>5. RunRight'
  BY <1>1, DetachedRight DEF ServersInv
<1> QED
  BY <1>1, <1>2, <1>3, <1>4, <1>5

\* The servers behind the removed one move up.
LEMMA RemoveIs ==
    ASSUME ServersInv, NEW i, removeCachedServer(i)
    PROVE  /\ backing' \in Seq(Entries) /\ srvLen' \in 0..Len(backing') /\ RunRight'
           /\ EachOnce(backing', srvLen')
           /\ \A n \in 1..srvLen' : \E k \in 1..srvLen : backing'[n] = backing[k] /\ backing[k].id # i
           /\ \A k \in 1..srvLen : backing[k].id # i => \E n \in 1..srvLen' : backing'[n] = backing[k]
<1> DEFINE N         == Len(backing)
           before(k) == Cardinality({n \in Cached(i) : n < k})
           kept(n)   == CHOOSE k \in 1..srvLen \ Cached(i) : k - before(k) = n
<1>t. /\ backing \in [1..N -> Entries] /\ N \in Nat /\ srvLen \in 0..N /\ srvLen \in Nat
      /\ EachOnce(backing, srvLen) /\ RunRight
  BY LenProperties DEF ServersInv, ServersTypeOK
<1>1. /\ srvLen' = srvLen - Cardinality(Cached(i))
      /\ backing' = [n \in 1..N |-> IF n <= srvLen' THEN backing[kept(n)] ELSE backing[n]]
      /\ srvRun' = IF srvRun.st = "resolved" THEN [srvRun EXCEPT !.cut = TRUE] ELSE srvRun
  BY DEF removeCachedServer
<1> HIDE DEF N
<1>2. RunRight'
  <2>1. CASE srvRun.st # "resolved"
    <3>1. srvRun' = srvRun
      BY <1>1, <2>1
    <3> QED
      BY <1>t, <2>1, <3>1 DEF RunRight
  <2>2. CASE srvRun.st = "resolved"
    <3>1. srvRun' = [srvRun EXCEPT !.cut = TRUE]
      BY <1>1, <2>2
    <3>2. srvRun = [st |-> "resolved", want |-> srvRun.want, at |-> srvRun.at, val |-> srvRun.val, cut |-> srvRun.cut]
          /\ srvRun.at \in Nat
      BY <1>t, <2>2 DEF RunRight, NoRun
    <3>3. srvRun' = [st |-> "resolved", want |-> srvRun.want, at |-> srvRun.at, val |-> srvRun.val, cut |-> TRUE]
      <4> DEFINE yes == TRUE
      <4>1. srvRun' = [srvRun EXCEPT !.cut = yes]
        BY <3>1
      <4> HIDE DEF yes
      <4>2. srvRun' = [st |-> "resolved", want |-> srvRun.want, at |-> srvRun.at, val |-> srvRun.val, cut |-> yes]
        BY <3>2, <4>1
      <4> QED
        BY <4>2 DEF yes
    <3>4. srvRun'.want = srvRun.want /\ srvRun'.at = srvRun.at /\ srvRun'.val = srvRun.val /\ srvRun'.cut = TRUE
      BY <3>3
    <3> QED
      BY <3>2, <3>3, <3>4 DEF RunRight
  <2> QED
    BY <2>1, <2>2
\* A position p is left out, or none is.
<1>3. \/ Cached(i) = {} /\ srvLen' = srvLen /\ \A n \in 1..srvLen : kept(n) = n
      \/ \E p \in 1..srvLen : /\ Cached(i) = {p} /\ srvLen' = srvLen - 1
                              /\ \A n \in 1..srvLen' : kept(n) = IF n < p THEN n ELSE n + 1
  <2>1. CASE Cached(i) = {}
    <3>1. Cardinality(Cached(i)) = 0 /\ \A k \in 1..srvLen : before(k) = 0
      BY <2>1, FS_EmptySet
    <3> HIDE DEF before
    <3>2. \A n \in 1..srvLen : kept(n) = n
      <4> SUFFICES ASSUME NEW n \in 1..srvLen PROVE kept(n) = n
        OBVIOUS
      <4>1. n \in 1..srvLen \ Cached(i) /\ n - before(n) = n
        BY <2>1, <3>1
      <4>2. \A k \in 1..srvLen \ Cached(i) : k - before(k) = n => k = n
        BY <3>1
      <4> QED
        BY <4>1, <4>2
    <3> QED
      BY <1>t, <1>1, <2>1, <3>1, <3>2
  <2>2. CASE Cached(i) # {}
    <3>1. PICK p \in 1..srvLen : Cached(i) = {p}
      BY <1>t, <2>2 DEF Cached, EachOnce
    <3>2. Cardinality(Cached(i)) = 1
      BY <3>1, FS_Singleton
    <3>3. \A k \in 1..srvLen : before(k) = IF p < k THEN 1 ELSE 0
      <4> SUFFICES ASSUME NEW k \in 1..srvLen PROVE before(k) = IF p < k THEN 1 ELSE 0
        OBVIOUS
      <4>1. {n \in Cached(i) : n < k} = IF p < k THEN {p} ELSE {}
        BY <3>1
      <4> QED
        BY <4>1, FS_Singleton, FS_EmptySet
    <3> HIDE DEF before
    <3>4. srvLen' = srvLen - 1
      BY <1>1, <3>2
    <3>5. \A n \in 1..srvLen' : kept(n) = IF n < p THEN n ELSE n + 1
      <4> SUFFICES ASSUME NEW n \in 1..srvLen' PROVE kept(n) = IF n < p THEN n ELSE n + 1
        OBVIOUS
      <4> DEFINE q == IF n < p THEN n ELSE n + 1
      <4>0. n \in 1..srvLen /\ n + 1 \in 1..srvLen
        BY <1>t, <3>4
      <4>1. q \in 1..srvLen /\ q # p /\ q - (IF p < q THEN 1 ELSE 0) = n
        BY <4>0
      <4>2. q \in 1..srvLen \ Cached(i) /\ q - before(q) = n
        BY <3>1, <3>3, <4>1
      <4>3. \A k \in 1..srvLen \ Cached(i) : k - before(k) = n => k = q
        <5> SUFFICES ASSUME NEW k \in 1..srvLen \ Cached(i), k - before(k) = n PROVE k = q
          OBVIOUS
        <5>1. k # p /\ k - (IF p < k THEN 1 ELSE 0) = n
          BY <3>1, <3>3
        <5> QED
          BY <4>0, <5>1
      <4> HIDE DEF q
      <4>4. kept(n) = q
        BY <4>2, <4>3
      <4> QED
        BY <4>4 DEF q
    <3> QED
      BY <3>1, <3>4, <3>5
  <2> QED
    BY <2>1, <2>2
<1> HIDE DEF kept
<1>4. srvLen' \in Nat /\ srvLen' <= srvLen
  BY <1>t, <1>3
<1>5. \A n \in 1..srvLen' : n \in 1..N /\ backing'[n] = backing[kept(n)]
  BY <1>t, <1>1, <1>4
<1>6. ASSUME NEW n \in 1..srvLen'
      PROVE  kept(n) \in 1..srvLen /\ backing[kept(n)].id # i
  <2>1. kept(n) \in 1..srvLen /\ kept(n) \notin Cached(i)
    BY <1>t, <1>3, <1>4
  <2> QED
    BY <2>1 DEF Cached
<1>7. ASSUME NEW k \in 1..srvLen, backing[k].id # i
      PROVE  \E n \in 1..srvLen' : kept(n) = k
  <2>1. k \notin Cached(i)
    BY <1>7 DEF Cached
  <2>2. CASE Cached(i) = {} /\ srvLen' = srvLen /\ \A n \in 1..srvLen : kept(n) = n
    BY <2>2
  <2>3. ASSUME NEW p \in 1..srvLen, Cached(i) = {p}, srvLen' = srvLen - 1,
               \A n \in 1..srvLen' : kept(n) = IF n < p THEN n ELSE n + 1
        PROVE  \E n \in 1..srvLen' : kept(n) = k
    <3>1. CASE k < p
      <4>1. k \in 1..srvLen' /\ kept(k) = k
        BY <1>t, <2>3, <3>1
      <4> QED
        BY <4>1
    <3>2. CASE k > p
      <4>1. k - 1 \in 1..srvLen' /\ kept(k - 1) = k
        BY <1>t, <2>3, <3>2
      <4> QED
        BY <4>1
    <3> QED
      BY <2>1, <2>3, <3>1, <3>2
  <2> QED
    BY <1>3, <2>2, <2>3
<1>8. \A m, n \in 1..srvLen' : kept(m) = kept(n) => m = n
  BY <1>t, <1>3, <1>4
<1>9. EachOnce(backing', srvLen')
  BY <1>t, <1>5, <1>6, <1>8 DEF EachOnce
<1>10. backing' \in [1..N -> Entries]
  <2>1. \A n \in 1..N : backing'[n] \in Entries
    <3> SUFFICES ASSUME NEW n \in 1..N PROVE backing'[n] \in Entries
      OBVIOUS
    <3>1. CASE n <= srvLen'
      <4>1. n \in 1..srvLen' /\ kept(n) \in 1..N
        BY <1>t, <1>4, <1>6, <3>1
      <4> QED
        BY <1>t, <1>5, <4>1
    <3>2. CASE ~(n <= srvLen')
      BY <1>t, <1>1, <3>2
    <3> QED
      BY <3>1, <3>2
  <2>2. backing' = [n \in 1..N |-> backing'[n]]
    BY <1>1
  <2> QED
    BY <2>1, <2>2
<1>11. backing' \in Seq(Entries) /\ Len(backing') = N
  BY <1>t, <1>10, SequenceIs
<1>12. srvLen' \in 0..Len(backing')
  BY <1>t, <1>4, <1>11
<1> QED
  BY <1>2, <1>5, <1>6, <1>7, <1>9, <1>11, <1>12

-----------------------------------------------------------------------------
\* While nothing is in doubt a request under way is the only one.
LEMMA OnlyOne ==
    ASSUME ServersInv, ~doubt, NEW r \in ServerCalls, srvCall[r].op # "idle"
    PROVE  /\ Active = {r} /\ srvCall[r].alone /\ CallRight(r) /\ TypedRight
           /\ Shows(backing, srvLen, srvDocs, IF srvCall[r].op \in {"created", "deleted"} THEN {srvCall[r].s.id} ELSE {})
<1>1. r \in Active
  BY ActiveIs DEF ServersInv
<1>2. srvCall[r].alone /\ CallRight(r) /\ TypedRight /\ Shows(backing, srvLen, srvDocs, Pending)
  BY <1>1 DEF ServersInv, Agreed
<1>3. Active = {r}
  BY <1>1, <1>2 DEF ServersInv, AloneIsAlone
<1>4. \A q \in ServerCalls : q # r => srvCall[q].op = "idle"
  BY <1>3, ActiveIs DEF ServersInv
<1>5. Pending = IF srvCall[r].op \in {"created", "deleted"} THEN {srvCall[r].s.id} ELSE {}
  BY <1>4 DEF Pending
<1> QED
  BY <1>2, <1>3, <1>5

\* And with none under way the list shows the collection.
LEMMA NoneActive ==
    ASSUME ServersInv, ~doubt, Active = {}
    PROVE  Shows(backing, srvLen, srvDocs, {}) /\ TypedRight
<1>1. \A q \in ServerCalls : srvCall[q].op = "idle"
  BY ActiveIs DEF ServersInv
<1>2. Pending = {}
  BY <1>1 DEF Pending
<1> QED
  BY <1>2 DEF ServersInv, Agreed

CallsTyped ==
    /\ srvCall \in [ServerCalls -> {NoSrvCall} \cup SrvCalls]
    /\ \A r \in ServerCalls : srvCall[r].op \in {"created", "put", "delete", "deleted"} => srvCall[r].s.id \in ServerIDs

LEMMA BeginIs ==
    ASSUME ServersInv, NEW r \in ServerCalls, NEW call \in {NoSrvCall} \cup SrvCalls, BeginCall(r, call),
           call.op \in {"created", "put", "delete", "deleted"} => call.s.id \in ServerIDs
    PROVE  /\ CallsTyped' /\ srvCall'[r] = call
           /\ \A q \in ServerCalls : q # r => (srvCall'[q].op = srvCall[q].op) /\ (srvCall[q].op # "idle" => ~srvCall'[q].alone)
<1>t. srvCall \in [ServerCalls -> {NoSrvCall} \cup SrvCalls]
      /\ \A q \in ServerCalls : srvCall[q].op \in {"created", "put", "delete", "deleted"} => srvCall[q].s.id \in ServerIDs
  BY DEF ServersInv, ServersTypeOK
<1>1. srvCall' = [q \in ServerCalls |->
                      IF q = r THEN call
                      ELSE IF srvCall[q] = NoSrvCall THEN NoSrvCall ELSE [srvCall[q] EXCEPT !.alone = FALSE]]
  BY DEF BeginCall
<1>2. ASSUME NEW k \in SrvCalls
      PROVE  LET n == [k EXCEPT !.alone = FALSE] IN n \in SrvCalls /\ n.op = k.op /\ n.s = k.s /\ ~n.alone
  BY DEF SrvCalls
<1>3. ASSUME NEW q \in ServerCalls, q # r
      PROVE  /\ srvCall'[q] \in {NoSrvCall} \cup SrvCalls
             /\ srvCall'[q].op = srvCall[q].op
             /\ srvCall[q].op # "idle" => ~srvCall'[q].alone /\ srvCall'[q].s = srvCall[q].s
  <2>1. CASE srvCall[q] = NoSrvCall
    BY <1>1, <1>3, <2>1, ServerWords
  <2>2. CASE srvCall[q] # NoSrvCall
    <3>1. srvCall[q] \in SrvCalls
      BY <1>t, <2>2
    <3>2. srvCall'[q] = [srvCall[q] EXCEPT !.alone = FALSE]
      BY <1>1, <1>3, <2>2
    <3> QED
      BY <1>2, <3>1, <3>2
  <2> QED
    BY <2>1, <2>2
<1>4. srvCall'[r] = call
  BY <1>1
<1>5. CallsTyped'
  <2>1. srvCall' \in [ServerCalls -> {NoSrvCall} \cup SrvCalls]
    <3>1. \A q \in ServerCalls : srvCall'[q] \in {NoSrvCall} \cup SrvCalls
      BY <1>3, <1>4
    <3>2. srvCall' = [q \in ServerCalls |-> srvCall'[q]]
      BY <1>1
    <3> QED
      BY <3>1, <3>2
  <2>2. ASSUME NEW q \in ServerCalls, srvCall'[q].op \in {"created", "put", "delete", "deleted"}
        PROVE  srvCall'[q].s.id \in ServerIDs
    BY <1>t, <1>3, <1>4, <2>2
  <2> QED
    BY <2>1, <2>2 DEF CallsTyped
<1> QED
  BY <1>3, <1>4, <1>5

\* What a request that begins leaves true: who is alone, and, when nothing is in
\* doubt, that it is the only one and has found the list right.
LEMMA BeginKeeps ==
    ASSUME ServersInv, NEW r \in ServerCalls, NEW op, NEW s, NEW typed, NEW view,
           SrvCall(op, s, typed, view) \in SrvCalls,
           op \in {"created", "put", "delete", "deleted"} => s.id \in ServerIDs,
           BeginCall(r, SrvCall(op, s, typed, view)), doubt' = Crossed,
           op = "list" => view = srvDocs'
    PROVE  /\ CallsTyped' /\ AloneIsAlone' /\ doubt' \in BOOLEAN
           /\ srvCall'[r].op = op /\ srvCall'[r].s = s /\ srvCall'[r].typed = typed
           /\ ~doubt' => /\ ~doubt /\ Shows(backing, srvLen, srvDocs, {}) /\ TypedRight
                         /\ Active' = {r} /\ srvCall'[r].alone
                         /\ Pending' = IF op \in {"created", "deleted"} THEN {s.id} ELSE {}
<1> DEFINE call == SrvCall(op, s, typed, view)
<1>1. call.op = op /\ call.s = s /\ call.typed = typed /\ call.view = view /\ (call.alone <=> Active = {})
  BY DEF SrvCall
<1>2. op # "idle"
  BY <1>1 DEF SrvCalls
<1>3. call \in SrvCalls /\ BeginCall(r, call)
  OBVIOUS
<1> HIDE DEF call
<1>4. /\ CallsTyped' /\ srvCall'[r] = call
      /\ \A q \in ServerCalls : q # r => (srvCall'[q].op = srvCall[q].op) /\ (srvCall[q].op # "idle" => ~srvCall'[q].alone)
  BY <1>1, <1>3, BeginIs
<1>5. \A q \in ServerCalls : (q \in Active' <=> srvCall'[q].op # "idle") /\ (q \in Active <=> srvCall[q].op # "idle")
  <2>1. \A k \in SrvCalls : k.op # "idle"
    BY DEF SrvCalls
  <2>2. \A q \in ServerCalls : srvCall'[q] \in {NoSrvCall} \cup SrvCalls
    BY <1>4 DEF CallsTyped
  <2> QED
    BY <2>1, <2>2, ServerWords, ActiveIs DEF Active, ServersInv
<1>6. ASSUME Active = {} PROVE Active' = {r} /\ Pending' = IF op \in {"created", "deleted"} THEN {s.id} ELSE {}
  <2>1. \A q \in ServerCalls : q # r => srvCall'[q].op = "idle"
    BY <1>4, <1>5, <1>6
  <2>2. Active' = {r}
    BY <1>1, <1>2, <1>4, <1>5, <2>1 DEF Active
  <2>3. Pending' = IF op \in {"created", "deleted"} THEN {s.id} ELSE {}
    BY <1>1, <1>4, <2>1 DEF Pending
  <2> QED
    BY <2>2, <2>3
<1>7. AloneIsAlone'
  <2> SUFFICES ASSUME NEW q \in Active', srvCall'[q].alone
               PROVE  Active' = {q} /\ (srvCall'[q].op = "list" => srvCall'[q].view = srvDocs')
    BY DEF AloneIsAlone
  <2>0. q \in ServerCalls /\ srvCall'[q].op # "idle"
    BY <1>5 DEF Active
  <2>1. q = r
    BY <1>4, <2>0
  <2>2. Active = {}
    BY <1>1, <1>4, <2>1
  <2> QED
    BY <1>1, <1>4, <1>6, <2>1, <2>2
<1>8. doubt' \in BOOLEAN
  BY DEF Crossed, ServersInv, ServersTypeOK
<1>9. ASSUME ~doubt' PROVE ~doubt /\ Active = {}
  BY <1>9 DEF Crossed
<1> QED
  BY <1>1, <1>4, <1>6, <1>7, <1>8, <1>9, NoneActive

\* A request that ends leaves nobody alone behind, and nobody at all when nothing was in doubt.
LEMMA EndKeeps ==
    ASSUME ServersInv, NEW r \in ServerCalls, srvCall[r].op # "idle", EndCall(r)
    PROVE  CallsTyped' /\ AloneIsAlone' /\ (~doubt \/ srvCall[r].alone => Active' = {} /\ Pending' = {})
<1>t. srvCall \in [ServerCalls -> {NoSrvCall} \cup SrvCalls]
      /\ \A q \in ServerCalls : srvCall[q].op \in {"created", "put", "delete", "deleted"} => srvCall[q].s.id \in ServerIDs
  BY DEF ServersInv, ServersTypeOK
<1>1. \A q \in ServerCalls : srvCall'[q] = IF q = r THEN NoSrvCall ELSE srvCall[q]
  BY <1>t DEF EndCall
<1>2. CallsTyped'
  <2>1. srvCall' \in [ServerCalls -> {NoSrvCall} \cup SrvCalls]
    BY <1>t DEF EndCall
  <2> QED
    BY <1>t, <1>1, <2>1, ServerWords DEF CallsTyped
<1>3. r \in Active /\ Active' = Active \ {r}
  BY <1>1, ActiveIs DEF Active, ServersInv
<1>4. AloneIsAlone'
  <2> SUFFICES ASSUME NEW q \in Active', srvCall'[q].alone PROVE FALSE
    BY DEF AloneIsAlone
  <2>1. q \in Active /\ q # r /\ q \in ServerCalls
    BY <1>3 DEF Active
  <2>2. srvCall[q].alone
    BY <1>1, <2>1
  <2> QED
    BY <1>3, <2>1, <2>2 DEF ServersInv, AloneIsAlone
<1>5. ASSUME ~doubt \/ srvCall[r].alone PROVE Active' = {} /\ Pending' = {}
  <2>1. Active = {r}
    BY <1>3, <1>5, OnlyOne DEF ServersInv, AloneIsAlone
  <2>2. Active' = {}
    BY <1>3, <2>1
  <2>3. \A q \in ServerCalls : srvCall'[q] = NoSrvCall
    BY <2>2 DEF Active
  <2> QED
    BY <2>2, <2>3, ServerWords DEF Pending
<1> QED
  BY <1>2, <1>4, <1>5

\* A request that has changed the collection goes on.
LEMMA GoesOn ==
    ASSUME ServersInv, NEW r \in ServerCalls, srvCall[r].op \in {"put", "delete"}, NEW op \in {"created", "deleted"},
           srvCall' = [srvCall EXCEPT ![r].op = op]
    PROVE  /\ CallsTyped' /\ AloneIsAlone'
           /\ srvCall'[r].op = op /\ srvCall'[r].s = srvCall[r].s /\ srvCall'[r].typed = srvCall[r].typed
           /\ ~doubt => Active' = {r} /\ srvCall'[r].alone /\ Pending' = {srvCall[r].s.id}
<1>t. srvCall \in [ServerCalls -> {NoSrvCall} \cup SrvCalls] /\ srvCall[r].s.id \in ServerIDs
      /\ \A q \in ServerCalls : srvCall[q].op \in {"created", "put", "delete", "deleted"} => srvCall[q].s.id \in ServerIDs
  BY DEF ServersInv, ServersTypeOK
<1>0. srvCall[r] \in SrvCalls
  BY <1>t, ServerWords
<1> DEFINE k == srvCall[r]
           n == [k EXCEPT !.op = op]
<1>1. n \in SrvCalls /\ n.op = op /\ n.s = k.s /\ n.typed = k.typed /\ n.view = k.view
  BY <1>0 DEF SrvCalls
<1>2. n.alone = k.alone
  BY <1>0, Zenon DEF SrvCalls
<1>3. srvCall'[r] = n /\ \A q \in ServerCalls : q # r => srvCall'[q] = srvCall[q]
  BY <1>t
<1>4. srvCall' = [srvCall EXCEPT ![r] = n]
  BY <1>t
<1> HIDE DEF n
<1>5. CallsTyped'
  <2>1. srvCall' \in [ServerCalls -> {NoSrvCall} \cup SrvCalls]
    BY <1>t, <1>1, <1>4
  <2> QED
    BY <1>t, <1>1, <1>3, <2>1 DEF CallsTyped
<1>6. n # NoSrvCall /\ srvCall[r] # NoSrvCall
  BY <1>0, <1>1, ServerWords
<1>7. Active' = Active
  BY <1>3, <1>6 DEF Active
<1>8. AloneIsAlone'
  <2> SUFFICES ASSUME NEW q \in Active', srvCall'[q].alone
               PROVE  Active' = {q} /\ srvCall'[q].op # "list"
    BY DEF AloneIsAlone
  <2>0. r \in Active
    BY <1>6 DEF Active
  <2>1. CASE q = r
    <3>1. Active = {q}
      BY <1>2, <1>3, <2>0, <2>1 DEF ServersInv, AloneIsAlone
    <3> QED
      BY <1>1, <1>3, <1>7, <2>1, <3>1
  <2>2. CASE q # r
    <3>1. q \in Active /\ srvCall[q].alone
      BY <1>3, <1>7, <2>2 DEF Active
    <3> QED
      BY <2>0, <2>2, <3>1 DEF ServersInv, AloneIsAlone
  <2> QED
    BY <2>1, <2>2
<1>9. ASSUME ~doubt PROVE Active' = {r} /\ srvCall'[r].alone /\ Pending' = {srvCall[r].s.id}
  <2>1. Active = {r} /\ srvCall[r].alone
    BY <1>9, OnlyOne
  <2>2. \A q \in ServerCalls : q # r => srvCall'[q] = NoSrvCall
    BY <1>3, <2>1 DEF Active
  <2>3. Pending' = {srvCall'[r].s.id}
    BY <1>1, <1>3, <2>2, ServerWords DEF Pending
  <2> QED
    BY <1>1, <1>2, <1>3, <1>7, <2>1, <2>3
<1> QED
  BY <1>1, <1>3, <1>5, <1>8, <1>9

-----------------------------------------------------------------------------
LEMMA CallTyped ==
    ASSUME NEW op \in {"list", "created", "put", "delete", "deleted"}, NEW s \in [id : ServerIDs \cup {NoServer}, pw : StoredPws],
           NEW typed \in StoredPws \cup {Kept}, NEW view \in ServerDocs
    PROVE  SrvCall(op, s, typed, view) \in SrvCalls
<1> DEFINE quiet == Active = {}
<1>1. quiet \in BOOLEAN
  OBVIOUS
<1>2. SrvCall(op, s, typed, view) = [op |-> op, s |-> s, typed |-> typed, view |-> view, alone |-> quiet]
  BY DEF SrvCall
<1> HIDE DEF quiet
<1> QED
  BY <1>1, <1>2 DEF SrvCalls

LEMMA ShowsMore ==
    ASSUME NEW b, NEW k, NEW d, NEW X, NEW Y, Shows(b, k, d, X), X \subseteq Y
    PROVE  Shows(b, k, d, Y)
BY DEF Shows

\* A document that changes is one the list may differ in.
LEMMA ShowsBut ==
    ASSUME NEW b, NEW k, NEW d \in ServerDocs, NEW e, NEW i \in ServerIDs, NEW p, Shows(b, k, d, {}), e = [d EXCEPT ![i] = p],
           \A n \in 1..k : b[n] \in Entries
    PROVE  Shows(b, k, e, {i})
<1>1. \A j \in ServerIDs : j # i => e[j] = d[j]
  BY DEF ServerDocs
<1>2. \A n \in 1..k : b[n].id \in ServerIDs
  BY DEF Entries
<1> QED
  BY <1>1, <1>2 DEF Shows

\* It is enough to look at one request.
LEMMA AgreedOne ==
    ASSUME NEW r \in ServerCalls,
           ~doubt' => /\ Active' \subseteq {r} /\ (r \in Active' => srvCall'[r].alone /\ CallRight(r)')
                      /\ Shows(backing', srvLen', srvDocs', Pending') /\ TypedRight'
    PROVE  Agreed'
BY DEF Agreed

LEMMA ServersInvFrom ==
    ASSUME srvDocs' \in ServerDocs, typedPw' \in [ServerIDs -> StoredPws], backing' \in Seq(Entries), srvLen' \in 0..Len(backing'),
           refs' \subseteq ServerIDs, doubt' \in BOOLEAN, CallsTyped', AloneIsAlone', Agreed', EachOnce(backing', srvLen'), RunRight'
    PROVE  ServersInv'
BY DEF ServersInv, ServersTypeOK, CallsTyped

\* Types of the parts, for the steps.
LEMMA ServersTypes ==
    ASSUME ServersInv
    PROVE  /\ srvDocs \in ServerDocs /\ typedPw \in [ServerIDs -> StoredPws] /\ backing \in Seq(Entries) /\ srvLen \in 0..Len(backing)
           /\ refs \subseteq ServerIDs /\ doubt \in BOOLEAN /\ EachOnce(backing, srvLen) /\ RunRight
           /\ \A n \in 1..srvLen : backing[n] \in Entries
           /\ \A i \in ServerIDs, p \in StoredPws \cup {NoServer} : [srvDocs EXCEPT ![i] = p] \in ServerDocs
<1>1. srvDocs \in ServerDocs /\ typedPw \in [ServerIDs -> StoredPws] /\ backing \in Seq(Entries) /\ srvLen \in 0..Len(backing)
      /\ refs \subseteq ServerIDs /\ doubt \in BOOLEAN /\ EachOnce(backing, srvLen) /\ RunRight
  BY DEF ServersInv, ServersTypeOK
<1>2. \A n \in 1..srvLen : backing[n] \in Entries
  <2>1. Len(backing) \in Nat /\ \A n \in 1..Len(backing) : backing[n] \in Entries
    BY <1>1, LenProperties
  <2> QED
    BY <1>1, <2>1
<1>3. \A i \in ServerIDs, p \in StoredPws \cup {NoServer} : [srvDocs EXCEPT ![i] = p] \in ServerDocs
  BY <1>1 DEF ServerDocs
<1> QED
  BY <1>1, <1>2, <1>3

\* A run is not in doubt's way: neither it nor the checks change what the rest is about.
LEMMA Beside ==
    ASSUME ServersInv, UNCHANGED <<srvDocs, backing, srvLen, srvCall, typedPw, doubt>>, refs' \subseteq ServerIDs, RunRight'
    PROVE  ServersInv'
<1>1. Active' = Active /\ Pending' = Pending
  BY DEF Active, Pending
<1>2. Agreed' /\ AloneIsAlone'
  BY <1>1 DEF ServersInv, Agreed, AloneIsAlone, CallRight, TypedRight, Shows
<1>3. ServersTypeOK' /\ EachOnce(backing', srvLen')
  BY DEF ServersInv, ServersTypeOK, EachOnce
<1> QED
  BY <1>2, <1>3 DEF ServersInv

LEMMA RunSame == ASSUME RunRight, UNCHANGED <<srvRun, backing, srvLen>> PROVE RunRight'
BY DEF RunRight

-----------------------------------------------------------------------------
LEMMA ServersBegin == ASSUME ServersInit PROVE ServersInv
<1>1. srvDocs = [i \in ServerIDs |-> NoPw] /\ srvDocs \in ServerDocs /\ typedPw = srvDocs /\ typedPw \in [ServerIDs -> StoredPws]
  BY ServerWords DEF ServersInit, ServerDocs
<1>2. /\ backing \in Seq(Entries) /\ srvLen \in 0..Len(backing) /\ EachOnce(backing, srvLen)
      /\ Shows(backing, srvLen, srvDocs, {})
  BY <1>1, ListedIs DEF ServersInit, EachOnce, Shows
<1>3. \A r \in ServerCalls : srvCall[r] = NoSrvCall
  BY DEF ServersInit
<1>4. Active = {} /\ Pending = {}
  BY <1>3, ServerWords DEF Active, Pending
<1>5. RunRight
  BY DEF RunRight, ServersInit
<1>6. ServersTypeOK
  BY <1>1, <1>2, <1>3, ServerWords DEF ServersTypeOK, ServersInit
<1>7. Agreed /\ AloneIsAlone
  BY <1>1, <1>2, <1>4 DEF Agreed, AloneIsAlone, TypedRight
<1> QED
  BY <1>2, <1>5, <1>6, <1>7 DEF ServersInv

LEMMA ListReadKeeps == ASSUME ServersInv, NEW r \in ServerCalls, ListRead(r) PROVE ServersInv'
<1> DEFINE s == Server(NoServer, NoPw)
<1>1. SrvCall("list", s, NoPw, srvDocs) \in SrvCalls
  BY ServersTypes, ServerWords, CallTyped DEF Server
<1>2. BeginCall(r, SrvCall("list", s, NoPw, srvDocs)) /\ doubt' = Crossed
      /\ UNCHANGED <<srvDocs, backing, srvLen, refs, srvRun, typedPw, srvChanges>>
  BY DEF ListRead
<1> HIDE DEF s
<1>3. /\ CallsTyped' /\ AloneIsAlone' /\ doubt' \in BOOLEAN /\ srvCall'[r].op = "list"
      /\ ~doubt' => /\ Shows(backing, srvLen, srvDocs, {}) /\ TypedRight
                    /\ Active' = {r} /\ srvCall'[r].alone /\ Pending' = {}
  BY <1>1, <1>2, BeginKeeps
<1>4. Agreed'
  <2>1. CallRight(r)'
    BY <1>3 DEF CallRight
  <2>2. TypedRight => TypedRight'
    BY <1>2 DEF TypedRight
  <2> QED
    BY <1>2, <1>3, <2>1, <2>2, AgreedOne
<1>5. RunRight'
  BY <1>2, RunSame, ServersTypes
<1> QED
  BY <1>2, <1>3, <1>4, <1>5, ServersTypes, ServersInvFrom

LEMMA DeleteCheckRefsKeeps == ASSUME ServersInv, NEW r \in ServerCalls, DeleteCheckRefs(r) PROVE ServersInv'
<1>0. PICK i \in ServerIDs \ refs : BeginCall(r, SrvCall("delete", Server(i, NoPw), NoPw, NoDocs))
  BY DEF DeleteCheckRefs
<1> DEFINE s == Server(i, NoPw)
<1>n. NoDocs \in ServerDocs
  BY DEF NoDocs, ServerDocs
<1>1. SrvCall("delete", s, NoPw, NoDocs) \in SrvCalls /\ s.id = i
  BY <1>n, ServerWords, CallTyped DEF Server
<1>2. BeginCall(r, SrvCall("delete", s, NoPw, NoDocs)) /\ doubt' = Crossed
      /\ UNCHANGED <<srvDocs, backing, srvLen, refs, srvRun, typedPw, srvChanges>>
  BY <1>0 DEF DeleteCheckRefs
<1> HIDE DEF s
<1>3. /\ CallsTyped' /\ AloneIsAlone' /\ doubt' \in BOOLEAN /\ srvCall'[r].op = "delete"
      /\ ~doubt' => /\ Shows(backing, srvLen, srvDocs, {}) /\ TypedRight
                    /\ Active' = {r} /\ srvCall'[r].alone /\ Pending' = {}
  BY <1>1, <1>2, BeginKeeps
<1>4. Agreed'
  <2>1. CallRight(r)'
    BY <1>3 DEF CallRight
  <2>2. TypedRight => TypedRight'
    BY <1>2 DEF TypedRight
  <2> QED
    BY <1>2, <1>3, <2>1, <2>2, AgreedOne
<1>5. RunRight'
  BY <1>2, RunSame, ServersTypes
<1> QED
  BY <1>2, <1>3, <1>4, <1>5, ServersTypes, ServersInvFrom

LEMMA CreateServerKeeps == ASSUME ServersInv, NEW r \in ServerCalls, CreateServer(r) PROVE ServersInv'
<1>0. PICK i \in ServerIDs \ Existing, p \in ServerPws \cup {NoPw} :
          \/ /\ BeginCall(r, SrvCall("created", Server(i, p), p, NoDocs)) /\ doubt' = Crossed
             /\ srvDocs' = [srvDocs EXCEPT ![i] = p] /\ typedPw' = [typedPw EXCEPT ![i] = p]
          \/ /\ BeginCall(r, NoSrvCall) /\ doubt' = TRUE /\ UNCHANGED typedPw
             /\ srvDocs' \in {srvDocs, [srvDocs EXCEPT ![i] = p]}
  BY DEF CreateServer
<1>u. UNCHANGED <<backing, srvLen, refs, srvRun>> /\ p \in StoredPws
  BY DEF CreateServer, StoredPws
<1>t. srvDocs' \in ServerDocs /\ typedPw' \in [ServerIDs -> StoredPws]
  BY <1>0, <1>u, ServersTypes
<1>5. RunRight'
  BY <1>u, RunSame, ServersTypes
<1>6. CASE /\ BeginCall(r, SrvCall("created", Server(i, p), p, NoDocs)) /\ doubt' = Crossed
           /\ srvDocs' = [srvDocs EXCEPT ![i] = p] /\ typedPw' = [typedPw EXCEPT ![i] = p]
  <2> DEFINE s == Server(i, p)
  <2>n. NoDocs \in ServerDocs
    BY DEF NoDocs, ServerDocs
  <2>1. SrvCall("created", s, p, NoDocs) \in SrvCalls /\ s.id = i /\ s.pw = p
    BY <1>u, <2>n, ServerWords, CallTyped DEF Server
  <2>2. BeginCall(r, SrvCall("created", s, p, NoDocs)) /\ doubt' = Crossed
    BY <1>6
  <2> HIDE DEF s
  <2>3. /\ CallsTyped' /\ AloneIsAlone' /\ doubt' \in BOOLEAN /\ srvCall'[r].op = "created" /\ srvCall'[r].s = s
        /\ ~doubt' => /\ Shows(backing, srvLen, srvDocs, {}) /\ TypedRight
                      /\ Active' = {r} /\ srvCall'[r].alone /\ Pending' = {i}
    BY <2>1, <2>2, BeginKeeps
  <2>4. CallRight(r)'
    BY <1>6, <2>1, <2>3, ServersTypes DEF CallRight, ServerDocs
  <2>5. TypedRight => TypedRight'
    BY <1>6, ServersTypes DEF TypedRight, ServerDocs
  <2>6. ~doubt' => Shows(backing', srvLen', srvDocs', {i})
    BY <1>6, <1>u, <2>3, ShowsBut, ServersTypes
  <2>7. Agreed'
    BY <2>3, <2>4, <2>5, <2>6, AgreedOne
  <2> QED
    BY <1>t, <1>u, <1>5, <2>3, <2>7, ServersTypes, ServersInvFrom
<1>7. CASE BeginCall(r, NoSrvCall) /\ doubt' = TRUE
  <2>1. /\ CallsTyped' /\ srvCall'[r] = NoSrvCall
        /\ \A q \in ServerCalls : q # r => (srvCall'[q].op = srvCall[q].op) /\ (srvCall[q].op # "idle" => ~srvCall'[q].alone)
    BY <1>7, ServerWords, BeginIs
  <2>2. AloneIsAlone'
    <3> SUFFICES ASSUME NEW q \in Active', srvCall'[q].alone PROVE FALSE
      BY DEF AloneIsAlone
    <3>1. q \in ServerCalls /\ srvCall'[q] # NoSrvCall
      BY DEF Active
    <3>2. srvCall'[q] \in SrvCalls
      BY <2>1, <3>1 DEF CallsTyped
    <3>3. srvCall'[q].op # "idle"
      BY <3>2 DEF SrvCalls
    <3> QED
      BY <2>1, <3>1, <3>3
  <2>3. Agreed'
    BY <1>7 DEF Agreed
  <2> QED
    BY <1>t, <1>u, <1>5, <1>7, <2>1, <2>2, <2>3, ServersTypes, ServersInvFrom
<1> QED
  BY <1>0, <1>6, <1>7

LEMMA UpdateReadKeeps == ASSUME ServersInv, NEW r \in ServerCalls, UpdateRead(r) PROVE ServersInv'
<1>0. PICK i \in Existing, p \in ServerPws \cup {Kept} :
          /\ BeginCall(r, SrvCall("put", Server(i, prepareServerSecrets(p, srvDocs[i])), p, NoDocs)) /\ doubt' = Crossed
          /\ setCachedServer(Server(i, srvDocs[i]))
  BY DEF UpdateRead
<1> DEFINE pw == prepareServerSecrets(p, srvDocs[i])
           s  == Server(i, pw)
           t  == Server(i, srvDocs[i])
<1>u. UNCHANGED <<srvDocs, refs, typedPw>>
  BY DEF UpdateRead
<1>1. i \in ServerIDs /\ srvDocs[i] \in StoredPws /\ pw \in StoredPws /\ (p = Kept => pw = srvDocs[i])
      /\ p \in StoredPws \cup {Kept}
  <2>1. i \in ServerIDs /\ srvDocs[i] # NoServer /\ srvDocs[i] \in StoredPws \cup {NoServer}
    BY ServersTypes DEF Existing, ServerDocs
  <2> QED
    BY <2>1 DEF prepareServerSecrets, StoredPws
<1>2. NoDocs \in ServerDocs
  BY DEF NoDocs, ServerDocs
<1> HIDE DEF pw
<1>3. SrvCall("put", s, p, NoDocs) \in SrvCalls /\ s.id = i /\ s.pw = pw
  BY <1>1, <1>2, CallTyped DEF Server
<1>4. t \in Entries /\ t.id = i /\ t.pw = srvDocs[i]
  BY <1>1 DEF Server, Entries
<1>5. BeginCall(r, SrvCall("put", s, p, NoDocs)) /\ doubt' = Crossed /\ setCachedServer(t)
  BY <1>0 DEF pw
<1> HIDE DEF s, t
<1>6. /\ CallsTyped' /\ AloneIsAlone' /\ doubt' \in BOOLEAN
      /\ srvCall'[r].op = "put" /\ srvCall'[r].s = s /\ srvCall'[r].typed = p
      /\ ~doubt' => /\ Shows(backing, srvLen, srvDocs, {}) /\ TypedRight
                    /\ Active' = {r} /\ srvCall'[r].alone /\ Pending' = {}
  BY <1>1, <1>3, <1>5, BeginKeeps
<1>7. backing' \in Seq(Entries) /\ srvLen' \in 0..Len(backing') /\ EachOnce(backing', srvLen') /\ RunRight'
  BY <1>4, <1>5, SetOneIs
<1>8. CallRight(r)'
  BY <1>u, <1>1, <1>3, <1>6 DEF CallRight
<1>9. ~doubt' => Shows(backing', srvLen', srvDocs', {})
  <2> SUFFICES ASSUME ~doubt' PROVE Shows(backing', srvLen', srvDocs, {})
    BY <1>u
  <2>1. Shows(backing, srvLen, srvDocs, {} \cup {t.id})
    BY <1>6, ShowsMore
  <2> QED
    BY <1>4, <1>5, <2>1, SetOneShows
<1>10. TypedRight => TypedRight'
  BY <1>u DEF TypedRight
<1>11. Agreed'
  BY <1>6, <1>8, <1>9, <1>10, AgreedOne
<1> QED
  BY <1>u, <1>6, <1>7, <1>11, ServersTypes, ServersInvFrom

\* A request in flight, at its second step.
LEMMA CallInFlight ==
    ASSUME ServersInv, NEW r \in ServerCalls, srvCall[r].op # "idle"
    PROVE  /\ srvCall[r] \in SrvCalls /\ srvCall[r].s.pw \in StoredPws /\ srvCall[r].view \in ServerDocs
           /\ srvCall[r].op \in {"created", "put", "delete", "deleted"} => srvCall[r].s \in Entries
           /\ srvCall[r].op \in {"created", "put", "delete", "deleted"} => srvCall[r].s.id \in ServerIDs
<1>1. srvCall[r] \in SrvCalls
  BY ActiveIs DEF ServersInv
<1>2. srvCall[r].op \in {"created", "put", "delete", "deleted"} => srvCall[r].s.id \in ServerIDs
  BY DEF ServersInv, ServersTypeOK
<1> QED
  BY <1>1, <1>2 DEF SrvCalls, Entries

LEMMA ListCacheKeeps == ASSUME ServersInv, NEW r \in ServerCalls, ListCache(r) PROVE ServersInv'
<1>1. srvCall[r].op = "list" /\ EndCall(r) /\ UNCHANGED <<srvDocs, refs, srvChanges>>
  BY DEF ListCache
<1>2. srvCall[r].view \in ServerDocs
  BY <1>1, CallInFlight
<1>3. CallsTyped' /\ AloneIsAlone' /\ (~doubt \/ srvCall[r].alone => Active' = {} /\ Pending' = {})
  BY <1>1, EndKeeps
<1>4. CASE /\ setCachedServers(srvCall[r].view)
           /\ srvCall[r].alone /\ doubt' = FALSE /\ typedPw' = PwsOf(srvDocs)
  <2>1. srvCall[r].view = srvDocs
    <3>1. r \in Active
      BY <1>1, ActiveIs DEF ServersInv
    <3> QED
      BY <1>1, <1>4, <3>1 DEF ServersInv, AloneIsAlone
  <2>2. /\ backing' \in Seq(Entries) /\ srvLen' \in 0..Len(backing') /\ EachOnce(backing', srvLen') /\ RunRight'
        /\ Shows(backing', srvLen', srvDocs, {})
    BY <1>2, <1>4, <2>1, SetAllIs
  <2>3. typedPw' \in [ServerIDs -> StoredPws] /\ TypedRight'
    BY <1>1, <1>4, ServersTypes, ServerWords DEF PwsOf, TypedRight, ServerDocs
  <2>4. Agreed'
    BY <1>1, <1>3, <1>4, <2>2, <2>3 DEF Agreed
  <2> QED
    BY <1>1, <1>3, <1>4, <2>2, <2>3, <2>4, ServersTypes, ServersInvFrom
<1>5. CASE setCachedServers(srvCall[r].view) /\ ~srvCall[r].alone /\ UNCHANGED <<doubt, typedPw>>
  <2>1. /\ backing' \in Seq(Entries) /\ srvLen' \in 0..Len(backing') /\ EachOnce(backing', srvLen') /\ RunRight'
    BY <1>2, <1>5, SetAllIs
  <2>2. doubt
    BY <1>1, <1>5, OnlyOne
  <2>3. Agreed'
    BY <1>5, <2>2 DEF Agreed
  <2> QED
    BY <1>1, <1>3, <1>5, <2>1, <2>3, ServersTypes, ServersInvFrom
<1>6. CASE UNCHANGED <<backing, srvLen, srvRun, doubt, typedPw>>
  <2>1. RunRight' /\ EachOnce(backing', srvLen')
    BY <1>6, RunSame, ServersTypes
  <2>2. Agreed'
    <3> SUFFICES ASSUME ~doubt' PROVE Active' = {} /\ Shows(backing', srvLen', srvDocs', Pending') /\ TypedRight'
      BY DEF Agreed
    <3>1. Shows(backing, srvLen, srvDocs, {}) /\ TypedRight
      BY <1>1, <1>6, OnlyOne
    <3> QED
      BY <1>1, <1>3, <1>6, <3>1 DEF TypedRight
  <2> QED
    BY <1>1, <1>3, <1>6, <2>1, <2>2, ServersTypes, ServersInvFrom
<1> QED
  BY <1>4, <1>5, <1>6 DEF ListCache

LEMMA CreateCachedKeeps == ASSUME ServersInv, NEW r \in ServerCalls, CreateCached(r) PROVE ServersInv'
<1> DEFINE s == srvCall[r].s
<1>1. srvCall[r].op = "created" /\ setCachedServer(s) /\ EndCall(r) /\ UNCHANGED <<srvDocs, typedPw, doubt, srvChanges>>
      /\ refs' \in {refs, refs \cup {s.id}}
  BY DEF CreateCached
<1>2. s \in Entries /\ s.id \in ServerIDs
  BY <1>1, CallInFlight
<1>3. CallsTyped' /\ AloneIsAlone' /\ (~doubt => Active' = {} /\ Pending' = {})
  BY <1>1, EndKeeps
<1>4. backing' \in Seq(Entries) /\ srvLen' \in 0..Len(backing') /\ EachOnce(backing', srvLen') /\ RunRight'
  BY <1>1, <1>2, SetOneIs
<1>5. ASSUME ~doubt PROVE TypedRight' /\ Shows(backing', srvLen', srvDocs', {})
  <2>1. TypedRight /\ CallRight(r) /\ Shows(backing, srvLen, srvDocs, {s.id})
    BY <1>1, <1>5, OnlyOne
  <2>2. srvDocs[s.id] = s.pw
    BY <1>1, <2>1 DEF CallRight
  <2>3. Shows(backing', srvLen', srvDocs, {})
    BY <1>1, <1>2, <2>1, <2>2, SetOneShows
  <2> QED
    BY <1>1, <2>1, <2>3 DEF TypedRight
<1>6. Agreed'
  BY <1>1, <1>3, <1>5 DEF Agreed
<1> QED
  BY <1>1, <1>2, <1>3, <1>4, <1>6, ServersTypes, ServersInvFrom

LEMMA DeleteCachedKeeps == ASSUME ServersInv, NEW r \in ServerCalls, DeleteCached(r) PROVE ServersInv'
<1> DEFINE i == srvCall[r].s.id
<1>1. srvCall[r].op = "deleted" /\ removeCachedServer(i) /\ EndCall(r) /\ UNCHANGED <<srvDocs, refs, typedPw, doubt, srvChanges>>
  BY DEF DeleteCached
<1>3. CallsTyped' /\ AloneIsAlone' /\ (~doubt => Active' = {} /\ Pending' = {})
  BY <1>1, EndKeeps
<1>4. /\ backing' \in Seq(Entries) /\ srvLen' \in 0..Len(backing') /\ RunRight' /\ EachOnce(backing', srvLen')
      /\ \A n \in 1..srvLen' : \E k \in 1..srvLen : backing'[n] = backing[k] /\ backing[k].id # i
      /\ \A k \in 1..srvLen : backing[k].id # i => \E n \in 1..srvLen' : backing'[n] = backing[k]
  BY <1>1, RemoveIs
<1>5. ASSUME ~doubt PROVE TypedRight' /\ Shows(backing', srvLen', srvDocs', {})
  <2>1. TypedRight /\ CallRight(r) /\ Shows(backing, srvLen, srvDocs, {i})
    BY <1>1, <1>5, OnlyOne
  <2>2. srvDocs[i] = NoServer
    BY <1>1, <2>1 DEF CallRight
  <2> HIDE DEF i
  <2>3. \A n \in 1..srvLen' : srvDocs[backing'[n].id] = backing'[n].pw
    BY <1>4, <2>1 DEF Shows
  <2>4. ASSUME NEW j \in ServerIDs, srvDocs[j] # NoServer PROVE \E n \in 1..srvLen' : backing'[n].id = j
    <3>1. PICK k \in 1..srvLen : backing[k].id = j
      BY <2>1, <2>2, <2>4 DEF Shows
    <3> QED
      BY <1>4, <2>2, <2>4, <3>1
  <2>5. Shows(backing', srvLen', srvDocs, {})
    BY <2>3, <2>4 DEF Shows
  <2> QED
    BY <1>1, <2>1, <2>5 DEF TypedRight
<1>6. Agreed'
  BY <1>1, <1>3, <1>5 DEF Agreed
<1> QED
  BY <1>1, <1>3, <1>4, <1>6, ServersTypes, ServersInvFrom

LEMMA ReplaceServerKeeps == ASSUME ServersInv, NEW r \in ServerCalls, ReplaceServer(r) PROVE ServersInv'
<1> DEFINE s == srvCall[r].s
<1>1. srvCall[r].op = "put" /\ UNCHANGED <<backing, srvLen, refs, srvRun>>
  BY DEF ReplaceServer
<1>2. s.id \in ServerIDs /\ s.pw \in StoredPws
  BY <1>1, CallInFlight
<1>3. RunRight' /\ EachOnce(backing', srvLen')
  BY <1>1, RunSame, ServersTypes
<1>4. CASE /\ s.id \in Existing /\ srvDocs' = [srvDocs EXCEPT ![s.id] = s.pw]
           /\ typedPw' = IF srvCall[r].typed = Kept THEN typedPw ELSE [typedPw EXCEPT ![s.id] = s.pw]
           /\ srvCall' = [srvCall EXCEPT ![r].op = "created"] /\ UNCHANGED doubt
  <2>1. /\ CallsTyped' /\ AloneIsAlone'
        /\ srvCall'[r].op = "created" /\ srvCall'[r].s = s
        /\ ~doubt => Active' = {r} /\ srvCall'[r].alone /\ Pending' = {s.id}
    BY <1>1, <1>4, GoesOn
  <2>2. srvDocs' \in ServerDocs /\ typedPw' \in [ServerIDs -> StoredPws]
    BY <1>2, <1>4, ServersTypes
  <2>3. ASSUME ~doubt PROVE CallRight(r)' /\ Shows(backing', srvLen', srvDocs', {s.id}) /\ TypedRight'
    <3>1. TypedRight /\ CallRight(r) /\ Shows(backing, srvLen, srvDocs, {})
      BY <1>1, <2>3, OnlyOne
    <3>2. CallRight(r)'
      BY <1>2, <1>4, <2>1, ServersTypes DEF CallRight, ServerDocs
    <3>3. Shows(backing', srvLen', srvDocs', {s.id})
      BY <1>1, <1>2, <1>4, <3>1, ShowsBut, ServersTypes
    <3>4. srvCall[r].typed = Kept => s.pw = srvDocs[s.id] /\ srvDocs[s.id] # NoServer
      BY <1>1, <1>4, <3>1 DEF CallRight, Existing
    <3> HIDE DEF s
    <3>5. TypedRight'
      BY <1>2, <1>4, <3>1, <3>4, ServersTypes DEF TypedRight, ServerDocs
    <3> QED
      BY <3>2, <3>3, <3>5
  <2>4. Agreed'
    BY <1>4, <2>1, <2>3, AgreedOne
  <2> QED
    BY <1>1, <1>3, <1>4, <2>1, <2>2, <2>4, ServersTypes, ServersInvFrom
<1>5. CASE /\ srvDocs' \in {srvDocs, IF s.id \in Existing THEN [srvDocs EXCEPT ![s.id] = s.pw] ELSE srvDocs}
           /\ EndCall(r) /\ doubt' = TRUE /\ UNCHANGED typedPw
  <2>1. CallsTyped' /\ AloneIsAlone'
    BY <1>1, <1>5, EndKeeps
  <2>2. srvDocs' \in ServerDocs
    BY <1>2, <1>5, ServersTypes
  <2>3. Agreed'
    BY <1>5 DEF Agreed
  <2> QED
    BY <1>1, <1>3, <1>5, <2>1, <2>2, <2>3, ServersTypes, ServersInvFrom
<1> QED
  BY <1>4, <1>5 DEF ReplaceServer

LEMMA DeleteServerKeeps == ASSUME ServersInv, NEW r \in ServerCalls, DeleteServer(r) PROVE ServersInv'
<1> DEFINE s == srvCall[r].s
<1>1. srvCall[r].op = "delete" /\ UNCHANGED <<backing, srvLen, refs, srvRun, typedPw>>
  BY DEF DeleteServer
<1>2. s.id \in ServerIDs
  BY <1>1, CallInFlight
<1>3. RunRight' /\ EachOnce(backing', srvLen')
  BY <1>1, RunSame, ServersTypes
<1>4. CASE /\ s.id \in Existing /\ srvDocs' = [srvDocs EXCEPT ![s.id] = NoServer]
           /\ srvCall' = [srvCall EXCEPT ![r].op = "deleted"] /\ UNCHANGED doubt
  <2>1. /\ CallsTyped' /\ AloneIsAlone'
        /\ srvCall'[r].op = "deleted" /\ srvCall'[r].s = s
        /\ ~doubt => Active' = {r} /\ srvCall'[r].alone /\ Pending' = {s.id}
    BY <1>1, <1>4, GoesOn
  <2>2. srvDocs' \in ServerDocs
    BY <1>2, <1>4, ServersTypes
  <2>3. ASSUME ~doubt PROVE CallRight(r)' /\ Shows(backing', srvLen', srvDocs', {s.id}) /\ TypedRight'
    <3>1. TypedRight /\ Shows(backing, srvLen, srvDocs, {})
      BY <1>1, <2>3, OnlyOne
    <3>2. CallRight(r)'
      BY <1>2, <1>4, <2>1, ServersTypes DEF CallRight, ServerDocs
    <3>3. Shows(backing', srvLen', srvDocs', {s.id})
      BY <1>1, <1>2, <1>4, <3>1, ShowsBut, ServersTypes
    <3> HIDE DEF s
    <3>5. TypedRight'
      BY <1>1, <1>2, <1>4, <3>1, ServersTypes DEF TypedRight, ServerDocs
    <3> QED
      BY <3>2, <3>3, <3>5
  <2>4. Agreed'
    BY <1>4, <2>1, <2>3, AgreedOne
  <2> QED
    BY <1>1, <1>3, <1>4, <2>1, <2>2, <2>4, ServersTypes, ServersInvFrom
<1>5. CASE /\ srvDocs' \in {srvDocs, [srvDocs EXCEPT ![s.id] = NoServer]}
           /\ EndCall(r) /\ doubt' = TRUE
  <2>1. CallsTyped' /\ AloneIsAlone'
    BY <1>1, <1>5, EndKeeps
  <2>2. srvDocs' \in ServerDocs
    <3>1. [srvDocs EXCEPT ![s.id] = NoServer] \in ServerDocs
      BY <1>2, ServersTypes
    <3> QED
      BY <1>5, <3>1, ServersTypes
  <2>3. Agreed'
    BY <1>5 DEF Agreed
  <2> QED
    BY <1>1, <1>3, <1>5, <2>1, <2>2, <2>3, ServersTypes, ServersInvFrom
<1> QED
  BY <1>4, <1>5 DEF DeleteServer

LEMMA ResolveKeeps == ASSUME ServersInv, NEW i \in ServerIDs, resolveServer(i) PROVE ServersInv'
<1>1. UNCHANGED <<srvDocs, backing, srvLen, refs, srvCall, typedPw, doubt>>
  BY DEF resolveServer
<1>2. CASE Cached(i) = {}
  <2>1. srvRun' = [st |-> "ran", want |-> i, on |-> "local", cut |-> FALSE]
    BY <1>2 DEF resolveServer
  <2>2. RunRight'
    BY <2>1 DEF RunRight
  <2> QED
    BY <1>1, <2>2, Beside, ServersTypes
<1>3. CASE Cached(i) # {}
  <2> DEFINE first == CHOOSE n \in Cached(i) : \A k \in Cached(i) : n <= k
             v == Server(i, NoPw)
  <2>1. srvRun' = [st |-> "resolved", want |-> i, at |-> first, val |-> v, cut |-> FALSE]
    BY <1>3 DEF resolveServer
  <2>2. first \in Cached(i)
    <3>1. PICK p \in Cached(i) : TRUE
      BY <1>3
    <3>2. p \in Nat /\ \A k \in Cached(i) : p <= k
      BY <3>1, ServersTypes DEF Cached, EachOnce
    <3> QED
      BY <3>1, <3>2
  <2> HIDE DEF first, v
  <2>3. first \in Nat /\ first > 0 /\ first <= srvLen /\ backing[first].id = i
    BY <2>2, ServersTypes DEF Cached
  <2>4. srvRun'.st = "resolved" /\ srvRun'.want = i /\ srvRun'.at = first /\ srvRun'.val = v /\ ~srvRun'.cut /\ srvRun'.cut = FALSE
    BY <2>1
  <2>5. RunRight'
    BY <1>1, <2>1, <2>3, <2>4 DEF RunRight
  <2> QED
    BY <1>1, <2>5, Beside, ServersTypes
<1> QED
  BY <1>2, <1>3

LEMMA SshKeeps == ASSUME ServersInv, sshDialAndRun PROVE ServersInv'
<1>1. UNCHANGED <<srvDocs, backing, srvLen, refs, srvCall, typedPw, doubt>> /\ srvRun.st = "resolved"
  BY DEF sshDialAndRun
<1> DEFINE at == IF srvRun.at = 0 THEN srvRun.val.id ELSE backing[srvRun.at].id
           want == srvRun.want
           cut  == srvRun.cut
<1>2. srvRun' = [st |-> "ran", want |-> want, cut |-> cut, on |-> at]
  BY DEF sshDialAndRun
<1>3. RunRight /\ srvRun # NoRun
  BY <1>1, ServersTypes DEF NoRun
<1>4. ~cut => at = want
  BY <1>1, <1>3 DEF RunRight
<1> HIDE DEF at, want, cut
<1>5. srvRun'.want = want /\ srvRun'.cut = cut /\ srvRun'.on = at /\ srvRun' = [st |-> "ran", want |-> want, on |-> at, cut |-> cut]
  BY <1>2
<1>6. RunRight'
  BY <1>4, <1>5 DEF RunRight
<1> QED
  BY <1>1, <1>6, Beside, ServersTypes

LEMMA RestartKeeps == ASSUME ServersInv, RestartServers PROVE ServersInv'
<1>1. /\ backing' = Listed(srvDocs) /\ srvLen' = Len(backing')
      /\ srvCall' = [r \in ServerCalls |-> NoSrvCall] /\ srvRun' = NoRun
      /\ typedPw' = PwsOf(srvDocs) /\ doubt' = FALSE /\ UNCHANGED <<srvDocs, refs, srvChanges>>
  BY DEF RestartServers
<1>2. /\ backing' \in Seq(Entries) /\ srvLen' \in 0..Len(backing') /\ EachOnce(backing', srvLen')
      /\ Shows(backing', srvLen', srvDocs, {})
  BY <1>1, ListedIs, ServersTypes DEF EachOnce, Shows
<1>3. typedPw' \in [ServerIDs -> StoredPws] /\ TypedRight'
  BY <1>1, ServersTypes, ServerWords DEF PwsOf, TypedRight, ServerDocs
<1>4. Active' = {} /\ Pending' = {} /\ CallsTyped'
  BY <1>1, ServerWords DEF Active, Pending, CallsTyped
<1>5. RunRight'
  BY <1>1 DEF RunRight
<1>6. Agreed' /\ AloneIsAlone'
  BY <1>1, <1>2, <1>3, <1>4 DEF Agreed, AloneIsAlone
<1> QED
  BY <1>1, <1>2, <1>3, <1>4, <1>5, <1>6, ServersTypes, ServersInvFrom

LEMMA ServersStep == ASSUME ServersInv, [ServersNext]_serverVars PROVE ServersInv'
<1>1. ASSUME NEW r \in ServerCalls, ListRead(r) PROVE ServersInv'
  BY <1>1, ListReadKeeps
<1>2. ASSUME NEW r \in ServerCalls, ListCache(r) PROVE ServersInv'
  BY <1>2, ListCacheKeeps
<1>3. ASSUME NEW r \in ServerCalls, CreateServer(r) PROVE ServersInv'
  BY <1>3, CreateServerKeeps
<1>4. ASSUME NEW r \in ServerCalls, CreateCached(r) PROVE ServersInv'
  BY <1>4, CreateCachedKeeps
<1>5. ASSUME NEW r \in ServerCalls, UpdateRead(r) PROVE ServersInv'
  BY <1>5, UpdateReadKeeps
<1>6. ASSUME NEW r \in ServerCalls, ReplaceServer(r) PROVE ServersInv'
  BY <1>6, ReplaceServerKeeps
<1>7. ASSUME NEW r \in ServerCalls, DeleteCheckRefs(r) PROVE ServersInv'
  BY <1>7, DeleteCheckRefsKeeps
<1>8. ASSUME NEW r \in ServerCalls, DeleteServer(r) PROVE ServersInv'
  BY <1>8, DeleteServerKeeps
<1>9. ASSUME NEW r \in ServerCalls, DeleteCached(r) PROVE ServersInv'
  BY <1>9, DeleteCachedKeeps
<1>10. ASSUME NEW i \in ServerIDs, StoreCheckFor(i) \/ DropCheckFor(i) PROVE ServersInv'
  BY <1>10, Beside, RunSame, ServersTypes DEF StoreCheckFor, DropCheckFor
<1>11. ASSUME NEW i \in ServerIDs, resolveServer(i) PROVE ServersInv'
  BY <1>11, ResolveKeeps
<1>12. CASE sshDialAndRun
  BY <1>12, SshKeeps
<1>13. CASE RestartServers
  BY <1>13, RestartKeeps
<1>14. CASE UNCHANGED serverVars
  BY <1>14, Beside, RunSame, ServersTypes DEF serverVars
<1> QED
  BY <1>1, <1>2, <1>3, <1>4, <1>5, <1>6, <1>7, <1>8, <1>9, <1>10, <1>11, <1>12, <1>13, <1>14 DEF ServersNext

LEMMA ServersInvSound == ASSUME ServersInv PROVE ServersSound
<1>1. ASSUME NEW i \in ServerIDs PROVE Cardinality(Cached(i)) <= 1
  <2>1. CASE Cached(i) = {}
    BY <2>1, FS_EmptySet
  <2>2. CASE Cached(i) # {}
    <3>1. PICK p \in Cached(i) : TRUE
      BY <2>2
    <3>2. Cached(i) = {p}
      BY <3>1, ServersTypes DEF Cached, EachOnce
    <3> QED
      BY <3>2, FS_Singleton
  <2> QED
    BY <2>1, <2>2
<1>2. srvRun.st = "ran" => srvRun.on \in {srvRun.want, "local"} \/ srvRun.cut
  BY ServersTypes DEF RunRight, NoRun
<1>3. ASSUME Active = {}, ~doubt
      PROVE  /\ {backing[n] : n \in 1..srvLen} = {Server(i, srvDocs[i]) : i \in Existing}
             /\ \A i \in Existing : srvDocs[i] = typedPw[i]
  <2>1. Shows(backing, srvLen, srvDocs, {}) /\ TypedRight
    BY <1>3, NoneActive
  <2>2. ASSUME NEW n \in 1..srvLen PROVE backing[n].id \in Existing /\ backing[n] = Server(backing[n].id, srvDocs[backing[n].id])
    <3>1. backing[n] \in Entries
      BY ServersTypes
    <3>2. srvDocs[backing[n].id] = backing[n].pw /\ backing[n].pw # NoServer /\ backing[n].id \in ServerIDs
      BY <2>1, <3>1, ServerWords DEF Shows, Entries
    <3> QED
      BY <3>1, <3>2 DEF Existing, Server, Entries
  <2>3. ASSUME NEW i \in Existing PROVE \E n \in 1..srvLen : backing[n] = Server(i, srvDocs[i])
    BY <2>1, <2>2 DEF Shows, Existing
  <2>4. {backing[n] : n \in 1..srvLen} = {Server(i, srvDocs[i]) : i \in Existing}
    BY <2>2, <2>3
  <2> QED
    BY <2>1, <2>4 DEF TypedRight, Existing
<1> QED
  BY <1>1, <1>2, <1>3 DEF ServersSound

\* Whatever requests overlap and fail, no server is in the list twice, and a run
\* connects to the server it was for, or to this machine, unless a server was
\* removed under it.  In quiet the list is the collection, with the passwords
\* typed last.
THEOREM ServersTheorem == ServersSpec => []ServersSound
<1>1. ServersInit => ServersInv
  BY ServersBegin
<1>2. ServersInv /\ [ServersNext]_serverVars => ServersInv'
  BY ServersStep
<1>3. ServersInv => ServersSound
  BY ServersInvSound
<1> QED
  BY <1>1, <1>2, <1>3, PTL DEF ServersSpec

=============================================================================
