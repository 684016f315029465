--------------------------- MODULE CheckScheduler ---------------------------
(***************************************************************************)
(* The CheckScheduler (scheduler.go), the part of Runner its loops call,   *)
(* and the goroutines around it: Service.Run, which starts and stops it,   *)
(* and the HTTP handlers that create, change and delete checks.            *)
(*                                                                         *)
(* scheduleCheck arms a zero-delay timer whose function runs the check and *)
(* then loops on a ticker for ever, so one timer is one goroutine here: a  *)
(* loop.  Stopping the timer only has an effect while the loop is "armed", *)
(* that is before its function started.  Critical sections of s.mu are one *)
(* step each; s.wgMu is held by Stop while it waits, so it is modelled.    *)
(* Start reads and writes s.timers without s.mu, one access at a time.     *)
(***************************************************************************)
EXTENDS Naturals, FiniteSets

CONSTANTS
    Checks,      \* check identifiers
    Loops,       \* bound: goroutines started by timers that exist at a time
    NoLoop,      \* "no timer"
    Handlers,    \* HTTP handler goroutines
    MaxRetries,  \* getCheckRetryCount
    Cooled       \* checks with CooldownSeconds > 0

ASSUME SchedulerAssumption ==
    /\ Checks # {} /\ Cooled \subseteq Checks
    /\ MaxRetries \in Nat
    /\ NoLoop \notin Loops
    /\ IsFiniteSet(Loops) /\ IsFiniteSet(Handlers)

VARIABLES
    main,      \* where Service.Run is: before, in and after Start and Stop
    toStart,   \* checks the loop of Start's rescheduleAll has yet to come to
    begun,     \* the check that loop is at, and the timer it looked up or armed
    raced,     \* history: checks a handler scheduled while Start was at them
    store,     \* the check repository
    timers,    \* s.timers: the loop a check's timer started, if any
    cooling,   \* s.cooldowns: the entry exists and lies in the future
    wg,        \* s.wg: loops that have called Add and not yet Done
    pc, loop,  \* where each loop is, and its check, attempt and last result
    handler    \* what each HTTP handler is doing

vars == <<main, toStart, begun, raced, store, timers, cooling, wg, pc, loop, handler>>

StartPCs == {"sweep", "sweepDrop", "schedule", "drop", "arm", "record"}
AtCheck == {"sweepDrop", "drop", "arm", "record"} \* Start is between two accesses to a check's timer
MainPCs == {"listening", "serving", "cancelled", "waiting", "stopped"} \cup StartPCs
StoreStates == {"absent", "enabled", "disabled"}
InRun == {"guard", "probe", "report", "delay", "exhausted"} \* between wg.Add and wg.Done
PCs == InRun \cup {"free", "armed", "enter", "wait", "ticked"}
Results == {"none", "healthy", "critical", "aborted"}
HandlerPCs == {"idle", "write", "schedule", "delete", "remove"}
Attempts == 0..MaxRetries
AnyCheck == CHOOSE k \in Checks : TRUE
IdleLoop == [check |-> AnyCheck, attempt |-> 0, result |-> "none"]
\* What a timer function, or a run in it, begins with.
Fresh(k) == [check |-> k, attempt |-> 0, result |-> "none"]
AtNone == [check |-> AnyCheck, timer |-> NoLoop]
IdleHandler == [pc |-> "idle", check |-> AnyCheck, to |-> "disabled"]

\* s.running; Stop clears it and cancels s.ctx in one critical section.
running == main \in StartPCs \cup {"serving"}
ctxDone == main \in {"cancelled", "waiting", "stopped"}

Init ==
    /\ main = "listening"
    /\ toStart = {} /\ begun = AtNone /\ raced = {}
    /\ store \in [Checks -> StoreStates]
    /\ timers = [k \in Checks |-> NoLoop]
    /\ cooling = [k \in Checks |-> FALSE]
    /\ wg = {}
    /\ pc = [l \in Loops |-> "free"]
    /\ loop = [l \in Loops |-> IdleLoop]
    /\ handler = [h \in Handlers |-> IdleHandler]

-----------------------------------------------------------------------------
(***************************************************************************)
(* Timers.  A goroutine that ended may stand for a new one once no timer   *)
(* refers to it; loops are kept back for the handlers and the Start that   *)
(* are under way.                                                          *)
(***************************************************************************)
FreeLoops ==
    {l \in Loops : pc[l] = "free" /\ begun.timer # l /\ \A k \in Checks : timers[k] # l}
Starting == IF main \in StartPCs \cup {"listening"} THEN Checks ELSE {}
Room == Cardinality(FreeLoops) >
          Cardinality({h \in Handlers : handler[h].pc # "idle"}) + Cardinality(Starting)

\* timer.Stop() on the timers of the checks in K.
StopTimers(K) ==
    [l \in Loops |-> IF pc[l] = "armed" /\ \E k \in K : timers[k] = l THEN "free" ELSE pc[l]]

\* Mutant: the entry is overwritten and the timer it held is not stopped.
scheduleCheckKeepsOld(k, enabled) ==
    IF enabled
      THEN \E l \in FreeLoops :
             /\ pc' = [pc EXCEPT ![l] = "armed"]
             /\ loop' = [loop EXCEPT ![l] = Fresh(k)]
             /\ timers' = [timers EXCEPT ![k] = l]
      ELSE timers' = [timers EXCEPT ![k] = NoLoop] /\ UNCHANGED <<pc, loop>>

scheduleCheck(k, enabled) ==
    IF enabled
      THEN \E l \in FreeLoops :
             /\ pc' = [StopTimers({k}) EXCEPT ![l] = "armed"]
             /\ loop' = [loop EXCEPT ![l] = Fresh(k)]
             /\ timers' = [timers EXCEPT ![k] = l]
      ELSE /\ pc' = StopTimers({k})
           /\ timers' = [timers EXCEPT ![k] = NoLoop]
           /\ UNCHANGED loop

(***************************************************************************)
(* Start.  The HTTP server listens already, and rescheduleAll runs without *)
(* the mutex that its comment and scheduleCheck's ask for.  So handlers    *)
(* act between any two of its accesses: where a timer is looked up, where  *)
(* that timer is stopped and the entry, whatever it now holds, deleted,    *)
(* where a new timer is armed, and where it is recorded.                   *)
(***************************************************************************)
Start ==
    /\ main = "listening"
    /\ main' = "sweep" /\ toStart' = Checks
    /\ UNCHANGED <<begun, raced, store, timers, cooling, wg, pc, loop, handler>>

\* The next check, and the timer on record for it; without one, go on to label.
LookUp(found, label) ==
    \E k \in toStart :
        /\ toStart' = toStart \ {k}
        /\ begun' = [check |-> k, timer |-> timers[k]]
        /\ main' = IF timers[k] = NoLoop THEN label ELSE found

\* A round of the loop that clears the timers.
SweepOne ==
    /\ main = "sweep" /\ LookUp("sweepDrop", "sweep")
    /\ UNCHANGED <<raced, store, timers, cooling, wg, pc, loop, handler>>

\* timer.Stop() and delete(s.timers, id).
DropOld ==
    /\ main \in {"sweepDrop", "drop"}
    /\ main' = IF main = "drop" THEN "arm" ELSE "sweep"
    /\ pc' = [l \in Loops |-> IF l = begun.timer /\ pc[l] = "armed" THEN "free" ELSE pc[l]]
    /\ timers' = [timers EXCEPT ![begun.check] = NoLoop]
    /\ begun' = [begun EXCEPT !.timer = NoLoop]
    /\ UNCHANGED <<toStart, raced, store, cooling, wg, loop, handler>>

getEnabledChecks ==
    /\ main = "sweep" /\ toStart = {}
    /\ main' = "schedule"
    /\ toStart' = {k \in Checks : store[k] = "enabled"}
    /\ UNCHANGED <<begun, raced, store, timers, cooling, wg, pc, loop, handler>>

\* The steps of Start's scheduleCheck.
StartOne ==
    /\ main = "schedule" /\ LookUp("drop", "arm")
    /\ UNCHANGED <<raced, store, timers, cooling, wg, pc, loop, handler>>

ArmTimer ==
    /\ main = "arm"
    /\ main' = "record"
    /\ \E l \in FreeLoops :
         /\ pc' = [pc EXCEPT ![l] = "armed"]
         /\ loop' = [loop EXCEPT ![l] = Fresh(begun.check)]
         /\ begun' = [begun EXCEPT !.timer = l]
    /\ UNCHANGED <<toStart, raced, store, timers, cooling, wg, handler>>

RecordTimer ==
    /\ main = "record"
    /\ main' = "schedule"
    /\ timers' = [timers EXCEPT ![begun.check] = begun.timer]
    /\ begun' = AtNone
    /\ UNCHANGED <<toStart, raced, store, cooling, wg, pc, loop, handler>>

Started ==
    /\ main = "schedule" /\ toStart = {}
    /\ main' = "serving"
    /\ UNCHANGED <<toStart, begun, raced, store, timers, cooling, wg, pc, loop, handler>>

(***************************************************************************)
(* Stop, deferred by Service.Run: clear running, stop the timers and       *)
(* cancel; then, holding wgMu, wait for the runs under way.                *)
(***************************************************************************)
Stop ==
    /\ main = "serving"
    /\ main' = "cancelled"
    /\ pc' = StopTimers(Checks)
    /\ timers' = [k \in Checks |-> NoLoop]
    /\ UNCHANGED <<toStart, begun, raced, store, cooling, wg, loop, handler>>

StopLock ==
    /\ main = "cancelled"
    /\ main' = "waiting"
    /\ UNCHANGED <<toStart, begun, raced, store, timers, cooling, wg, pc, loop, handler>>

StopWait ==
    /\ main = "waiting" /\ wg = {}
    /\ main' = "stopped"
    /\ UNCHANGED <<toStart, begun, raced, store, timers, cooling, wg, pc, loop, handler>>

-----------------------------------------------------------------------------
(***************************************************************************)
(* HTTP handlers.  POST writes the check and schedules it.  PUT and DELETE *)
(* look the check up in a snapshot first and write later.  The store write *)
(* may fail, which ends the request.                                       *)
(***************************************************************************)
HandlerGoto(h, label) == handler' = [handler EXCEPT ![h].pc = label]

Request(h, label, k, to) ==
    /\ handler[h].pc = "idle" /\ Room
    /\ handler' = [handler EXCEPT ![h] = [pc |-> label, check |-> k, to |-> to]]
    /\ UNCHANGED <<main, toStart, begun, raced, store, timers, cooling, wg, pc, loop>>

PostCheck(h) ==
    \E k \in Checks, to \in {"enabled", "disabled"} : Request(h, "write", k, to)

PutCheck(h) ==
    \E k \in Checks, to \in {"enabled", "disabled"} :
        store[k] # "absent" /\ Request(h, "write", k, to)

DeleteCheck(h) ==
    \E k \in Checks : store[k] # "absent" /\ Request(h, "delete", k, "absent")

\* store.UpsertCheck or store.DeleteCheck, and its error return.
WriteStore(h) ==
    /\ handler[h].pc \in {"write", "delete"}
    /\ \/ /\ store' = [store EXCEPT ![handler[h].check] = handler[h].to]
          /\ HandlerGoto(h, IF handler[h].pc = "write" THEN "schedule" ELSE "remove")
       \/ HandlerGoto(h, "idle") /\ UNCHANGED store
    /\ UNCHANGED <<main, toStart, begun, raced, timers, cooling, wg, pc, loop>>

BeingStarted == IF main \in AtCheck THEN {begun.check} ELSE {}

UpsertSchedule(h) ==
    /\ handler[h].pc = "schedule"
    /\ IF running THEN scheduleCheck(handler[h].check, handler[h].to = "enabled")
                  ELSE UNCHANGED <<timers, pc, loop>>
    /\ raced' = raced \cup ({handler[h].check} \cap BeingStarted)
    /\ HandlerGoto(h, "idle")
    /\ UNCHANGED <<main, toStart, begun, store, cooling, wg>>

RemoveSchedule(h) ==
    /\ handler[h].pc = "remove"
    /\ LET k == handler[h].check IN
       /\ pc' = StopTimers({k})
       /\ timers' = [timers EXCEPT ![k] = NoLoop]
       /\ cooling' = [cooling EXCEPT ![k] = FALSE]
    /\ HandlerGoto(h, "idle")
    /\ UNCHANGED <<main, toStart, begun, raced, store, wg, loop>>

-----------------------------------------------------------------------------
(***************************************************************************)
(* Loops.                                                                  *)
(***************************************************************************)
Goto(l, label) == pc' = [pc EXCEPT ![l] = label]

\* The timer fires and its goroutine begins.
Fire(l) ==
    /\ pc[l] = "armed"
    /\ Goto(l, "enter")
    /\ UNCHANGED <<main, toStart, begun, raced, store, timers, cooling, wg, loop, handler>>

\* Mutant: wg.Add without looking at the context again under wgMu.
EnterUnchecked(l) ==
    /\ pc[l] = "enter" /\ main # "waiting"
    /\ Goto(l, "guard") /\ wg' = wg \cup {l}
    /\ UNCHANGED <<main, toStart, begun, raced, store, timers, cooling, loop, handler>>

\* runCheck up to wgMu.Unlock; Stop holds wgMu while it waits.
Enter(l) ==
    /\ pc[l] = "enter" /\ main # "waiting"
    /\ IF ctxDone THEN Goto(l, "wait") /\ UNCHANGED wg
                  ELSE Goto(l, "guard") /\ wg' = wg \cup {l}
    /\ UNCHANGED <<main, toStart, begun, raced, store, timers, cooling, loop, handler>>

\* runCheck returns, wg.Done, and the loop waits for its ticker.
Return(l) == Goto(l, "wait") /\ wg' = wg \ {l}

Guard(l) ==
    /\ pc[l] = "guard"
    /\ IF ctxDone \/ cooling[loop[l].check]
         THEN Return(l) /\ UNCHANGED loop
         ELSE /\ Goto(l, "probe")
              /\ loop' = [loop EXCEPT ![l] = Fresh(loop[l].check)]
              /\ UNCHANGED wg
    /\ UNCHANGED <<main, toStart, begun, raced, store, timers, cooling, handler>>

MoreAttempts(l) == loop[l].attempt < MaxRetries

\* The end of an attempt that does not end the run: retry or give up.
Retry(l) ==
    /\ UNCHANGED wg
    /\ IF MoreAttempts(l)
         THEN Goto(l, "delay") /\ loop' = [loop EXCEPT ![l].attempt = @ + 1]
         ELSE Goto(l, "exhausted") /\ UNCHANGED loop

\* Runner.RunCheck: the executor runs under a context derived from s.ctx, so a
\* cancelled scheduler aborts it, and that is a critical result like any other.
\* Then the result is persisted, or the error ends the attempt.
RunCheck(l) ==
    /\ pc[l] = "probe"
    /\ \/ /\ Goto(l, "report")
          /\ \E r \in {"healthy", "critical"} \cup (IF ctxDone THEN {"aborted"} ELSE {}) :
               loop' = [loop EXCEPT ![l].result = r]
          /\ UNCHANGED wg
       \/ Retry(l)
    /\ UNCHANGED <<main, toStart, begun, raced, store, timers, cooling, handler>>

\* alertCallback, and what the result means for the retries.
Report(l) ==
    /\ pc[l] = "report"
    /\ IF loop[l].result = "healthy" THEN Return(l) /\ UNCHANGED loop ELSE Retry(l)
    /\ UNCHANGED <<main, toStart, begun, raced, store, timers, cooling, handler>>

\* The retry delay, which a cancelled context may cut short.
RetryDelay(l) ==
    /\ pc[l] = "delay"
    /\ \/ Goto(l, "probe") /\ UNCHANGED wg
       \/ ctxDone /\ Return(l)
    /\ UNCHANGED <<main, toStart, begun, raced, store, timers, cooling, loop, handler>>

Exhausted(l) ==
    /\ pc[l] = "exhausted"
    /\ cooling' = [cooling EXCEPT ![loop[l].check] = @ \/ loop[l].check \in Cooled]
    /\ Return(l)
    /\ UNCHANGED <<main, toStart, begun, raced, store, timers, loop, handler>>

End(l) == Goto(l, "free") /\ loop' = [loop EXCEPT ![l] = IdleLoop]

\* Mutant: the loop trusts the configuration it captured.
TickUnconditionally(l) ==
    /\ pc[l] = "wait"
    /\ \/ Goto(l, "ticked") /\ UNCHANGED loop
       \/ ctxDone /\ End(l)
    /\ UNCHANGED <<main, toStart, begun, raced, store, timers, cooling, wg, handler>>

\* The select of the loop: a tick looks the check up again; a cancelled context ends it.
Tick(l) ==
    /\ pc[l] = "wait"
    /\ \/ IF store[loop[l].check] = "enabled" THEN Goto(l, "ticked") /\ UNCHANGED loop
                                              ELSE End(l)
       \/ ctxDone /\ End(l)
    /\ UNCHANGED <<main, toStart, begun, raced, store, timers, cooling, wg, handler>>

\* Mutant: a check in cooldown leaves the loop instead of skipping a round.
TickEndsInCooldown(l) ==
    /\ pc[l] = "ticked"
    /\ IF cooling[loop[l].check] THEN End(l) ELSE Goto(l, "enter") /\ UNCHANGED loop
    /\ UNCHANGED <<main, toStart, begun, raced, store, timers, cooling, wg, handler>>

TickCooldown(l) ==
    /\ pc[l] = "ticked"
    /\ Goto(l, IF cooling[loop[l].check] THEN "wait" ELSE "enter")
    /\ UNCHANGED <<main, toStart, begun, raced, store, timers, cooling, wg, loop, handler>>

CooldownExpires ==
    /\ \E k \in Checks : cooling[k] /\ cooling' = [cooling EXCEPT ![k] = FALSE]
    /\ UNCHANGED <<main, toStart, begun, raced, store, timers, wg, pc, loop, handler>>

-----------------------------------------------------------------------------
StartStep ==
    SweepOne \/ DropOld \/ getEnabledChecks \/ StartOne \/ ArmTimer \/ RecordTimer \/ Started
StopStep == StopLock \/ StopWait
HandlerStep(h) == WriteStore(h) \/ UpsertSchedule(h) \/ RemoveSchedule(h)
LoopStep(l) ==
    \/ Fire(l) \/ Enter(l) \/ Guard(l) \/ RunCheck(l) \/ Report(l)
    \/ RetryDelay(l) \/ Exhausted(l) \/ Tick(l) \/ TickCooldown(l)

Next ==
    \/ Start \/ StartStep \/ Stop \/ StopStep \/ CooldownExpires
    \/ \E h \in Handlers : PostCheck(h) \/ PutCheck(h) \/ DeleteCheck(h) \/ HandlerStep(h)
    \/ \E l \in Loops : LoopStep(l)

(***************************************************************************)
(* Goroutines run, probes end (executeCheck gives each a timeout), tickers *)
(* tick and cooldowns expire.  Nothing makes requests arrive or Stop be    *)
(* called.                                                                 *)
(***************************************************************************)
Fairness ==
    /\ WF_vars(StartStep) /\ WF_vars(StopStep) /\ WF_vars(CooldownExpires)
    /\ \A h \in Handlers : WF_vars(HandlerStep(h))
    /\ \A l \in Loops : WF_vars(LoopStep(l))

Spec == Init /\ [][Next]_vars
FairSpec == Spec /\ Fairness

-----------------------------------------------------------------------------
TypeOK ==
    /\ main \in MainPCs
    /\ toStart \subseteq Checks /\ raced \subseteq Checks
    /\ begun \in [check : Checks, timer : Loops \cup {NoLoop}]
    /\ store \in [Checks -> StoreStates]
    /\ timers \in [Checks -> Loops \cup {NoLoop}]
    /\ cooling \in [Checks -> BOOLEAN]
    /\ wg \subseteq Loops
    /\ pc \in [Loops -> PCs]
    /\ loop \in [Loops -> [check : Checks, attempt : Attempts, result : Results]]
    /\ handler \in [Handlers -> [pc : HandlerPCs, check : Checks, to : StoreStates]]

(***************************************************************************)
(* A timer that has not fired is the one recorded for its check, or the    *)
(* one Start is about to record or has just looked up, so that the next    *)
(* scheduleCheck, RemoveSchedule or Stop can still stop it.  The exception *)
(* is a check that a handler scheduled while Start, which does not hold    *)
(* the mutex, was in the middle of it: then one of the two timers may be   *)
(* off the record.                                                         *)
(***************************************************************************)
ArmedIsRecorded ==
    \A l \in Loops :
        pc[l] = "armed" => \/ timers[loop[l].check] = l
                          \/ (main = "record" /\ begun.timer = l)
                          \/ loop[l].check \in raced

(***************************************************************************)
(* When Stop has returned no check is running and, since that stays so,    *)
(* none starts, whatever requests are still being handled: the store and   *)
(* the notifier may be shut down.  A timer that may yet fire is one that   *)
(* went off the record while Start was at its check; its function finds    *)
(* the context cancelled.                                                  *)
(***************************************************************************)
StoppedIsQuiet ==
    main = "stopped" =>
        \A l \in Loops : /\ pc[l] \notin InRun
                         /\ pc[l] = "armed" => loop[l].check \in raced

(***************************************************************************)
(* Stop returns: waiting with wgMu held blocks no run that it waits for,   *)
(* and every way out of runCheck is counted.                               *)
(***************************************************************************)
StopReturns == main = "cancelled" ~> main = "stopped"

(***************************************************************************)
(* A check that stays disabled or deleted stops being run: every loop that *)
(* was started for it, however often and from however stale a copy, ends.  *)
(***************************************************************************)
DisabledLoopsEnd ==
    \A k \in Checks :
        <>[](store[k] # "enabled") =>
            <>[](\A l \in Loops : loop[l].check = k => pc[l] = "free")

(***************************************************************************)
(* What is told to end does: Stop returns, and the loops of a check that   *)
(* was disabled or deleted run out (scheduler.go Stop, scheduleCheck).     *)
(***************************************************************************)
LoopsEnd == StopReturns /\ DisabledLoopsEnd

(***************************************************************************)
(* A check that stays enabled while the service runs, once no request is   *)
(* under way any more, is probed again and again, through cooldowns and    *)
(* retries, and whatever failed, disabling, deleting and rescheduling      *)
(* requests came before, during Start too.                                 *)
(***************************************************************************)
EnabledKeepsRunning ==
    \A k \in Checks :
        <>[](/\ main = "serving" /\ store[k] = "enabled"
             /\ \A h \in Handlers : handler[h].pc = "idle")
          => []<>(\E l \in Loops : loop[l].check = k /\ pc[l] = "probe")

(***************************************************************************)
(* scheduleCheck begins "Stop existing timer if any": a check is run by    *)
(* one loop at a time, even setting aside what Start and a handler do to   *)
(* it at once.                                                             *)
(***************************************************************************)
OneLoopPerCheck ==
    \A l1, l2 \in Loops :
        /\ pc[l1] # "free" /\ pc[l2] # "free"
        /\ loop[l1].check = loop[l2].check
        /\ loop[l1].check \notin raced
        => l1 = l2
=============================================================================
