---------------------------- MODULE AlertPipeline ----------------------------
(***************************************************************************)
(* From a check result to an incident: Service.handleAlertResults, called  *)
(* by every loop of the scheduler and by every POST of /runs, with the     *)
(* alert rule engine and the counters of consecutive results it consults.  *)
(*                                                                         *)
(* Two calls for the same check interleave wherever a lock is given back:  *)
(* the counters, the engine, the maintenance windows and the incident      *)
(* repository are each read or written in a step of its own.  Here a call  *)
(* of the incident manager is one step; Incidents takes it apart.          *)
(*                                                                         *)
(* AlertRuleEngine.Evaluate, which the call makes first, keeps the         *)
(* cooldowns and writes the alert log.  Neither decides anything about     *)
(* incidents, and both are left out.                                       *)
(***************************************************************************)
EXTENDS Integers

CONSTANTS
    Checks,
    Handlers,           \* bound: calls of handleAlertResults under way
    Rules,
    Fires,              \* [Rules -> SUBSET Kinds]: the results that meet all conditions
    FailuresToOpen,     \* the threshold of every check; 0 or less stands for 1
    SuccessesToResolve

\* A result: healthy, healthy but above a latency threshold, failed.
Kinds == {"up", "slow", "down"}
Healthy(kind) == kind # "down"

ASSUME AlertPipelineAssumption ==
    /\ Checks # {}
    /\ Fires \in [Rules -> SUBSET Kinds]
    /\ FailuresToOpen \in Int /\ SuccessesToResolve \in Int

VARIABLES
    service,      \* how the target of a check is doing
    stored,       \* the checks in the store
    maintenance,  \* the checks an active maintenance window covers
    rules,        \* the enabled rules
    tracker,      \* consecutiveTracker
    incidents,    \* the checks with an open or acknowledged incident
    handler,      \* the calls of handleAlertResults
    streak,       \* history: what tracker would be if no restart lost it
    overtaken     \* history: the checks of a call that another call has counted since

vars == <<service, stored, maintenance, rules, tracker, incidents, handler,
          streak, overtaken>>

Threshold(n) == IF n <= 0 THEN 1 ELSE n

\* Bound: a count is only compared with the thresholds, so it stops above both.
Cap == 1 + IF FailuresToOpen > SuccessesToResolve THEN Threshold(FailuresToOpen)
                                                   ELSE Threshold(SuccessesToResolve)

\* Mutant: the count passes its bound.
BumpPastCap(n) == IF n <= Cap THEN n + 1 ELSE n

Bump(n) == IF n < Cap THEN n + 1 ELSE n

Counts == [failures : 0..Cap, successes : 0..Cap]
NoCounts == [failures |-> 0, successes |-> 0]
Alerts == Checks \X Rules
PCs == {"idle", "track", "evaluate", "alerts", "open", "recover", "resolve"}
HandlerStates ==
    [pc : PCs, results : [Checks -> Kinds \cup {"none"}], checkMap : SUBSET Checks,
     alerts : SUBSET Alerts, healthy : SUBSET Checks, check : Checks]
AnyCheck == CHOOSE c \in Checks : TRUE
IdleHandler ==
    [pc |-> "idle", results |-> [c \in Checks |-> "none"], checkMap |-> {},
     alerts |-> {}, healthy |-> {}, check |-> AnyCheck]

Init ==
    /\ service = [c \in Checks |-> "up"]
    /\ stored = Checks
    /\ maintenance = {}
    /\ rules = Rules
    /\ tracker = [c \in Checks |-> NoCounts]
    /\ incidents = {}
    /\ handler = [h \in Handlers |-> IdleHandler]
    /\ streak = [c \in Checks |-> NoCounts]
    /\ overtaken = [h \in Handlers |-> {}]

At(h, label) == handler[h].pc = label
Ran(h) == {c \in Checks : handler[h].results[c] # "none"}

-----------------------------------------------------------------------------
\* A run of one check (scheduler, POST with a checkId) or of all of them (POST).
Run(h, batch) ==
    /\ At(h, "idle") /\ batch # {} /\ batch \subseteq stored
    /\ handler' = [handler EXCEPT ![h] =
         [IdleHandler EXCEPT !.pc = "track",
            !.results = [c \in Checks |-> IF c \in batch THEN service[c] ELSE "none"]]]
    /\ UNCHANGED <<service, stored, maintenance, rules, tracker, incidents, streak, overtaken>>

\* Mutant: a success does not end the count of failures.
CountKeepsFailures(counts, kind) ==
    IF Healthy(kind)
    THEN [counts EXCEPT !.successes = Bump(@)]
    ELSE [failures |-> Bump(counts.failures), successes |-> 0]

\* Mutant: a failure does not end the count of successes.
CountKeepsSuccesses(counts, kind) ==
    IF Healthy(kind)
    THEN [failures |-> 0, successes |-> Bump(counts.successes)]
    ELSE [counts EXCEPT !.failures = Bump(@)]

Count(counts, kind) ==
    IF Healthy(kind)
    THEN [failures |-> 0, successes |-> Bump(counts.successes)]
    ELSE [failures |-> Bump(counts.failures), successes |-> 0]

\* The same, said once more for the history.
Extend(counts, kind) ==
    IF kind = "down"
    THEN [failures |-> Bump(counts.failures), successes |-> 0]
    ELSE [failures |-> 0, successes |-> Bump(counts.successes)]

\* The snapshot of the store, then updateConsecutiveTrackers.
Track(h) ==
    /\ At(h, "track")
    /\ handler' = [handler EXCEPT ![h].pc = "evaluate", ![h].checkMap = stored]
    /\ tracker' = [c \in Checks |->
         IF c \in Ran(h) THEN Count(tracker[c], handler[h].results[c]) ELSE tracker[c]]
    /\ streak' = [c \in Checks |->
         IF c \in Ran(h) THEN Extend(streak[c], handler[h].results[c]) ELSE streak[c]]
    /\ overtaken' = [g \in Handlers |->
         IF g = h \/ At(g, "idle") THEN {} ELSE overtaken[g] \cup Ran(h)]
    /\ UNCHANGED <<service, stored, maintenance, rules, incidents>>

Matches(h) == {a \in Alerts : a[2] \in rules /\ handler[h].results[a[1]] \in Fires[a[2]]}

\* The verdicts that make incidents; the cooldown of a rule does not limit them.
EvaluateForIncidents(h) ==
    /\ At(h, "evaluate")
    /\ handler' = [handler EXCEPT ![h].pc = "alerts", ![h].alerts = Matches(h)]
    /\ UNCHANGED <<service, stored, maintenance, rules, tracker, incidents, streak, overtaken>>

\* Mutant: only the failure that reaches the threshold counts.
EnoughFailuresExactly(c) == tracker[c].failures = Threshold(FailuresToOpen)

EnoughFailures(c) == tracker[c].failures >= Threshold(FailuresToOpen)

\* Neither in maintenance nor below the threshold; a check that is no longer in
\* the store has neither, and a healthy result needs no failures.
Passes(h, c) ==
    c \in handler[h].checkMap =>
        /\ c \notin maintenance
        /\ Healthy(handler[h].results[c]) \/ EnoughFailures(c)

\* processIncidentAlerts, the next alert: suppressed, or handed on.
NextAlert(h) ==
    /\ At(h, "alerts")
    /\ \E a \in handler[h].alerts :
         \/ /\ Passes(h, a[1])
            /\ handler' = [handler EXCEPT ![h].alerts = @ \ {a}, ![h].pc = "open",
                                          ![h].check = a[1]]
         \/ /\ ~Passes(h, a[1])
            /\ handler' = [handler EXCEPT ![h].alerts = @ \ {a}]
    /\ UNCHANGED <<service, stored, maintenance, rules, tracker, incidents, streak, overtaken>>

\* ProcessAlert: opens an incident or updates the open one; errors are dropped.
ProcessAlert(h) ==
    /\ At(h, "open")
    /\ \/ incidents' = incidents \cup {handler[h].check}
       \/ UNCHANGED incidents
    /\ handler' = [handler EXCEPT ![h].pc = "alerts"]
    /\ UNCHANGED <<service, stored, maintenance, rules, tracker, streak, overtaken>>

AlertsDone(h) ==
    /\ At(h, "alerts") /\ handler[h].alerts = {}
    /\ handler' = [handler EXCEPT ![h].pc = "recover",
                     ![h].healthy = {c \in Ran(h) : Healthy(handler[h].results[c])}]
    /\ UNCHANGED <<service, stored, maintenance, rules, tracker, incidents, streak, overtaken>>

\* Mutant: only the success that reaches the threshold counts.
EnoughSuccessesExactly(h, c) ==
    tracker[c].successes =
        IF c \in handler[h].checkMap THEN Threshold(SuccessesToResolve) ELSE 1

EnoughSuccesses(h, c) ==
    tracker[c].successes >=
        IF c \in handler[h].checkMap THEN Threshold(SuccessesToResolve) ELSE 1

\* autoResolveRecovered, the next healthy result.
NextRecovered(h) ==
    /\ At(h, "recover")
    /\ \E c \in handler[h].healthy :
         \/ /\ EnoughSuccesses(h, c)
            /\ handler' = [handler EXCEPT ![h].healthy = @ \ {c}, ![h].pc = "resolve",
                                          ![h].check = c]
         \/ /\ ~EnoughSuccesses(h, c)
            /\ handler' = [handler EXCEPT ![h].healthy = @ \ {c}]
    /\ UNCHANGED <<service, stored, maintenance, rules, tracker, incidents, streak, overtaken>>

AutoResolveOnRecovery(h) ==
    /\ At(h, "resolve")
    /\ \/ incidents' = incidents \ {handler[h].check}
       \/ UNCHANGED incidents
    /\ handler' = [handler EXCEPT ![h].pc = "recover"]
    /\ UNCHANGED <<service, stored, maintenance, rules, tracker, streak, overtaken>>

Return(h) ==
    /\ At(h, "recover") /\ handler[h].healthy = {}
    /\ handler' = [handler EXCEPT ![h] = IdleHandler]
    /\ overtaken' = [overtaken EXCEPT ![h] = {}]
    /\ UNCHANGED <<service, stored, maintenance, rules, tracker, incidents, streak>>

-----------------------------------------------------------------------------
(***************************************************************************)
(* The environment: the targets, the operators, the clock, restarts.       *)
(***************************************************************************)
TargetChanges(c) ==
    /\ \E kind \in Kinds \ {service[c]} : service' = [service EXCEPT ![c] = kind]
    /\ UNCHANGED <<stored, maintenance, rules, tracker, incidents, handler, streak, overtaken>>

\* DELETE of a check: its counters and its incident stay.
DeleteCheck(c) ==
    /\ c \in stored
    /\ stored' = stored \ {c}
    /\ UNCHANGED <<service, maintenance, rules, tracker, incidents, handler, streak, overtaken>>

\* A window is created, changed or deleted, begins or ends.
MaintenanceChanges(c) ==
    /\ maintenance' = IF c \in maintenance THEN maintenance \ {c} ELSE maintenance \cup {c}
    /\ UNCHANGED <<service, stored, rules, tracker, incidents, handler, streak, overtaken>>

\* AddRule, UpdateRule, DeleteRule.
EditRule(r) ==
    /\ rules' = IF r \in rules THEN rules \ {r} ELSE rules \cup {r}
    /\ UNCHANGED <<service, stored, maintenance, tracker, incidents, handler, streak, overtaken>>

\* An operator resolves the incident.
ResolveIncident(c) ==
    /\ c \in incidents
    /\ incidents' = incidents \ {c}
    /\ UNCHANGED <<service, stored, maintenance, rules, tracker, handler, streak, overtaken>>

\* The counters are in memory; rules and incidents are stored.
Restart ==
    /\ tracker' = [c \in Checks |-> NoCounts]
    /\ handler' = [h \in Handlers |-> IdleHandler]
    /\ overtaken' = [h \in Handlers |-> {}]
    /\ UNCHANGED <<service, stored, maintenance, rules, incidents, streak>>

HandleAlertResults(h) ==
    \/ Track(h) \/ EvaluateForIncidents(h)
    \/ NextAlert(h) \/ ProcessAlert(h) \/ AlertsDone(h)
    \/ NextRecovered(h) \/ AutoResolveOnRecovery(h) \/ Return(h)

Batches == {stored} \cup {{c} : c \in stored}

Environment ==
    \/ \E c \in Checks : \/ TargetChanges(c) \/ DeleteCheck(c)
                         \/ MaintenanceChanges(c) \/ ResolveIncident(c)
    \/ \E r \in Rules : EditRule(r)
    \/ Restart

Next ==
    \/ \E h \in Handlers : HandleAlertResults(h) \/ \E batch \in Batches : Run(h, batch)
    \/ Environment

Spec == Init /\ [][Next]_vars

\* Goroutines proceed, and the scheduler runs every check again and again
\* (CheckScheduler!EnabledKeepsRunning).
Fairness ==
    /\ \A h \in Handlers : WF_vars(HandleAlertResults(h))
    /\ \A c \in Checks : WF_vars(\E h \in Handlers : Run(h, {c}))

FairSpec == Spec /\ Fairness

-----------------------------------------------------------------------------
TypeOK ==
    /\ service \in [Checks -> Kinds]
    /\ stored \subseteq Checks /\ maintenance \subseteq Checks
    /\ rules \subseteq Rules
    /\ tracker \in [Checks -> Counts] /\ streak \in [Checks -> Counts]
    /\ incidents \subseteq Checks
    /\ handler \in [Handlers -> HandlerStates]
    /\ overtaken \in [Handlers -> SUBSET Checks]

\* handler h opens an incident for c, or resolves it, in this step.
Opens(h, c) == ProcessAlert(h) /\ c \in incidents' \ incidents
Resolves(h, c) == AutoResolveOnRecovery(h) /\ c \in incidents \ incidents'

\* api-reference.md, failuresToOpen: a failed run of a check that still exists
\* opens an incident only at the end of that many consecutive failures, restarts
\* included, unless another call has counted a result of the check since it did.
OpenedOnStreak ==
    [][\A h \in Handlers, c \in Checks :
         /\ Opens(h, c) /\ handler[h].results[c] = "down"
         /\ c \in stored \ overtaken[h]
         => streak[c].failures >= Threshold(FailuresToOpen)]_vars

\* api-reference.md, successesToResolve: an incident is resolved automatically
\* only at the end of that many consecutive successes, with the same exceptions.
ResolvedOnStreak ==
    [][\A h \in Handlers, c \in Checks :
         Resolves(h, c) /\ c \in stored \ overtaken[h]
             => streak[c].successes >= Threshold(SuccessesToResolve)]_vars

\* A restart, or a call of the repository that fails.
Fault ==
    \/ Restart
    \/ \E h \in Handlers : \/ ProcessAlert(h) /\ handler[h].check \notin incidents'
                           \/ AutoResolveOnRecovery(h) /\ handler[h].check \in incidents'
FaultsEnd == <>[][~Fault]_vars

\* A check that keeps failing has an incident again and again, however often an
\* operator resolves it, once faults have ceased, no window covers the check and a
\* rule matches failures: no interleaving of calls and restarts keeps it silent.
OutageIsReported ==
    \A c \in Checks :
        /\ FaultsEnd
        /\ <>[](/\ service[c] = "down" /\ c \in stored \ maintenance
               /\ \E r \in rules : "down" \in Fires[r])
        => []<>(c \in incidents)

\* The incident of a check that stays healthy and fast does not stay open, even
\* one that a late call opens after the recovery.
RecoveryResolves ==
    \A c \in Checks :
        /\ FaultsEnd
        /\ <>[](service[c] = "up" /\ c \in stored /\ \A r \in rules : "up" \notin Fires[r])
        => <>[](c \notin incidents)

=============================================================================
