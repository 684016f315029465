------------------------------ MODULE MySQLRules ------------------------------
(***************************************************************************)
(* The rules of one MySQL check: MySQLRuleEngine with its persisted state, *)
(* Runner.runMySQL, which turns its verdicts into incidents while the      *)
(* check is still being executed, and what the result of that execution    *)
(* then does to the same incidents in Service.handleAlertResults.          *)
(*                                                                         *)
(* A call of the incident manager is one step here (Incidents takes it     *)
(* apart), and so is the handling of the result (AlertPipeline does).      *)
(***************************************************************************)
EXTENDS Integers

CONSTANTS
    RuleCount,            \* the enabled rules that apply to the check, in list order
    ConsecutiveBreaches,  \* [Rules -> Int]; 0 or less stands for 1
    RecoverySamples,      \* [Rules -> Int]; 0 or less stands for 1
    SuccessesToResolve,   \* of the check, at least 1
    Runs,                 \* bound: executions of the check under way
    Ids, NoId,            \* bound: incident identifiers in use at a time; none
    MaxLostWrites         \* bound: how often writing the state file fails

Rules == 1..RuleCount

ASSUME MySQLRulesAssumption ==
    /\ RuleCount \in Nat
    /\ ConsecutiveBreaches \in [Rules -> Int] /\ RecoverySamples \in [Rules -> Int]
    /\ SuccessesToResolve \in Nat \ {0}
    /\ NoId \notin Ids
    /\ MaxLostWrites \in Nat

VARIABLES
    load,         \* the rules whose threshold the database exceeds
    reachable,    \* whether it can be sampled
    states,       \* the rule states in memory
    disk,         \* the rule states in mysql_rule_states.json
    open,         \* the check's incident that is not resolved
    successes,    \* the check's consecutive successes, capped above the threshold
    run,          \* the executions
    streak,       \* history: consecutive samples above, not above the threshold
    rewound,      \* history: whether a restart has undone a sample
    lostWrites    \* how often writing the state file has failed

vars == <<load, reachable, states, disk, open, successes, run, streak, rewound, lostWrites>>

Threshold(n) == IF n <= 0 THEN 1 ELSE n

\* Bound: a streak is only compared with thresholds, so it stops at the larger.
Cap(r) == IF ConsecutiveBreaches[r] > RecoverySamples[r]
          THEN Threshold(ConsecutiveBreaches[r]) ELSE Threshold(RecoverySamples[r])

\* Mutant: the streak passes its bound.
BumpPastCap(r, n) == IF n <= Cap(r) THEN n + 1 ELSE n

Bump(r, n) == IF n < Cap(r) THEN n + 1 ELSE n

IncidentIds == Ids \cup {NoId}
RuleStates == [status : {"OK", "OPEN"}, breaches : Nat, recovery : Nat, incident : IncidentIds]
NewState == [status |-> "OK", breaches |-> 0, recovery |-> 0, incident |-> NoId]
PCs == {"idle", "evaluate", "actions", "record", "healthy", "failed"}
Actions == {"none", "open", "close"}
RunStates == [pc : PCs, breached : SUBSET Rules, todo : [Rules -> Actions],
              closes : [Rules -> IncidentIds], rule : Rules \cup {0}]
IdleRun == [pc |-> "idle", breached |-> {}, todo |-> [r \in Rules |-> "none"],
            closes |-> [r \in Rules |-> NoId], rule |-> 0]

Init ==
    /\ load = {} /\ reachable = TRUE
    /\ states = [r \in Rules |-> NewState] /\ disk = states
    /\ open = NoId
    /\ successes = 0
    /\ run = [g \in Runs |-> IdleRun]
    /\ streak = [r \in Rules |-> [above |-> 0, below |-> 0]]
    /\ rewound = FALSE
    /\ lostWrites = 0

At(g, label) == run[g].pc = label
Goto(g, label) == run' = [run EXCEPT ![g].pc = label]

\* The identifiers nothing refers to any more stand for the ones not yet used.
Fresh == Ids \ ({open} \cup {states[r].incident : r \in Rules} \cup {disk[r].incident : r \in Rules}
                \cup UNION {{run[g].closes[r] : r \in Rules} : g \in Runs})

\* ProcessAlert: a new incident, or an update of the open one.
ProcessAlert ==
    IF open = NoId THEN Fresh # {} /\ open' = CHOOSE i \in Fresh : TRUE ELSE UNCHANGED open

-----------------------------------------------------------------------------
\* Collect: without a sample nothing is evaluated and the result is a failure.
Sample(g) ==
    /\ At(g, "idle")
    /\ run' = [run EXCEPT ![g].pc = IF reachable THEN "evaluate" ELSE "failed",
                          ![g].breached = IF reachable THEN load ELSE {}]
    /\ UNCHANGED <<load, reachable, states, disk, open, successes, streak, rewound, lostWrites>>

\* Mutant: the streak is compared and not kept.
BreachForgetsStreak(s, r) ==
    LET opens == s.status = "OK" /\ Bump(r, s.breaches) >= Threshold(ConsecutiveBreaches[r])
    IN  [s EXCEPT !.status = IF opens THEN "OPEN" ELSE @, !.recovery = 0]

\* Mutant: a sample above the threshold leaves the streak of recovery.
BreachKeepsRecovery(s, r) ==
    LET n == Bump(r, s.breaches)
        opens == s.status = "OK" /\ n >= Threshold(ConsecutiveBreaches[r])
    IN  [s EXCEPT !.status = IF opens THEN "OPEN" ELSE @, !.breaches = n]

\* Mutant: a sample below the threshold leaves the streak of breaches.
RecoverKeepsBreaches(s, r) ==
    LET n == Bump(r, s.recovery)
        closes == s.status = "OPEN" /\ n >= Threshold(RecoverySamples[r])
    IN  [s EXCEPT !.status = IF closes THEN "OK" ELSE @,
                  !.recovery = IF closes THEN 0 ELSE n,
                  !.incident = IF closes THEN NoId ELSE @]

\* transition, for a sample above the threshold and for one that is not.
Breach(s, r) ==
    LET n == Bump(r, s.breaches)
        opens == s.status = "OK" /\ n >= Threshold(ConsecutiveBreaches[r])
    IN  [s EXCEPT !.status = IF opens THEN "OPEN" ELSE @, !.recovery = 0, !.breaches = n]

Recover(s, r) ==
    LET n == Bump(r, s.recovery)
        closes == s.status = "OPEN" /\ n >= Threshold(RecoverySamples[r])
    IN  [s EXCEPT !.status = IF closes THEN "OK" ELSE @, !.breaches = 0,
                  !.recovery = IF closes THEN 0 ELSE n,
                  !.incident = IF closes THEN NoId ELSE @]

Transition(g, r) ==
    IF r \in run[g].breached THEN Breach(states[r], r) ELSE Recover(states[r], r)

Verdict(g, r) ==
    IF Transition(g, r).status = states[r].status THEN "none"
    ELSE IF Transition(g, r).status = "OPEN" THEN "open" ELSE "close"

Extend(s, r, above) ==
    IF above THEN [above |-> Bump(r, s.above), below |-> 0]
             ELSE [above |-> 0, below |-> Bump(r, s.below)]

\* Evaluate: every rule, then the state file, all under the engine's mutex.
Evaluate(g) ==
    /\ At(g, "evaluate")
    /\ states' = [r \in Rules |-> Transition(g, r)]
    /\ \/ disk' = states' /\ UNCHANGED lostWrites
       \/ lostWrites < MaxLostWrites /\ lostWrites' = lostWrites + 1 /\ UNCHANGED disk
    /\ run' = [run EXCEPT ![g].pc = "actions", ![g].breached = {},
                          ![g].todo = [r \in Rules |-> Verdict(g, r)],
                          ![g].closes = [r \in Rules |-> IF Verdict(g, r) = "close"
                                                         THEN states[r].incident ELSE NoId]]
    /\ streak' = [r \in Rules |-> Extend(streak[r], r, r \in run[g].breached)]
    /\ UNCHANGED <<load, reachable, open, successes, rewound>>

Todo(g) == {r \in Rules : run[g].todo[r] # "none"}
NextTodo(g) == {r \in Todo(g) : \A q \in Todo(g) : r <= q}

\* An "open" verdict: ProcessAlert; on an error the rule stays without incident.
OpenIncident(g) ==
    /\ At(g, "actions")
    /\ \E r \in NextTodo(g) :
         /\ run[g].todo[r] = "open"
         /\ \/ /\ ProcessAlert
               /\ run' = [run EXCEPT ![g].todo[r] = "none", ![g].pc = "record", ![g].rule = r]
            \/ UNCHANGED open /\ run' = [run EXCEPT ![g].todo[r] = "none"]
    /\ UNCHANGED <<load, reachable, states, disk, successes, streak, rewound, lostWrites>>

\* FindOpenIncident, which may fail, and SetOpenIncidentID, in memory only.
SetOpenIncidentID(g) ==
    /\ At(g, "record")
    /\ \/ states' = [states EXCEPT ![run[g].rule].incident = IF open = NoId THEN @ ELSE open]
       \/ UNCHANGED states
    /\ run' = [run EXCEPT ![g].pc = "actions", ![g].rule = 0]
    /\ UNCHANGED <<load, reachable, disk, open, successes, streak, rewound, lostWrites>>

\* A "close" verdict: ResolveIncident, if an incident was recorded; an error
\* (it is already resolved) is logged.
CloseIncident(g) ==
    /\ At(g, "actions")
    /\ \E r \in NextTodo(g) :
         /\ run[g].todo[r] = "close"
         /\ \/ open' = IF run[g].closes[r] = open THEN NoId ELSE open
            \/ UNCHANGED open
         /\ run' = [run EXCEPT ![g].todo[r] = "none", ![g].closes[r] = NoId]
    /\ UNCHANGED <<load, reachable, states, disk, successes, streak, rewound, lostWrites>>

ActionsDone(g) ==
    /\ At(g, "actions") /\ Todo(g) = {}
    /\ Goto(g, "healthy")
    /\ UNCHANGED <<load, reachable, states, disk, open, successes, streak, rewound, lostWrites>>

\* Mutant: only the success that reaches the threshold resolves.
EnoughSuccessesExactly(n) == n = SuccessesToResolve

EnoughSuccesses(n) == n >= SuccessesToResolve

\* handleAlertResults: the check was executed without error, so it is healthy.
ReportHealthy(g) ==
    /\ At(g, "healthy")
    /\ successes' = IF successes > SuccessesToResolve THEN successes ELSE successes + 1
    /\ \/ open' = IF EnoughSuccesses(successes') THEN NoId ELSE open
       \/ UNCHANGED open
    /\ run' = [run EXCEPT ![g] = IdleRun]
    /\ UNCHANGED <<load, reachable, states, disk, streak, rewound, lostWrites>>

\* A failed result opens or updates the same incident, if the alert rules, the
\* thresholds and the maintenance windows say so (AlertPipeline).
ReportFailed(g) ==
    /\ At(g, "failed")
    /\ successes' = 0
    /\ ProcessAlert \/ UNCHANGED open
    /\ run' = [run EXCEPT ![g] = IdleRun]
    /\ UNCHANGED <<load, reachable, states, disk, streak, rewound, lostWrites>>

-----------------------------------------------------------------------------
DatabaseChanges ==
    /\ \/ \E r \in Rules : load' = (IF r \in load THEN load \ {r} ELSE load \cup {r})
                           /\ UNCHANGED reachable
       \/ reachable' = ~reachable /\ UNCHANGED load
    /\ UNCHANGED <<states, disk, open, successes, run, streak, rewound, lostWrites>>

\* An operator resolves the incident.
ResolveIncident ==
    /\ open # NoId
    /\ open' = NoId
    /\ UNCHANGED <<load, reachable, states, disk, successes, run, streak, rewound, lostWrites>>

SameProgress(s, t) ==
    s.status = t.status /\ s.breaches = t.breaches /\ s.recovery = t.recovery

\* NewMySQLRuleEngine reads the state file: what a failed write left out is lost.
Restart ==
    /\ states' = disk
    /\ successes' = 0
    /\ run' = [g \in Runs |-> IdleRun]
    /\ rewound' = (rewound \/ \E r \in Rules : ~SameProgress(states[r], disk[r]))
    /\ UNCHANGED <<load, reachable, disk, open, streak, lostWrites>>

Execute(g) ==
    \/ Sample(g) \/ Evaluate(g) \/ OpenIncident(g) \/ SetOpenIncidentID(g) \/ CloseIncident(g)
    \/ ActionsDone(g) \/ ReportHealthy(g) \/ ReportFailed(g)

Next ==
    \/ \E g \in Runs : Execute(g)
    \/ DatabaseChanges \/ ResolveIncident \/ Restart

Spec == Init /\ [][Next]_vars

\* The scheduler runs the check again and again, and executions proceed.
FairSpec == Spec /\ \A g \in Runs : WF_vars(Execute(g))

-----------------------------------------------------------------------------
TypeOK ==
    /\ load \subseteq Rules /\ reachable \in BOOLEAN
    /\ states \in [Rules -> RuleStates] /\ disk \in [Rules -> RuleStates]
    /\ open \in IncidentIds
    /\ successes \in 0..(SuccessesToResolve + 1)
    /\ run \in [Runs -> RunStates]
    /\ streak \in [Rules -> [above : Nat, below : Nat]]
    /\ rewound \in BOOLEAN /\ lostWrites \in 0..MaxLostWrites
    /\ \A r \in Rules : /\ states[r].breaches <= Cap(r) /\ states[r].recovery <= Cap(r)
                        /\ disk[r].breaches <= Cap(r) /\ disk[r].recovery <= Cap(r)

\* A rule opens only on the last of ConsecutiveBreaches samples in a row above
\* its threshold, whatever restarts come between them, unless one of them found
\* a state file that had not been written.
OpensOnStreak ==
    [][\A r \in Rules :
         ~rewound' /\ states[r].status = "OK" /\ states'[r].status = "OPEN" =>
             streak'[r].above >= Threshold(ConsecutiveBreaches[r])]_vars

\* A rule closes only on the last of RecoverySamples samples in a row that are not.
ClosesOnStreak ==
    [][\A r \in Rules :
         ~rewound' /\ states[r].status = "OPEN" /\ states'[r].status = "OK" =>
             streak'[r].below >= Threshold(RecoverySamples[r])]_vars

\* A restart, or a call of the incident repository that fails.
Fault ==
    \/ Restart
    \/ \E g \in Runs : \/ OpenIncident(g) /\ run'[g].pc = "actions"
                       \/ ReportHealthy(g) /\ EnoughSuccesses(successes') /\ open' # NoId
FaultsEnd == <>[][~Fault]_vars

\* A load that stays above the threshold of a rule opens it for as long, once
\* restarts cease, whatever the state file held.
BreachIsNoticed ==
    \A r \in Rules :
        FaultsEnd /\ <>[](r \in load /\ reachable) => <>[](states[r].status = "OPEN")

\* Once the database is well and faults have ceased, no incident of the check
\* stays open, whichever run, rule or failed check opened it, and whatever the
\* rule has forgotten about it.
RecoveryResolves == FaultsEnd /\ <>[](load = {} /\ reachable) => <>[](open = NoId)

\* Lasting breaches and lasting recoveries are both acted on, although executions
\* overlap and share the streaks (mysql_rules.go EvaluateSample, service.go
\* autoResolveRecovered).
LastingIsNoticed == BreachIsNoticed /\ RecoveryResolves

-----------------------------------------------------------------------------
(***************************************************************************)
(* What a document promises and the code does not keep.                    *)
(***************************************************************************)
\* mysql-migration-spec.md: incidents close only after the recovery streak of
\* their rule; so a healthy result does not end the incident of an open rule.
HealthyKeepsRuleIncident ==
    [][\A g \in Runs : ReportHealthy(g) /\ open' # open =>
         \A r \in Rules : states[r].status = "OPEN" => states[r].incident # open]_vars

=============================================================================
