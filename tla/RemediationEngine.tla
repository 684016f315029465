-------------------------- MODULE RemediationEngine --------------------------
(***************************************************************************)
(* The remediation engine (remediation/engine.go), its Mongo repository    *)
(* and the two ways into it: the incident-created callback, whose          *)
(* goroutine runs tryRemediateAsync, and POST /checks/{id}/remediate,      *)
(* whose handler runs ManualRemediate.  Every limit (concurrency, cooldown,*)
(* attempts) is read in a step of its own and acted upon later.            *)
(*                                                                         *)
(* main registers no runner and no audit function, so verifyAfter and the  *)
(* audit calls do nothing here.  The collection of attempts is never       *)
(* pruned: no retention job knows it.                                      *)
(***************************************************************************)
EXTENDS Naturals, FiniteSets

CONSTANTS
    Incidents,      \* incident identifiers
    NoIncident,     \* the empty incidentId of a manual request
    Checks,
    CheckOf,        \* [Incidents -> Checks]
    Inline,         \* checks whose remediation is inline, the others name a registered action
    Runs,           \* bound: goroutines inside the engine at a time
    Attempts,       \* bound: attempt identifiers
    MaxAttempts,    \* ref.MaxAttempts
    MaxConcurrent,  \* cfg.MaxConcurrent
    HasAI           \* whether an AI provider is configured

ASSUME RemediationAssumption ==
    /\ NoIncident \notin Incidents
    /\ CheckOf \in [Incidents -> Checks]
    /\ Inline \subseteq Checks
    /\ IsFiniteSet(Runs) /\ IsFiniteSet(Attempts)
    /\ Checks # {} /\ Attempts # {}
    /\ MaxAttempts \in Nat \ {0} /\ MaxConcurrent \in Nat \ {0}
    /\ HasAI \in BOOLEAN

VARIABLES
    config,      \* the stored GlobalConfig
    registry,    \* checks whose ActionRef names a registered action
    attempts,    \* the attempts collection; status "none" is no document
    triggered,   \* incidents whose created callback has called TryRemediate
    running,     \* e.running
    cooling,     \* e.cooldowns: the entry exists and lies in the future
    run          \* the goroutines' place and locals

vars == <<config, registry, attempts, triggered, running, cooling, run>>

\* Disabled, enabled for dry runs only, enabled.
Configs == {"off", "dry", "live"}
InExecute == {"insert", "exec", "record", "analyze", "cool", "leave"}
PCs == InExecute \cup {"idle", "config", "limit", "cooldown", "count", "enter"}
Statuses == {"none", "running", "success", "failed", "dry_run"}
AttemptIncidents == Incidents \cup {NoIncident}
Attempt == [status : Statuses, check : Checks, incident : AttemptIncidents]
AnyCheck == CHOOSE k \in Checks : TRUE
AnyAttempt == CHOOSE a \in Attempts : TRUE
NoAttempt == [status |-> "none", check |-> AnyCheck, incident |-> NoIncident]
IdleRun == [pc |-> "idle", by |-> "system", check |-> AnyCheck, incident |-> NoIncident,
            dryRun |-> FALSE, id |-> AnyAttempt, ok |-> FALSE]
RunStates == [pc : PCs, by : {"system", "manual"}, check : Checks, incident : AttemptIncidents,
              dryRun : BOOLEAN, id : Attempts, ok : BOOLEAN]

\* CountAttempts: an empty identifier does not restrict the query.
CountedFor(i) ==
    {a \in Attempts : attempts[a].status # "none" /\ i \in {NoIncident, attempts[a].incident}}
Unused == {a \in Attempts : attempts[a].status = "none"}

-----------------------------------------------------------------------------
\* What earlier processes stored: any configuration and registry, no attempts.
Init ==
    /\ config \in Configs
    /\ registry \in SUBSET (Checks \ Inline)
    /\ attempts = [a \in Attempts |-> NoAttempt]
    /\ triggered = {}
    /\ running = 0
    /\ cooling = [k \in Checks |-> FALSE]
    /\ run = [r \in Runs |-> IdleRun]

At(r, label) == run[r].pc = label
Goto(r, label) == run' = [run EXCEPT ![r].pc = label]
Return(r) == run' = [run EXCEPT ![r] = IdleRun]

Begin(r, by, k, i) ==
    /\ At(r, "idle")
    /\ run' = [run EXCEPT ![r] = [IdleRun EXCEPT !.pc = "config", !.by = by,
                                                 !.check = k, !.incident = i]]
    /\ UNCHANGED <<config, registry, attempts, running, cooling>>

\* The callback fires at most once per incident (Incidents!AnnouncedAtMostOnce).
TryRemediate(r) ==
    \E i \in Incidents \ triggered :
        /\ Begin(r, "system", CheckOf[i], i)
        /\ triggered' = triggered \cup {i}

\* The handler refuses checks without an ActionRef and trusts the incidentId.
ManualRemediate(r) ==
    \E k \in Checks \ Inline, i \in AttemptIncidents :
        /\ i \in Incidents => CheckOf[i] = k
        /\ Begin(r, "manual", k, i)
        /\ UNCHANGED triggered

-----------------------------------------------------------------------------
(***************************************************************************)
(* The prerequisites, each a read of its own.                              *)
(***************************************************************************)
\* GetConfig and GetAction: disabled, no such action, or a failed read, return.
Prepare(r) ==
    /\ At(r, "config")
    /\ \/ /\ config # "off"
          /\ run[r].check \in Inline \cup registry
          /\ run' = [run EXCEPT ![r].dryRun = (config = "dry"),
                                ![r].pc = IF run[r].by = "system" THEN "limit" ELSE "cooldown"]
       \/ Return(r)
    /\ UNCHANGED <<config, registry, attempts, triggered, running, cooling>>

CheckConcurrency(r) ==
    /\ At(r, "limit")
    /\ IF running >= MaxConcurrent THEN Return(r) ELSE Goto(r, "cooldown")
    /\ UNCHANGED <<config, registry, attempts, triggered, running, cooling>>

CheckCooldown(r) ==
    /\ At(r, "cooldown")
    /\ IF cooling[run[r].check] THEN Return(r) ELSE Goto(r, "count")
    /\ UNCHANGED <<config, registry, attempts, triggered, running, cooling>>

\* Mutant: the limit lets one more attempt through.
LimitOffByOne(i) == Cardinality(CountedFor(i)) > MaxAttempts

LimitReached(i) == Cardinality(CountedFor(i)) >= MaxAttempts

RefuseExhausted(r) ==
    /\ At(r, "count") /\ LimitReached(run[r].incident)
    /\ Return(r)
    /\ UNCHANGED <<config, registry, attempts, triggered, running, cooling>>

CountAttempts(r) ==
    /\ At(r, "count")
    /\ \/ ~LimitReached(run[r].incident) /\ Goto(r, "enter")
       \/ Return(r) \* the count failed
    /\ UNCHANGED <<config, registry, attempts, triggered, running, cooling>>

-----------------------------------------------------------------------------
(***************************************************************************)
(* execute.                                                                *)
(***************************************************************************)
EnterExecute(r) ==
    /\ At(r, "enter")
    /\ running' = running + 1
    /\ Goto(r, "insert")
    /\ UNCHANGED <<config, registry, attempts, triggered, cooling>>

NewAttempt(r) ==
    [status |-> IF run[r].dryRun THEN "dry_run" ELSE "running",
     check |-> run[r].check, incident |-> run[r].incident]

\* A dry run has no action to execute and sets no cooldown.
AfterInsert(r) == IF run[r].dryRun THEN "record" ELSE "exec"

CreateAttempt(r) ==
    /\ At(r, "insert")
    /\ \E a \in Unused :
         /\ attempts' = [attempts EXCEPT ![a] = NewAttempt(r)]
         /\ run' = [run EXCEPT ![r].pc = AfterInsert(r), ![r].id = a]
    /\ UNCHANGED <<config, registry, triggered, running, cooling>>

\* Mutant: the error is logged and the action executed all the same.
InsertFailedGoesOn(r) ==
    /\ At(r, "insert") /\ ~run[r].dryRun
    /\ \E a \in Unused : run' = [run EXCEPT ![r].pc = "exec", ![r].id = a]
    /\ UNCHANGED <<config, registry, attempts, triggered, running, cooling>>

\* Mutant: the early return forgets the counter.
InsertFailedLeaks(r) ==
    /\ At(r, "insert")
    /\ Return(r)
    /\ UNCHANGED <<config, registry, attempts, triggered, running, cooling>>

\* A timed-out insert may have been applied: the document stays behind.
InsertFailed(r) ==
    /\ At(r, "insert")
    /\ \/ UNCHANGED attempts
       \/ \E a \in Unused : attempts' = [attempts EXCEPT ![a] = NewAttempt(r)]
    /\ Return(r)
    /\ running' = running - 1
    /\ UNCHANGED <<config, registry, triggered, cooling>>

\* The command, SSH session or request ends: exit code 0, or not, or an error.
ActionEnds(r) ==
    /\ At(r, "exec")
    /\ \E ok \in BOOLEAN : run' = [run EXCEPT ![r].pc = "record", ![r].ok = ok]
    /\ UNCHANGED <<config, registry, attempts, triggered, running, cooling>>

\* Mutant: a status that readers of the collection do not expect.
VerdictTimedOut(r) ==
    IF run[r].dryRun THEN "dry_run" ELSE IF run[r].ok THEN "success" ELSE "timed_out"

\* Mutant: the outcome is recorded whether or not this is a dry run.
VerdictIgnoresDryRun(r) == IF run[r].ok THEN "success" ELSE "failed"

Verdict(r) ==
    IF run[r].dryRun THEN "dry_run" ELSE IF run[r].ok THEN "success" ELSE "failed"

AfterRecord(r) ==
    IF run[r].dryRun THEN "leave" ELSE IF run[r].ok \/ ~HasAI THEN "cool" ELSE "analyze"

\* updateAttempt: only this goroutine writes the document; errors are dropped.
\* The local outcome is not read again.
RecordOutcome(r) ==
    /\ At(r, "record")
    /\ \/ attempts' = [attempts EXCEPT ![run[r].id].status = Verdict(r)]
       \/ UNCHANGED attempts
    /\ run' = [run EXCEPT ![r].pc = AfterRecord(r), ![r].ok = FALSE]
    /\ UNCHANGED <<config, registry, triggered, running, cooling>>

\* analyzeFailure: the AI call; the analysis is stored beside the outcome.
AnalyzeFailure(r) ==
    /\ At(r, "analyze")
    /\ Goto(r, "cool")
    /\ UNCHANGED <<config, registry, attempts, triggered, running, cooling>>

SetCooldown(r) ==
    /\ At(r, "cool")
    /\ cooling' = [cooling EXCEPT ![run[r].check] = TRUE]
    /\ Goto(r, "leave")
    /\ UNCHANGED <<config, registry, attempts, triggered, running>>

\* The deferred decrement.  ManualRemediate then stores who triggered the
\* attempt, in a field that nothing else here reads.
LeaveExecute(r) ==
    /\ At(r, "leave")
    /\ running' = running - 1
    /\ Return(r)
    /\ UNCHANGED <<config, registry, attempts, triggered, cooling>>

-----------------------------------------------------------------------------
(***************************************************************************)
(* The environment.                                                        *)
(***************************************************************************)
SaveConfig ==
    /\ config' \in Configs \ {config}
    /\ UNCHANGED <<registry, attempts, triggered, running, cooling, run>>

EditAction ==
    /\ \E k \in Checks \ Inline :
         registry' = IF k \in registry THEN registry \ {k} ELSE registry \cup {k}
    /\ UNCHANGED <<config, attempts, triggered, running, cooling, run>>

CooldownExpires(k) ==
    /\ cooling[k]
    /\ cooling' = [cooling EXCEPT ![k] = FALSE]
    /\ UNCHANGED <<config, registry, attempts, triggered, running, run>>

\* main seeds demonstration actions into an empty registry, and with them a
\* configuration that is enabled and not a dry run.
SeedRegistry ==
    /\ registry = {}
    /\ config' = "live"
    /\ registry' \in SUBSET (Checks \ Inline)

\* The process restarts: the counter, the cooldowns and the goroutines are gone.
Restart ==
    /\ running' = 0
    /\ cooling' = [k \in Checks |-> FALSE]
    /\ run' = [r \in Runs |-> IdleRun]
    /\ SeedRegistry \/ UNCHANGED <<config, registry>>
    /\ UNCHANGED <<attempts, triggered>>

Before(r) ==
    \/ TryRemediate(r) \/ ManualRemediate(r)
    \/ Prepare(r) \/ CheckConcurrency(r) \/ CheckCooldown(r)
    \/ RefuseExhausted(r) \/ CountAttempts(r)

Execute(r) ==
    \/ EnterExecute(r) \/ CreateAttempt(r) \/ InsertFailed(r) \/ ActionEnds(r)
    \/ RecordOutcome(r) \/ AnalyzeFailure(r) \/ SetCooldown(r) \/ LeaveExecute(r)

Next ==
    \/ \E r \in Runs : Before(r) \/ Execute(r)
    \/ \E k \in Checks : CooldownExpires(k)
    \/ SaveConfig \/ EditAction \/ Restart

Spec == Init /\ [][Next]_vars

-----------------------------------------------------------------------------
TypeOK ==
    /\ config \in Configs
    /\ registry \subseteq Checks \ Inline
    /\ attempts \in [Attempts -> Attempt]
    /\ triggered \subseteq Incidents
    /\ running \in Nat
    /\ cooling \in [Checks -> BOOLEAN]
    /\ run \in [Runs -> RunStates]

\* e.running counts exactly the goroutines inside execute, whichever way they
\* leave it: a leak would end automatic remediation for good.
RunningExact == running = Cardinality({r \in Runs : run[r].pc \in InExecute})

\* No silent automation: while an action runs against a host there is a stored
\* attempt for it, marked running, of its own check and incident, and no other
\* goroutine works on that attempt.
RunningIsRecorded ==
    \A r \in Runs : At(r, "exec") =>
        /\ ~run[r].dryRun
        /\ attempts[run[r].id].status = "running"
        /\ attempts[run[r].id].incident = run[r].incident
        /\ attempts[run[r].id].check = run[r].check
        /\ \A other \in Runs \ {r} :
             run[other].pc \in InExecute \ {"insert"} => run[other].id # run[r].id

\* What the attempt limit amounts to when requests race: an incident has at most
\* MaxAttempts attempts, plus one for each other goroutine that counted at once.
AttemptsOvershoot ==
    \A i \in Incidents :
        Cardinality({a \in Attempts : attempts[a].status # "none" /\ attempts[a].incident = i})
            <= MaxAttempts + Cardinality(Runs) - 1

\* Automation stays within its limits and leaves a record, whatever races, fails
\* or restarts: the counter is exact, an action that runs has its own stored
\* attempt, and the attempt limit is exceeded by racing requests only.
EngineSound == RunningExact /\ RunningIsRecorded /\ AttemptsOvershoot

\* The outcome of an attempt is final, and a dry run never turns into a result.
VerdictStep(a) ==
    \/ attempts'[a].status = attempts[a].status
    \/ attempts[a].status = "none"
    \/ attempts[a].status = "running" /\ attempts'[a].status \in {"success", "failed"}
VerdictFinal == [][\A a \in Attempts : VerdictStep(a)]_vars

=============================================================================
