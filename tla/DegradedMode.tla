---------------------------- MODULE DegradedMode ----------------------------
(***************************************************************************)
(* The probe of the database, the incident it opens and resolves, and the  *)
(* middleware that refuses writes while the database is believed to be     *)
(* down.                                                                   *)
(*                                                                         *)
(* The incident is stored in the database that is down, so the alert of    *)
(* an outage mostly fails; it is raised once per transition and its error  *)
(* is ignored.  A probe that a shutdown cuts off fails too, and the alert  *)
(* that follows does not use the context that was cancelled.               *)
(***************************************************************************)
EXTENDS Naturals

CONSTANT MaxOutages    \* bound: times the database or the process goes down

VARIABLES
    dbUp,        \* the database answers
    dmHealthy,   \* DegradedMode.status.Healthy
    dmProbe,     \* the result of a probe that is not applied yet, or "idle"
    dmStopping,  \* the context of the health check is cancelled
    dbIncident,  \* the incident of "database": "none" or "open"
    outages      \* outages and restarts so far

dmVars == <<dbUp, dmHealthy, dmProbe, dmStopping, dbIncident, outages>>

DegradedInit ==
    /\ dbUp = TRUE /\ dmHealthy = TRUE /\ dmProbe = "idle" /\ dmStopping = FALSE
    /\ dbIncident = "none" /\ outages = 0

DatabaseFails ==
    /\ dbUp /\ outages < MaxOutages
    /\ dbUp' = FALSE /\ outages' = outages + 1
    /\ UNCHANGED <<dmHealthy, dmProbe, dmStopping, dbIncident>>

DatabaseAnswers ==
    /\ ~dbUp /\ dbUp' = TRUE
    /\ UNCHANGED <<dmHealthy, dmProbe, dmStopping, dbIncident, outages>>

\* The ticker fires and the ping is sent; it also fails when the context is
\* cancelled meanwhile.
HealthCheck ==
    /\ dmProbe = "idle" /\ ~dmStopping
    /\ dmProbe' = IF dbUp THEN "ok" ELSE "failed"
    /\ UNCHANGED <<dbUp, dmHealthy, dmStopping, dbIncident, outages>>

\* The service stops: a ping under way is cut off, an answer that came counts.
StopHealthCheck ==
    /\ ~dmStopping /\ dmStopping' = TRUE
    /\ \/ UNCHANGED dmProbe
       \/ dmProbe = "ok" /\ dmProbe' = "failed"
    /\ UNCHANGED <<dbUp, dmHealthy, dbIncident, outages>>

\* ProcessAlert; a lost answer may hide a stored incident.
ProcessDatabaseAlert ==
    \/ dbUp /\ dbIncident' = "open"
    \/ UNCHANGED dbIncident

\* Resolving on the way back only, for the mutant of OutageIsCleared.
ResolveOnTransition ==
    \/ dbUp /\ ~dmHealthy /\ dbIncident' = "none"
    \/ (~dbUp \/ dmHealthy) /\ UNCHANGED dbIncident

\* AutoResolveOnRecovery, after every good probe; its error is only logged.
ResolveDatabaseIncident ==
    \/ dbUp /\ dbIncident' = "none"
    \/ ~dbUp /\ UNCHANGED dbIncident

\* runHealthCheck after the ping: all of it under the lock that IsDegraded reads.
ApplyFailed ==
    /\ dmProbe = "failed" /\ dmProbe' = "idle" /\ dmHealthy' = FALSE
    /\ \/ dmHealthy /\ ProcessDatabaseAlert
       \/ ~dmHealthy /\ UNCHANGED dbIncident
    /\ UNCHANGED <<dbUp, dmStopping, outages>>

ApplyOK ==
    /\ dmProbe = "ok" /\ dmProbe' = "idle" /\ dmHealthy' = TRUE
    /\ ResolveDatabaseIncident
    /\ UNCHANGED <<dbUp, dmStopping, outages>>

\* A new process believes in the database until a probe fails.
RestartDegraded ==
    /\ outages < MaxOutages /\ outages' = outages + 1
    /\ dmHealthy' = TRUE /\ dmProbe' = "idle" /\ dmStopping' = FALSE
    /\ UNCHANGED <<dbUp, dbIncident>>

DegradedNext ==
    \/ DatabaseFails \/ DatabaseAnswers \/ HealthCheck \/ StopHealthCheck
    \/ ApplyFailed \/ ApplyOK \/ RestartDegraded

\* The ticker: a probe is taken every 30 seconds and applied.
DegradedFairness == WF_dmVars(HealthCheck) /\ WF_dmVars(ApplyFailed) /\ WF_dmVars(ApplyOK)

-----------------------------------------------------------------------------
\* The middleware lets a write to a protected endpoint through.
WriteAllowed == dmHealthy

\* The database answers for good and the process stays: writes are let through
\* again and the database incident is closed, also the one an earlier process or
\* a failed resolution left behind (degraded_mode.go runHealthCheck).
OutageIsCleared ==
    <>[](dbUp /\ ~dmStopping) => <>[](WriteAllowed /\ dbIncident = "none")
=============================================================================
