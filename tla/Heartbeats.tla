----------------------------- MODULE Heartbeats -----------------------------
(***************************************************************************)
(* Heartbeat checks: a job that HealthOps does not poll calls a URL with   *)
(* the check's token, and the check fails when the calls stop.             *)
(*                                                                         *)
(* The checks are stored, but the tokens and the pings are only in memory, *)
(* and a token is registered only by ApplyDefaults: for the checks of the  *)
(* configuration file when the process starts, and for a check in an API   *)
(* request.  A run copies the state of the token, decides on the copy and  *)
(* may then change the state, so a ping can come in between.  The counters *)
(* of pings and misses, which only feed metrics, are left out.             *)
(***************************************************************************)
EXTENDS Naturals

CONSTANTS HbTokens,     \* tokens; a check has one, and no two checks share one
          Interval,     \* expectedIntervalSeconds, in ticks
          GracePeriod   \* graceSeconds, in ticks

ASSUME HeartbeatAssumption == Interval \in Nat \ {0} /\ GracePeriod \in Nat \ {0}

Deadline == Interval + GracePeriod
Far      == Deadline + 1      \* bound: ages from here on are not told apart
NoPing   == [age |-> Far, st |-> "none"]
NotRegistered == [ping |-> NoPing, shown |-> "unknown"]
Registered    == [ping |-> NoPing, shown |-> "missed"]
NoHbRun  == [ping |-> NoPing, on |-> FALSE, pinged |-> FALSE]

VARIABLES
    inFile,    \* the tokens that the configuration file spells out
    hbCheck,   \* tokens whose check is stored
    hbState,   \* HeartbeatStore.states: the last ping and CurrentState
    hbRun,     \* the copy a run of the check decides on
    hbVerdict, \* what the last run of this process said
    jobAge,    \* history: ticks since the job called with success, after the last start or registration
    hbKnown,   \* history: tokens an ApplyDefaults of this process has seen
    crossed    \* history: tokens whose last ping came during a run that ended late

hbVars == <<inFile, hbCheck, hbState, hbRun, hbVerdict, jobAge, hbKnown, crossed>>

HeartbeatsInit ==
    /\ inFile \in SUBSET HbTokens
    /\ hbCheck = inFile /\ hbKnown = inFile
    /\ hbState = [t \in HbTokens |-> IF t \in inFile THEN Registered ELSE NotRegistered]
    /\ hbRun = [t \in HbTokens |-> NoHbRun] /\ hbVerdict = [t \in HbTokens |-> "starting"]
    /\ jobAge = [t \in HbTokens |-> Far] /\ crossed = {}

\* Register keeps the state of a token it knows.
Register(t) == hbState' = [hbState EXCEPT ![t] = IF @ = NotRegistered THEN Registered ELSE @]

\* ApplyDefaults registers the token before the request is validated, so a
\* refused request registers it too.
SaveHeartbeat(t) ==
    /\ Register(t) /\ hbKnown' = hbKnown \cup {t}
    /\ hbCheck' \in {hbCheck, hbCheck \cup {t}}
    /\ jobAge' = [jobAge EXCEPT ![t] = IF t \in hbKnown THEN @ ELSE Far]
    /\ UNCHANGED <<inFile, hbRun, hbVerdict, crossed>>

DeleteHeartbeat(t) ==
    /\ t \in hbCheck /\ hbCheck' = hbCheck \ {t}
    /\ UNCHANGED <<inFile, hbState, hbRun, hbVerdict, jobAge, hbKnown, crossed>>

\* A process starts: the checks of the database, the tokens of the file.
RestartHeartbeats ==
    /\ hbState' = [t \in HbTokens |-> IF t \in inFile THEN Registered ELSE NotRegistered]
    /\ hbRun' = [t \in HbTokens |-> NoHbRun] /\ hbKnown' = inFile
    /\ jobAge' = [t \in HbTokens |-> Far] /\ crossed' = {}
    /\ hbVerdict' = [t \in HbTokens |-> "starting"] /\ UNCHANGED <<inFile, hbCheck>>

-----------------------------------------------------------------------------
\* RecordPing refuses a token it does not know.
RecordPing(t, st) ==
    \/ /\ hbState[t] # NotRegistered
       /\ hbState' = [hbState EXCEPT ![t] = [ping |-> [age |-> 0, st |-> st], shown |-> "healthy"]]
    \/ /\ hbState[t] = NotRegistered /\ UNCHANGED hbState

\* The job calls; any status but "fail" is a success.
handlePing(t, st) ==
    /\ RecordPing(t, st)
    /\ hbRun' = [hbRun EXCEPT ![t].pinged = @ \/ hbRun[t].on]
    /\ jobAge' = [jobAge EXCEPT ![t] = IF st = "fail" THEN Far ELSE 0]
    /\ crossed' = crossed \ {t}
    /\ UNCHANGED <<inFile, hbCheck, hbVerdict, hbKnown>>

\* Time passes, for a copy as for the state.
TickHeartbeats ==
    LET Older(a) == IF a < Far THEN a + 1 ELSE Far
    IN  /\ hbState' = [t \in HbTokens |-> [hbState[t] EXCEPT !.ping.age = Older(@)]]
        /\ hbRun' = [t \in HbTokens |-> [hbRun[t] EXCEPT !.ping.age = Older(@)]]
        /\ jobAge' = [t \in HbTokens |-> Older(jobAge[t])]
        /\ UNCHANGED <<inFile, hbCheck, hbVerdict, hbKnown, crossed>>

\* A run of the check: the state is copied ...
GetState(t) ==
    /\ t \in hbCheck /\ ~hbRun[t].on
    /\ hbRun' = [hbRun EXCEPT ![t] = [ping |-> hbState[t].ping, on |-> TRUE, pinged |-> FALSE]]
    /\ UNCHANGED <<inFile, hbCheck, hbState, hbVerdict, jobAge, hbKnown, crossed>>

\* Trusting any ping there ever was, for the mutant of HeartbeatsTruthful.
HbVerdictAnyPing(p) ==
    IF p.st = "none" THEN "none" ELSE IF p.st = "fail" THEN "failed" ELSE "ok"

\* Letting the grace period start late, for the mutant of HeartbeatsSound.
HbVerdictGraceFirst(p) ==
    IF p.st = "none" THEN "none"
    ELSE IF p.st = "fail" THEN "failed"
    ELSE IF p.age > Deadline THEN "late" ELSE "ok"

HbVerdict(p) ==
    IF p.st = "none" THEN "none"
    ELSE IF p.st = "fail" THEN "failed"
    ELSE IF p.age > Deadline THEN "late"
    ELSE IF p.age > Interval THEN "warning" ELSE "ok"

\* ... and the copy is judged; a late one marks the state, whatever it is by now.
Execute(t) ==
    LET v == HbVerdict(hbRun[t].ping)
    IN  /\ hbRun[t].on
        /\ hbVerdict' = [hbVerdict EXCEPT ![t] = v]
        /\ hbRun' = [hbRun EXCEPT ![t] = NoHbRun]
        /\ \/ v # "late" /\ UNCHANGED <<hbState, crossed>>
           \/ /\ v = "late"
              /\ hbState' = [hbState EXCEPT ![t].shown = IF hbState[t] = NotRegistered THEN @ ELSE "missed"]
              /\ crossed' = IF hbRun[t].pinged THEN crossed \cup {t} ELSE crossed
        /\ UNCHANGED <<inFile, hbCheck, jobAge, hbKnown>>

HeartbeatsNext ==
    \/ RestartHeartbeats \/ TickHeartbeats
    \/ \E t \in HbTokens :
        \/ SaveHeartbeat(t) \/ DeleteHeartbeat(t)
        \/ \E st \in {"success", "fail"} : handlePing(t, st)
        \/ GetState(t) \/ Execute(t)

HeartbeatsSpec == HeartbeatsInit /\ [][HeartbeatsNext]_hbVars

\* The scheduler runs a stored check again and again, and time passes.
HeartbeatsFairness ==
    /\ WF_hbVars(TickHeartbeats)
    /\ \A t \in HbTokens : WF_hbVars(GetState(t)) /\ WF_hbVars(Execute(t))

-----------------------------------------------------------------------------
\* A run calls the job healthy only if it called with success within the
\* interval, and a run raises a false alarm - "late", "warning" or "none" for a
\* job that did - only if the token was lost in a restart or the call came while
\* the run was under way.  CurrentState calls a fresh ping missed only after such
\* a call (check_heartbeat.go Execute, RecordPing, ApplyDefaults).
HeartbeatsSound ==
    [][\A t \in HbTokens :
         /\ (hbRun[t].on /\ ~hbRun'[t].on /\ hbVerdict'[t] = "ok" /\ ~hbRun[t].pinged)
                => jobAge[t] <= Interval
         /\ (hbRun[t].on /\ ~hbRun'[t].on /\ hbVerdict'[t] \in {"late", "warning", "none"})
                => jobAge[t] > Interval \/ hbRun[t].pinged \/ t \notin hbKnown
         /\ (hbState[t].shown = "missed" /\ hbState[t].ping.age <= Interval) => t \in crossed]_hbVars

\* The job of a stored check stays silent: the check stops saying that it is well.
SilenceIsNoticed ==
    \A t \in HbTokens : (t \in hbCheck /\ jobAge[t] = Far)
                        ~> (hbVerdict[t] # "ok" \/ jobAge[t] # Far \/ t \notin hbCheck)

\* Heartbeat checks neither cry wolf nor sleep: both of the above, whatever pings,
\* restarts and runs overlap (check_heartbeat.go Execute, RecordPing).
HeartbeatsTruthful == HeartbeatsSound /\ SilenceIsNoticed
=============================================================================
