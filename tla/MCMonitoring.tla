---------------------------- MODULE MCMonitoring ----------------------------
(***************************************************************************)
(* The process around its requests for TLC: the check scheduler, the       *)
(* heartbeat checks, the probe of the database, the retention job, the     *)
(* rate limiters in front of the API and the rules it starts with.         *)
(* They share no state, so their behaviours are explored side by side and  *)
(* not interleaved: focus is the part that runs, and the others rest, each *)
(* in one of its initial states.                                           *)
(***************************************************************************)
EXTENDS CheckScheduler, Heartbeats, DegradedMode, Retention, RateLimiter,
        RuleSeeding

VARIABLE focus

MCRetConfig == [sample |-> 1, snapshot |-> 2, notification |-> 0, aiQueue |-> 2, incident |-> 0]

\* Two forms of one client, and another.
MCSources == {[real |-> "a", forwarded |-> <<>>, addr |-> "proxy"],
              [real |-> "", forwarded |-> <<"a", "proxy">>, addr |-> "proxy"],
              [real |-> "", forwarded |-> <<>>, addr |-> "b"]}
MCRates == [login |-> 1, api |-> 2]

MCDefaultIDs == <<"util", "refused">>
MCThresholds == [util |-> 7, refused |-> 0]

MonitoringInit ==
    /\ focus \in {"scheduler", "heartbeats", "database", "retention", "rates", "seeding"}
    /\ Init /\ HeartbeatsInit /\ DegradedInit /\ RetentionInit /\ RateInit /\ SeedingInit
    /\ focus # "scheduler"  => store = [k \in Checks |-> "enabled"]
    /\ focus # "heartbeats" => inFile = {}
    /\ focus # "retention"  => retBroken = {}

Others(f) ==
    /\ UNCHANGED focus
    /\ IF f = "scheduler" THEN TRUE ELSE UNCHANGED vars
    /\ IF f = "heartbeats" THEN TRUE ELSE UNCHANGED hbVars
    /\ IF f = "database" THEN TRUE ELSE UNCHANGED dmVars
    /\ IF f = "retention" THEN TRUE ELSE UNCHANGED retVars
    /\ IF f = "rates" THEN TRUE ELSE UNCHANGED rateVars
    /\ IF f = "seeding" THEN TRUE ELSE UNCHANGED seedVars

MonitoringNext ==
    \/ focus = "scheduler"  /\ Next           /\ Others("scheduler")
    \/ focus = "heartbeats" /\ HeartbeatsNext /\ Others("heartbeats")
    \/ focus = "database"   /\ DegradedNext   /\ Others("database")
    \/ focus = "retention"  /\ RetentionNext  /\ Others("retention")
    \/ focus = "rates"      /\ RateNext       /\ Others("rates")
    \/ focus = "seeding"    /\ SeedingNext    /\ Others("seeding")

\* Only the job in focus can be fair: the others do not run.
MonitoringFairness ==
    \/ focus = "scheduler"  /\ Fairness
    \/ focus = "heartbeats" /\ HeartbeatsFairness
    \/ focus = "database"   /\ DegradedFairness
    \/ focus = "retention"  /\ RetentionFairness
    \/ focus \in {"rates", "seeding"}

MonitoringSpec ==
    MonitoringInit /\ [][MonitoringNext]_<<vars, hbVars, dmVars, retVars, rateVars, seedVars, focus>> /\ MonitoringFairness
=============================================================================
