--------------------------- MODULE MCAlertPipeline ---------------------------
(***************************************************************************)
(* Alerting for TLC.  The pipeline has two calls for one check, and a rule *)
(* that fires on failed results and on slow ones.  The rules themselves,   *)
(* their file and their cooldowns share no state with it: focus is the     *)
(* component that runs, and the other rests in an initial state.           *)
(***************************************************************************)
EXTENDS AlertPipeline, AlertRules

VARIABLE focus

FiresOn == [r \in Rules |-> {"slow", "down"}]

MCSlow     == [field |-> "durationMs", op |-> "greater_than", type |-> "float", val |-> 15]
MCDown     == [field |-> "healthy", op |-> "equals", type |-> "bool", val |-> 0]
MCBodies   == {[conds |-> {MCSlow}, cooldown |-> 2, enabled |-> TRUE],
               [conds |-> {MCSlow, MCDown}, cooldown |-> 1, enabled |-> TRUE],
               [conds |-> {}, cooldown |-> 0, enabled |-> FALSE]}
MCDefaults == <<Rule("down", [conds |-> {MCDown}, cooldown |-> 2, enabled |-> TRUE])>>
MCResults  == {[durationMs |-> [type |-> "int", val |-> d], healthy |-> [type |-> "bool", val |-> h]] :
                 d \in {10, 20}, h \in {0, 1}}

AlertingInit ==
    /\ focus \in {"pipeline", "rules"} /\ Init /\ AlertRulesInit
    /\ focus = "pipeline" => ruleFile = File(DefaultRules)

AlertingNext ==
    \/ focus = "pipeline" /\ Next /\ UNCHANGED <<focus, ruleVars>>
    \/ focus = "rules"    /\ AlertRulesNext /\ UNCHANGED <<focus, vars>>

\* Only the component in focus can be fair.
AlertingSpec == AlertingInit /\ [][AlertingNext]_<<vars, ruleVars, focus>> /\ (focus = "pipeline" => Fairness)
=============================================================================
