------------------------------ MODULE MCAIQueue ------------------------------
(***************************************************************************)
(* The AI service for TLC.  The queue has two incidents, so that a batch   *)
(* and what stays queued behind it differ, and one handler beside the      *)
(* worker.  The configuration of the providers shares no state with the    *)
(* queue: focus is the one that runs, and the other rests in its initial   *)
(* state.                                                                  *)
(***************************************************************************)
EXTENDS AIQueue, AIConfig

VARIABLE focus

ServiceInit == focus \in {"queue", "config"} /\ Init /\ AIConfigInit
               /\ (focus = "config" => ~faults /\ enabled)

ServiceNext ==
    \/ focus = "queue"  /\ Next /\ UNCHANGED <<focus, aiVars>>
    \/ focus = "config" /\ AIConfigNext /\ UNCHANGED <<focus, vars>>

\* Only the part in focus can be fair.
ServiceSpec == ServiceInit /\ [][ServiceNext]_<<vars, aiVars, focus>> /\ (focus = "queue" => Fairness)
=============================================================================
