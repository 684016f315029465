--------------------------- MODULE MCRepositories ---------------------------
(***************************************************************************)
(* What overlapping requests and executions keep in MongoDB, for TLC: the  *)
(* MySQL samples, the servers and the log families.  They share no state,  *)
(* so their behaviours are explored side by side and not interleaved:      *)
(* focus is the component that runs, and the others rest, each in one of   *)
(* its initial states.                                                     *)
(***************************************************************************)
EXTENDS MySQLSamples, Servers, Logs, TLC

CONSTANTS c1, c2 \* overlapping calls

VARIABLE focus

RepositoriesInit ==
    /\ focus \in {"samples", "servers", "logs"}
    /\ SamplesInit /\ ServersInit /\ LogsInit
    /\ focus # "samples" => sampleStore = "mongo"

Others(f) ==
    /\ UNCHANGED focus
    /\ IF f = "samples" THEN TRUE ELSE UNCHANGED sampleVars
    /\ IF f = "servers" THEN TRUE ELSE UNCHANGED serverVars
    /\ IF f = "logs" THEN TRUE ELSE UNCHANGED logVars

\* Samples and logs may reach their bounds.
Exhausted == focus \in {"samples", "logs"} /\ UNCHANGED <<sampleVars, logVars>> /\ Others("samples")

RepositoriesNext ==
    \/ focus = "samples"   /\ SamplesNext /\ Others("samples")
    \/ focus = "servers"   /\ ServersNext /\ Others("servers")
    \/ focus = "logs"      /\ LogsNext    /\ Others("logs")
    \/ Exhausted

RepositoriesSpec ==
    RepositoriesInit /\ [][RepositoriesNext]_<<sampleVars, serverVars, logVars, focus>>

CallSymmetry == Permutations({c1, c2})
=============================================================================
