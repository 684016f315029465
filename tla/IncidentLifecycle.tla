------------------------- MODULE IncidentLifecycle -------------------------
(***************************************************************************)
(* What the incident manager promises, whoever calls it and however calls  *)
(* interleave: an incident is opened once, where its check has no other    *)
(* that is unresolved, its severity only rises, an acknowledgement is      *)
(* never forgotten, resolving it is final, and only a resolved incident is *)
(* ever removed by the retention job.  The exception is a caller that read *)
(* before others wrote: it may overwrite the incident it is at, or open a  *)
(* second one, but neither touches another incident nor brings back one    *)
(* that was removed.                                                       *)
(***************************************************************************)
EXTENDS Naturals

CONSTANTS
    IDs,                \* incident identifiers: the check and the second
    Severities          \* severity levels, as numbers that rank them

VARIABLES
    inc,                \* the incidents, by identifier
    rushed              \* incidents a caller is at whose read is out of date

Absent == [status |-> "none", severity |-> 0, ackBy |-> "nobody"]
Opened(s) == [status |-> "open", severity |-> s, ackBy |-> "nobody"]
Written == [status : {"open", "acknowledged", "resolved"}, severity : Severities,
            ackBy : {"nobody", "operator"}]

Unresolved(i) == inc[i].status \in {"open", "acknowledged"}

Init == inc = [i \in IDs |-> Absent]

Open(i) ==
    /\ inc[i].status = "none"
    /\ \A j \in IDs : j[1] = i[1] => ~Unresolved(j)
    /\ \E s \in Severities : inc' = [inc EXCEPT ![i] = Opened(s)]

Escalate(i) ==
    /\ inc[i].status # "none"
    /\ \E s \in Severities :
         /\ s > inc[i].severity
         /\ inc' = [inc EXCEPT ![i].severity = s]

Acknowledge(i) ==
    /\ Unresolved(i)
    /\ inc' = [inc EXCEPT ![i].status = "acknowledged", ![i].ackBy = "operator"]

Resolve(i) ==
    /\ Unresolved(i)
    /\ inc' = [inc EXCEPT ![i].status = "resolved"]

Remove(S) ==
    /\ \A i \in S : inc[i].status = "resolved"
    /\ inc' = [i \in IDs |-> IF i \in S THEN Absent ELSE inc[i]]

\* An insert beside another incident, or the write-back of an old copy.
Overwrite(i) ==
    /\ i \in rushed
    /\ \E new \in Written :
         /\ inc[i].status = "none" => \E s \in Severities : new = Opened(s)
         /\ inc' = [inc EXCEPT ![i] = new]

Next ==
    \/ \E i \in IDs : Open(i) \/ Escalate(i) \/ Acknowledge(i) \/ Resolve(i) \/ Overwrite(i)
    \/ \E S \in SUBSET IDs : Remove(S)

Spec == Init /\ [][Next]_inc
=============================================================================
