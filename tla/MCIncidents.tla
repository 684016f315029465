---------------------------- MODULE MCIncidents ----------------------------
(***************************************************************************)
(* Instances of Incidents for TLC: with a bound on the calls of a          *)
(* behaviour, which leaves room for the retention job and two severities.  *)
(***************************************************************************)
EXTENDS Incidents, TLC

CONSTANTS
    c1, c2,
    MaxCalls     \* bound: calls in a behaviour of FewCallsSpec

VARIABLE calls   \* calls so far

\* Every caller may evaluate results: a second scheduler loop, or POST /runs.
ManyAlerters == [k \in Checks |-> Callers]

CallerSymmetry == Permutations(Callers)

FewCallsInit == Init /\ calls = 0

FewCallsNext ==
    \/ \E c \in Callers : calls < MaxCalls /\ Call(c) /\ calls' = calls + 1
    \/ \E c \in Callers : Step(c) /\ UNCHANGED calls
    \/ (PruneBefore \/ Restart \/ Tick) /\ UNCHANGED calls
    \/ calls = MaxCalls /\ clock = MaxClock /\ UNCHANGED <<vars, calls>> \* the bounds are reached

FewCallsSpec == FewCallsInit /\ [][FewCallsNext]_<<vars, calls>>
=============================================================================
