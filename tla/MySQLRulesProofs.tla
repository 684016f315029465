-------------------------- MODULE MySQLRulesProofs --------------------------
(***************************************************************************)
(* Proofs about MySQLRules: type correctness, and that a rule changes its  *)
(* status only at the end of a streak of consecutive samples, for any      *)
(* rules, thresholds, executions and restarts, as long as no restart finds *)
(* a state file that lacks a sample.                                       *)
(*                                                                         *)
(* The streaks of the engine never exceed the true ones: a sample moves    *)
(* both alike, and a restart that undoes no sample changes neither a       *)
(* streak nor a status.                                                    *)
(*                                                                         *)
(* The last section is about the samples that the rules are evaluated on.  *)
(***************************************************************************)
EXTENDS MySQLRules, MySQLSamples, TLAPS

LEMMA CapFacts ==
  ASSUME NEW r \in Rules
  PROVE  /\ Threshold(ConsecutiveBreaches[r]) \in Nat /\ Threshold(RecoverySamples[r]) \in Nat
         /\ Cap(r) \in Nat
         /\ \A n \in Nat : n <= Cap(r) => Bump(r, n) \in Nat /\ Bump(r, n) <= Cap(r)
BY MySQLRulesAssumption DEF Threshold, Cap, Bump

Bounded(s, r) == s.breaches <= Cap(r) /\ s.recovery <= Cap(r)

LEMMA TransitionType ==
  ASSUME NEW r \in Rules, NEW s \in RuleStates, Bounded(s, r)
  PROVE  /\ Breach(s, r) \in RuleStates /\ Bounded(Breach(s, r), r)
         /\ Recover(s, r) \in RuleStates /\ Bounded(Recover(s, r), r)
<1>1. s.breaches \in Nat /\ s.recovery \in Nat
  BY DEF RuleStates
<1>2. Bump(r, s.breaches) \in Nat /\ Bump(r, s.recovery) \in Nat
  BY <1>1, CapFacts DEF Bounded
<1>3. Bump(r, s.breaches) <= Cap(r) /\ Bump(r, s.recovery) <= Cap(r) /\ Cap(r) \in Nat
  BY <1>1, CapFacts DEF Bounded
<1>4. Breach(s, r) \in RuleStates /\ Recover(s, r) \in RuleStates
  BY <1>2 DEF Breach, Recover, RuleStates, IncidentIds
<1>5. Bounded(Breach(s, r), r) /\ Bounded(Recover(s, r), r)
  BY <1>2, <1>3 DEF Breach, Recover, Bounded, RuleStates
<1> QED
  BY <1>4, <1>5

LEMMA IdleType == IdleRun \in RunStates /\ NewState \in RuleStates
BY DEF IdleRun, RunStates, PCs, Actions, NewState, RuleStates, IncidentIds

LEMMA TypeInit == Init => TypeOK
<1> SUFFICES ASSUME Init PROVE TypeOK
  OBVIOUS
<1>1. \A r \in Rules : NewState.breaches <= Cap(r) /\ NewState.recovery <= Cap(r)
  BY CapFacts DEF NewState
<1>2. states \in [Rules -> RuleStates] /\ disk \in [Rules -> RuleStates]
  BY IdleType DEF Init
<1>3. \A r \in Rules : /\ states[r].breaches <= Cap(r) /\ states[r].recovery <= Cap(r)
                        /\ disk[r].breaches <= Cap(r) /\ disk[r].recovery <= Cap(r)
  BY <1>1 DEF Init
<1>4. streak \in [Rules -> [above : Nat, below : Nat]] /\ run \in [Runs -> RunStates]
  BY IdleType DEF Init
<1>5. open \in IncidentIds /\ successes \in 0..(SuccessesToResolve + 1)
  BY MySQLRulesAssumption DEF Init, IncidentIds
<1>6. load \subseteq Rules /\ reachable \in BOOLEAN
  BY DEF Init
<1>7. rewound \in BOOLEAN
  BY Zenon DEF Init
<1>8. lostWrites \in 0..MaxLostWrites
  BY MySQLRulesAssumption DEF Init
<1> QED
  BY <1>2, <1>3, <1>4, <1>5, <1>6, <1>7, <1>8 DEF TypeOK

LEMMA TypeNext == TypeOK /\ [Next]_vars => TypeOK'
<1> SUFFICES ASSUME TypeOK, [Next]_vars PROVE TypeOK'
  OBVIOUS
<1> USE DEF TypeOK
<1>0. \A i \in {open'} : ProcessAlert => i \in IncidentIds
  BY DEF ProcessAlert, Fresh, IncidentIds
<1>1. ASSUME NEW g \in Runs, Execute(g) PROVE TypeOK'
  <2>0. run[g] \in RunStates
    OBVIOUS
  <2>1. CASE Sample(g)
    <3>1. [run[g] EXCEPT !.pc = IF reachable THEN "evaluate" ELSE "failed",
                         !.breached = IF reachable THEN load ELSE {}] \in RunStates
      BY <2>0 DEF RunStates, PCs
    <3> QED
      BY <2>1, <3>1 DEF Sample
  <2>2. CASE Evaluate(g)
    <3>1. \A r \in Rules : Transition(g, r) \in RuleStates /\ Bounded(Transition(g, r), r)
      BY TransitionType DEF Transition, Bounded
    <3>2. /\ states' \in [Rules -> RuleStates] /\ \A r \in Rules : Bounded(states'[r], r)
      BY <2>2, <3>1 DEF Evaluate
    <3>3. /\ disk' \in [Rules -> RuleStates] /\ \A r \in Rules : Bounded(disk'[r], r)
      BY <2>2, <3>2 DEF Evaluate, Bounded
    <3>4. streak' \in [Rules -> [above : Nat, below : Nat]]
      <4>1. \A r \in Rules, n \in Nat : Bump(r, n) \in Nat
        BY CapFacts DEF Bump
      <4> QED
        BY <2>2, <4>1 DEF Evaluate, Extend
    <3>5. [r \in Rules |-> Verdict(g, r)] \in [Rules -> Actions]
      BY DEF Verdict, Actions
    <3>6. [r \in Rules |-> IF Verdict(g, r) = "close" THEN states[r].incident ELSE NoId]
          \in [Rules -> IncidentIds]
      BY DEF RuleStates, IncidentIds
    <3>7. run'[g] \in RunStates /\ run' \in [Runs -> RunStates]
      BY <2>0, <2>2, <3>5, <3>6 DEF Evaluate, RunStates, PCs
    <3>8. \/ lostWrites' = lostWrites
          \/ lostWrites < MaxLostWrites /\ lostWrites' = lostWrites + 1
      BY <2>2 DEF Evaluate
    <3>9. lostWrites' \in 0..MaxLostWrites
      BY <3>8, MySQLRulesAssumption
    <3>10. UNCHANGED <<load, reachable, open, successes, rewound>>
      BY <2>2 DEF Evaluate
    <3> QED
      BY <3>2, <3>3, <3>4, <3>7, <3>9, <3>10 DEF Bounded
  <2>3. ASSUME UNCHANGED <<load, reachable, states, disk, successes, streak, rewound, lostWrites>>,
               open' \in IncidentIds, run' \in [Runs -> RunStates]
        PROVE  TypeOK'
    BY <2>3
  <2>4. CASE OpenIncident(g)
    <3>1. PICK r \in Rules :
            \/ run' = [run EXCEPT ![g].todo[r] = "none", ![g].pc = "record", ![g].rule = r]
            \/ run' = [run EXCEPT ![g].todo[r] = "none"]
      BY <2>4 DEF OpenIncident, NextTodo, Todo
    <3>2. /\ [run[g] EXCEPT !.todo[r] = "none", !.pc = "record", !.rule = r] \in RunStates
          /\ [run[g] EXCEPT !.todo[r] = "none"] \in RunStates
      BY <2>0 DEF RunStates, PCs, Actions
    <3>3. run' \in [Runs -> RunStates]
      BY <3>1, <3>2
    <3> QED
      BY <1>0, <2>3, <2>4, <3>3 DEF OpenIncident
  <2>5. CASE SetOpenIncidentID(g)
    <3>1. [run[g] EXCEPT !.pc = "actions", !.rule = 0] \in RunStates
      BY <2>0 DEF RunStates, PCs
    <3>2. \A r \in Rules : [states[r] EXCEPT !.incident = IF open = NoId THEN @ ELSE open]
                            \in RuleStates
      BY DEF RuleStates
    <3>3. states' \in [Rules -> RuleStates]
      BY <2>5, <3>2 DEF SetOpenIncidentID
    <3>4. \A r \in Rules : states'[r].breaches <= Cap(r) /\ states'[r].recovery <= Cap(r)
      <4>1. UNCHANGED states \/ states' = [states EXCEPT ![run[g].rule].incident =
                                                         IF open = NoId THEN @ ELSE open]
        BY <2>5 DEF SetOpenIncidentID
      <4>2. \A r \in Rules : /\ states'[r].breaches = states[r].breaches
                              /\ states'[r].recovery = states[r].recovery
        BY <4>1 DEF RuleStates
      <4> QED
        BY <4>2
    <3> QED
      BY <2>5, <3>1, <3>3, <3>4 DEF SetOpenIncidentID
  <2>6. CASE CloseIncident(g)
    <3>1. PICK r \in Rules : run' = [run EXCEPT ![g].todo[r] = "none", ![g].closes[r] = NoId]
      BY <2>6 DEF CloseIncident, NextTodo, Todo
    <3>2. [run[g] EXCEPT !.todo[r] = "none", !.closes[r] = NoId] \in RunStates
      BY <2>0 DEF RunStates, Actions, IncidentIds
    <3>3. run' \in [Runs -> RunStates] /\ open' \in IncidentIds
      BY <2>6, <3>1, <3>2 DEF CloseIncident, IncidentIds
    <3> QED
      BY <2>3, <2>6, <3>3 DEF CloseIncident
  <2>7. CASE ActionsDone(g)
    <3>1. [run[g] EXCEPT !.pc = "healthy"] \in RunStates
      BY <2>0 DEF RunStates, PCs
    <3> QED
      BY <2>3, <2>7, <3>1 DEF ActionsDone, Goto
  <2>8. CASE ReportHealthy(g)
    BY <2>8, IdleType, MySQLRulesAssumption DEF ReportHealthy, IncidentIds
  <2>9. CASE ReportFailed(g)
    BY <1>0, <2>9, IdleType, MySQLRulesAssumption DEF ReportFailed
  <2> QED
    BY <1>1, <2>1, <2>2, <2>4, <2>5, <2>6, <2>7, <2>8, <2>9 DEF Execute
<1>2. CASE DatabaseChanges
  BY <1>2 DEF DatabaseChanges
<1>4. CASE ResolveIncident
  BY <1>4 DEF ResolveIncident, IncidentIds
<1>5. CASE Restart
  BY <1>5, IdleType, MySQLRulesAssumption DEF Restart
<1>6. CASE UNCHANGED vars
  BY <1>6 DEF vars
<1> QED
  BY <1>1, <1>2, <1>4, <1>5, <1>6 DEF Next

\* The engine's state, its state file and its executions keep their types, and no
\* streak passes its bound.
THEOREM TypeCorrect == Spec => []TypeOK
BY TypeInit, TypeNext, PTL DEF Spec

-----------------------------------------------------------------------------
\* The streaks of a rule are at most the true ones.
StreakInv ==
    ~rewound => \A r \in Rules : /\ states[r].breaches <= streak[r].above
                                 /\ states[r].recovery <= streak[r].below

LEMMA StreakInit == Init => StreakInv
BY DEF Init, StreakInv, NewState

\* What an evaluation does to one rule.
LEMMA EvaluateRule ==
  ASSUME TypeOK, StreakInv, ~rewound, NEW g \in Runs, Evaluate(g), NEW r \in Rules
  PROVE  /\ states'[r].breaches <= streak'[r].above
         /\ states'[r].recovery <= streak'[r].below
         /\ states[r].status = "OK" /\ states'[r].status = "OPEN" =>
              streak'[r].above >= Threshold(ConsecutiveBreaches[r])
         /\ states[r].status = "OPEN" /\ states'[r].status = "OK" =>
              streak'[r].below >= Threshold(RecoverySamples[r])
<1> DEFINE s == states[r]
<1>1. /\ s \in RuleStates /\ s.breaches \in Nat /\ s.recovery \in Nat
      /\ streak[r].above \in Nat /\ streak[r].below \in Nat
      /\ s.breaches <= streak[r].above /\ s.recovery <= streak[r].below
  BY DEF TypeOK, StreakInv, RuleStates
<1>2. Cap(r) \in Nat
  BY CapFacts
<1>3. \A m, n \in Nat : m <= n => Bump(r, m) <= Bump(r, n)
  BY <1>2 DEF Bump
<1>4. \A n \in Nat : Bump(r, n) \in Nat
  BY <1>2 DEF Bump
<1>5. /\ Bump(r, s.breaches) <= Bump(r, streak[r].above)
      /\ Bump(r, s.recovery) <= Bump(r, streak[r].below)
  BY <1>1, <1>3
<1>6. /\ Threshold(ConsecutiveBreaches[r]) \in Nat /\ Threshold(RecoverySamples[r]) \in Nat
      /\ Bump(r, s.breaches) \in Nat /\ Bump(r, s.recovery) \in Nat
      /\ Bump(r, streak[r].above) \in Nat /\ Bump(r, streak[r].below) \in Nat
  BY <1>1, <1>4, CapFacts
<1>7. CASE r \in run[g].breached
  <2>1. states'[r] = Breach(s, r)
    BY <1>7 DEF Evaluate, Transition
  <2>2. streak'[r] = [above |-> Bump(r, streak[r].above), below |-> 0]
    BY <1>7 DEF Evaluate, Extend
  <2>3. /\ Breach(s, r).breaches = Bump(r, s.breaches) /\ Breach(s, r).recovery = 0
        /\ s.status = "OK" /\ Breach(s, r).status = "OPEN" =>
             Bump(r, s.breaches) >= Threshold(ConsecutiveBreaches[r])
        /\ s.status = "OPEN" => Breach(s, r).status = "OPEN"
    BY <1>1 DEF Breach, RuleStates
  <2> HIDE DEF s
  <2> QED
    BY <1>5, <1>6, <2>1, <2>2, <2>3 DEF s
<1>8. CASE r \notin run[g].breached
  <2>1. states'[r] = Recover(s, r)
    BY <1>8 DEF Evaluate, Transition
  <2>2. streak'[r] = [above |-> 0, below |-> Bump(r, streak[r].below)]
    BY <1>8 DEF Evaluate, Extend
  <2>3. /\ Recover(s, r).breaches = 0
        /\ Recover(s, r).recovery \in {0, Bump(r, s.recovery)}
        /\ s.status = "OPEN" /\ Recover(s, r).status = "OK" =>
             Bump(r, s.recovery) >= Threshold(RecoverySamples[r])
        /\ s.status = "OK" => Recover(s, r).status = "OK"
    BY <1>1 DEF Recover, RuleStates
  <2> QED
    BY <1>5, <1>6, <2>1, <2>2, <2>3
<1> QED
  BY <1>7, <1>8

\* Any other step leaves what StreakInv speaks of, unless a sample is undone.
LEMMA OtherSteps ==
  ASSUME TypeOK, [Next]_vars, ~rewound', ~\E g \in Runs : Evaluate(g)
  PROVE  /\ ~rewound /\ UNCHANGED streak
         /\ \A r \in Rules : SameProgress(states'[r], states[r])
<1>1. ASSUME NEW g \in Runs, SetOpenIncidentID(g)
      PROVE  \A r \in Rules : SameProgress(states'[r], states[r])
  <2>1. UNCHANGED states \/ states' = [states EXCEPT ![run[g].rule].incident =
                                                     IF open = NoId THEN @ ELSE open]
    BY <1>1 DEF SetOpenIncidentID
  <2> QED
    BY <2>1 DEF TypeOK, RuleStates, SameProgress
<1>2. CASE \E g \in Runs : SetOpenIncidentID(g)
  <2>1. UNCHANGED <<streak, rewound>>
    BY <1>2 DEF SetOpenIncidentID
  <2> QED
    BY <1>1, <1>2, <2>1
<1>3. CASE Restart
  <2>1. ~rewound /\ \A r \in Rules : SameProgress(states[r], disk[r])
    BY <1>3 DEF Restart, TypeOK
  <2> QED
    BY <1>3, <2>1 DEF Restart, SameProgress
<1>4. CASE UNCHANGED <<states, streak, rewound>>
  BY <1>4 DEF SameProgress
<1> QED
  BY <1>2, <1>3, <1>4 DEF Next, Execute, Sample, OpenIncident, CloseIncident, ActionsDone,
       ReportHealthy, ReportFailed, DatabaseChanges, ResolveIncident, vars

LEMMA StreakNext ==
  ASSUME TypeOK, StreakInv, [Next]_vars
  PROVE  StreakInv'
<1> SUFFICES ASSUME ~rewound'
             PROVE  \A r \in Rules : /\ states'[r].breaches <= streak'[r].above
                                     /\ states'[r].recovery <= streak'[r].below
  BY DEF StreakInv
<1>1. ASSUME NEW g \in Runs, Evaluate(g)
      PROVE  \A r \in Rules : /\ states'[r].breaches <= streak'[r].above
                              /\ states'[r].recovery <= streak'[r].below
  <2>1. ~rewound
    BY <1>1 DEF Evaluate
  <2> QED
    BY <1>1, <2>1, EvaluateRule
<1>2. CASE ~\E g \in Runs : Evaluate(g)
  BY <1>2, OtherSteps DEF StreakInv, SameProgress
<1> QED
  BY <1>1, <1>2

\* One step of the two action properties.
LEMMA StatusSteps ==
  ASSUME TypeOK, StreakInv, [Next]_vars, ~rewound', NEW r \in Rules
  PROVE  /\ states[r].status = "OK" /\ states'[r].status = "OPEN" =>
              streak'[r].above >= Threshold(ConsecutiveBreaches[r])
         /\ states[r].status = "OPEN" /\ states'[r].status = "OK" =>
              streak'[r].below >= Threshold(RecoverySamples[r])
<1>1. ASSUME NEW g \in Runs, Evaluate(g)
      PROVE  /\ states[r].status = "OK" /\ states'[r].status = "OPEN" =>
                  streak'[r].above >= Threshold(ConsecutiveBreaches[r])
             /\ states[r].status = "OPEN" /\ states'[r].status = "OK" =>
                  streak'[r].below >= Threshold(RecoverySamples[r])
  <2>1. UNCHANGED rewound
    BY <1>1 DEF Evaluate
  <2> QED
    BY <1>1, <2>1, EvaluateRule
<1>2. CASE ~\E g \in Runs : Evaluate(g)
  BY <1>2, OtherSteps DEF SameProgress
<1> QED
  BY <1>1, <1>2

\* A rule opens only at the end of a streak of ConsecutiveBreaches samples above its
\* threshold, across any number of interleaved executions and restarts, as long as
\* no restart finds a file that persistStates failed to write (transition).
THEOREM OpensTheorem == Spec => OpensOnStreak
<1>1. TypeOK /\ StreakInv /\ [Next]_vars =>
        [\A r \in Rules :
           ~rewound' /\ states[r].status = "OK" /\ states'[r].status = "OPEN" =>
               streak'[r].above >= Threshold(ConsecutiveBreaches[r])]_vars
  BY StatusSteps
<1> QED
  BY <1>1, TypeCorrect, StreakInit, StreakNext, PTL DEF Spec, OpensOnStreak

\* In the same way it closes only at the end of a streak of RecoverySamples samples
\* that are not above it.
THEOREM ClosesTheorem == Spec => ClosesOnStreak
<1>1. TypeOK /\ StreakInv /\ [Next]_vars =>
        [\A r \in Rules :
           ~rewound' /\ states[r].status = "OPEN" /\ states'[r].status = "OK" =>
               streak'[r].below >= Threshold(RecoverySamples[r])]_vars
  BY StatusSteps
<1> QED
  BY <1>1, TypeCorrect, StreakInit, StreakNext, PTL DEF Spec, ClosesOnStreak

-----------------------------------------------------------------------------
(***************************************************************************)
(* MySQL samples.  Any two readings of the server agree: within one life   *)
(* of the server the counter grew by what was counted, and what a later    *)
(* life shows was counted after every reading of an earlier one.           *)
(***************************************************************************)
SampleDocs == [id : Nat, at : Nat, count : Nat, total : Nat, boot : Nat, pos : Nat]
ExecSteps  == {"idle", "collect", "append", "previous", "delta", "evaluate"}
DeltaDocs  == [id : Nat, current : SampleDocs, previous : SampleDocs, diff : Nat]

SamplesTypeOK ==
    /\ counter \in Nat /\ total \in Nat /\ boot \in Nat /\ stamp \in Nat /\ nextSample \in Nat /\ inserted \in Nat
    /\ samples \subseteq SampleDocs /\ deltas \subseteq DeltaDocs
    /\ exec \in [Executions -> [pc : ExecSteps, sample : SampleDocs, previous : SampleDocs]]

Agree(x, y) ==
    /\ x.boot = y.boot => x.total - x.count = y.total - y.count
    /\ x.boot < y.boot => x.total + y.count <= y.total

Taken(e) == exec[e].pc \in {"append", "previous", "delta", "evaluate"}

Readings ==
    samples \cup {exec[e].sample : e \in {f \in Executions : Taken(f)}}
            \cup {exec[e].previous : e \in {f \in Executions : exec[f].pc = "delta"}}
            \cup {d.current : d \in deltas} \cup {d.previous : d \in deltas}

\* What the server shows now.
Now == [boot |-> boot, total |-> total, count |-> counter]

ReadingsAgree ==
    /\ \A x \in Readings : x.boot <= boot /\ x.total <= total /\ Agree(x, Now)
    /\ \A x, y \in Readings : Agree(x, y)

SamplesInv ==
    /\ SamplesTypeOK /\ ReadingsAgree
    /\ sampleStore = "mongo" => \A e \in Executions : exec[e].pc = "delta" => exec[e].previous.at < exec[e].sample.at
    /\ \A d \in deltas : /\ sampleStore = "mongo" => d.previous.at < d.current.at
                         /\ d.diff = counterDiff(d.current.count, d.previous.count)
    /\ \A d, x \in deltas : x.id = d.id => x = d
    /\ \A v \in evidence : (sampleStore = "mongo" /\ v.stored) => v.newer

LEMMA SampleFields ==
    /\ \A x \in SampleDocs : x.id \in Nat /\ x.at \in Nat /\ x.count \in Nat /\ x.total \in Nat /\ x.boot \in Nat /\ x.pos \in Nat
    /\ \A d \in DeltaDocs : d.current \in SampleDocs /\ d.previous \in SampleDocs
    /\ NoSample \in SampleDocs
BY DEF SampleDocs, DeltaDocs, NoSample

LEMMA SamplesInitInv == SamplesInit => SamplesInv
<1> SUFFICES ASSUME SamplesInit PROVE SamplesInv
  OBVIOUS
<1>1. SamplesTypeOK
  BY SampleFields DEF SamplesInit, SamplesTypeOK, NoExec, ExecSteps
<1>2. Readings = {}
  BY DEF SamplesInit, Readings, Taken, NoExec
<1> QED
  BY <1>1, <1>2 DEF SamplesInv, ReadingsAgree, SamplesInit, NoExec

LEMMA ReadingsType == SamplesTypeOK => Readings \subseteq SampleDocs
BY SampleFields DEF SamplesTypeOK, Readings

Same(x, y) == x.boot = y.boot /\ x.total = y.total /\ x.count = y.count

\* A step that keeps the server keeps the agreement when every reading after it
\* is one from before or the present one.
LEMMA NewReadings ==
    ASSUME SamplesInv, UNCHANGED <<counter, total, boot>>, SamplesTypeOK',
           \A x \in Readings' : Same(x, Now) \/ \E y \in Readings : Same(x, y)
    PROVE  ReadingsAgree'
<1>1. Readings \subseteq SampleDocs /\ Readings' \subseteq SampleDocs
  BY ReadingsType DEF SamplesInv, SamplesTypeOK, Readings, SampleDocs, DeltaDocs, Taken
<1>2. \A x \in SampleDocs : x.count \in Nat /\ x.total \in Nat /\ x.boot \in Nat
  BY SampleFields
<1>3. counter \in Nat /\ total \in Nat /\ boot \in Nat /\ Now' = Now
  BY DEF SamplesInv, SamplesTypeOK, Now
<1>4. Now.boot = boot /\ Now.total = total /\ Now.count = counter
  BY DEF Now
<1>5. ASSUME NEW x \in Readings' PROVE x.boot <= boot /\ x.total <= total /\ Agree(x, Now)
  <2>1. CASE Same(x, Now)
    BY <1>1, <1>2, <1>3, <1>4, <2>1 DEF Same, Agree
  <2>2. CASE \E y \in Readings : Same(x, y)
    BY <1>3, <1>4, <2>2 DEF Same, Agree, SamplesInv, ReadingsAgree
  <2> QED
    BY <1>5, <2>1, <2>2
<1>6. ASSUME NEW x \in Readings', NEW y \in Readings' PROVE Agree(x, y)
  <2>1. CASE Same(y, Now)
    BY <1>5, <2>1 DEF Same, Agree
  <2>2. CASE Same(x, Now)
    <3>1. y.boot \in Nat /\ y.total \in Nat /\ y.count \in Nat /\ y.boot <= boot /\ Agree(y, Now)
      BY <1>1, <1>2, <1>5
    <3> QED
      BY <1>3, <1>4, <2>2, <3>1 DEF Same, Agree
  <2>3. CASE \E u, v \in Readings : Same(x, u) /\ Same(y, v)
    BY <2>3 DEF Same, Agree, SamplesInv, ReadingsAgree
  <2> QED
    BY <2>1, <2>2, <2>3
<1> QED
  BY <1>3, <1>5, <1>6 DEF ReadingsAgree

LEMMA ServerCountsStep == ASSUME SamplesInv, ServerCounts \/ ServerRestarts PROVE SamplesInv'
<1>1. /\ UNCHANGED <<sampleStore, stamp, nextSample, samples, inserted, deltas, exec, evidence>>
      /\ \/ total' = total + 1 /\ counter' = counter + 1 /\ boot' = boot
         \/ boot' = boot + 1 /\ counter' = 0 /\ total' = total
  BY DEF ServerCounts, ServerRestarts
<1>2. SamplesTypeOK' /\ Readings' = Readings
  BY <1>1 DEF SamplesInv, SamplesTypeOK, Readings, Taken
<1>3. counter \in Nat /\ total \in Nat /\ boot \in Nat
  BY DEF SamplesInv, SamplesTypeOK
<1>4. ASSUME NEW x \in Readings PROVE x.boot <= boot' /\ x.total <= total' /\ Agree(x, Now')
  <2>1. x.boot \in Nat /\ x.total \in Nat /\ x.count \in Nat /\ x.boot <= boot /\ x.total <= total /\ Agree(x, Now)
    BY ReadingsType, SampleFields DEF SamplesInv, ReadingsAgree
  <2>2. /\ x.boot = boot => x.total - x.count = total - counter
        /\ x.boot < boot => x.total + counter <= total
    BY <2>1 DEF Agree, Now
  <2>3. /\ x.boot = boot' => x.total - x.count = total' - counter'
        /\ x.boot < boot' => x.total + counter' <= total'
    BY <1>1, <1>3, <2>1, <2>2
  <2> QED
    BY <1>1, <1>3, <2>1, <2>3 DEF Agree, Now
<1>5. ReadingsAgree'
  BY <1>2, <1>4 DEF SamplesInv, ReadingsAgree, Agree
<1> QED
  BY <1>1, <1>2, <1>5 DEF SamplesInv, counterDiff

LEMMA StampedStep == ASSUME SamplesInv, NEW e \in Executions, NEW t \in 1 .. MaxStamp, Stamped(e, t) PROVE SamplesInv'
<1> DEFINE s == [NoSample EXCEPT !.id = nextSample, !.at = t]
           x == [exec[e] EXCEPT !.pc = "collect", !.sample = s]
<1>1. /\ exec' = [exec EXCEPT ![e] = x] /\ stamp' = t /\ nextSample' = nextSample + 1 /\ t \in {stamp, stamp + 1}
      /\ exec[e].pc = "idle"
      /\ UNCHANGED <<sampleStore, counter, total, boot, samples, inserted, deltas, evidence>>
  BY DEF Stamped
<1>3. stamp \in Nat /\ nextSample \in Nat /\ t \in Nat /\ exec \in [Executions -> [pc : ExecSteps, sample : SampleDocs, previous : SampleDocs]]
  BY <1>1 DEF SamplesInv, SamplesTypeOK
<1>10. s \in SampleDocs
  BY <1>3 DEF NoSample, SampleDocs
<1> HIDE DEF s
<1>4. x \in [pc : ExecSteps, sample : SampleDocs, previous : SampleDocs] /\ x.pc = "collect"
  BY <1>10, <1>3 DEF ExecSteps
<1> HIDE DEF x
<1>5. exec' \in [Executions -> [pc : ExecSteps, sample : SampleDocs, previous : SampleDocs]]
  BY <1>1, <1>3, <1>4
<1>6. SamplesTypeOK'
  BY <1>1, <1>3, <1>5 DEF SamplesInv, SamplesTypeOK
<1>7. \A f \in Executions : exec'[f] = exec[f] \/ exec'[f].pc = "collect"
  BY <1>1, <1>3, <1>4
<1>8. \A y \in Readings' : y \in Readings
  BY <1>1, <1>7 DEF Readings, Taken
<1>9. ReadingsAgree'
  BY <1>1, <1>6, <1>8, NewReadings DEF Same
<1> QED
  BY <1>1, <1>6, <1>7, <1>9 DEF SamplesInv, counterDiff

LEMMA CollectStep == ASSUME SamplesInv, NEW e \in Executions, Collect(e) PROVE SamplesInv'
<1> DEFINE s == [exec[e].sample EXCEPT !.count = counter, !.total = total, !.boot = boot]
           x == [exec[e] EXCEPT !.pc = "append", !.sample = s]
<1>1. /\ exec' = [exec EXCEPT ![e] = x] \/ exec' = [exec EXCEPT ![e] = NoExec]
      /\ exec[e].pc = "collect"
      /\ UNCHANGED <<sampleStore, counter, total, boot, stamp, nextSample, samples, inserted, deltas, evidence>>
  BY DEF Collect
<1>2. exec \in [Executions -> [pc : ExecSteps, sample : SampleDocs, previous : SampleDocs]] /\ counter \in Nat /\ total \in Nat /\ boot \in Nat
  BY DEF SamplesInv, SamplesTypeOK
<1>3. exec[e].sample \in SampleDocs
  BY <1>2
<1>4. s \in SampleDocs /\ s.count = counter /\ s.total = total /\ s.boot = boot
  BY <1>2, <1>3 DEF SampleDocs
<1> HIDE DEF s
<1>5. x \in [pc : ExecSteps, sample : SampleDocs, previous : SampleDocs] /\ x.pc = "append" /\ x.sample = s
  BY <1>2, <1>4 DEF ExecSteps
<1> HIDE DEF x
<1>6. NoExec \in [pc : ExecSteps, sample : SampleDocs, previous : SampleDocs] /\ NoExec.pc = "idle"
  BY SampleFields DEF NoExec, ExecSteps
<1>7. exec' \in [Executions -> [pc : ExecSteps, sample : SampleDocs, previous : SampleDocs]]
  BY <1>1, <1>2, <1>5, <1>6
<1>8. SamplesTypeOK'
  BY <1>1, <1>2, <1>7 DEF SamplesInv, SamplesTypeOK
<1>9. \A f \in Executions : exec'[f] = exec[f] \/ exec'[f].pc = "idle" \/ (exec'[f].pc = "append" /\ exec'[f].sample = s)
  BY <1>1, <1>2, <1>5, <1>6
<1>10. \A y \in Readings' : y \in Readings \/ y = s
  BY <1>1, <1>9 DEF Readings, Taken
<1>11. Same(s, Now)
  BY <1>4 DEF Same, Now
<1>12. ReadingsAgree'
  BY <1>1, <1>8, <1>10, <1>11, NewReadings DEF Same
<1> QED
  BY <1>1, <1>8, <1>9, <1>12 DEF SamplesInv, counterDiff

LEMMA AppendSampleStep == ASSUME SamplesInv, NEW e \in Executions, AppendSample(e) PROVE SamplesInv'
<1> DEFINE s == [exec[e].sample EXCEPT !.pos = inserted]
           x(p) == [exec[e] EXCEPT !.pc = p, !.sample = s]
<1>1. PICK p \in {"previous", "evaluate"} :
        /\ exec' = [exec EXCEPT ![e] = x(p)] /\ exec[e].pc = "append"
        /\ samples' = samples \/ samples' = samples \cup {s}
        /\ inserted' = IF sampleStore = "file" THEN inserted + 1 ELSE inserted
        /\ UNCHANGED <<sampleStore, counter, total, boot, stamp, nextSample, deltas, evidence>>
  BY DEF AppendSample
<1>2. exec \in [Executions -> [pc : ExecSteps, sample : SampleDocs, previous : SampleDocs]] /\ inserted \in Nat
  BY DEF SamplesInv, SamplesTypeOK
<1>3. exec[e].sample \in SampleDocs
  BY <1>2
<1>4. s \in SampleDocs /\ Same(s, exec[e].sample)
  BY <1>2, <1>3 DEF SampleDocs, Same
<1> HIDE DEF s
<1>5. x(p) \in [pc : ExecSteps, sample : SampleDocs, previous : SampleDocs] /\ x(p).pc = p /\ x(p).sample = s
  BY <1>1, <1>2, <1>4 DEF ExecSteps
<1> HIDE DEF x
<1>6. exec' \in [Executions -> [pc : ExecSteps, sample : SampleDocs, previous : SampleDocs]]
  BY <1>1, <1>2, <1>5
<1>7. SamplesTypeOK'
  BY <1>1, <1>2, <1>4, <1>6 DEF SamplesInv, SamplesTypeOK
<1>8. \A f \in Executions : exec'[f] = exec[f] \/ (exec'[f].pc # "delta" /\ exec'[f].sample = s)
  BY <1>1, <1>2, <1>5
<1>9. exec[e].sample \in Readings
  BY <1>1 DEF Readings, Taken
<1>10. \A y \in Readings' : y \in Readings \/ y = s
  BY <1>1, <1>8 DEF Readings, Taken
<1>11. ReadingsAgree'
  BY <1>1, <1>4, <1>7, <1>9, <1>10, NewReadings DEF Same
<1> QED
  BY <1>1, <1>7, <1>8, <1>11 DEF SamplesInv, counterDiff

LEMMA FindPreviousStep == ASSUME SamplesInv, NEW e \in Executions, FindPrevious(e) PROVE SamplesInv'
<1>1. /\ exec[e].pc = "previous"
      /\ \/ /\ exec[e].sample \in samples
            /\ \E p \in PreviousOf(exec[e].sample) : exec' = [exec EXCEPT ![e] = [exec[e] EXCEPT !.pc = "delta", !.previous = p]]
         \/ exec' = [exec EXCEPT ![e] = [exec[e] EXCEPT !.pc = "evaluate"]]
      /\ UNCHANGED <<sampleStore, counter, total, boot, stamp, nextSample, samples, inserted, deltas, evidence>>
  BY DEF FindPrevious, Running
<1>2. exec \in [Executions -> [pc : ExecSteps, sample : SampleDocs, previous : SampleDocs]] /\ samples \subseteq SampleDocs
  BY DEF SamplesInv, SamplesTypeOK
<1>3. ASSUME NEW p \in PreviousOf(exec[e].sample),
             exec' = [exec EXCEPT ![e] = [exec[e] EXCEPT !.pc = "delta", !.previous = p]]
      PROVE  SamplesInv'
  <2>1. p \in samples /\ (sampleStore = "mongo" => p.at < exec[e].sample.at)
    BY DEF PreviousOf
  <2> DEFINE x == [exec[e] EXCEPT !.pc = "delta", !.previous = p]
  <2>2. /\ x \in [pc : ExecSteps, sample : SampleDocs, previous : SampleDocs]
        /\ x.pc = "delta" /\ x.previous = p /\ x.sample = exec[e].sample
    BY <1>2, <2>1 DEF ExecSteps
  <2>3. exec' = [exec EXCEPT ![e] = x]
    BY <1>3
  <2> HIDE DEF x
  <2>4. exec' \in [Executions -> [pc : ExecSteps, sample : SampleDocs, previous : SampleDocs]]
    BY <1>2, <2>2, <2>3
  <2>5. SamplesTypeOK'
    BY <1>1, <2>4 DEF SamplesInv, SamplesTypeOK
  <2>6. \A f \in Executions : exec'[f] = exec[f] \/ (f = e /\ exec'[f] = x)
    BY <1>2, <2>3
  <2>7. \A y \in Readings' : y \in Readings
    <3>1. exec[e].sample \in Readings
      BY <1>1 DEF Readings, Taken
    <3> DEFINE s == exec[e].sample
    <3> HIDE DEF s
    <3>2. \A f \in Executions : \/ exec'[f] = exec[f]
                               \/ (exec'[f].pc = "delta" /\ exec'[f].sample = s /\ exec'[f].previous = p)
      BY <2>2, <2>6 DEF s
    <3>3. ASSUME NEW y \in Readings' PROVE y \in Readings \/ y = s \/ y = p
      <4>1. \/ \E f \in Executions : exec'[f].pc \in {"append", "previous", "delta", "evaluate"} /\ y = exec'[f].sample
            \/ \E f \in Executions : exec'[f].pc = "delta" /\ y = exec'[f].previous
            \/ y \in samples \cup {d.current : d \in deltas} \cup {d.previous : d \in deltas}
        BY <1>1, <3>3 DEF Readings, Taken
      <4> QED
        BY <3>2, <4>1 DEF Readings, Taken
    <3> QED
      BY <2>1, <3>1, <3>3 DEF Readings, s
  <2>8. ReadingsAgree'
    BY <1>1, <2>5, <2>7, NewReadings DEF Same
  <2> QED
    BY <1>1, <2>1, <2>2, <2>5, <2>6, <2>8 DEF SamplesInv, counterDiff
<1>4. ASSUME exec' = [exec EXCEPT ![e] = [exec[e] EXCEPT !.pc = "evaluate"]] PROVE SamplesInv'
  <2> DEFINE x == [exec[e] EXCEPT !.pc = "evaluate"]
  <2>2. x \in [pc : ExecSteps, sample : SampleDocs, previous : SampleDocs] /\ x.pc = "evaluate" /\ x.sample = exec[e].sample
    BY <1>2 DEF ExecSteps
  <2>3. exec' = [exec EXCEPT ![e] = x]
    BY <1>4
  <2> HIDE DEF x
  <2>4. exec' \in [Executions -> [pc : ExecSteps, sample : SampleDocs, previous : SampleDocs]]
    BY <1>2, <2>2, <2>3
  <2>5. SamplesTypeOK'
    BY <1>1, <2>4 DEF SamplesInv, SamplesTypeOK
  <2>6. \A f \in Executions : exec'[f] = exec[f] \/ (f = e /\ exec'[f] = x)
    BY <1>2, <2>3
  <2>7. \A y \in Readings' : y \in Readings
    <3>1. exec[e].sample \in Readings
      BY <1>1 DEF Readings, Taken
    <3> DEFINE s == exec[e].sample
    <3> HIDE DEF s
    <3>2. \A f \in Executions : exec'[f] = exec[f] \/ (exec'[f].pc = "evaluate" /\ exec'[f].sample = s)
      BY <2>2, <2>6 DEF s
    <3>3. ASSUME NEW y \in Readings' PROVE y \in Readings \/ y = s
      <4>1. \/ \E f \in Executions : exec'[f].pc \in {"append", "previous", "delta", "evaluate"} /\ y = exec'[f].sample
            \/ \E f \in Executions : exec'[f].pc = "delta" /\ y = exec'[f].previous
            \/ y \in samples \cup {d.current : d \in deltas} \cup {d.previous : d \in deltas}
        BY <1>1, <3>3 DEF Readings, Taken
      <4> QED
        BY <3>2, <4>1 DEF Readings, Taken
    <3> QED
      BY <3>1, <3>3 DEF s
  <2>8. ReadingsAgree'
    BY <1>1, <2>5, <2>7, NewReadings DEF Same
  <2> QED
    BY <1>1, <2>2, <2>5, <2>6, <2>8 DEF SamplesInv, counterDiff
<1> QED
  BY <1>1, <1>3, <1>4

LEMMA InsertDeltaStep == ASSUME SamplesInv, NEW e \in Executions, InsertDelta(e) PROVE SamplesInv'
<1> DEFINE s == exec[e].sample
           p == exec[e].previous
           d == DeltaOf(s, p)
           x == [exec[e] EXCEPT !.pc = "evaluate"]
<1>1. /\ exec[e].pc = "delta" /\ exec' = [exec EXCEPT ![e] = x]
      /\ deltas' = deltas \/ (deltas' = deltas \cup {d} /\ \A y \in deltas : y.id # d.id)
      /\ UNCHANGED <<sampleStore, counter, total, boot, stamp, nextSample, samples, inserted, evidence>>
  BY DEF InsertDelta, Running
<1>2. exec \in [Executions -> [pc : ExecSteps, sample : SampleDocs, previous : SampleDocs]] /\ deltas \subseteq DeltaDocs
  BY DEF SamplesInv, SamplesTypeOK
<1>3. x \in [pc : ExecSteps, sample : SampleDocs, previous : SampleDocs] /\ x.pc = "evaluate" /\ x.sample = s
  BY <1>2 DEF ExecSteps
<1>4. s \in SampleDocs /\ p \in SampleDocs /\ s \in Readings /\ p \in Readings
  BY <1>1, <1>2 DEF Readings, Taken
<1>5. sampleStore = "mongo" => p.at < s.at
  BY <1>1 DEF SamplesInv
<1>6. /\ d.current = s /\ d.previous = p /\ d.diff = counterDiff(s.count, p.count)
      /\ d \in DeltaDocs
  BY <1>4, SampleFields DEF DeltaOf, DeltaDocs, counterDiff
<1> HIDE DEF x, d, s, p
<1>7. exec' \in [Executions -> [pc : ExecSteps, sample : SampleDocs, previous : SampleDocs]]
  BY <1>1, <1>2, <1>3
<1>8. SamplesTypeOK'
  BY <1>1, <1>2, <1>6, <1>7 DEF SamplesInv, SamplesTypeOK
<1>9. \A f \in Executions : exec'[f] = exec[f] \/ exec'[f] = x
  BY <1>1, <1>2
<1>10. \A y \in Readings' : y \in Readings
  BY <1>1, <1>3, <1>4, <1>6, <1>9 DEF Readings, Taken
<1>11. ReadingsAgree'
  BY <1>1, <1>8, <1>10, NewReadings DEF Same
<1> QED
  BY <1>1, <1>3, <1>5, <1>6, <1>8, <1>9, <1>11 DEF SamplesInv, counterDiff

LEMMA CaptureEvidenceStep == ASSUME SamplesInv, NEW e \in Executions, CaptureEvidence(e) PROVE SamplesInv'
<1>1. /\ exec' = [exec EXCEPT ![e] = NoExec]
      /\ UNCHANGED <<sampleStore, counter, total, boot, stamp, nextSample, samples, inserted, deltas>>
      /\ \/ evidence' = evidence
         \/ \E s \in Latest : evidence' = {[stored |-> exec[e].sample \in samples, newer |-> s.at >= exec[e].sample.at]}
  BY DEF CaptureEvidence
<1>2. exec \in [Executions -> [pc : ExecSteps, sample : SampleDocs, previous : SampleDocs]] /\ samples \subseteq SampleDocs
  BY DEF SamplesInv, SamplesTypeOK
<1>3. NoExec \in [pc : ExecSteps, sample : SampleDocs, previous : SampleDocs] /\ NoExec.pc = "idle"
  BY SampleFields DEF NoExec, ExecSteps
<1>4. exec' \in [Executions -> [pc : ExecSteps, sample : SampleDocs, previous : SampleDocs]]
  BY <1>1, <1>2, <1>3
<1>5. SamplesTypeOK'
  BY <1>1, <1>4 DEF SamplesInv, SamplesTypeOK
<1>6. \A f \in Executions : exec'[f] = exec[f] \/ exec'[f].pc = "idle"
  BY <1>1, <1>2, <1>3
<1>7. \A y \in Readings' : y \in Readings
  BY <1>1, <1>6 DEF Readings, Taken
<1>8. ReadingsAgree'
  BY <1>1, <1>5, <1>7, NewReadings DEF Same
<1>9. \A v \in evidence' : (sampleStore = "mongo" /\ v.stored) => v.newer
  <2>1. ASSUME NEW s \in Latest, sampleStore = "mongo", exec[e].sample \in samples PROVE s.at >= exec[e].sample.at
    BY <1>2, <2>1, SampleFields DEF Latest
  <2>2. CASE evidence' = evidence
    BY <1>1, <2>2 DEF SamplesInv
  <2>3. ASSUME NEW s \in Latest,
               evidence' = {[stored |-> exec[e].sample \in samples, newer |-> s.at >= exec[e].sample.at]},
               sampleStore = "mongo", NEW v \in evidence', v.stored
        PROVE  v.newer
    <3>1. v = [stored |-> exec[e].sample \in samples, newer |-> s.at >= exec[e].sample.at]
      BY <2>3
    <3>2. v.stored = (exec[e].sample \in samples) /\ v.newer = (s.at >= exec[e].sample.at)
      BY <3>1, Zenon
    <3>3. exec[e].sample \in samples
      BY <2>3, <3>2, Zenon
    <3>4. s.at >= exec[e].sample.at
      BY <2>1, <2>3, <3>3
    <3> QED
      BY <3>2, <3>4, Zenon
  <2> QED
    BY <1>1, <2>2, <2>3
<1> QED
  BY <1>1, <1>5, <1>6, <1>8, <1>9 DEF SamplesInv, counterDiff

LEMMA PruneSamplesStep == ASSUME SamplesInv, NEW cutoff \in Nat, PruneSamples(cutoff) PROVE SamplesInv'
<1>1. /\ samples' \subseteq samples /\ deltas' \subseteq deltas
      /\ UNCHANGED <<sampleStore, counter, total, boot, stamp, nextSample, inserted, exec, evidence>>
  BY DEF PruneSamples
<1>2. SamplesTypeOK'
  BY <1>1 DEF SamplesInv, SamplesTypeOK
<1>3. \A y \in Readings' : y \in Readings
  BY <1>1 DEF Readings, Taken
<1>4. ReadingsAgree'
  BY <1>1, <1>2, <1>3, NewReadings DEF Same
<1> QED
  BY <1>1, <1>2, <1>4 DEF SamplesInv, counterDiff

LEMMA SamplesStep == ASSUME SamplesInv, [SamplesNext]_sampleVars PROVE SamplesInv'
<1>1. CASE SamplesNext
  <2>1. stamp \in Nat
    BY DEF SamplesInv, SamplesTypeOK
  <2> QED
    BY <1>1, <2>1, ServerCountsStep, StampedStep, CollectStep, AppendSampleStep, FindPreviousStep, InsertDeltaStep,
       CaptureEvidenceStep, PruneSamplesStep DEF SamplesNext
<1>2. CASE UNCHANGED sampleVars
  <2>1. SamplesTypeOK' /\ Readings' = Readings /\ Now' = Now
    BY <1>2 DEF sampleVars, SamplesInv, SamplesTypeOK, Readings, Taken, Now
  <2> QED
    BY <1>2, <2>1 DEF sampleVars, SamplesInv, ReadingsAgree, Agree, counterDiff
<1> QED
  BY <1>1, <1>2

LEMMA InvDeltasSound == SamplesInv => DeltasSound
<1> SUFFICES ASSUME SamplesInv PROVE DeltasSound
  OBVIOUS
<1>1. ASSUME NEW d \in deltas, ReadBefore(d.previous, d.current) PROVE d.diff <= d.current.total - d.previous.total
  <2> DEFINE s == d.current
             p == d.previous
  <2>1. s \in SampleDocs /\ p \in SampleDocs
    BY SampleFields DEF SamplesInv, SamplesTypeOK
  <2>2. s.count \in Nat /\ s.total \in Nat /\ s.boot \in Nat /\ p.count \in Nat /\ p.total \in Nat /\ p.boot \in Nat
    BY <2>1, SampleFields
  <2>3. Agree(p, s)
    BY DEF SamplesInv, ReadingsAgree, Readings
  <2>4. d.diff = counterDiff(s.count, p.count)
    BY DEF SamplesInv
  <2> QED
    BY <1>1, <2>2, <2>3, <2>4 DEF ReadBefore, Agree, counterDiff
<1> QED
  BY <1>1 DEF DeltasSound, SamplesInv

\* No delta exceeds what the server counted between two readings taken in the order
\* of their stamps, a sample has at most one delta, and the evidence of an incident
\* is as recent as its sample (ComputeAndAppendDelta, counterDiff, CaptureEvidence).
THEOREM DeltasTheorem == SamplesSpec => []DeltasSound
<1>1. SamplesInit => SamplesInv
  BY SamplesInitInv
<1>2. SamplesInv /\ [SamplesNext]_sampleVars => SamplesInv'
  BY SamplesStep
<1> QED
  BY <1>1, <1>2, InvDeltasSound, PTL DEF SamplesSpec

=============================================================================
