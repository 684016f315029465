------------------------- MODULE AlertPipelineProofs -------------------------
(***************************************************************************)
(* Proofs about AlertPipeline: type correctness, and that the thresholds   *)
(* decide when incidents open and resolve, for any thresholds and any      *)
(* number of overlapping calls; and, further down, about the rules that    *)
(* decide which results raise an alert (AlertRules) and the windows that   *)
(* hold alerts back (Maintenance).                                         *)
(*                                                                         *)
(* The counters never exceed the true streaks, since a restart only sets   *)
(* them to zero, and a call that has passed a threshold finds its counter  *)
(* as it read it when it acts, unless another call has overtaken it.       *)
(***************************************************************************)
EXTENDS AlertPipeline, AlertRules, Maintenance, FiniteSetTheorems, SequenceTheorems,
        WellFoundedInduction, TLAPS

LEMMA CapFacts ==
  /\ Threshold(FailuresToOpen) \in Nat /\ Threshold(SuccessesToResolve) \in Nat
  /\ Cap \in Nat
  /\ \A n \in 0..Cap : Bump(n) \in 0..Cap
BY AlertPipelineAssumption DEF Threshold, Cap, Bump

LEMMA CountFacts ==
  ASSUME NEW counts \in Counts, NEW kind \in Kinds
  PROVE  Count(counts, kind) \in Counts /\ Extend(counts, kind) \in Counts
BY CapFacts DEF Count, Extend, Counts

LEMMA IdleType == IdleHandler \in HandlerStates /\ NoCounts \in Counts
BY AlertPipelineAssumption, CapFacts
   DEF IdleHandler, HandlerStates, PCs, AnyCheck, NoCounts, Counts

LEMMA TypeInit == Init => TypeOK
BY IdleType DEF Init, TypeOK, Kinds

LEMMA TypeNext == TypeOK /\ [Next]_vars => TypeOK'
<1> SUFFICES ASSUME TypeOK, [Next]_vars PROVE TypeOK'
  OBVIOUS
<1> USE DEF TypeOK
<1>1. ASSUME NEW h \in Handlers, NEW batch \in Batches, Run(h, batch) PROVE TypeOK'
  <2>1. [IdleHandler EXCEPT !.pc = "track",
           !.results = [c \in Checks |-> IF c \in batch THEN service[c] ELSE "none"]]
        \in HandlerStates
    BY IdleType DEF HandlerStates, PCs
  <2> QED
    BY <1>1, <2>1 DEF Run
<1>2. ASSUME NEW h \in Handlers, HandleAlertResults(h) PROVE TypeOK'
  <2>0. handler[h] \in HandlerStates
    OBVIOUS
  <2>1. CASE Track(h)
    <3>1. [handler[h] EXCEPT !.pc = "evaluate", !.checkMap = stored] \in HandlerStates
      BY <2>0 DEF HandlerStates, PCs
    <3>2. \A c \in Ran(h) : handler[h].results[c] \in Kinds
      BY <2>0 DEF Ran, HandlerStates
    <3>3. tracker' \in [Checks -> Counts] /\ streak' \in [Checks -> Counts]
      BY <2>1, <3>2, CountFacts DEF Track
    <3>4. overtaken' \in [Handlers -> SUBSET Checks]
      BY <2>1 DEF Track, Ran
    <3> QED
      BY <2>1, <3>1, <3>3, <3>4 DEF Track
  <2>3. CASE EvaluateForIncidents(h)
    <3>1. [handler[h] EXCEPT !.pc = "alerts", !.alerts = Matches(h)] \in HandlerStates
      BY <2>0 DEF HandlerStates, PCs, Matches
    <3> QED
      BY <2>3, <3>1 DEF EvaluateForIncidents
  <2>4. CASE NextAlert(h)
    <3>1. PICK a \in handler[h].alerts :
            \/ handler' = [handler EXCEPT ![h].alerts = @ \ {a}, ![h].pc = "open",
                                          ![h].check = a[1]]
            \/ handler' = [handler EXCEPT ![h].alerts = @ \ {a}]
      BY <2>4 DEF NextAlert
    <3>2. a[1] \in Checks
      BY <2>0 DEF HandlerStates, Alerts
    <3>3. /\ [handler[h] EXCEPT !.alerts = @ \ {a}, !.pc = "open", !.check = a[1]]
               \in HandlerStates
          /\ [handler[h] EXCEPT !.alerts = @ \ {a}] \in HandlerStates
      BY <2>0, <3>2 DEF HandlerStates, PCs
    <3> QED
      BY <2>4, <3>1, <3>3 DEF NextAlert
  <2>5. CASE ProcessAlert(h) \/ AutoResolveOnRecovery(h)
    <3>1. /\ [handler[h] EXCEPT !.pc = "alerts"] \in HandlerStates
          /\ [handler[h] EXCEPT !.pc = "recover"] \in HandlerStates
          /\ handler[h].check \in Checks
      BY <2>0 DEF HandlerStates, PCs
    <3> QED
      BY <2>5, <3>1 DEF ProcessAlert, AutoResolveOnRecovery
  <2>6. CASE AlertsDone(h)
    <3>1. [handler[h] EXCEPT !.pc = "recover",
             !.healthy = {c \in Ran(h) : Healthy(handler[h].results[c])}] \in HandlerStates
      BY <2>0 DEF HandlerStates, PCs, Ran
    <3> QED
      BY <2>6, <3>1 DEF AlertsDone
  <2>7. CASE NextRecovered(h)
    <3>1. PICK c \in handler[h].healthy :
            \/ handler' = [handler EXCEPT ![h].healthy = @ \ {c}, ![h].pc = "resolve",
                                          ![h].check = c]
            \/ handler' = [handler EXCEPT ![h].healthy = @ \ {c}]
      BY <2>7 DEF NextRecovered
    <3>2. /\ [handler[h] EXCEPT !.healthy = @ \ {c}, !.pc = "resolve", !.check = c]
               \in HandlerStates
          /\ [handler[h] EXCEPT !.healthy = @ \ {c}] \in HandlerStates
      BY <2>0 DEF HandlerStates, PCs
    <3> QED
      BY <2>7, <3>1, <3>2 DEF NextRecovered
  <2>8. CASE Return(h)
    BY <2>8, IdleType DEF Return
  <2> QED
    BY <1>2, <2>1, <2>3, <2>4, <2>5, <2>6, <2>7, <2>8 DEF HandleAlertResults
<1>3. CASE Environment
  BY <1>3, IdleType DEF Environment, TargetChanges, DeleteCheck, MaintenanceChanges, EditRule,
                        ResolveIncident, Restart
<1>4. CASE UNCHANGED vars
  BY <1>4 DEF vars
<1> QED
  BY <1>1, <1>2, <1>3, <1>4 DEF Next

(***************************************************************************)
(* The rules, the counters, the incidents and the calls keep their types.  *)
(***************************************************************************)
THEOREM TypeCorrect == Spec => []TypeOK
BY TypeInit, TypeNext, PTL DEF Spec

-----------------------------------------------------------------------------
NotAhead(c) ==
    /\ tracker[c].failures <= streak[c].failures
    /\ tracker[c].successes <= streak[c].successes

\* The snapshot of a call holds what is still stored; a threshold that the call
\* has found passed still is, if the check exists and nobody counted since.
Decided(h) ==
    /\ ~At(h, "idle") /\ ~At(h, "track") => stored \subseteq handler[h].checkMap
    /\ handler[h].check \in stored \ overtaken[h] =>
         /\ At(h, "open") /\ handler[h].results[handler[h].check] = "down" =>
              EnoughFailures(handler[h].check)
         /\ At(h, "resolve") =>
              tracker[handler[h].check].successes >= Threshold(SuccessesToResolve)

StreakInv ==
    /\ \A c \in Checks : NotAhead(c)
    /\ \A h \in Handlers : Decided(h)

IInv == TypeOK /\ StreakInv

LEMMA StreakInit == Init => StreakInv
BY CapFacts DEF Init, StreakInv, NotAhead, Decided, At, IdleHandler, NoCounts

LEMMA CountMonotone ==
  ASSUME NEW s \in Counts, NEW t \in Counts, NEW kind \in Kinds,
         t.failures <= s.failures, t.successes <= s.successes
  PROVE  /\ Count(t, kind).failures <= Extend(s, kind).failures
         /\ Count(t, kind).successes <= Extend(s, kind).successes
<1>1. \A m, n \in 0..Cap : m <= n => Bump(m) <= Bump(n)
  BY CapFacts DEF Bump
<1> QED
  BY <1>1 DEF Count, Extend, Counts, Kinds, Healthy

LEMMA StreakNext == IInv /\ [Next]_vars => StreakInv'
<1> SUFFICES ASSUME IInv, [Next]_vars PROVE StreakInv'
  OBVIOUS
<1>0. TypeOK /\ StreakInv
  BY DEF IInv
<1>a. ASSUME NEW h \in Handlers, UNCHANGED <<stored, tracker, streak>>,
             \A g \in Handlers \ {h} : handler'[g] = handler[g] /\ overtaken'[g] = overtaken[g],
             Decided(h)'
      PROVE StreakInv'
  <2>1. \A g \in Handlers \ {h} : Decided(g)'
    BY <1>0, <1>a DEF StreakInv, Decided, At, EnoughFailures
  <2> QED
    BY <1>0, <1>a, <2>1 DEF StreakInv, NotAhead
<1>1. ASSUME NEW h \in Handlers, NEW batch \in Batches, Run(h, batch) PROVE StreakInv'
  <2>1. handler'[h].pc = "track" /\ \A g \in Handlers \ {h} : handler'[g] = handler[g]
    BY <1>0, <1>1 DEF Run, TypeOK
  <2>2. Decided(h)'
    BY <2>1 DEF Decided, At
  <2> QED
    BY <1>a, <1>1, <2>1, <2>2 DEF Run
<1>2. ASSUME NEW h \in Handlers, HandleAlertResults(h) PROVE StreakInv'
  <2>0. handler[h] \in HandlerStates
    BY <1>0 DEF TypeOK
  <2>1. CASE Track(h)
    <3>1. \A c \in Checks : NotAhead(c)'
      <4> SUFFICES ASSUME NEW c \in Checks PROVE NotAhead(c)'
        OBVIOUS
      <4>1. tracker[c] \in Counts /\ streak[c] \in Counts /\ NotAhead(c)
        BY <1>0 DEF TypeOK, StreakInv
      <4>2. CASE c \in Ran(h)
        <5>1. handler[h].results[c] \in Kinds
          BY <2>0, <4>2 DEF Ran, HandlerStates
        <5> QED
          BY <2>1, <4>1, <4>2, <5>1, CountMonotone DEF Track, NotAhead
      <4>3. CASE c \notin Ran(h)
        BY <2>1, <4>1, <4>3 DEF Track, NotAhead
      <4> QED
        BY <4>2, <4>3
    <3>2. handler'[h].pc = "evaluate" /\ handler'[h].checkMap = stored
      BY <1>0, <2>0, <2>1 DEF Track, TypeOK, HandlerStates
    <3>3. Decided(h)'
      BY <2>1, <3>2 DEF Track, Decided, At
    <3>4. ASSUME NEW g \in Handlers, g # h PROVE Decided(g)'
      <4>1. Decided(g) /\ handler'[g] = handler[g] /\ stored' = stored
        BY <1>0, <2>1, <3>4 DEF StreakInv, Track, TypeOK
      <4>2. handler[g].check \in Checks
        BY <1>0 DEF TypeOK, HandlerStates
      <4>3. CASE At(g, "idle")
        BY <4>1, <4>3 DEF Decided, At
      <4>4. CASE ~At(g, "idle")
        <5>1. overtaken'[g] = overtaken[g] \cup Ran(h)
          BY <2>1, <3>4, <4>4 DEF Track
        <5>2. handler[g].check \notin overtaken'[g] =>
                tracker'[handler[g].check] = tracker[handler[g].check]
          BY <2>1, <4>2, <5>1 DEF Track
        <5> QED
          BY <4>1, <5>1, <5>2 DEF Decided, At, EnoughFailures
      <4> QED
        BY <4>3, <4>4
    <3> QED
      BY <3>1, <3>3, <3>4 DEF StreakInv
  <2>3. Decided(h)
    BY <1>0 DEF StreakInv
  <2>4. CASE EvaluateForIncidents(h) \/ AlertsDone(h)
    <3>1. Decided(h)'
      BY <1>0, <2>0, <2>3, <2>4
         DEF EvaluateForIncidents, AlertsDone, Decided, At, TypeOK, HandlerStates
    <3> QED
      BY <1>0, <1>a, <2>4, <3>1 DEF EvaluateForIncidents, AlertsDone, TypeOK
  <2>5. CASE ProcessAlert(h) \/ AutoResolveOnRecovery(h)
    <3>1. Decided(h)'
      BY <1>0, <2>0, <2>3, <2>5
         DEF ProcessAlert, AutoResolveOnRecovery, Decided, At, TypeOK, HandlerStates
    <3> QED
      BY <1>0, <1>a, <2>5, <3>1 DEF ProcessAlert, AutoResolveOnRecovery, TypeOK
  <2>6. CASE NextAlert(h)
    <3>1. PICK a \in handler[h].alerts :
            \/ /\ Passes(h, a[1])
               /\ handler' = [handler EXCEPT ![h].alerts = @ \ {a}, ![h].pc = "open",
                                             ![h].check = a[1]]
            \/ handler' = [handler EXCEPT ![h].alerts = @ \ {a}]
      BY <2>6 DEF NextAlert
    <3>2. a[1] \in Checks /\ stored \subseteq handler[h].checkMap
      BY <2>0, <2>3, <2>6 DEF HandlerStates, Alerts, NextAlert, Decided, At
    <3>3. Passes(h, a[1]) /\ handler[h].results[a[1]] = "down" /\ a[1] \in stored =>
            EnoughFailures(a[1])
      BY <3>2 DEF Passes, Healthy
    <3>4. UNCHANGED <<stored, tracker, streak, overtaken>>
      BY <2>6 DEF NextAlert
    <3>5. /\ handler'[h].checkMap = handler[h].checkMap
          /\ \/ /\ handler'[h].pc = "open" /\ handler'[h].check = a[1] /\ Passes(h, a[1])
                /\ handler'[h].results = handler[h].results
             \/ handler'[h].pc = "alerts"
      BY <1>0, <2>0, <2>6, <3>1 DEF NextAlert, At, TypeOK, HandlerStates
    <3>6. Decided(h)'
      BY <3>2, <3>3, <3>4, <3>5 DEF Decided, At, EnoughFailures
    <3> QED
      BY <1>0, <1>a, <3>1, <3>4, <3>6 DEF TypeOK
  <2>7. CASE NextRecovered(h)
    <3>1. PICK c \in handler[h].healthy :
            \/ /\ EnoughSuccesses(h, c)
               /\ handler' = [handler EXCEPT ![h].healthy = @ \ {c}, ![h].pc = "resolve",
                                             ![h].check = c]
            \/ handler' = [handler EXCEPT ![h].healthy = @ \ {c}]
      BY <2>7 DEF NextRecovered
    <3>2. c \in Checks /\ stored \subseteq handler[h].checkMap
      BY <2>0, <2>3, <2>7 DEF HandlerStates, NextRecovered, Decided, At
    <3>3. EnoughSuccesses(h, c) /\ c \in stored =>
            tracker[c].successes >= Threshold(SuccessesToResolve)
      BY <3>2 DEF EnoughSuccesses
    <3>4. UNCHANGED <<stored, tracker, streak, overtaken>>
      BY <2>7 DEF NextRecovered
    <3>5. /\ handler'[h].checkMap = handler[h].checkMap
          /\ \/ handler'[h].pc = "resolve" /\ handler'[h].check = c /\ EnoughSuccesses(h, c)
             \/ handler'[h].pc = "recover"
      BY <1>0, <2>0, <2>7, <3>1 DEF NextRecovered, At, TypeOK, HandlerStates
    <3>6. Decided(h)'
      BY <3>2, <3>3, <3>4, <3>5 DEF Decided, At
    <3> QED
      BY <1>0, <1>a, <3>1, <3>4, <3>6 DEF TypeOK
  <2>8. CASE Return(h)
    <3>1. Decided(h)'
      BY <1>0, <2>8 DEF Return, Decided, At, IdleHandler, TypeOK
    <3> QED
      BY <1>0, <1>a, <2>8, <3>1 DEF Return, TypeOK
  <2> QED
    BY <1>2, <2>1, <2>4, <2>5, <2>6, <2>7, <2>8 DEF HandleAlertResults
<1>3. CASE Environment
  <2>1. CASE Restart
    <3>1. \A c \in Checks : NotAhead(c)'
      BY <1>0, <2>1 DEF Restart, NotAhead, NoCounts, TypeOK, Counts
    <3> QED
      BY <1>0, <2>1, <3>1 DEF Restart, StreakInv, Decided, At, IdleHandler
  <2>2. CASE UNCHANGED <<tracker, handler, streak, overtaken>> /\ stored' \subseteq stored
    BY <1>0, <2>2 DEF StreakInv, NotAhead, Decided, At, EnoughFailures
  <2> QED
    BY <1>3, <2>1, <2>2 DEF Environment, TargetChanges, DeleteCheck, MaintenanceChanges,
                            EditRule, ResolveIncident
<1>4. CASE UNCHANGED vars
  BY <1>0, <1>4 DEF vars, StreakInv, NotAhead, Decided, At, EnoughFailures
<1> QED
  BY <1>1, <1>2, <1>3, <1>4 DEF Next

LEMMA Invariant == Spec => []IInv
<1>1. Init => IInv
  BY TypeInit, StreakInit DEF IInv
<1>2. IInv /\ [Next]_vars => IInv'
  BY TypeNext, StreakNext DEF IInv
<1> QED
  BY <1>1, <1>2, PTL DEF Spec

(***************************************************************************)
(* Whatever the thresholds, a failed run opens an incident only at the end *)
(* of failuresToOpen failures in a row (updateConsecutiveTrackers and      *)
(* processIncidentAlerts), also when a restart loses the counters, as long *)
(* as the check is stored and no other call counted a result of it since.  *)
(***************************************************************************)
THEOREM OpenedTheorem == Spec => OpenedOnStreak
<1> DEFINE Step == \A h \in Handlers, c \in Checks :
             /\ Opens(h, c) /\ handler[h].results[c] = "down"
             /\ c \in stored \ overtaken[h]
             => streak[c].failures >= Threshold(FailuresToOpen)
<1>1. IInv => Step
  <2> SUFFICES ASSUME IInv, NEW h \in Handlers, NEW c \in Checks,
                      Opens(h, c), handler[h].results[c] = "down", c \in stored \ overtaken[h]
               PROVE  streak[c].failures >= Threshold(FailuresToOpen)
    OBVIOUS
  <2>1. At(h, "open") /\ c = handler[h].check
    BY DEF Opens, ProcessAlert
  <2>2. tracker[c].failures >= Threshold(FailuresToOpen) /\ NotAhead(c)
    BY <2>1 DEF IInv, StreakInv, Decided, EnoughFailures
  <2>3. tracker[c] \in Counts /\ streak[c] \in Counts
    BY DEF IInv, TypeOK
  <2> QED
    BY <2>2, <2>3, CapFacts DEF NotAhead, Counts
<1> QED
  BY Invariant, <1>1, PTL DEF Spec, OpenedOnStreak

(***************************************************************************)
(* Whatever the thresholds, autoResolveRecovered resolves an incident only *)
(* at the end of successesToResolve successes in a row, under the same     *)
(* conditions.                                                             *)
(***************************************************************************)
THEOREM ResolvedTheorem == Spec => ResolvedOnStreak
<1> DEFINE Step == \A h \in Handlers, c \in Checks :
             Resolves(h, c) /\ c \in stored \ overtaken[h]
                 => streak[c].successes >= Threshold(SuccessesToResolve)
<1>1. IInv => Step
  <2> SUFFICES ASSUME IInv, NEW h \in Handlers, NEW c \in Checks, Resolves(h, c),
                      c \in stored \ overtaken[h]
               PROVE  streak[c].successes >= Threshold(SuccessesToResolve)
    OBVIOUS
  <2>1. At(h, "resolve") /\ c = handler[h].check
    BY DEF Resolves, AutoResolveOnRecovery
  <2>2. tracker[c].successes >= Threshold(SuccessesToResolve) /\ NotAhead(c)
    BY <2>1 DEF IInv, StreakInv, Decided
  <2>3. tracker[c] \in Counts /\ streak[c] \in Counts
    BY DEF IInv, TypeOK
  <2> QED
    BY <2>2, <2>3, CapFacts DEF NotAhead, Counts
<1> QED
  BY Invariant, <1>1, PTL DEF Spec, ResolvedOnStreak

-----------------------------------------------------------------------------
(***************************************************************************)
(* The rules of the API.  An id that is the id of one rule at most and was *)
(* not named by a request since its last alert fired with the cooldown     *)
(* that its rule still has.  A pass over the list is a recursive function  *)
(* over its positions: what holds before the first rule and is kept by     *)
(* each holds after the last.                                              *)
(***************************************************************************)
AnyRule  == Range(DefaultRules) \cup {Rule(i, b) : i \in RuleIDs, b \in RuleBodies}

RulesTypeOK ==
    /\ ruleList \in Seq(AnyRule) /\ fileLags \in BOOLEAN
    /\ ruleFile \in {NoRuleFile, BadFile} \/ \E l \in Seq(AnyRule) : ruleFile = File(l)
    /\ sinceFired \in [RuleIDs -> Nat] /\ lastCool \in [RuleIDs -> Int]
    /\ edited \subseteq RuleIDs /\ tooSoon \subseteq RuleIDs

FileRight == ~fileLags => ruleFile = File(ruleList)

\* The rule of i, if it is the only one and fired, did so with the cooldown it has.
CoolRight(i) ==
    /\ i \notin tooSoon
    /\ \A n \in 1..Len(ruleList) : ruleList[n].id = i => lastCool[i] \in {0, ruleList[n].cooldown}

RulesInv == RulesTypeOK /\ FileRight /\ \A i \in RuleIDs \ edited : Twice(i) \/ CoolRight(i)

-----------------------------------------------------------------------------
LEMMA LeastNumber ==
    ASSUME NEW T, T \subseteq Nat, T # {}
    PROVE  \E m \in T : \A k \in T : m <= k
<1> DEFINE R == {ss \in Nat \X Nat : ss[1] < ss[2]}
<1>1. IsWellFoundedOn(R, Nat)
  BY NatLessThanWellFounded DEF OpToRel
<1>2. PICK m \in T : \A k \in T : ~(<<k, m>> \in R)
  BY <1>1, WFMin
<1>3. \A k \in T : ~(k < m)
  BY <1>2
<1> QED
  BY <1>3

LEMMA AnyRuleIs ==
    /\ \A r \in AnyRule : r.id \in RuleIDs /\ r.cooldown \in Int
    /\ \A i \in RuleIDs, b \in RuleBodies : Rule(i, b) \in AnyRule /\ Rule(i, b).id = i
    /\ DefaultRules \in Seq(AnyRule)
<1>1. \A i \in RuleIDs, b \in RuleBodies : Rule(i, b) \in AnyRule /\ Rule(i, b).id = i /\ Rule(i, b).cooldown \in Int
  <2> SUFFICES ASSUME NEW i \in RuleIDs, NEW b \in RuleBodies
               PROVE  Rule(i, b) \in AnyRule /\ Rule(i, b).id = i /\ Rule(i, b).cooldown \in Int
    OBVIOUS
  <2>1. Rule(i, b) \in AnyRule
    BY DEF AnyRule
  <2>2. Rule(i, b).id = i /\ Rule(i, b).cooldown = b.cooldown
    BY DEF Rule
  <2> QED
    BY <2>1, <2>2, RulesAssumption
<1>2. Range(DefaultRules) \subseteq AnyRule
  BY DEF AnyRule
<1>3. DefaultRules \in Seq(AnyRule)
  BY <1>2, RulesAssumption, SeqMonotonic
<1>4. \A r \in AnyRule : r.id \in RuleIDs /\ r.cooldown \in Int
  BY <1>1, RulesAssumption DEF AnyRule
<1> QED
  BY <1>1, <1>3, <1>4

\* The first rule with an id.
LEMMA FirstWithIs ==
    ASSUME RulesTypeOK, NEW i, FirstWith(i) > 0
    PROVE  FirstWith(i) \in 1..Len(ruleList) /\ ruleList[FirstWith(i)].id = i
<1> DEFINE I == {n \in 1..Len(ruleList) : ruleList[n].id = i}
<1>1. FirstWith(i) = IF I # {} THEN CHOOSE x \in I : \A y \in I : x <= y ELSE 0
  BY DEF FirstWith, SelectInSeq, Min
<1>2. I # {} /\ FirstWith(i) = CHOOSE x \in I : \A y \in I : x <= y
  <2>1. ASSUME I = {} PROVE FALSE
    <3>1. FirstWith(i) = 0
      BY <1>1, <2>1
    <3> QED
      BY <3>1
  <2> HIDE DEF I
  <2> QED
    BY <1>1, <2>1
<1>3. Len(ruleList) \in Nat
  BY LenProperties DEF RulesTypeOK
<1>4. I \subseteq Nat
  BY <1>3
<1> HIDE DEF I
<1>5. \E x \in I : \A y \in I : x <= y
  BY <1>2, <1>4, LeastNumber
<1>6. FirstWith(i) \in I
  BY <1>2, <1>5
<1> QED
  BY <1>6 DEF I

-----------------------------------------------------------------------------
\* A pass is a function of the positions, each one rule after the one before.
LEMMA PassIs ==
    ASSUME Len(ruleList) \in Nat, NEW result
    PROVE  \E f : /\ AfterRules(result) = f[Len(ruleList)] /\ f[0] = BeforeRules
                  /\ \A n \in 1..Len(ruleList) : f[n] = AfterRule(f[n - 1], ruleList[n], result)
<1> DEFINE N        == Len(ruleList)
           step(x, n) == AfterRule(x, ruleList[n], result)
           Is(f, m) == f = [n \in 0..m |-> IF n = 0 THEN BeforeRules ELSE step(f[n - 1], n)]
           g        == CHOOSE f : Is(f, N)
<1>1. AfterRules(result) = g[N]
  BY DEF AfterRules
<1> HIDE DEF N, step
<1>2. N \in Nat
  BY DEF N
<1>3. \E f : Is(f, N)
  <2> SUFFICES ASSUME ~ \E f : Is(f, N) PROVE FALSE
    OBVIOUS
  <2> DEFINE T == {m \in Nat : ~ \E f : Is(f, m)}
  <2>1. PICK m \in T : \A k \in T : m <= k
    <3>1. N \in T /\ T \subseteq Nat
      BY <1>2
    <3> HIDE DEF T
    <3> QED
      BY <3>1, LeastNumber
  <2>2. CASE m = 0
    <3> DEFINE h == [n \in 0..0 |-> BeforeRules]
    <3>1. h = [n \in 0..0 |-> IF n = 0 THEN BeforeRules ELSE step(h[n - 1], n)]
      OBVIOUS
    <3>2. Is(h, 0)
      BY <3>1
    <3> QED
      BY <2>1, <2>2, <3>2
  <2>3. CASE m > 0
    <3>1. m - 1 \in Nat /\ m - 1 \notin T
      BY <2>1, <2>3
    <3>2. PICK f : Is(f, m - 1)
      BY <3>1
    <3> DEFINE h == [n \in 0..m |-> IF n = m THEN step(f[m - 1], m) ELSE f[n]]
    <3>3. \A n \in 0..m : h[n] = IF n = 0 THEN BeforeRules ELSE step(h[n - 1], n)
      <4>1. \A n \in 0..(m - 1) : f[n] = IF n = 0 THEN BeforeRules ELSE step(f[n - 1], n)
        BY <3>2
      <4> HIDE DEF Is
      <4> QED
        BY <2>1, <2>3, <4>1
    <3>4. h = [n \in 0..m |-> h[n]]
      OBVIOUS
    <3>5. Is(h, m)
      <4> HIDE DEF h
      <4> QED
        BY <3>3, <3>4
    <3> QED
      BY <2>1, <3>5
  <2> QED
    BY <2>1, <2>2, <2>3
<1>4. Is(g, N)
  <2> HIDE DEF Is
  <2> QED
    BY <1>3
<1>5. \A n \in 0..N : g[n] = IF n = 0 THEN BeforeRules ELSE step(g[n - 1], n)
  BY <1>4
<1>6. g[0] = BeforeRules /\ \A n \in 1..N : g[n] = step(g[n - 1], n)
  <2> HIDE DEF g
  <2> QED
    BY <1>2, <1>5
<1> HIDE DEF g
<1> QED
  BY <1>1, <1>6 DEF N, step

\* What is true after the first n rules.
PassRight(s, n) ==
    /\ s = [since |-> s.since, cool |-> s.cool, soon |-> s.soon, fired |-> s.fired]
    /\ s.since \in [RuleIDs -> Nat] /\ s.cool \in [RuleIDs -> Int] /\ s.soon \subseteq RuleIDs /\ s.fired \subseteq RuleIDs
    /\ \A i \in RuleIDs \ s.fired : /\ s.since[i] = sinceFired[i] /\ s.cool[i] = lastCool[i]
                                    /\ (i \in s.soon <=> i \in tooSoon)
    /\ \A i \in s.fired : /\ \E k \in 1..n : ruleList[k].id = i /\ s.cool[i] = ruleList[k].cooldown
                          /\ (Twice(i) \/ i \in edited \/ i \notin s.soon)

LEMMA PassStep ==
    ASSUME RulesInv, NEW result, NEW n \in 1..Len(ruleList), NEW s, PassRight(s, n - 1)
    PROVE  PassRight(AfterRule(s, ruleList[n], result), n)
<1> DEFINE r == ruleList[n]
           t == AfterRule(s, r, result)
<1>0. n \in Nat /\ 1..(n - 1) \subseteq 1..n /\ n \in 1..n /\ n \notin 1..(n - 1) /\ 1..(n - 1) \subseteq 1..Len(ruleList)
  <2>1. Len(ruleList) \in Nat
    BY LenProperties DEF RulesInv, RulesTypeOK
  <2> QED
    BY <2>1
<1>1. r \in AnyRule /\ r.id \in RuleIDs /\ r.cooldown \in Int
  <2>1. r \in AnyRule
    BY ElementOfSeq DEF RulesInv, RulesTypeOK
  <2> HIDE DEF r
  <2> QED
    BY <2>1, AnyRuleIs
<1>2. CASE ~RuleFires(s, r, result)
  <2>1. t = s
    BY <1>2 DEF AfterRule
  <2> QED
    BY <1>0, <2>1 DEF PassRight
<1>3. CASE RuleFires(s, r, result)
  <2> DEFINE i == r.id
             since == [s.since EXCEPT ![i] = 0]
             cool  == [s.cool EXCEPT ![i] = r.cooldown]
             soon  == IF s.since[i] < s.cool[i] THEN s.soon \cup {i} ELSE s.soon \ {i}
             fired == s.fired \cup {i}
  <2>1. t = [since |-> since, cool |-> cool, soon |-> soon, fired |-> fired]
    BY <1>3 DEF AfterRule
  <2>2. s.since[i] >= r.cooldown
    BY <1>3 DEF RuleFires
  <2>3. Twice(i) \/ i \in edited \/ i \notin soon
    <3> SUFFICES ASSUME ~Twice(i), i \notin edited PROVE i \notin soon
      OBVIOUS
    <3>1. i \notin s.fired
      <4> SUFFICES ASSUME i \in s.fired PROVE FALSE
        OBVIOUS
      <4>1. PICK k \in 1..(n - 1) : ruleList[k].id = i
        BY DEF PassRight
      <4> QED
        BY <1>0, <4>1 DEF Twice
    <3>2. s.since[i] = sinceFired[i] /\ s.cool[i] = lastCool[i] /\ s.since[i] \in Nat
      BY <1>1, <3>1 DEF PassRight
    <3>3. lastCool[i] \in {0, r.cooldown}
      BY <1>1 DEF RulesInv, CoolRight
    <3>4. ~(s.since[i] < s.cool[i])
      BY <1>1, <2>2, <3>2, <3>3
    <3> QED
      BY <3>4
  <2>4. /\ since \in [RuleIDs -> Nat] /\ cool \in [RuleIDs -> Int] /\ soon \subseteq RuleIDs /\ fired \subseteq RuleIDs
        /\ cool[i] = r.cooldown
        /\ \A j \in RuleIDs : j # i => since[j] = s.since[j] /\ cool[j] = s.cool[j] /\ (j \in soon <=> j \in s.soon)
    BY <1>1 DEF PassRight
  <2> HIDE DEF since, cool, soon
  <2>5. t.since = since /\ t.cool = cool /\ t.soon = soon /\ t.fired = fired
    BY <2>1
  <2>6. \A j \in RuleIDs \ fired : /\ since[j] = sinceFired[j] /\ cool[j] = lastCool[j]
                                   /\ (j \in soon <=> j \in tooSoon)
    BY <2>4 DEF PassRight
  <2>7. ASSUME NEW j \in fired
        PROVE  /\ \E k \in 1..n : ruleList[k].id = j /\ cool[j] = ruleList[k].cooldown
               /\ (Twice(j) \/ j \in edited \/ j \notin soon)
    <3>1. CASE j = i
      BY <1>0, <2>3, <2>4, <3>1
    <3>2. CASE j # i
      <4>1. j \in s.fired /\ j \in RuleIDs
        BY <3>2 DEF PassRight
      <4>2. cool[j] = s.cool[j] /\ (j \in soon <=> j \in s.soon)
        BY <2>4, <3>2, <4>1
      <4>3. /\ \E k \in 1..(n - 1) : ruleList[k].id = j /\ s.cool[j] = ruleList[k].cooldown
            /\ (Twice(j) \/ j \in edited \/ j \notin s.soon)
        BY <4>1 DEF PassRight
      <4> QED
        BY <1>0, <4>2, <4>3
    <3> QED
      BY <3>1, <3>2
  <2> HIDE DEF t, fired
  <2> QED
    BY <2>1, <2>4, <2>5, <2>6, <2>7 DEF PassRight, t
<1> QED
  BY <1>2, <1>3

LEMMA PassEnds ==
    ASSUME RulesInv, NEW result
    PROVE  PassRight(AfterRules(result), Len(ruleList))
<1> DEFINE N == Len(ruleList)
<1>1. N \in Nat
  BY LenProperties DEF RulesInv, RulesTypeOK
<1>2. PICK f : /\ AfterRules(result) = f[N] /\ f[0] = BeforeRules
               /\ \A n \in 1..N : f[n] = AfterRule(f[n - 1], ruleList[n], result)
  BY <1>1, PassIs
<1>3. PassRight(BeforeRules, 0)
  <2>1. /\ BeforeRules.since = sinceFired /\ BeforeRules.cool = lastCool /\ BeforeRules.soon = tooSoon /\ BeforeRules.fired = {}
        /\ BeforeRules = [since |-> BeforeRules.since, cool |-> BeforeRules.cool, soon |-> BeforeRules.soon, fired |-> BeforeRules.fired]
    BY DEF BeforeRules
  <2> QED
    BY <2>1 DEF PassRight, RulesInv, RulesTypeOK
<1>4. \A n \in 1..N : PassRight(f[n - 1], n - 1) => PassRight(f[n], n)
  BY <1>2, PassStep
<1> HIDE DEF N
<1>5. ASSUME ~PassRight(f[N], N) PROVE FALSE
  <2> DEFINE T == {n \in 0..N : ~PassRight(f[n], n)}
  <2>1. T \subseteq Nat /\ N \in T
    BY <1>1, <1>5
  <2>2. PICK m \in T : \A k \in T : m <= k
    <3> HIDE DEF T
    <3> QED
      BY <2>1, LeastNumber
  <2>3. m # 0
    BY <1>2, <1>3, <2>2
  <2>4. m \in 1..N /\ m - 1 \in 0..N /\ m - 1 \notin T
    BY <1>1, <2>2, <2>3
  <2> QED
    BY <1>4, <2>2, <2>4
<1> QED
  BY <1>2, <1>5 DEF N

-----------------------------------------------------------------------------
\* A list in which the rules of all ids but i are what they were.
OthersSame(l, i) ==
    /\ l \in Seq(AnyRule)
    /\ \A n \in 1..Len(l) : l[n].id # i => \E m \in 1..Len(ruleList) : ruleList[m] = l[n]
    /\ \A j : (j # i /\ Twice(j)) => \E m, n \in 1..Len(l) : m # n /\ l[m].id = j /\ l[n].id = j

\* A request leaves the ids it does not name as they are.
LEMMA RequestKeeps ==
    ASSUME RulesInv, NEW i \in RuleIDs, Request(i), OthersSame(ruleList', i), persistRules(ruleList')
    PROVE  RulesInv'
<1>1. edited' = edited \cup {i} /\ UNCHANGED <<sinceFired, lastCool, tooSoon>>
  BY DEF Request
<1>2. RulesTypeOK'
  BY <1>1 DEF RulesInv, RulesTypeOK, persistRules, OthersSame
<1>3. FileRight'
  BY DEF FileRight, persistRules
<1>4. ASSUME NEW j \in RuleIDs \ edited' PROVE Twice(j)' \/ CoolRight(j)'
  <2>1. j # i /\ j \in RuleIDs \ edited
    BY <1>1
  <2>2. CASE Twice(j)
    <3>1. Twice(j)'
      BY <2>1, <2>2 DEF OthersSame, Twice
    <3> QED
      BY <3>1
  <2>3. CASE ~Twice(j)
    <3>1. CoolRight(j)
      BY <2>1, <2>3 DEF RulesInv
    <3>2. CoolRight(j)'
      BY <1>1, <2>1, <3>1 DEF CoolRight, OthersSame
    <3> QED
      BY <3>2
  <2> QED
    BY <2>2, <2>3
<1> QED
  BY <1>2, <1>3, <1>4 DEF RulesInv

LEMMA AddRuleKeeps == ASSUME RulesInv, NEW i \in RuleIDs, NEW b \in RuleBodies, AddRule(i, b) PROVE RulesInv'
<1> DEFINE r == Rule(i, b)
<1>1. r \in AnyRule /\ r.id = i
  BY AnyRuleIs
<1>2. ruleList' = Append(ruleList, r) /\ Request(i) /\ persistRules(ruleList')
  BY DEF AddRule
<1> HIDE DEF r
<1>3. ruleList \in Seq(AnyRule) /\ Len(ruleList) \in Nat
  BY LenProperties DEF RulesInv, RulesTypeOK
<1>4. /\ ruleList' \in Seq(AnyRule) /\ Len(ruleList') = Len(ruleList) + 1 /\ ruleList'[Len(ruleList) + 1] = r
      /\ \A n \in 1..Len(ruleList) : ruleList'[n] = ruleList[n] /\ n \in 1..Len(ruleList')
      /\ \A n \in 1..Len(ruleList') : n \in 1..Len(ruleList) \/ n = Len(ruleList) + 1
  BY <1>1, <1>2, <1>3
<1>5. OthersSame(ruleList', i)
  BY <1>1, <1>4 DEF OthersSame, Twice
<1> QED
  BY <1>2, <1>5, RequestKeeps

LEMMA UpdateRuleKeeps == ASSUME RulesInv, NEW i \in RuleIDs, NEW b \in RuleBodies, UpdateRule(i, b) PROVE RulesInv'
<1> DEFINE r == Rule(i, b)
           p == FirstWith(i)
<1>1. r \in AnyRule /\ r.id = i
  BY AnyRuleIs
<1>2. ruleList' = [ruleList EXCEPT ![p] = r] /\ Request(i) /\ persistRules(ruleList') /\ p > 0
  BY DEF UpdateRule
<1>3. p \in 1..Len(ruleList) /\ ruleList[p].id = i
  BY <1>2, FirstWithIs DEF RulesInv
<1> HIDE DEF r, p
<1>4. ruleList \in Seq(AnyRule)
  BY DEF RulesInv, RulesTypeOK
<1>5. /\ ruleList' \in Seq(AnyRule) /\ Len(ruleList') = Len(ruleList)
      /\ \A n \in 1..Len(ruleList) : ruleList'[n] = IF n = p THEN r ELSE ruleList[n]
  BY <1>1, <1>2, <1>3, <1>4, ExceptSeq
<1>6. \A n \in 1..Len(ruleList) : ruleList'[n].id = ruleList[n].id
  BY <1>1, <1>3, <1>5
<1>7. OthersSame(ruleList', i)
  BY <1>1, <1>5, <1>6 DEF OthersSame, Twice
<1> QED
  BY <1>2, <1>7, RequestKeeps

LEMMA DeleteRuleKeeps == ASSUME RulesInv, NEW i \in RuleIDs, DeleteRule(i) PROVE RulesInv'
<1> DEFINE p == FirstWith(i)
           N == Len(ruleList)
           a == SubSeq(ruleList, 1, p - 1)
           c == SubSeq(ruleList, p + 1, N)
<1>2. ruleList' = a \o c /\ Request(i) /\ persistRules(ruleList') /\ p > 0
  BY DEF DeleteRule, RemoveAt
<1>3. p \in 1..N /\ ruleList[p].id = i
  BY <1>2, FirstWithIs DEF RulesInv
<1> HIDE DEF p
<1>4. ruleList \in Seq(AnyRule) /\ N \in Nat /\ \A n \in 1..N : ruleList[n] \in AnyRule
  BY LenProperties DEF RulesInv, RulesTypeOK
<1> HIDE DEF N
<1>5. a \in Seq(AnyRule) /\ Len(a) = p - 1 /\ \A n \in 1..(p - 1) : a[n] = ruleList[n]
  <2>1. 1 \in Int /\ p - 1 \in Int /\ \A n \in 1..(p - 1) : ruleList[n] \in AnyRule
    BY <1>3, <1>4
  <2>2. /\ a \in Seq(AnyRule) /\ Len(a) = IF 1 <= p - 1 THEN (p - 1) - 1 + 1 ELSE 0
        /\ \A n \in 1..((p - 1) - 1 + 1) : a[n] = ruleList[1 + n - 1]
    BY <2>1, SubSeqProperties
  <2> HIDE DEF a
  <2> QED
    BY <1>3, <1>4, <2>2
<1>6. c \in Seq(AnyRule) /\ Len(c) = N - p /\ \A n \in 1..(N - p) : c[n] = ruleList[p + n]
  <2>1. p + 1 \in Int /\ N \in Int /\ \A n \in (p + 1)..N : ruleList[n] \in AnyRule
    BY <1>3, <1>4
  <2>2. /\ c \in Seq(AnyRule) /\ Len(c) = IF p + 1 <= N THEN N - (p + 1) + 1 ELSE 0
        /\ \A n \in 1..(N - (p + 1) + 1) : c[n] = ruleList[(p + 1) + n - 1]
    BY <2>1, SubSeqProperties
  <2> HIDE DEF c
  <2> QED
    BY <1>3, <1>4, <2>2
<1> HIDE DEF a, c
<1>7. /\ ruleList' \in Seq(AnyRule) /\ Len(ruleList') = N - 1
      /\ \A n \in 1..(N - 1) : ruleList'[n] = IF n < p THEN ruleList[n] ELSE ruleList[n + 1]
  <2>1. /\ a \o c \in Seq(AnyRule) /\ Len(a \o c) = Len(a) + Len(c)
        /\ \A n \in 1..(Len(a) + Len(c)) : (a \o c)[n] = IF n <= Len(a) THEN a[n] ELSE c[n - Len(a)]
    BY <1>5, <1>6, ConcatProperties
  <2>2. Len(a) + Len(c) = N - 1
    BY <1>3, <1>4, <1>5, <1>6
  <2>3. ASSUME NEW n \in 1..(N - 1) PROVE (a \o c)[n] = IF n < p THEN ruleList[n] ELSE ruleList[n + 1]
    <3>1. CASE n < p
      BY <1>3, <1>4, <1>5, <2>1, <2>2, <3>1
    <3>2. CASE ~(n < p)
      <4>1. n - (p - 1) \in 1..(N - p) /\ p + (n - (p - 1)) = n + 1
        BY <1>3, <1>4, <3>2
      <4>2. c[n - (p - 1)] = ruleList[n + 1]
        BY <1>6, <4>1
      <4>3. (a \o c)[n] = c[n - (p - 1)]
        BY <1>3, <1>4, <1>5, <2>1, <2>2, <3>2
      <4> QED
        BY <3>2, <4>2, <4>3
    <3> QED
      BY <3>1, <3>2
  <2> QED
    BY <1>2, <2>1, <2>2, <2>3
<1>8. \A n \in 1..(N - 1) : \E m \in 1..N : ruleList[m] = ruleList'[n]
  BY <1>3, <1>4, <1>7
<1>9. ASSUME NEW m \in 1..N, m # p PROVE LET q == IF m < p THEN m ELSE m - 1 IN q \in 1..(N - 1) /\ ruleList'[q] = ruleList[m]
  BY <1>3, <1>4, <1>7, <1>9
<1>10. ASSUME NEW j, j # i, Twice(j) PROVE \E m, n \in 1..(N - 1) : m # n /\ ruleList'[m].id = j /\ ruleList'[n].id = j
  <2>1. PICK m \in 1..N, n \in 1..N : m # n /\ ruleList[m].id = j /\ ruleList[n].id = j
    BY <1>10 DEF Twice, N
  <2>2. m # p /\ n # p
    BY <1>3, <1>10, <2>1
  <2> DEFINE q(k) == IF k < p THEN k ELSE k - 1
  <2>3. q(m) # q(n)
    BY <1>3, <1>4, <2>1, <2>2
  <2>4. q(m) \in 1..(N - 1) /\ q(n) \in 1..(N - 1) /\ ruleList'[q(m)] = ruleList[m] /\ ruleList'[q(n)] = ruleList[n]
    BY <1>9, <2>2
  <2> HIDE DEF q
  <2> QED
    BY <2>1, <2>3, <2>4
<1>11. OthersSame(ruleList', i)
  BY <1>7, <1>8, <1>10 DEF OthersSame, N
<1> QED
  BY <1>2, <1>11, RequestKeeps

LEMMA RestartRulesKeeps == ASSUME RulesInv, RestartRules PROVE RulesInv'
<1>1. /\ ruleList' = LoadRulesFromConfig(ruleFile)
      /\ \/ ruleFile = NoRuleFile /\ persistRules(ruleList')
         \/ ruleFile # NoRuleFile /\ UNCHANGED <<ruleFile, fileLags>>
      /\ sinceFired' = [i \in RuleIDs |-> MaxCooldown] /\ lastCool' = [i \in RuleIDs |-> 0]
      /\ edited' = {} /\ tooSoon' = {}
  BY DEF RestartRules, Forgotten
<1>2. ruleList' \in Seq(AnyRule)
  <2>1. CASE ruleFile \in {NoRuleFile, BadFile}
    <3>1. ruleFile.st # "ok"
      <4> DEFINE none == <<>>
      <4>1. NoRuleFile = [st |-> "absent", rules |-> none] /\ BadFile = [st |-> "not JSON", rules |-> none]
        BY DEF NoRuleFile, BadFile
      <4> HIDE DEF none
      <4>2. NoRuleFile.st = "absent"
        BY <4>1
      <4>3. BadFile.st = "not JSON"
        BY <4>1
      <4>4. "absent" # "ok"
        OBVIOUS
      <4>5. "not JSON" # "ok"
        OBVIOUS
      <4> QED
        BY <2>1, <4>2, <4>3, <4>4, <4>5
    <3> QED
      BY <1>1, <3>1, AnyRuleIs DEF LoadRulesFromConfig
  <2>2. ASSUME NEW l \in Seq(AnyRule), ruleFile = File(l) PROVE ruleList' \in Seq(AnyRule)
    BY <1>1, <2>2 DEF LoadRulesFromConfig, File
  <2> QED
    BY <2>1, <2>2 DEF RulesInv, RulesTypeOK
<1>3. RulesTypeOK'
  <2>1. sinceFired' \in [RuleIDs -> Nat] /\ lastCool' \in [RuleIDs -> Int] /\ edited' = {} /\ tooSoon' = {}
    BY <1>1, RulesAssumption
  <2>2. ruleFile' \in {NoRuleFile, BadFile} \/ \E l \in Seq(AnyRule) : ruleFile' = File(l)
    BY <1>1, <1>2 DEF RulesInv, RulesTypeOK, persistRules
  <2>3. fileLags' \in BOOLEAN
    BY <1>1 DEF RulesInv, RulesTypeOK, persistRules
  <2> QED
    BY <1>2, <2>1, <2>2, <2>3 DEF RulesTypeOK
<1>4. FileRight'
  <2>1. CASE persistRules(ruleList')
    BY <2>1 DEF FileRight, persistRules
  <2>2. CASE UNCHANGED <<ruleFile, fileLags>>
    <3> SUFFICES ASSUME ~fileLags PROVE ruleFile = File(ruleList')
      BY <2>2 DEF FileRight
    <3>1. ruleFile = File(ruleList)
      BY DEF RulesInv, FileRight
    <3>2. ruleList' = ruleList
      BY <1>1, <3>1 DEF LoadRulesFromConfig, File
    <3> QED
      BY <3>1, <3>2
  <2> QED
    BY <1>1, <2>1, <2>2
<1>5. \A i \in RuleIDs : CoolRight(i)'
  BY <1>1 DEF CoolRight
<1> QED
  BY <1>3, <1>4, <1>5 DEF RulesInv

LEMMA EvaluateRulesKeeps == ASSUME RulesInv, NEW result, EvaluateRules(result) PROVE RulesInv'
<1> DEFINE s == AfterRules(result)
<1>1. /\ sinceFired' = s.since /\ lastCool' = s.cool /\ tooSoon' = s.soon
      /\ edited' = (edited \ s.fired) \cup (s.soon \cap edited)
      /\ UNCHANGED <<ruleList, ruleFile, requests, fileLags>>
  BY DEF EvaluateRules
<1>2. PassRight(s, Len(ruleList))
  BY PassEnds
<1> HIDE DEF s
<1>3. RulesTypeOK' /\ FileRight'
  BY <1>1, <1>2 DEF RulesInv, RulesTypeOK, FileRight, PassRight
<1>4. ASSUME NEW i \in RuleIDs \ edited', ~Twice(i) PROVE CoolRight(i)'
  <2>1. CASE i \in s.fired
    <3>1. i \notin s.soon
      BY <1>1, <1>2, <1>4, <2>1 DEF PassRight
    <3>2. PICK k \in 1..Len(ruleList) : ruleList[k].id = i /\ s.cool[i] = ruleList[k].cooldown
      BY <1>2, <2>1 DEF PassRight
    <3>3. \A n \in 1..Len(ruleList) : ruleList[n].id = i => n = k
      BY <1>4, <3>2 DEF Twice
    <3> QED
      BY <1>1, <3>1, <3>2, <3>3 DEF CoolRight
  <2>2. CASE i \notin s.fired
    <3>1. i \notin edited /\ s.cool[i] = lastCool[i] /\ (i \in s.soon <=> i \in tooSoon)
      BY <1>1, <1>2, <2>2 DEF PassRight
    <3>2. CoolRight(i)
      BY <1>4, <3>1 DEF RulesInv
    <3> QED
      BY <1>1, <3>1, <3>2 DEF CoolRight
  <2> QED
    BY <2>1, <2>2
<1>5. \A i : Twice(i)' <=> Twice(i)
  BY <1>1 DEF Twice
<1> QED
  BY <1>3, <1>4, <1>5 DEF RulesInv

\* What a restart would load is in force, and no rule fires again within its own
\* cooldown, for any list, requests, results, failed writes and restarts.
THEOREM RulesTheorem == RulesSpec => []RulesSound
<1>1. AlertRulesInit => RulesInv
  <2> SUFFICES ASSUME AlertRulesInit PROVE RulesInv
    OBVIOUS
  <2>1. RulesTypeOK
    BY AnyRuleIs, RulesAssumption DEF AlertRulesInit, RulesTypeOK
  <2>2. FileRight /\ \A i \in RuleIDs : CoolRight(i)
    BY DEF AlertRulesInit, FileRight, CoolRight
  <2> QED
    BY <2>1, <2>2 DEF RulesInv
<1>2. RulesInv /\ [AlertRulesNext]_ruleVars => RulesInv'
  <2> SUFFICES ASSUME RulesInv, [AlertRulesNext]_ruleVars PROVE RulesInv'
    OBVIOUS
  <2>1. ASSUME NEW i \in RuleIDs, DeleteRule(i) PROVE RulesInv'
    BY <2>1, DeleteRuleKeeps
  <2>2. ASSUME NEW i \in RuleIDs, NEW b \in RuleBodies, AddRule(i, b) PROVE RulesInv'
    BY <2>2, AddRuleKeeps
  <2>3. ASSUME NEW i \in RuleIDs, NEW b \in RuleBodies, UpdateRule(i, b) PROVE RulesInv'
    BY <2>3, UpdateRuleKeeps
  <2>4. CASE RestartRules
    BY <2>4, RestartRulesKeeps
  <2>5. CASE TickRules
    <3>1. sinceFired' \in [RuleIDs -> Nat]
      BY <2>5, RulesAssumption DEF TickRules, RulesInv, RulesTypeOK
    <3>2. RulesTypeOK' /\ FileRight'
      BY <2>5, <3>1 DEF TickRules, RulesInv, RulesTypeOK, FileRight
    <3> QED
      BY <2>5, <3>2 DEF TickRules, RulesInv, CoolRight, Twice
  <2>6. ASSUME NEW result \in Results, EvaluateRules(result) PROVE RulesInv'
    BY <2>6, EvaluateRulesKeeps
  <2>7. CASE UNCHANGED ruleVars
    <3>1. UNCHANGED <<ruleList, ruleFile, sinceFired, fileLags, lastCool, edited, tooSoon>>
      BY <2>7 DEF ruleVars
    <3>2. RulesTypeOK' /\ FileRight'
      BY <3>1 DEF RulesInv, RulesTypeOK, FileRight
    <3> QED
      BY <3>1, <3>2 DEF RulesInv, CoolRight, Twice
  <2> QED
    BY <2>1, <2>2, <2>3, <2>4, <2>5, <2>6, <2>7 DEF AlertRulesNext
<1>3. RulesInv => RulesSound
  BY DEF RulesInv, RulesTypeOK, FileRight, CoolRight, RulesSound, LoadRulesFromConfig, File
<1> QED
  BY <1>1, <1>2, <1>3, PTL DEF RulesSpec

-----------------------------------------------------------------------------
(***************************************************************************)
(* Maintenance windows.  Each time has a day and a slot of the day, by     *)
(* division, and each day of the calendar a month, because months follow   *)
(* each other without gaps (BeforeGrows).  The occurrence that the code    *)
(* computes from the fields of the present time is the latest beginning of *)
(* the window that is not in the future, for each recurrence; so the       *)
(* window is active exactly if the latest beginning, hence any, is less    *)
(* than its duration ago (LatestDecides).                                  *)
(***************************************************************************)
LEMMA DivMod ==
    ASSUME NEW t \in Int, NEW d \in Nat \ {0}
    PROVE  t \div d \in Int /\ t % d \in 0..(d - 1) /\ t = d * (t \div d) + (t % d)
OBVIOUS

LEMMA Multiples ==
    ASSUME NEW d \in Nat \ {0}, NEW k \in Int
    PROVE  d * k \in Int /\ (k >= 1 => d * k >= d) /\ (k <= -1 => d * k <= -d) /\ (k >= 0 => d * k >= 0)
OBVIOUS

LEMMA Distributes ==
    ASSUME NEW d \in Int, NEW a \in Int, NEW b \in Int
    PROVE  d * (a + b) = d * a + d * b /\ d * (a - b) = d * a - d * b
OBVIOUS

LEMMA DivUnique ==
    ASSUME NEW d \in Nat \ {0}, NEW q \in Int, NEW r \in 0..(d - 1)
    PROVE  (d * q + r) \div d = q /\ (d * q + r) % d = r
<1> DEFINE t == d * q + r
           k == t \div d
           m == t % d
<1>1. t \in Int /\ k \in Int /\ m \in 0..(d - 1) /\ t = d * k + m
  BY Multiples, DivMod
<1>2. d * q \in Int /\ d * k \in Int /\ d * (q - k) = d * q - d * k
  BY <1>1, Multiples, Distributes
<1>3. d * q + r = d * k + m
  BY <1>1
<1> HIDE DEF k, m, t
<1>4. d * (q - k) = m - r /\ m - r < d /\ m - r > -d
  BY <1>1, <1>2, <1>3
<1>5. q - k = 0
  BY <1>1, <1>4, Multiples
<1> QED
  BY <1>1, <1>3, <1>4, <1>5 DEF t, k, m

\* The latest of the times that are a whole number of periods after a start.
Periods(p, start, last) == \E k \in Int : last = start + p * k

LastOf(p, start, now, last) ==
    /\ last >= start /\ (last - start) % p = 0
    /\ \A s \in start..now : (s - start) % p = 0 => s <= last

LEMMA LatestPeriod ==
    ASSUME NEW p \in Nat \ {0}, NEW start \in Nat, NEW now \in Nat, start <= now,
           NEW last \in Int, Periods(p, start, last), last <= now, now < last + p
    PROVE  LastOf(p, start, now, last)
<1>0. PICK k \in Int : last = start + p * k
  BY DEF Periods
<1>1. k >= 0
  <2>1. ASSUME k <= -1 PROVE FALSE
    <3>1. p * k <= -p
      BY <2>1, Multiples
    <3> QED
      BY <1>0, <3>1, Multiples
  <2> QED
    BY <2>1
<1>2. p * k \in Int /\ p * k >= 0
  BY <1>1, Multiples
<1>3. (p * k) % p = 0
  <2>1. 0 \in 0..(p - 1)
    OBVIOUS
  <2>2. (p * k + 0) % p = 0
    BY <2>1, DivUnique
  <2> QED
    BY <1>2, <2>2
<1>4. ASSUME NEW s \in start..now, (s - start) % p = 0, s > last PROVE FALSE
  <2> DEFINE j == (s - start) \div p
  <2>1. j \in Int /\ s - start = p * j
    <3> DEFINE t == s - start
    <3>1. t \in Int /\ t % p = 0
      BY <1>4
    <3>2. t \div p \in Int /\ t = p * (t \div p) + (t % p)
      <4> HIDE DEF t
      <4> QED
        BY <3>1, DivMod
    <3>3. p * (t \div p) \in Int
      <4> HIDE DEF t
      <4> QED
        BY <3>2, Multiples
    <3>4. t = p * (t \div p)
      <4> HIDE DEF t
      <4> QED
        BY <3>1, <3>2, <3>3
    <3> QED
      BY <3>2, <3>4
  <2> HIDE DEF j
  <2>2. p * j \in Int /\ p * (j - k) = p * j - p * k
    BY <2>1, Multiples, Distributes
  <2>3. p * (j - k) > 0 /\ p * (j - k) < p
    BY <1>0, <1>2, <1>4, <2>1, <2>2
  <2>4. j - k \in Int /\ j - k >= 1
    BY <2>1, <2>3, Multiples
  <2> QED
    BY <2>3, <2>4, Multiples
<1>5. last >= start /\ last - start = p * k
  BY <1>0, <1>2
<1> QED
  BY <1>2, <1>3, <1>4, <1>5 DEF LastOf

-----------------------------------------------------------------------------
\* The calendar.
Months == Len(MonthLengths)

LEMMA CalendarFacts ==
    /\ SlotsPerDay \in Nat \ {0} /\ Months \in Nat \ {0}
    /\ \A m \in 1..Months : MonthLengths[m] \in Nat \ {0}
BY MaintenanceAssumption, EmptySeq, ElementOfSeq, LenProperties DEF Months

LEMMA BeforeIs ==
    /\ Before[1] = 0
    /\ \A m \in 2..(Months + 1) : Before[m] = Before[m - 1] + MonthLengths[m - 1]
<1> DEFINE ml == MonthLengths
           N  == Months + 1
           Is(f, l) == f = [m \in 1..l |-> IF m <= 1 THEN 0 ELSE f[m - 1] + ml[m - 1]]
<1>1. Before = CHOOSE f : Is(f, N)
  BY DEF Before, Months
<1> HIDE DEF ml, N
<1>2. N \in Nat
  BY CalendarFacts DEF N
<1>3. \E f : Is(f, N)
  <2> SUFFICES ASSUME ~ \E f : Is(f, N) PROVE FALSE
    OBVIOUS
  <2> DEFINE T == {l \in Nat : ~ \E f : Is(f, l)}
  <2>1. PICK l \in T : \A k \in T : l <= k
    <3>1. N \in T /\ T \subseteq Nat
      BY <1>2
    <3> HIDE DEF T
    <3> QED
      BY <3>1, LeastNumber
  <2>2. CASE l = 0
    <3> DEFINE h == [m \in 1..0 |-> 0]
    <3>1. h = [m \in 1..0 |-> IF m <= 1 THEN 0 ELSE h[m - 1] + ml[m - 1]]
      OBVIOUS
    <3>2. Is(h, 0)
      BY <3>1
    <3> QED
      BY <2>1, <2>2, <3>2
  <2>3. CASE l > 0
    <3>1. l - 1 \in Nat /\ l - 1 \notin T
      <4>1. l \in Nat
        BY <2>1
      <4> HIDE DEF T
      <4> QED
        BY <2>1, <2>3, <4>1
    <3>2. PICK f : Is(f, l - 1)
      <4> HIDE DEF Is
      <4> QED
        BY <3>1
    <3> DEFINE h == [m \in 1..l |-> IF m <= 1 THEN 0 ELSE IF m = l THEN f[m - 1] + ml[m - 1] ELSE f[m]]
    <3>3. \A m \in 1..l : h[m] = IF m <= 1 THEN 0 ELSE h[m - 1] + ml[m - 1]
      <4>1. \A m \in 1..(l - 1) : f[m] = IF m <= 1 THEN 0 ELSE f[m - 1] + ml[m - 1]
        BY <3>2
      <4> HIDE DEF Is
      <4> QED
        BY <2>1, <2>3, <4>1
    <3>4. h = [m \in 1..l |-> h[m]]
      OBVIOUS
    <3>5. Is(h, l)
      <4> HIDE DEF h
      <4> QED
        BY <3>3, <3>4
    <3> QED
      BY <2>1, <3>5
  <2> QED
    BY <2>1, <2>2, <2>3
<1>4. Is(Before, N)
  <2> HIDE DEF Is
  <2> QED
    BY <1>1, <1>3
<1>5. \A m \in 1..N : Before[m] = IF m <= 1 THEN 0 ELSE Before[m - 1] + ml[m - 1]
  <2> DEFINE b == Before
  <2>1. Is(b, N)
    BY <1>4
  <2> HIDE DEF b
  <2>2. \A m \in 1..N : b[m] = IF m <= 1 THEN 0 ELSE b[m - 1] + ml[m - 1]
    BY <2>1
  <2> QED
    BY <2>2 DEF b
<1>6. N \in Nat \ {0}
  BY CalendarFacts DEF N
<1>7. Before[1] = 0
  BY <1>5, <1>6
<1>8. \A m \in 2..N : Before[m] = Before[m - 1] + ml[m - 1]
  BY <1>5, <1>6
<1> QED
  BY <1>7, <1>8 DEF N, ml

\* Months follow each other.
LEMMA BeforeGrows ==
    /\ \A m \in 1..(Months + 1) : Before[m] \in Nat
    /\ \A m \in 1..Months : Before[m + 1] = Before[m] + MonthLengths[m]
    /\ \A m, n \in 1..(Months + 1) : m < n => Before[m] < Before[n]
<1> USE CalendarFacts
<1>1. \A m \in 1..Months : Before[m + 1] = Before[m] + MonthLengths[m]
  <2> SUFFICES ASSUME NEW m \in 1..Months PROVE Before[m + 1] = Before[m] + MonthLengths[m]
    OBVIOUS
  <2>1. m + 1 \in 2..(Months + 1) /\ (m + 1) - 1 = m
    OBVIOUS
  <2> QED
    BY <2>1, BeforeIs
<1>2. \A n \in 1..(Months + 1) : Before[n] \in Nat /\ \A m \in 1..(n - 1) : Before[m] < Before[n]
  <2> DEFINE T == {n \in 1..(Months + 1) : ~(Before[n] \in Nat /\ \A m \in 1..(n - 1) : Before[m] < Before[n])}
  <2> SUFFICES ASSUME T # {} PROVE FALSE
    OBVIOUS
  <2>1. PICK n \in T : \A k \in T : n <= k
    <3>1. T \subseteq Nat
      OBVIOUS
    <3> HIDE DEF T
    <3> QED
      BY <3>1, LeastNumber
  <2>2. n # 1
    BY BeforeIs, <2>1
  <2>3. n - 1 \in 1..Months /\ n - 1 \notin T /\ (n - 1) + 1 = n
    BY <2>1, <2>2
  <2>4. Before[n - 1] \in Nat /\ \A m \in 1..((n - 1) - 1) : Before[m] < Before[n - 1]
    BY <2>3
  <2>5. Before[n] = Before[n - 1] + MonthLengths[n - 1] /\ MonthLengths[n - 1] \in Nat \ {0}
    BY <1>1, <2>3
  <2>6. Before[n] \in Nat /\ Before[n - 1] < Before[n]
    BY <2>4, <2>5
  <2>7. ASSUME NEW m \in 1..(n - 1) PROVE Before[m] < Before[n]
    <3>1. m = n - 1 \/ m \in 1..((n - 1) - 1)
      BY <2>3, <2>7
    <3>2. m \in 1..((n - 1) - 1) => Before[m] \in Nat
      <4>1. ASSUME m \in 1..((n - 1) - 1) PROVE m \in 1..(Months + 1) /\ m \notin T
        BY <2>1, <2>3, <4>1
      <4> QED
        BY <4>1
    <3> QED
      BY <2>4, <2>6, <3>1, <3>2
  <2> QED
    BY <2>1, <2>6, <2>7
<1> QED
  BY <1>1, <1>2

\* Each day of the calendar is in one month.
LEMMA MonthOfIs ==
    ASSUME NEW t \in Nat, t < Horizon
    PROVE  /\ MonthOf(t) \in 1..Months
           /\ Before[MonthOf(t)] <= DayOf(t) /\ DayOf(t) < Before[MonthOf(t)] + MonthLengths[MonthOf(t)]
           /\ DayOf(t) \in Nat /\ DayOf(t) < Before[Months + 1]
           /\ SlotOfDay(t) \in 0..(SlotsPerDay - 1) /\ t = SlotsPerDay * DayOf(t) + SlotOfDay(t)
<1> DEFINE D == DayOf(t)
           E == Before[Months + 1]
<1>1. D \in Int /\ SlotOfDay(t) \in 0..(SlotsPerDay - 1) /\ t = SlotsPerDay * D + SlotOfDay(t)
  BY CalendarFacts, DivMod DEF DayOf, SlotOfDay
<1>2. E \in Nat /\ Horizon = SlotsPerDay * E
  BY BeforeGrows, CalendarFacts DEF Horizon, Months
<1>3. D \in Nat
  <2>1. ASSUME D <= -1 PROVE FALSE
    <3>1. SlotsPerDay * D <= -SlotsPerDay /\ SlotsPerDay * D \in Int
      BY <1>1, <2>1, CalendarFacts, Multiples
    <3> QED
      BY <1>1, <3>1, CalendarFacts
  <2> QED
    BY <1>1, <2>1
<1>4. D < E
  <2> SUFFICES ASSUME D >= E PROVE FALSE
    BY <1>2, <1>3
  <2>1. SlotsPerDay * (D - E) >= 0 /\ SlotsPerDay * (D - E) = SlotsPerDay * D - SlotsPerDay * E
    BY <1>2, <1>3, CalendarFacts, Multiples, Distributes
  <2>2. SlotsPerDay * D \in Int /\ SlotsPerDay * E \in Int
    BY <1>2, <1>3, CalendarFacts, Multiples
  <2> QED
    BY <1>1, <1>2, <2>1, <2>2
<1> HIDE DEF D
<1>5. \E m \in 1..Months : Before[m] <= D /\ D < Before[m] + MonthLengths[m]
  <2> DEFINE T == {n \in 1..(Months + 1) : D < Before[n]}
  <2>1. PICK n \in T : \A k \in T : n <= k
    <3>1. T \subseteq Nat /\ Months + 1 \in T
      BY <1>4, CalendarFacts
    <3> HIDE DEF T
    <3> QED
      BY <3>1, LeastNumber
  <2>2. n # 1
    BY <2>1, <1>3, BeforeIs
  <2>3. n - 1 \in 1..Months /\ n - 1 \notin T /\ (n - 1) + 1 = n
    BY <2>1, <2>2, CalendarFacts
  <2>4. Before[n - 1] <= D
    BY <2>3, <1>3, BeforeGrows, CalendarFacts
  <2>5. Before[n] = Before[n - 1] + MonthLengths[n - 1]
    BY <2>3, BeforeGrows
  <2> QED
    BY <2>1, <2>3, <2>4, <2>5
<1>6. MonthOf(t) \in 1..Months /\ Before[MonthOf(t)] <= D /\ D < Before[MonthOf(t)] + MonthLengths[MonthOf(t)]
  BY <1>5 DEF MonthOf, D, Months
<1> QED
  BY <1>1, <1>2, <1>3, <1>4, <1>6 DEF D

-----------------------------------------------------------------------------
\* A window is active as it is meant when the occurrence the code computes is the
\* latest beginning.
Latest(w, now, s) ==
    s \in w.start..now /\ Begins(w, s) /\ \A r \in w.start..now : Begins(w, r) => r <= s

WindowLike(w) == w.start \in Nat /\ w.dur \in Int /\ w.rule \in {"once", "daily", "weekly", "monthly"}

LEMMA LatestDecides ==
    ASSUME NEW w, WindowLike(w), NEW now \in Nat, NEW s, Latest(w, now, s)
    PROVE  Meant(w, now) <=> (w.enabled /\ now < s + w.dur)
<1>1. s \in Int /\ s \in w.start..now /\ w.start \in Nat /\ w.dur \in Int
  BY DEF Latest, WindowLike
<1>2. ASSUME NEW r \in w.start..now, Begins(w, r), now < r + w.dur PROVE now < s + w.dur
  <2>1. r <= s /\ r \in Int
    BY <1>1, <1>2 DEF Latest
  <2> QED
    BY <1>1, <1>2, <2>1
<1>3. ASSUME now < s + w.dur PROVE \E r \in w.start..now : now < r + w.dur /\ Begins(w, r)
  <2>1. Begins(w, s)
    BY DEF Latest
  <2> QED
    BY <1>1, <1>3, <2>1
<1> QED
  BY <1>2, <1>3 DEF Meant

LEMMA DayAndSlot ==
    ASSUME NEW t \in Nat
    PROVE  /\ DayOf(t) \in Int /\ SlotOfDay(t) \in 0..(SlotsPerDay - 1)
           /\ t = SlotsPerDay * DayOf(t) + SlotOfDay(t)
BY CalendarFacts, DivMod DEF DayOf, SlotOfDay

LEMMA DailyLatest ==
    ASSUME NEW w, WindowLike(w), w.rule = "daily", NEW now \in Nat, w.start <= now
    PROVE  Latest(w, now, currentOccurrence(w, now))
<1> DEFINE p == SlotsPerDay
           dn == DayOf(now)   sn == SlotOfDay(now)
           ds == DayOf(w.start)   ss == SlotOfDay(w.start)
           today == p * dn + ss
           k == IF ss > sn THEN (dn - ds) - 1 ELSE dn - ds
           o == currentOccurrence(w, now)
<1>1. p \in Nat \ {0} /\ w.start \in Nat
  BY CalendarFacts DEF WindowLike
<1>2. /\ dn \in Int /\ sn \in 0..(p - 1) /\ now = p * dn + sn
      /\ ds \in Int /\ ss \in 0..(p - 1) /\ w.start = p * ds + ss
  BY <1>1, DayAndSlot
<1>3. o = IF today > now THEN today - p ELSE today
  <2>1. dn * p = p * dn
    BY <1>1, <1>2
  <2> QED
    BY <2>1 DEF currentOccurrence
<1>4. \A s : Begins(w, s) <=> (s - w.start) % p = 0
  BY DEF Begins
<1> HIDE DEF dn, sn, ds, ss, o, p
<1>5. p * dn \in Int /\ p * ds \in Int /\ p * (dn - ds) = p * dn - p * ds
      /\ p * ((dn - ds) - 1) = p * (dn - ds) - p
  BY <1>1, <1>2, Multiples, Distributes
<1>6. k \in Int /\ o = w.start + p * k
  BY <1>1, <1>2, <1>3, <1>5
<1>7. o \in Int /\ o <= now /\ now < o + p
  BY <1>1, <1>2, <1>3, <1>5
<1> HIDE DEF k
<1>8. LastOf(p, w.start, now, o)
  <2>1. Periods(p, w.start, o)
    BY <1>6 DEF Periods
  <2> QED
    BY <1>1, <1>7, <2>1, LatestPeriod
<1> QED
  BY <1>1, <1>4, <1>7, <1>8 DEF Latest, LastOf, o

LEMMA WeeklyLatest ==
    ASSUME NEW w, WindowLike(w), w.rule = "weekly", NEW now \in Nat, w.start <= now
    PROVE  Latest(w, now, currentOccurrence(w, now))
<1> DEFINE p == SlotsPerDay
           dn == DayOf(now)   sn == SlotOfDay(now)
           ds == DayOf(w.start)   ss == SlotOfDay(w.start)
           x == (Weekday(now) + 7 - Weekday(w.start)) % 7
           q == ((dn - ds) - x) \div 7
           week == (p * dn + ss) - p * x
           k == IF week > now THEN q - 1 ELSE q
           o == currentOccurrence(w, now)
<1>1. p \in Nat \ {0} /\ w.start \in Nat
  BY CalendarFacts DEF WindowLike
<1>2. /\ dn \in Int /\ sn \in 0..(p - 1) /\ now = p * dn + sn
      /\ ds \in Int /\ ss \in 0..(p - 1) /\ w.start = p * ds + ss
  BY <1>1, DayAndSlot
<1>3. o = IF week > now THEN week - 7 * p ELSE week
  <2> DEFINE today == dn * p + ss
  <2>1. today = p * dn + ss
    BY <1>1, <1>2
  <2>2. o = IF today - p * x > now THEN (today - p * x) - 7 * p ELSE today - p * x
    BY DEF currentOccurrence
  <2> HIDE DEF today, o, x
  <2> QED
    BY <2>1, <2>2
<1>4. \A s : Begins(w, s) <=> (s - w.start) % (7 * p) = 0
  BY DEF Begins
<1>0. x = (((dn % 7) + 7) - (ds % 7)) % 7
  <2>1. Weekday(now) = dn % 7 /\ Weekday(w.start) = ds % 7 /\ dn % 7 \in Int /\ ds % 7 \in Int
    BY <1>2 DEF Weekday
  <2> HIDE DEF dn, ds
  <2> QED
    BY <2>1
<1> HIDE DEF dn, sn, ds, ss, o, p, x
<1>5. x \in 0..6 /\ q \in Int /\ dn - ds = 7 * q + x
  <2>1. dn % 7 \in 0..6 /\ ds % 7 \in 0..6 /\ dn = 7 * (dn \div 7) + (dn % 7) /\ ds = 7 * (ds \div 7) + (ds % 7)
        /\ dn \div 7 \in Int /\ ds \div 7 \in Int
    BY <1>2, DivMod
  <2> QED
    BY <1>0, <1>2, <2>1
<1> HIDE DEF q
<1>6. p * dn \in Int /\ p * ds \in Int /\ p * x \in Int /\ p * q \in Int
      /\ p * (dn - ds) = p * dn - p * ds /\ p * (7 * q + x) = p * (7 * q) + p * x
      /\ p * (7 * q) = (7 * p) * q /\ (7 * p) * q \in Int /\ (7 * p) * (q - 1) = (7 * p) * q - 7 * p
  <2>1. p * dn \in Int /\ p * ds \in Int /\ p * x \in Int /\ p * q \in Int
    BY <1>1, <1>2, <1>5
  <2>2. p * (dn - ds) = p * dn - p * ds
    BY <1>1, <1>2, Distributes
  <2>3. p * (7 * q + x) = p * (7 * q) + p * x
    BY <1>1, <1>5, Distributes
  <2>4. p * (7 * q) = (7 * p) * q /\ (7 * p) * q \in Int /\ (7 * p) * (q - 1) = (7 * p) * q - 7 * p
    BY <1>1, <1>5
  <2> QED
    BY <2>1, <2>2, <2>3, <2>4
<1>7. week = w.start + (7 * p) * q
  BY <1>1, <1>2, <1>5, <1>6
<1>8. p * x <= p * 6 /\ (x # 0 => p * x >= p) /\ (x = 0 => p * x = 0)
  BY <1>1, <1>5
<1>9. week > now => x = 0
  BY <1>1, <1>2, <1>6, <1>8
<1>10. k \in Int /\ o = w.start + (7 * p) * k
  BY <1>1, <1>2, <1>3, <1>5, <1>6, <1>7
<1>11. o \in Int /\ o <= now /\ now < o + 7 * p
  <2>1. week \in Int /\ now - week = (sn - ss) + p * x
    BY <1>1, <1>2, <1>6
  <2>2. CASE week > now
    BY <1>1, <1>2, <1>3, <1>8, <1>9, <2>1, <2>2
  <2>3. CASE ~(week > now)
    BY <1>1, <1>2, <1>3, <1>6, <1>8, <2>1, <2>3
  <2> QED
    BY <2>2, <2>3
<1> HIDE DEF k, week
<1>12. LastOf(7 * p, w.start, now, o)
  <2> DEFINE pp == 7 * p
  <2>1. pp \in Nat \ {0}
    BY <1>1
  <2>2. o = w.start + pp * k /\ now < o + pp
    BY <1>10, <1>11
  <2> HIDE DEF pp
  <2>3. Periods(pp, w.start, o)
    BY <1>10, <2>2 DEF Periods
  <2>4. LastOf(pp, w.start, now, o)
    BY <1>1, <1>11, <2>1, <2>2, <2>3, LatestPeriod
  <2> QED
    BY <2>4 DEF pp
<1> QED
  BY <1>1, <1>4, <1>11, <1>12 DEF Latest, LastOf, o

-----------------------------------------------------------------------------
LEMMA OneMonth ==
    ASSUME NEW d \in Int, NEW m \in 1..Months, NEW n \in 1..Months,
           Before[m] <= d, d < Before[n] + MonthLengths[n]
    PROVE  m <= n
<1>1. Before[m] \in Nat /\ Before[n + 1] \in Nat /\ Before[n + 1] = Before[n] + MonthLengths[n]
  BY BeforeGrows, CalendarFacts
<1>2. ASSUME n < m PROVE FALSE
  <2>1. n + 1 = m \/ n + 1 < m
    BY <1>2, CalendarFacts
  <2>2. Before[n + 1] <= Before[m]
    BY <1>1, <2>1, BeforeGrows, CalendarFacts
  <2> QED
    BY <1>1, <2>2
<1> QED
  BY <1>2, CalendarFacts

\* The occurrence of a month lies in it, on the day of the start or the last one.
DayIn(m, start) == IF MonthDay(start) < MonthLengths[m] THEN MonthDay(start) ELSE MonthLengths[m] - 1

LEMMA OccurrenceIs ==
    ASSUME NEW start \in Nat, start < Horizon, NEW m \in 1..Months, NEW o, o = buildMonthlyOccurrence(m, start)
    PROVE  /\ o \in Nat /\ DayIn(m, start) \in 0..(MonthLengths[m] - 1)
           /\ DayOf(o) = Before[m] + DayIn(m, start) /\ SlotOfDay(o) = SlotOfDay(start)
           /\ MonthOf(o) = m /\ MonthDay(o) = DayIn(m, start)
           /\ o = SlotsPerDay * (Before[m] + DayIn(m, start)) + SlotOfDay(start)
<1> DEFINE p == SlotsPerDay
           ml == MonthLengths[m]
           b == Before[m]
           d == DayIn(m, start)
           ss == SlotOfDay(start)
<1>1. p \in Nat \ {0} /\ ml \in Nat \ {0} /\ b \in Nat
  BY CalendarFacts, BeforeGrows
<1>2. MonthDay(start) \in Nat /\ ss \in 0..(p - 1)
  <2>1. Before[MonthOf(start)] \in Nat /\ DayOf(start) \in Nat /\ Before[MonthOf(start)] <= DayOf(start)
    BY MonthOfIs, BeforeGrows, CalendarFacts
  <2> QED
    BY <2>1, MonthOfIs DEF MonthDay
<1>3. d \in 0..(ml - 1)
  BY <1>1, <1>2 DEF DayIn
<1>4. o = (b + d) * p + ss
  BY DEF buildMonthlyOccurrence, DayIn
<1> HIDE DEF p, ml, b, d, ss
<1>5. (b + d) * p = p * (b + d) /\ b + d \in Nat /\ p * (b + d) \in Nat
  BY <1>1, <1>3
<1>6. o = p * (b + d) + ss /\ o \in Nat
  BY <1>1, <1>2, <1>4, <1>5
<1>7. o \div p = b + d /\ o % p = ss
  <2> DEFINE t == b + d
  <2>1. t \in Int
    BY <1>5
  <2> HIDE DEF t
  <2>2. (p * t + ss) \div p = t /\ (p * t + ss) % p = ss
    BY <1>1, <1>2, <2>1, DivUnique
  <2> QED
    BY <1>6, <2>2 DEF t
<1>8. DayOf(o) = b + d /\ SlotOfDay(o) = ss
  BY <1>7 DEF DayOf, SlotOfDay, p
<1>9. MonthOf(o) = m
  <2> DEFINE In(n) == Before[n] <= DayOf(o) /\ DayOf(o) < Before[n] + MonthLengths[n]
  <2>1. In(m)
    BY <1>1, <1>3, <1>8 DEF b, ml
  <2>2. \A n \in 1..Months : In(n) => n = m
    <3> SUFFICES ASSUME NEW n \in 1..Months, In(n) PROVE n = m
      OBVIOUS
    <3>1. DayOf(o) \in Int
      BY <1>1, <1>3, <1>8
    <3>2. n <= m /\ m <= n
      BY <2>1, <3>1, OneMonth
    <3> QED
      BY <3>2, CalendarFacts
  <2>3. MonthOf(o) = CHOOSE n \in 1..Months : In(n)
    BY DEF MonthOf, Months
  <2> HIDE DEF In
  <2> QED
    BY <2>1, <2>2, <2>3
<1>10. MonthDay(o) = d
  <2>1. MonthDay(o) = DayOf(o) - b
    BY <1>9 DEF MonthDay, b
  <2> QED
    BY <1>1, <1>3, <1>8, <2>1
<1> QED
  BY <1>3, <1>6, <1>8, <1>9, <1>10 DEF p, ml, b, d, ss

\* Later days come later.
LEMMA DaysInOrder ==
    ASSUME NEW a \in Int, NEW b \in Int, a < b, NEW r \in 0..(SlotsPerDay - 1), NEW s \in 0..(SlotsPerDay - 1)
    PROVE  SlotsPerDay * a + r < SlotsPerDay * b + s
<1>1. SlotsPerDay \in Nat \ {0}
  BY CalendarFacts
<1>2. SlotsPerDay * (b - a) >= SlotsPerDay
  BY <1>1, Multiples
<1>3. SlotsPerDay * (b - a) = SlotsPerDay * b - SlotsPerDay * a /\ SlotsPerDay * a \in Int /\ SlotsPerDay * b \in Int
  BY <1>1, Multiples, Distributes
<1> QED
  BY <1>1, <1>2, <1>3

LEMMA MonthsInOrder ==
    ASSUME NEW start \in Nat, start < Horizon, NEW m \in 1..Months, NEW n \in 1..Months, m < n
    PROVE  buildMonthlyOccurrence(m, start) < buildMonthlyOccurrence(n, start)
<1> DEFINE ss == SlotOfDay(start)
           dm == DayIn(m, start)
           dn == DayIn(n, start)
<1>1. /\ buildMonthlyOccurrence(m, start) = SlotsPerDay * (Before[m] + dm) + ss /\ dm \in 0..(MonthLengths[m] - 1)
      /\ buildMonthlyOccurrence(n, start) = SlotsPerDay * (Before[n] + dn) + ss /\ dn \in 0..(MonthLengths[n] - 1)
      /\ ss \in 0..(SlotsPerDay - 1)
  BY OccurrenceIs, MonthOfIs
<1> HIDE DEF ss, dm, dn
<1>2. /\ MonthLengths[m] \in Nat /\ Before[m] \in Nat /\ Before[n] \in Nat
      /\ MonthLengths[n] \in Nat
      /\ Before[m + 1] = Before[m] + MonthLengths[m] /\ Before[m + 1] \in Nat
      /\ m + 1 \in 1..(Months + 1)
  BY BeforeGrows, CalendarFacts
<1>3. m + 1 = n \/ m + 1 < n
  BY CalendarFacts
<1>4. Before[m + 1] <= Before[n]
  BY <1>2, <1>3, BeforeGrows, CalendarFacts
<1>5. Before[m] + dm \in Int /\ Before[n] + dn \in Int /\ Before[m] + dm < Before[n] + dn
  BY <1>1, <1>2, <1>4
<1> QED
  BY <1>1, <1>5, DaysInOrder

\* A monthly window begins at the occurrences the code builds and at no other time.
LEMMA MonthlyBegins ==
    ASSUME NEW w, WindowLike(w), w.rule = "monthly", w.start < Horizon,
           NEW s \in Nat, s < Horizon
    PROVE  Begins(w, s) <=> s = buildMonthlyOccurrence(MonthOf(s), w.start)
<1> DEFINE m == MonthOf(s)
           ml == MonthLengths[m]
           o == buildMonthlyOccurrence(m, w.start)
           d0 == MonthDay(w.start)
<1>1. w.start \in Nat
  BY DEF WindowLike
<1>2. m \in 1..Months /\ ml \in Nat \ {0} /\ Before[m] \in Nat
  BY MonthOfIs, CalendarFacts, BeforeGrows
<1>3. MonthDay(s) \in 0..(ml - 1) /\ DayOf(s) = Before[m] + MonthDay(s)
  <2>1. DayOf(s) \in Nat /\ Before[m] <= DayOf(s) /\ DayOf(s) < Before[m] + ml
    BY MonthOfIs
  <2>2. MonthDay(s) = DayOf(s) - Before[m]
    BY DEF MonthDay
  <2> HIDE DEF m, ml
  <2> QED
    BY <1>2, <2>1, <2>2
<1>4. d0 \in Nat
  <2>1. Before[MonthOf(w.start)] \in Nat /\ DayOf(w.start) \in Nat /\ Before[MonthOf(w.start)] <= DayOf(w.start)
    BY <1>1, MonthOfIs, BeforeGrows, CalendarFacts
  <2> QED
    BY <2>1 DEF MonthDay
<1>5. /\ o = SlotsPerDay * (Before[m] + DayIn(m, w.start)) + SlotOfDay(w.start)
      /\ SlotOfDay(o) = SlotOfDay(w.start) /\ MonthDay(o) = DayIn(m, w.start)
  BY <1>1, <1>2, OccurrenceIs
<1>6. s = SlotsPerDay * DayOf(s) + SlotOfDay(s)
  BY MonthOfIs
<1>7. Begins(w, s) <=> /\ SlotOfDay(s) = SlotOfDay(w.start)
                       /\ \/ MonthDay(s) = d0
                          \/ d0 >= ml /\ MonthDay(s) + 1 = ml
  BY DEF Begins
<1>8. DayIn(m, w.start) = IF d0 < ml THEN d0 ELSE ml - 1
  BY DEF DayIn
<1> HIDE DEF m, ml, o, d0
<1>9. (MonthDay(s) = d0 \/ (d0 >= ml /\ MonthDay(s) + 1 = ml)) <=> MonthDay(s) = DayIn(m, w.start)
  BY <1>2, <1>3, <1>4, <1>8
<1>10. Begins(w, s) <=> SlotOfDay(s) = SlotOfDay(w.start) /\ MonthDay(s) = DayIn(m, w.start)
  BY <1>7, <1>9
<1>11. ASSUME Begins(w, s) PROVE s = o
  BY <1>3, <1>5, <1>6, <1>10, <1>11
<1>12. ASSUME s = o PROVE Begins(w, s)
  BY <1>5, <1>10, <1>12
<1> QED
  BY <1>11, <1>12 DEF o, m

LEMMA MonthlyLatest ==
    ASSUME NEW w, WindowLike(w), w.rule = "monthly", NEW now \in Nat, w.start <= now, now < Horizon
    PROVE  Latest(w, now, currentOccurrence(w, now))
<1> DEFINE occ(m) == buildMonthlyOccurrence(m, w.start)
           M == MonthOf(now)
           S == MonthOf(w.start)
           o == currentOccurrence(w, now)
<1>0. Horizon \in Nat
  BY BeforeGrows, CalendarFacts DEF Horizon, Months
<1>1. w.start \in Nat /\ w.start < Horizon
  BY <1>0 DEF WindowLike
<1>2. o = IF occ(M) > now THEN occ(M - 1) ELSE occ(M)
  BY DEF currentOccurrence
<1>3. M \in 1..Months /\ S \in 1..Months
  BY <1>1, MonthOfIs
<1>4. \A m \in 1..Months : occ(m) \in Nat /\ MonthOf(occ(m)) = m
  BY <1>1, OccurrenceIs
<1>5. \A m, n \in 1..Months : m < n => occ(m) < occ(n)
  BY <1>1, MonthsInOrder
<1>6. \A s \in w.start..now : s \in Nat /\ s < Horizon /\ (Begins(w, s) <=> s = occ(MonthOf(s))) /\ MonthOf(s) \in 1..Months
  <2> SUFFICES ASSUME NEW s \in w.start..now
               PROVE  s \in Nat /\ s < Horizon /\ (Begins(w, s) <=> s = occ(MonthOf(s))) /\ MonthOf(s) \in 1..Months
    OBVIOUS
  <2>1. s \in Nat /\ s < Horizon
    BY <1>0, <1>1
  <2> QED
    BY <1>1, <2>1, MonthlyBegins, MonthOfIs
<1>7. Begins(w, w.start)
  BY <1>1 DEF Begins
<1>8. occ(S) = w.start
  BY <1>1, <1>6, <1>7
<1>9. \A s \in w.start..now : MonthOf(s) <= M /\ S <= MonthOf(s)
  <2> SUFFICES ASSUME NEW s \in w.start..now PROVE MonthOf(s) <= M /\ S <= MonthOf(s)
    OBVIOUS
  <2>1. s \in Nat /\ s < Horizon /\ MonthOf(s) \in 1..Months
    BY <1>6
  <2>2. DayOf(w.start) <= DayOf(s) /\ DayOf(s) <= DayOf(now)
    <3>1. \A a, b \in Nat : a <= b => DayOf(a) <= DayOf(b)
      <4> SUFFICES ASSUME NEW a \in Nat, NEW b \in Nat, a <= b, DayOf(b) < DayOf(a) PROVE FALSE
        BY DayAndSlot
      <4>1. SlotsPerDay * DayOf(b) + SlotOfDay(b) < SlotsPerDay * DayOf(a) + SlotOfDay(a)
        BY DayAndSlot, DaysInOrder
      <4>2. b < a
        BY <4>1, DayAndSlot
      <4> QED
        BY <4>2
    <3> QED
      BY <1>1, <2>1, <3>1
  <2>3. /\ DayOf(s) \in Nat /\ Before[MonthOf(s)] <= DayOf(s) /\ DayOf(s) < Before[MonthOf(s)] + MonthLengths[MonthOf(s)]
        /\ Before[MonthOf(s)] \in Nat /\ MonthLengths[MonthOf(s)] \in Nat
    BY <2>1, MonthOfIs, BeforeGrows, CalendarFacts
  <2>4. /\ DayOf(now) \in Nat /\ DayOf(now) < Before[M] + MonthLengths[M]
        /\ Before[M] \in Nat /\ MonthLengths[M] \in Nat
    BY <1>3, MonthOfIs, BeforeGrows, CalendarFacts
  <2>5. DayOf(w.start) \in Nat /\ Before[S] <= DayOf(w.start) /\ Before[S] \in Nat
    BY <1>1, <1>3, MonthOfIs, BeforeGrows, CalendarFacts
  <2>6. Before[MonthOf(s)] <= DayOf(now)
    BY <2>2, <2>3, <2>4
  <2>7. Before[S] <= DayOf(s)
    BY <2>2, <2>3, <2>5
  <2> QED
    BY <1>3, <2>1, <2>3, <2>4, <2>6, <2>7, OneMonth
<1> HIDE DEF occ, M, S, o
<1>10. Months \in Nat
  BY CalendarFacts
<1>11. CASE ~(occ(M) > now)
  <2>1. o = occ(M) /\ o \in Nat /\ o <= now
    BY <1>2, <1>3, <1>4, <1>11
  <2>2. \A s \in w.start..now : Begins(w, s) => s <= o
    <3> SUFFICES ASSUME NEW s \in w.start..now, Begins(w, s) PROVE s <= o
      OBVIOUS
    <3>1. s = occ(MonthOf(s)) /\ MonthOf(s) \in 1..Months /\ MonthOf(s) <= M
      BY <1>6, <1>9
    <3>2. MonthOf(s) = M \/ MonthOf(s) < M
      BY <1>3, <1>10, <3>1
    <3> QED
      BY <1>3, <1>4, <1>5, <2>1, <3>1, <3>2
  <2>3. w.start <= o
    BY <1>1, <1>7, <2>2
  <2>4. o \in w.start..now
    BY <1>1, <2>1, <2>3
  <2>5. Begins(w, o)
    BY <1>3, <1>4, <1>6, <2>1, <2>4
  <2> QED
    BY <2>2, <2>4, <2>5 DEF Latest, o
<1>12. CASE occ(M) > now
  <2>1. S # M
    BY <1>1, <1>8, <1>12
  <2>2. S <= M
    BY <1>1, <1>9 DEF S
  <2>3. M - 1 \in 1..Months /\ S <= M - 1 /\ (M - 1) + 1 = M
    BY <1>3, <1>10, <2>1, <2>2
  <2>4. o = occ(M - 1) /\ o \in Nat
    BY <1>2, <1>4, <1>12, <2>3
  <2>5. \A s \in w.start..now : Begins(w, s) => s <= o
    <3> SUFFICES ASSUME NEW s \in w.start..now, Begins(w, s) PROVE s <= o
      OBVIOUS
    <3>1. s = occ(MonthOf(s)) /\ MonthOf(s) \in 1..Months /\ MonthOf(s) <= M
      BY <1>6, <1>9
    <3>2. MonthOf(s) # M
      BY <1>1, <1>12, <3>1
    <3>3. MonthOf(s) = M - 1 \/ MonthOf(s) < M - 1
      BY <1>3, <1>10, <3>1, <3>2
    <3> QED
      BY <1>4, <1>5, <2>3, <2>4, <3>1, <3>3
  <2>6. o <= now
    <3>1. MonthOf(o) = M - 1 /\ o \in Nat
      BY <1>4, <2>3, <2>4
    <3>2. DayOf(o) = Before[M - 1] + DayIn(M - 1, w.start) /\ DayIn(M - 1, w.start) \in 0..(MonthLengths[M - 1] - 1)
      BY <1>1, <2>3, <2>4, OccurrenceIs DEF occ
    <3>3. Before[M - 1] \in Nat /\ MonthLengths[M - 1] \in Nat /\ Before[M] = Before[M - 1] + MonthLengths[M - 1]
      BY <2>3, BeforeGrows, CalendarFacts
    <3>4. Before[M] <= DayOf(now) /\ DayOf(now) \in Nat
      BY MonthOfIs DEF M
    <3>5. DayOf(o) \in Int /\ DayOf(o) < DayOf(now)
      BY <3>2, <3>3, <3>4
    <3>6. SlotsPerDay * DayOf(o) + SlotOfDay(o) < SlotsPerDay * DayOf(now) + SlotOfDay(now)
      BY <3>1, <3>4, <3>5, DayAndSlot, DaysInOrder
    <3> QED
      BY <3>1, <3>6, DayAndSlot
  <2>7. w.start <= o
    BY <1>1, <1>7, <2>5
  <2>8. o \in w.start..now
    BY <1>1, <2>4, <2>6, <2>7
  <2>9. Begins(w, o)
    BY <1>4, <1>6, <2>3, <2>4, <2>8
  <2> QED
    BY <2>5, <2>8, <2>9 DEF Latest, o
<1> QED
  BY <1>11, <1>12

\* A window is active exactly when it is meant to be.
LEMMA ActiveIsMeant ==
    ASSUME NEW w, WindowLike(w), NEW now \in Nat, now < Horizon
    PROVE  IsActive(w, now) <=> Meant(w, now)
<1> DEFINE o == IF w.rule = "once" THEN w.start ELSE currentOccurrence(w, now)
<1>1. w.start \in Nat
  BY DEF WindowLike
<1>2. ASSUME ~(now >= w.start) PROVE ~IsActive(w, now) /\ ~Meant(w, now)
  <2>1. ~IsActive(w, now)
    BY <1>2 DEF IsActive
  <2>2. w.start..now = {}
    BY <1>1, <1>2
  <2> QED
    BY <2>1, <2>2 DEF Meant
<1>3. ASSUME now >= w.start PROVE IsActive(w, now) <=> Meant(w, now)
  <2>1. w.start <= now
    BY <1>1, <1>3
  <2>2. Latest(w, now, o)
    <3>1. CASE w.rule = "once"
      <4>1. \A s : Begins(w, s) <=> s = w.start
        BY <3>1 DEF Begins
      <4>2. o = w.start /\ w.start \in w.start..now
        BY <1>1, <2>1, <3>1
      <4> QED
        BY <1>1, <4>1, <4>2 DEF Latest
    <3>2. CASE w.rule = "daily"
      BY <2>1, <3>2, DailyLatest
    <3>3. CASE w.rule = "weekly"
      BY <2>1, <3>3, WeeklyLatest
    <3>4. CASE w.rule = "monthly"
      BY <2>1, <3>4, MonthlyLatest
    <3> QED
      BY <3>1, <3>2, <3>3, <3>4 DEF WindowLike
  <2>3. IsActive(w, now) <=> w.enabled /\ o <= now /\ now < o + w.dur
    BY <1>3 DEF IsActive
  <2> HIDE DEF o
  <2>4. o <= now
    BY <1>1, <2>2 DEF Latest
  <2>5. Meant(w, now) <=> (w.enabled /\ now < o + w.dur)
    BY <2>2, LatestDecides
  <2> QED
    BY <2>3, <2>4, <2>5
<1> QED
  BY <1>2, <1>3

-----------------------------------------------------------------------------
Entered ==
    {[start |-> c.start, dur |-> c.dur, rule |-> c.rule, scope |-> c.scope, enabled |-> on] :
        c \in WindowCfgs, on \in BOOLEAN}

MaintenanceTypeOK ==
    /\ windows \in [WindowIDs -> {NoWindow} \cup Entered]
    /\ windowsFile \in [WindowIDs -> {NoWindow} \cup Entered]
    /\ maintClock \in Nat /\ maintClock < Horizon

LEMMA EnteredIs ==
    /\ \A w \in Entered : WindowLike(w)
    /\ \A c \in WindowCfgs, on \in BOOLEAN :
          [start |-> c.start, dur |-> c.dur, rule |-> c.rule, scope |-> c.scope, enabled |-> on] \in Entered
<1>1. \A w \in Entered : WindowLike(w)
  <2> SUFFICES ASSUME NEW w \in Entered PROVE WindowLike(w)
    OBVIOUS
  <2>1. PICK c \in WindowCfgs, on \in BOOLEAN :
           w = [start |-> c.start, dur |-> c.dur, rule |-> c.rule, scope |-> c.scope, enabled |-> on]
    BY DEF Entered
  <2>2. w.start = c.start /\ w.dur = c.dur /\ w.rule = c.rule
    BY <2>1
  <2>3. c.start \in Nat /\ c.dur \in Int /\ c.rule \in {"once", "daily", "weekly", "monthly"}
    BY MaintenanceAssumption
  <2> QED
    BY <2>2, <2>3 DEF WindowLike
<1> QED
  BY <1>1 DEF Entered

LEMMA MaintenanceTypes == MaintenanceSpec => []MaintenanceTypeOK
<1>1. MaintenanceInit => MaintenanceTypeOK
  <2>1. Horizon \in Nat /\ 0 < Horizon
    <3>1. Before[Months + 1] \in Nat /\ Before[1] = 0 /\ Before[1] < Before[Months + 1]
      BY BeforeIs, BeforeGrows, CalendarFacts
    <3>2. SlotsPerDay * Before[Months + 1] \in Int /\ SlotsPerDay * Before[Months + 1] >= SlotsPerDay
      BY <3>1, CalendarFacts, Multiples
    <3> QED
      BY <3>2, CalendarFacts DEF Horizon, Months
  <2> QED
    BY <2>1 DEF MaintenanceInit, MaintenanceTypeOK, NoWindows
<1>2. MaintenanceTypeOK /\ [MaintenanceNext]_maintVars => MaintenanceTypeOK'
  <2> SUFFICES ASSUME MaintenanceTypeOK, [MaintenanceNext]_maintVars PROVE MaintenanceTypeOK'
    OBVIOUS
  <2> DEFINE Ws == [WindowIDs -> {NoWindow} \cup Entered]
  <2>0. windows \in Ws /\ windowsFile \in Ws
    BY DEF MaintenanceTypeOK
  <2>1. CASE handleMaintenanceCreate
    <3>1. windows' \in Ws
      BY <2>0, <2>1, EnteredIs DEF handleMaintenanceCreate
    <3>2. windowsFile' \in Ws
      BY <2>0, <2>1, <3>1 DEF handleMaintenanceCreate, persist
    <3> QED
      BY <2>1, <3>1, <3>2 DEF handleMaintenanceCreate, MaintenanceTypeOK
  <2>2. CASE handleMaintenanceUpdate
    <3>1. windows' \in Ws
      BY <2>0, <2>2, EnteredIs DEF handleMaintenanceUpdate
    <3>2. windowsFile' \in Ws
      BY <2>0, <2>2, <3>1 DEF handleMaintenanceUpdate, persist
    <3> QED
      BY <2>2, <3>1, <3>2 DEF handleMaintenanceUpdate, MaintenanceTypeOK
  <2>3. CASE handleMaintenanceDelete
    <3>1. windows' \in Ws
      BY <2>0, <2>3 DEF handleMaintenanceDelete
    <3>2. windowsFile' \in Ws
      BY <2>0, <2>3, <3>1 DEF handleMaintenanceDelete, persist
    <3> QED
      BY <2>3, <3>1, <3>2 DEF handleMaintenanceDelete, MaintenanceTypeOK
  <2>4. CASE RestartMaintenance
    BY <2>4 DEF RestartMaintenance, MaintenanceTypeOK
  <2>5. CASE ClockTick
    <3>1. maintClock' \in Nat /\ maintClock' < Horizon
      BY <2>5 DEF ClockTick, MaintenanceTypeOK
    <3>2. UNCHANGED <<windows, windowsFile>> /\ Horizon' = Horizon
      BY <2>5 DEF ClockTick, Horizon
    <3> QED
      BY <2>0, <3>1, <3>2 DEF MaintenanceTypeOK
  <2>6. CASE UNCHANGED maintVars
    BY <2>6 DEF maintVars, MaintenanceTypeOK
  <2> QED
    BY <2>1, <2>2, <2>3, <2>4, <2>5, <2>6 DEF MaintenanceNext
<1> QED
  BY <1>1, <1>2, PTL DEF MaintenanceSpec

\* One-shot windows that are active are in the answer of the first query, so the
\* second one is asked for the rest only when there are none.
LEMMA ListsAgree ==
    ASSUME MaintenanceTypeOK, NEW reads
    PROVE  /\ ListActive(reads) \subseteq ListActiveFile
           /\ maintKind = "file" \/ FindsAll(reads) => ListActive(reads) = ListActiveFile
<1> DEFINE first == {i \in Windows : /\ maintClock >= windows[i].start /\ maintClock < windows[i].start + windows[i].dur
                                     /\ IsActive(windows[i], maintClock)}
           recurring == {i \in Windows : windows[i].rule # "once" /\ IsActive(windows[i], maintClock)}
<1>1. ListActive(reads) =
        IF maintKind = "file" THEN ListActiveFile
        ELSE IF "first" \notin reads THEN {}
        ELSE IF first # {} \/ "recurring" \notin reads THEN first
        ELSE recurring
  BY DEF ListActive, ListActiveMongo
<1>2. first \subseteq ListActiveFile /\ recurring \subseteq ListActiveFile
  BY DEF ListActiveFile
<1>3. ASSUME Cardinality(ListActiveFile) <= 1, first # {} PROVE first = ListActiveFile
  <2>1. IsFiniteSet(ListActiveFile)
    <3>1. ListActiveFile \subseteq WindowIDs
      BY DEF ListActiveFile, Windows
    <3> QED
      BY <3>1, FS_Subset, MaintenanceAssumption
  <2>2. Cardinality(ListActiveFile) \in Nat
    BY <2>1, FS_CardinalityType
  <2>3. PICK x : x \in first
    BY <1>3
  <2>4. x \in ListActiveFile
    BY <1>2, <2>3
  <2> HIDE DEF first, recurring
  <2>5. Cardinality(ListActiveFile) = 1
    <3>1. Cardinality(ListActiveFile) # 0
      BY <2>1, <2>4, FS_EmptySet
    <3> QED
      BY <1>3, <2>2, <3>1
  <2>6. PICK y : ListActiveFile = {y}
    BY <2>1, <2>5, FS_Singleton
  <2> QED
    BY <1>2, <2>3, <2>4, <2>6
<1>4. ASSUME first = {} PROVE recurring = ListActiveFile
  <2> SUFFICES ASSUME NEW i \in Windows, IsActive(windows[i], maintClock), windows[i].rule = "once" PROVE FALSE
    BY DEF ListActiveFile
  <2>1. maintClock >= windows[i].start /\ maintClock < windows[i].start + windows[i].dur
    BY DEF IsActive
  <2> QED
    BY <1>4, <2>1
<1>5. ASSUME first = {}, \A i \in ListActiveFile : windows[i].rule = "once" PROVE ListActiveFile = {}
  <2>1. \A i \in recurring : i \in ListActiveFile /\ windows[i].rule # "once"
    BY DEF ListActiveFile
  <2>2. recurring = ListActiveFile
    BY <1>4, <1>5
  <2> HIDE DEF first, recurring
  <2> QED
    BY <1>5, <2>1, <2>2
<1> HIDE DEF first, recurring
<1>6. ASSUME FindsAll(reads), maintKind # "file" PROVE ListActive(reads) = ListActiveFile
  <2>1. CASE first # {}
    BY <1>1, <1>3, <1>6, <2>1 DEF FindsAll
  <2>2. CASE first = {} /\ "recurring" \in reads
    BY <1>1, <1>4, <1>6, <2>2 DEF FindsAll
  <2>3. CASE first = {} /\ "recurring" \notin reads
    BY <1>1, <1>5, <1>6, <2>3 DEF FindsAll
  <2> QED
    BY <2>1, <2>2, <2>3
<1> QED
  BY <1>1, <1>2, <1>6

\* For every calendar, every resolution and all windows: a window is active when
\* it is meant to be, and an alert is held back only while a window covers its
\* check and, unless a query of MongoDB fails or two windows are active at once,
\* whenever one does.
THEOREM MaintenanceTheorem == MaintenanceSpec => []MaintenanceSound
<1>1. MaintenanceTypeOK => MaintenanceSound
  <2> SUFFICES ASSUME MaintenanceTypeOK PROVE MaintenanceSound
    OBVIOUS
  <2>1. maintClock \in Nat /\ maintClock < Horizon
    BY DEF MaintenanceTypeOK
  <2>2. RecurrenceCorrect
    <3>1. \A w \in Probes : WindowLike(w)
      BY MaintenanceAssumption DEF WindowLike
    <3>2. \A w \in Probes : IsActive(w, maintClock) <=> Meant(w, maintClock)
      BY <2>1, <3>1, ActiveIsMeant
    <3>3. \A w : IsActive(w, maintClock) \in BOOLEAN /\ Meant(w, maintClock) \in BOOLEAN
      BY DEF IsActive, Meant
    <3> QED
      BY <3>2, <3>3 DEF RecurrenceCorrect
  <2>3. \A i \in Windows : IsActive(windows[i], maintClock) <=> Meant(windows[i], maintClock)
    <3> SUFFICES ASSUME NEW i \in Windows PROVE IsActive(windows[i], maintClock) <=> Meant(windows[i], maintClock)
      OBVIOUS
    <3>1. windows[i] \in Entered
      BY DEF Windows, MaintenanceTypeOK
    <3> QED
      BY <2>1, <3>1, EnteredIs, ActiveIsMeant
  <2>4. ListActiveFile = {i \in Windows : Meant(windows[i], maintClock)}
    BY <2>3 DEF ListActiveFile
  <2>5. \A c \in MaintChecks, reads \in SUBSET Queries :
          /\ IsCheckInMaintenance(c, reads) => InMaintenance(c)
          /\ maintKind = "file" \/ FindsAll(reads) => (InMaintenance(c) => IsCheckInMaintenance(c, reads))
    BY <2>4, ListsAgree DEF IsCheckInMaintenance, InMaintenance
  <2> QED
    BY <2>2, <2>5 DEF MaintenanceSound
<1> QED
  BY <1>1, MaintenanceTypes, PTL

=============================================================================
