----------------------- MODULE RemediationEngineProofs -----------------------
(***************************************************************************)
(* Proofs about RemediationEngine: type correctness, EngineSound and       *)
(* VerdictFinal, for any number of goroutines, attempts, checks and        *)
(* incidents and for any limits.                                           *)
(*                                                                         *)
(* The counter is decremented, so that it is a natural number at all rests *)
(* on RunningExact.  RunningIsRecorded needs that goroutines past their    *)
(* insertion hold different attempts (HoldersApart), which follows from    *)
(* an insertion taking an identifier without a document.  The bound on the *)
(* attempts counts those stored together with the goroutines that have     *)
(* passed the limit and not inserted yet (OvershootInv).                   *)
(***************************************************************************)
EXTENDS RemediationEngine, FiniteSetTheorems, TLAPS

\* The goroutines inside execute, those that hold a stored attempt, and those
\* that have passed the limit for incident i and stored no attempt yet.
Inside == {r \in Runs : run[r].pc \in InExecute}
Holding == InExecute \ {"insert"}
Passed(i) == {r \in Runs : run[r].pc \in {"enter", "insert"} /\ run[r].incident = i}
AttemptsOf(i) == {a \in Attempts : attempts[a].status # "none" /\ attempts[a].incident = i}

\* What the attempt of a goroutine says until its outcome is recorded.
HeldIsStored ==
    \A r \in Runs :
        /\ run[r].pc \in Holding => attempts[run[r].id].status # "none"
        /\ run[r].pc = "exec" => ~run[r].dryRun
        /\ run[r].pc \in {"exec", "record"} =>
             /\ attempts[run[r].id].status = IF run[r].dryRun THEN "dry_run" ELSE "running"
             /\ attempts[run[r].id].incident = run[r].incident
             /\ attempts[run[r].id].check = run[r].check

HoldersApart ==
    \A r, s \in Runs : r # s /\ run[r].pc \in Holding /\ run[s].pc \in Holding => run[r].id # run[s].id

OvershootInv ==
    \A i \in Incidents :
        Cardinality(AttemptsOf(i)) + Cardinality(Passed(i)) <= MaxAttempts + Cardinality(Runs) - 1

IInv == TypeOK /\ RunningExact /\ HeldIsStored /\ HoldersApart /\ OvershootInv

-----------------------------------------------------------------------------
LEMMA DefaultsTyped ==
    /\ AnyCheck \in Checks /\ AnyAttempt \in Attempts
    /\ NoAttempt \in Attempt /\ IdleRun \in RunStates
<1>1. AnyCheck \in Checks /\ AnyAttempt \in Attempts
  BY RemediationAssumption DEF AnyCheck, AnyAttempt
<1> QED
  BY <1>1 DEF NoAttempt, Attempt, Statuses, AttemptIncidents, IdleRun, RunStates, PCs

\* Subsets of the goroutines and of the attempts are finite.
LEMMA Finite ==
    /\ IsFiniteSet(Inside) /\ Cardinality(Inside) \in Nat
    /\ \A i : /\ IsFiniteSet(Passed(i)) /\ Cardinality(Passed(i)) \in Nat
              /\ Cardinality(Passed(i)) <= Cardinality(Runs)
              /\ IsFiniteSet(AttemptsOf(i)) /\ Cardinality(AttemptsOf(i)) \in Nat
    /\ Cardinality(Runs) \in Nat
<1>1. IsFiniteSet(Runs) /\ IsFiniteSet(Attempts) /\ Cardinality(Runs) \in Nat
  BY RemediationAssumption, FS_CardinalityType
<1>2. IsFiniteSet(Inside) /\ Cardinality(Inside) \in Nat
  <2>1. Inside \in SUBSET Runs
    BY DEF Inside
  <2> QED
    BY <1>1, <2>1, FS_Subset, FS_CardinalityType
<1>3. ASSUME NEW i
      PROVE /\ IsFiniteSet(Passed(i)) /\ Cardinality(Passed(i)) \in Nat
            /\ Cardinality(Passed(i)) <= Cardinality(Runs)
            /\ IsFiniteSet(AttemptsOf(i)) /\ Cardinality(AttemptsOf(i)) \in Nat
  <2>1. Passed(i) \in SUBSET Runs /\ AttemptsOf(i) \in SUBSET Attempts
    BY DEF Passed, AttemptsOf
  <2> QED
    BY <1>1, <2>1, FS_Subset, FS_CardinalityType
<1> QED
  BY <1>1, <1>2, <1>3

LEMMA InitIInv == Init => IInv
<1> SUFFICES ASSUME Init PROVE IInv
  OBVIOUS
<1>1. TypeOK
  BY DefaultsTyped DEF Init, TypeOK
<1>2. \A r \in Runs : run[r].pc = "idle"
  BY DEF Init, IdleRun
<1>3. \A a \in Attempts : attempts[a].status = "none"
  BY DEF Init, NoAttempt
<1>4. RunningExact
  <2>1. Inside = {}
    BY <1>2 DEF Inside, InExecute
  <2> QED
    BY <2>1, FS_EmptySet DEF RunningExact, Inside, Init
<1>5. HeldIsStored /\ HoldersApart
  BY <1>2 DEF HeldIsStored, HoldersApart, Holding, InExecute
<1>6. OvershootInv
  <2> SUFFICES ASSUME NEW i \in Incidents
               PROVE Cardinality(AttemptsOf(i)) + Cardinality(Passed(i)) <= MaxAttempts + Cardinality(Runs) - 1
    BY DEF OvershootInv
  <2>1. AttemptsOf(i) = {} /\ Passed(i) = {}
    BY <1>2, <1>3 DEF AttemptsOf, Passed
  <2> QED
    BY <2>1, Finite, FS_EmptySet, RemediationAssumption
<1> QED
  BY <1>1, <1>4, <1>5, <1>6 DEF IInv

-----------------------------------------------------------------------------
(***************************************************************************)
(* The counter and the types.                                              *)
(***************************************************************************)
\* A step that moves goroutine r into execute, out of it, or neither.
LEMMA CountInside ==
    ASSUME TypeOK, RunningExact, NEW r \in Runs,
           \A q \in Runs \ {r} : run'[q].pc = run[q].pc
    PROVE  /\ run[r].pc \notin InExecute /\ run'[r].pc \in InExecute /\ running' = running + 1
                => RunningExact' /\ running' \in Nat
           /\ run[r].pc \in InExecute /\ run'[r].pc \notin InExecute /\ running' = running - 1
                => RunningExact' /\ running' \in Nat
           /\ (run[r].pc \in InExecute) = (run'[r].pc \in InExecute) /\ running' = running
                => RunningExact' /\ running' \in Nat
<1>1. ASSUME run[r].pc \notin InExecute, run'[r].pc \in InExecute, running' = running + 1
      PROVE  RunningExact' /\ running' \in Nat
  <2>1. Inside' = Inside \cup {r} /\ r \notin Inside
    BY <1>1 DEF Inside
  <2>2. Cardinality(Inside') = Cardinality(Inside) + 1
    BY <2>1, Finite, FS_AddElement
  <2> QED
    BY <1>1, <2>2, Finite DEF RunningExact, Inside
<1>2. ASSUME run[r].pc \in InExecute, run'[r].pc \notin InExecute, running' = running - 1
      PROVE  RunningExact' /\ running' \in Nat
  <2>1. Inside' = Inside \ {r} /\ r \in Inside
    BY <1>2 DEF Inside
  <2>2. Cardinality(Inside') = Cardinality(Inside) - 1 /\ Cardinality(Inside') \in Nat
    BY <2>1, Finite, FS_RemoveElement, FS_CardinalityType
  <2> QED
    BY <1>2, <2>2, Finite DEF RunningExact, Inside
<1>3. ASSUME (run[r].pc \in InExecute) = (run'[r].pc \in InExecute), running' = running
      PROVE  RunningExact' /\ running' \in Nat
  <2>1. Inside' = Inside
    BY <1>3 DEF Inside
  <2> QED
    BY <1>3, <2>1, Finite DEF RunningExact, Inside
<1> QED
  BY <1>1, <1>2, <1>3

\* What a step of goroutine r leaves alone: the other goroutines, and, when it
\* moves on rather than returns, its own check, incident and mode.
Moved(r) == run' \in [Runs -> RunStates] /\ \A q \in Runs \ {r} : run'[q] = run[q]
Kept(r) ==
    /\ run'[r].check = run[r].check /\ run'[r].incident = run[r].incident
    /\ run'[r].dryRun = run[r].dryRun

LEMMA GotoMoves ==
    ASSUME TypeOK, NEW r \in Runs, NEW label \in PCs, Goto(r, label)
    PROVE  Moved(r) /\ Kept(r) /\ run'[r].pc = label /\ run'[r].id = run[r].id
<1>1. run' = [run EXCEPT ![r] = [run[r] EXCEPT !.pc = label]]
  BY DEF Goto
<1>2. [run[r] EXCEPT !.pc = label] \in RunStates
  BY DEF TypeOK, RunStates
<1> QED
  BY <1>1, <1>2 DEF TypeOK, Moved, Kept, RunStates

LEMMA ReturnMoves ==
    ASSUME TypeOK, NEW r \in Runs, Return(r)
    PROVE  Moved(r) /\ run'[r].pc = "idle"
<1>1. IdleRun \in RunStates /\ IdleRun.pc = "idle"
  BY DefaultsTyped DEF IdleRun
<1> QED
  BY <1>1 DEF Return, TypeOK, Moved

LEMMA BeginMoves ==
    ASSUME TypeOK, NEW r \in Runs, NEW by \in {"system", "manual"},
           NEW k \in Checks, NEW i \in AttemptIncidents, Begin(r, by, k, i)
    PROVE  Moved(r) /\ run'[r].pc = "config"
<1> DEFINE s == [IdleRun EXCEPT !.pc = "config", !.by = by, !.check = k, !.incident = i]
<1>1. s \in RunStates /\ s.pc = "config"
  BY DefaultsTyped DEF IdleRun, RunStates, PCs
<1>2. run' = [run EXCEPT ![r] = s]
  BY DEF Begin
<1> HIDE DEF s
<1> QED
  BY <1>1, <1>2 DEF TypeOK, Moved

LEMMA PrepareMoves ==
    ASSUME TypeOK, NEW r \in Runs, Prepare(r)
    PROVE  Moved(r) /\ run'[r].pc \in {"limit", "cooldown", "idle"}
<1> DEFINE s == [run[r] EXCEPT !.dryRun = (config = "dry"),
                              !.pc = IF run[r].by = "system" THEN "limit" ELSE "cooldown"]
<1>1. CASE run' = [run EXCEPT ![r] = s]
  <2>1. s \in RunStates /\ s.pc \in {"limit", "cooldown"}
    BY DEF TypeOK, RunStates, PCs
  <2> HIDE DEF s
  <2> QED
    BY <1>1, <2>1 DEF TypeOK, Moved
<1>2. CASE Return(r)
  BY <1>2, ReturnMoves
<1> QED
  BY <1>1, <1>2 DEF Prepare

LEMMA CreateMoves ==
    ASSUME TypeOK, NEW r \in Runs, NEW a \in Attempts,
           run' = [run EXCEPT ![r].pc = AfterInsert(r), ![r].id = a]
    PROVE  /\ Moved(r) /\ Kept(r) /\ run'[r].id = a
           /\ run'[r].pc = AfterInsert(r) /\ run'[r].pc \in {"exec", "record"}
<1> DEFINE s == [run[r] EXCEPT !.pc = AfterInsert(r), !.id = a]
<1>1. AfterInsert(r) \in {"exec", "record"}
  BY DEF AfterInsert
<1>2. /\ s \in RunStates /\ s.pc = AfterInsert(r) /\ s.id = a
      /\ s.check = run[r].check /\ s.incident = run[r].incident /\ s.dryRun = run[r].dryRun
  BY <1>1 DEF TypeOK, RunStates, PCs, InExecute
<1>3. run' = [run EXCEPT ![r] = s]
  OBVIOUS
<1> HIDE DEF s
<1> QED
  BY <1>1, <1>2, <1>3 DEF TypeOK, Moved, Kept

LEMMA ActionEndsMoves ==
    ASSUME TypeOK, NEW r \in Runs, ActionEnds(r)
    PROVE  Moved(r) /\ Kept(r) /\ run'[r].pc = "record" /\ run'[r].id = run[r].id
<1>1. PICK ok \in BOOLEAN : run' = [run EXCEPT ![r].pc = "record", ![r].ok = ok]
  BY DEF ActionEnds
<1> DEFINE s == [run[r] EXCEPT !.pc = "record", !.ok = ok]
<1>2. /\ s \in RunStates /\ s.pc = "record" /\ s.id = run[r].id
      /\ s.check = run[r].check /\ s.incident = run[r].incident /\ s.dryRun = run[r].dryRun
  BY DEF TypeOK, RunStates, PCs, InExecute
<1>3. run' = [run EXCEPT ![r] = s]
  BY <1>1
<1> HIDE DEF s
<1> QED
  BY <1>2, <1>3 DEF TypeOK, Moved, Kept

LEMMA RecordMoves ==
    ASSUME TypeOK, NEW r \in Runs, RecordOutcome(r)
    PROVE  /\ Moved(r) /\ Kept(r) /\ run'[r].id = run[r].id
           /\ run'[r].pc \in {"leave", "cool", "analyze"}
<1> DEFINE s == [run[r] EXCEPT !.pc = AfterRecord(r), !.ok = FALSE]
<1>1. AfterRecord(r) \in {"leave", "cool", "analyze"}
  BY DEF AfterRecord
<1>2. /\ s \in RunStates /\ s.pc = AfterRecord(r) /\ s.id = run[r].id
      /\ s.check = run[r].check /\ s.incident = run[r].incident /\ s.dryRun = run[r].dryRun
  BY <1>1 DEF TypeOK, RunStates, PCs, InExecute
<1>3. run' = [run EXCEPT ![r] = s]
  BY DEF RecordOutcome
<1> HIDE DEF s
<1> QED
  BY <1>1, <1>2, <1>3 DEF TypeOK, Moved, Kept

-----------------------------------------------------------------------------
(***************************************************************************)
(* The attempts that goroutines hold, and the attempts of an incident.     *)
(***************************************************************************)
\* A goroutine that holds no attempt after its step disturbs nobody else's.
LEMMA HeldElsewhere ==
    ASSUME HeldIsStored, HoldersApart, NEW r \in Runs, Moved(r),
           run'[r].pc \notin Holding,
           \A q \in Runs \ {r} : run[q].pc \in Holding => attempts'[run[q].id] = attempts[run[q].id]
    PROVE  HeldIsStored' /\ HoldersApart'
<1>1. \A q \in Runs \ {r} : run'[q] = run[q]
  BY DEF Moved
<1>2. "exec" \in Holding /\ "record" \in Holding
  BY DEF Holding, InExecute
<1>3. run'[r].pc # "exec" /\ run'[r].pc # "record"
  BY <1>2
<1>4. HoldersApart'
  BY <1>1 DEF HoldersApart
<1>5. HeldIsStored'
  <2> SUFFICES ASSUME NEW q \in Runs
               PROVE  /\ run'[q].pc \in Holding => attempts'[run'[q].id].status # "none"
                      /\ run'[q].pc = "exec" => ~run'[q].dryRun
                      /\ run'[q].pc \in {"exec", "record"} =>
                           /\ attempts'[run'[q].id].status = IF run'[q].dryRun THEN "dry_run" ELSE "running"
                           /\ attempts'[run'[q].id].incident = run'[q].incident
                           /\ attempts'[run'[q].id].check = run'[q].check
    BY DEF HeldIsStored, Holding
  <2>1. CASE q = r
    BY <2>1, <1>3
  <2>2. CASE q # r
    BY <2>2, <1>1, <1>2 DEF HeldIsStored
  <2> QED
    BY <2>1, <2>2
<1> QED
  BY <1>4, <1>5

\* A goroutine that moves on with the attempt it held.
LEMMA HeldOnward ==
    ASSUME HeldIsStored, HoldersApart, NEW r \in Runs, Moved(r), Kept(r),
           run'[r].id = run[r].id, run[r].pc \in Holding, run'[r].pc \in Holding,
           run'[r].pc # "exec",
           run'[r].pc = "record" => run[r].pc \in {"exec", "record"} /\ attempts' = attempts,
           \A q \in Runs \ {r} : run[q].pc \in Holding => attempts'[run[q].id] = attempts[run[q].id],
           attempts'[run[r].id].status # "none"
    PROVE  HeldIsStored' /\ HoldersApart'
<1>1. \A q \in Runs \ {r} : run'[q] = run[q]
  BY DEF Moved
<1>2. "exec" \in Holding /\ "record" \in Holding
  BY DEF Holding, InExecute
<1>4. HoldersApart'
  BY <1>1 DEF HoldersApart
<1>5. HeldIsStored'
  <2> SUFFICES ASSUME NEW q \in Runs
               PROVE  /\ run'[q].pc \in Holding => attempts'[run'[q].id].status # "none"
                      /\ run'[q].pc = "exec" => ~run'[q].dryRun
                      /\ run'[q].pc \in {"exec", "record"} =>
                           /\ attempts'[run'[q].id].status = IF run'[q].dryRun THEN "dry_run" ELSE "running"
                           /\ attempts'[run'[q].id].incident = run'[q].incident
                           /\ attempts'[run'[q].id].check = run'[q].check
    BY DEF HeldIsStored, Holding
  <2>1. CASE q = r
    BY <2>1 DEF HeldIsStored, Kept
  <2>2. CASE q # r
    BY <2>2, <1>1, <1>2 DEF HeldIsStored
  <2> QED
    BY <2>1, <2>2
<1> QED
  BY <1>4, <1>5

\* The goroutine takes an identifier that has no document, hence nobody's.
LEMMA HeldAnew ==
    ASSUME TypeOK, HeldIsStored, HoldersApart, NEW r \in Runs, NEW a \in Unused,
           Moved(r), Kept(r), run'[r].id = a, run'[r].pc = AfterInsert(r),
           attempts' = [attempts EXCEPT ![a] = NewAttempt(r)]
    PROVE  HeldIsStored' /\ HoldersApart'
<1>1. \A q \in Runs \ {r} : run'[q] = run[q]
  BY DEF Moved
<1>2. "exec" \in Holding /\ "record" \in Holding
  BY DEF Holding, InExecute
<1>3. \A q \in Runs : run[q].pc \in Holding => run[q].id # a
  BY DEF HeldIsStored, Unused
<1>4. /\ attempts'[a] = NewAttempt(r) /\ \A b \in Attempts \ {a} : attempts'[b] = attempts[b]
      /\ \A q \in Runs : run[q].id \in Attempts
  BY DEF TypeOK, Unused, RunStates
<1>5. HoldersApart'
  BY <1>1, <1>3 DEF HoldersApart
<1>6. HeldIsStored'
  <2> SUFFICES ASSUME NEW q \in Runs
               PROVE  /\ run'[q].pc \in Holding => attempts'[run'[q].id].status # "none"
                      /\ run'[q].pc = "exec" => ~run'[q].dryRun
                      /\ run'[q].pc \in {"exec", "record"} =>
                           /\ attempts'[run'[q].id].status = IF run'[q].dryRun THEN "dry_run" ELSE "running"
                           /\ attempts'[run'[q].id].incident = run'[q].incident
                           /\ attempts'[run'[q].id].check = run'[q].check
    BY DEF HeldIsStored, Holding
  <2>1. CASE q = r
    BY <2>1, <1>4 DEF Kept, NewAttempt, AfterInsert
  <2>2. CASE q # r
    BY <2>2, <1>1, <1>2, <1>3, <1>4 DEF HeldIsStored
  <2> QED
    BY <2>1, <2>2
<1> QED
  BY <1>5, <1>6

\* Nobody joins those that passed the limit, and no attempt is added.
LEMMA OvershootKept ==
    ASSUME OvershootInv, NEW r \in Runs, Moved(r),
           run'[r].pc \in {"enter", "insert"} =>
               run[r].pc \in {"enter", "insert"} /\ run'[r].incident = run[r].incident,
           \A i \in Incidents : AttemptsOf(i)' = AttemptsOf(i)
    PROVE  OvershootInv'
<1> SUFFICES ASSUME NEW i \in Incidents
             PROVE Cardinality(AttemptsOf(i)') + Cardinality(Passed(i)') <= MaxAttempts + Cardinality(Runs) - 1
  BY DEF OvershootInv
<1>1. Passed(i)' \subseteq Passed(i)
  BY DEF Passed, Moved
<1>2. Cardinality(Passed(i)') <= Cardinality(Passed(i)) /\ Cardinality(Passed(i)') \in Nat
  BY <1>1, Finite, FS_Subset, FS_CardinalityType
<1> QED
  BY <1>2, Finite, RemediationAssumption DEF OvershootInv

\* A goroutine passes the limit: its incident had fewer than MaxAttempts.
LEMMA OvershootCounted ==
    ASSUME OvershootInv, NEW r \in Runs, Moved(r), Kept(r), attempts' = attempts,
           ~LimitReached(run[r].incident)
    PROVE  OvershootInv'
<1> SUFFICES ASSUME NEW i \in Incidents
             PROVE Cardinality(AttemptsOf(i)') + Cardinality(Passed(i)') <= MaxAttempts + Cardinality(Runs) - 1
  BY DEF OvershootInv
<1>1. AttemptsOf(i)' = AttemptsOf(i)
  BY DEF AttemptsOf
<1>2. CASE run[r].incident = i
  <2>1. CountedFor(i) = AttemptsOf(i)
    BY RemediationAssumption DEF CountedFor, AttemptsOf
  <2>2. Cardinality(AttemptsOf(i)) <= MaxAttempts - 1
    BY <1>2, <2>1, Finite, RemediationAssumption DEF LimitReached
  <2>3. Passed(i)' \in SUBSET Runs
    BY DEF Passed
  <2>4. Cardinality(Passed(i)') <= Cardinality(Runs) /\ Cardinality(Passed(i)') \in Nat
    BY <2>3, RemediationAssumption, FS_Subset, FS_CardinalityType
  <2> QED
    BY <1>1, <2>2, <2>4, Finite, RemediationAssumption
<1>3. CASE run[r].incident # i
  <2>1. Passed(i)' \subseteq Passed(i)
    BY <1>3 DEF Passed, Moved, Kept
  <2>2. Cardinality(Passed(i)') <= Cardinality(Passed(i)) /\ Cardinality(Passed(i)') \in Nat
    BY <2>1, Finite, FS_Subset, FS_CardinalityType
  <2> QED
    BY <1>1, <2>2, Finite, RemediationAssumption DEF OvershootInv
<1> QED
  BY <1>2, <1>3

\* An insertion: the goroutine that passed the limit becomes an attempt.
LEMMA OvershootInserted ==
    ASSUME TypeOK, OvershootInv, NEW r \in Runs, Moved(r), NEW a \in Unused,
           run[r].pc = "insert", run'[r].pc \notin {"enter", "insert"},
           attempts' = [attempts EXCEPT ![a] = NewAttempt(r)]
    PROVE  OvershootInv'
<1> SUFFICES ASSUME NEW i \in Incidents
             PROVE Cardinality(AttemptsOf(i)') + Cardinality(Passed(i)') <= MaxAttempts + Cardinality(Runs) - 1
  BY DEF OvershootInv
<1>1. /\ attempts'[a].incident = run[r].incident /\ attempts'[a].status # "none"
      /\ \A b \in Attempts \ {a} : attempts'[b] = attempts[b]
      /\ a \in Attempts /\ attempts[a].status = "none"
  BY DEF TypeOK, Unused, NewAttempt
<1>2. CASE run[r].incident = i
  <2>1. AttemptsOf(i)' = AttemptsOf(i) \cup {a} /\ a \notin AttemptsOf(i)
    BY <1>1, <1>2 DEF AttemptsOf
  <2>2. Passed(i)' = Passed(i) \ {r} /\ r \in Passed(i)
    BY <1>2 DEF Passed, Moved
  <2>3. Cardinality(AttemptsOf(i)') = Cardinality(AttemptsOf(i)) + 1
    BY <2>1, Finite, FS_AddElement
  <2>4. Cardinality(Passed(i)') = Cardinality(Passed(i)) - 1
    BY <2>2, Finite, FS_RemoveElement
  <2> QED
    BY <2>3, <2>4, Finite, RemediationAssumption DEF OvershootInv
<1>3. CASE run[r].incident # i
  <2>1. AttemptsOf(i)' = AttemptsOf(i)
    BY <1>1, <1>3 DEF AttemptsOf
  <2>2. Passed(i)' = Passed(i)
    BY <1>3 DEF Passed, Moved
  <2> QED
    BY <2>1, <2>2 DEF OvershootInv
<1> QED
  BY <1>2, <1>3

-----------------------------------------------------------------------------
(***************************************************************************)
(* One lemma per group of actions.                                         *)
(***************************************************************************)
\* Before execute nothing is held or stored; only CountAttempts adds to those
\* that passed the limit.
LEMMA BeforeStep ==
    ASSUME IInv, NEW r \in Runs, Before(r)
    PROVE  IInv'
<1> USE DEF IInv
<1>1. /\ Moved(r) /\ run[r].pc \notin InExecute
      /\ run'[r].pc \in {"config", "limit", "cooldown", "count", "enter", "idle"}
      /\ run'[r].pc = "enter" => Kept(r) /\ ~LimitReached(run[r].incident)
      /\ triggered' \subseteq Incidents
      /\ UNCHANGED <<config, registry, attempts, running, cooling>>
  <2>1. CASE TryRemediate(r)
    <3>1. PICK i \in Incidents : /\ Begin(r, "system", CheckOf[i], i)
                                 /\ triggered' = triggered \cup {i}
      BY <2>1 DEF TryRemediate
    <3>2. CheckOf[i] \in Checks /\ i \in AttemptIncidents
      BY RemediationAssumption DEF AttemptIncidents
    <3>3. Moved(r) /\ run'[r].pc = "config"
      BY <3>1, <3>2, BeginMoves
    <3> QED
      BY <3>1, <3>3 DEF Begin, At, InExecute, TypeOK
  <2>2. CASE ManualRemediate(r)
    <3>1. PICK k \in Checks \ Inline, i \in AttemptIncidents :
             Begin(r, "manual", k, i) /\ UNCHANGED triggered
      BY <2>2 DEF ManualRemediate
    <3>2. Moved(r) /\ run'[r].pc = "config"
      BY <3>1, BeginMoves
    <3> QED
      BY <3>1, <3>2 DEF Begin, At, InExecute, TypeOK
  <2>3. CASE Prepare(r)
    BY <2>3, PrepareMoves DEF Prepare, At, InExecute, TypeOK
  <2>4. CASE CheckConcurrency(r)
    BY <2>4, GotoMoves, ReturnMoves DEF CheckConcurrency, At, InExecute, TypeOK, PCs
  <2>5. CASE CheckCooldown(r)
    BY <2>5, GotoMoves, ReturnMoves DEF CheckCooldown, At, InExecute, TypeOK, PCs
  <2>6. CASE RefuseExhausted(r)
    BY <2>6, ReturnMoves DEF RefuseExhausted, At, InExecute, TypeOK
  <2>7. CASE CountAttempts(r)
    BY <2>7, GotoMoves, ReturnMoves DEF CountAttempts, At, InExecute, TypeOK, PCs
  <2> QED
    BY <2>1, <2>2, <2>3, <2>4, <2>5, <2>6, <2>7 DEF Before
<1>2. run'[r].pc \notin InExecute /\ run'[r].pc \notin Holding /\ run'[r].pc # "insert"
  BY <1>1 DEF InExecute, Holding
<1>3. \A q \in Runs \ {r} : run'[q].pc = run[q].pc
  BY <1>1 DEF Moved
<1>4. RunningExact' /\ running' \in Nat
  BY <1>1, <1>2, <1>3, CountInside
<1>5. TypeOK'
  BY <1>1, <1>4 DEF TypeOK, Moved
<1>6. HeldIsStored' /\ HoldersApart'
  BY <1>1, <1>2, HeldElsewhere
<1>7. OvershootInv'
  <2>1. \A i \in Incidents : AttemptsOf(i)' = AttemptsOf(i)
    BY <1>1 DEF AttemptsOf
  <2>2. CASE run'[r].pc = "enter"
    BY <2>2, <1>1, OvershootCounted
  <2>3. CASE run'[r].pc # "enter"
    BY <2>1, <2>3, <1>1, <1>2, OvershootKept
  <2> QED
    BY <2>2, <2>3
<1> QED
  BY <1>4, <1>5, <1>6, <1>7

\* The counter and the insertion.
LEMMA InsertStep ==
    ASSUME IInv, NEW r \in Runs, EnterExecute(r) \/ CreateAttempt(r) \/ InsertFailed(r)
    PROVE  IInv'
<1> USE DEF IInv
<1>0. NewAttempt(r) \in Attempt
  BY DEF NewAttempt, TypeOK, Attempt, RunStates, Statuses
<1>1. CASE EnterExecute(r)
  <2>1. Moved(r) /\ Kept(r) /\ run[r].pc = "enter" /\ run'[r].pc = "insert"
    BY <1>1, GotoMoves DEF EnterExecute, At, PCs, InExecute
  <2>2. /\ run[r].pc \notin InExecute /\ run'[r].pc \in InExecute /\ run'[r].pc \notin Holding
        /\ \A q \in Runs \ {r} : run'[q].pc = run[q].pc
    BY <2>1 DEF InExecute, Holding, Moved
  <2>3. running' = running + 1 /\ UNCHANGED <<config, registry, attempts, triggered, cooling>>
    BY <1>1 DEF EnterExecute
  <2>4. RunningExact' /\ running' \in Nat
    BY <2>2, <2>3, CountInside
  <2>5. TypeOK'
    BY <2>1, <2>3, <2>4 DEF TypeOK, Moved
  <2>6. HeldIsStored' /\ HoldersApart'
    BY <2>1, <2>2, <2>3, HeldElsewhere
  <2>7. OvershootInv'
    <3>1. \A i \in Incidents : AttemptsOf(i)' = AttemptsOf(i)
      BY <2>3 DEF AttemptsOf
    <3> QED
      BY <2>1, <3>1, OvershootKept DEF Kept
  <2> QED
    BY <2>4, <2>5, <2>6, <2>7
<1>2. CASE CreateAttempt(r)
  <2>1. PICK a \in Unused :
          /\ attempts' = [attempts EXCEPT ![a] = NewAttempt(r)]
          /\ run' = [run EXCEPT ![r].pc = AfterInsert(r), ![r].id = a]
    BY <1>2 DEF CreateAttempt
  <2>2. /\ run[r].pc = "insert" /\ a \in Attempts
        /\ UNCHANGED <<config, registry, triggered, running, cooling>>
    BY <1>2 DEF CreateAttempt, At, Unused
  <2>3. /\ Moved(r) /\ Kept(r) /\ run'[r].id = a
        /\ run'[r].pc = AfterInsert(r) /\ run'[r].pc \in {"exec", "record"}
    BY <2>1, <2>2, CreateMoves
  <2>4. /\ run[r].pc \in InExecute /\ run'[r].pc \in InExecute
        /\ \A q \in Runs \ {r} : run'[q].pc = run[q].pc
    BY <2>2, <2>3 DEF InExecute, Moved
  <2>5. RunningExact' /\ running' \in Nat
    BY <2>2, <2>4, CountInside
  <2>6. TypeOK'
    BY <1>0, <2>1, <2>2, <2>3, <2>5 DEF TypeOK, Moved
  <2>7. HeldIsStored' /\ HoldersApart'
    BY <2>1, <2>3, HeldAnew
  <2>8. OvershootInv'
    BY <2>1, <2>2, <2>3, OvershootInserted
  <2> QED
    BY <2>5, <2>6, <2>7, <2>8
<1>3. CASE InsertFailed(r)
  <2>1. /\ Moved(r) /\ run[r].pc = "insert" /\ run'[r].pc = "idle" /\ running' = running - 1
        /\ UNCHANGED <<config, registry, triggered, cooling>>
    BY <1>3, ReturnMoves DEF InsertFailed, At
  <2>2. /\ run[r].pc \in InExecute /\ run'[r].pc \notin InExecute /\ run'[r].pc \notin Holding
        /\ \A q \in Runs \ {r} : run'[q].pc = run[q].pc
    BY <2>1 DEF InExecute, Holding, Moved
  <2>3. RunningExact' /\ running' \in Nat
    BY <2>1, <2>2, CountInside
  <2>4. CASE UNCHANGED attempts
    <3>1. TypeOK'
      BY <2>1, <2>3, <2>4 DEF TypeOK, Moved
    <3>2. HeldIsStored' /\ HoldersApart'
      BY <2>1, <2>2, <2>4, HeldElsewhere
    <3>3. \A i \in Incidents : AttemptsOf(i)' = AttemptsOf(i)
      BY <2>4 DEF AttemptsOf
    <3> QED
      BY <2>1, <2>3, <3>1, <3>2, <3>3, OvershootKept
  <2>5. ASSUME NEW a \in Unused, attempts' = [attempts EXCEPT ![a] = NewAttempt(r)]
        PROVE  IInv'
    <3>1. TypeOK'
      BY <1>0, <2>1, <2>3, <2>5 DEF TypeOK, Moved
    <3>2. \A q \in Runs : run[q].pc \in Holding => attempts'[run[q].id] = attempts[run[q].id]
      BY <2>5 DEF HeldIsStored, Unused, TypeOK, RunStates
    <3>3. HeldIsStored' /\ HoldersApart'
      BY <2>1, <2>2, <3>2, HeldElsewhere
    <3>4. OvershootInv'
      BY <2>1, <2>5, OvershootInserted
    <3> QED
      BY <2>3, <3>1, <3>3, <3>4
  <2> QED
    BY <1>3, <2>4, <2>5 DEF InsertFailed
<1> QED
  BY <1>1, <1>2, <1>3

\* The outcome is written to the goroutine's own attempt, and to no other.
LEMMA OutcomeStored ==
    ASSUME IInv, NEW r \in Runs, RecordOutcome(r)
    PROVE  /\ attempts' \in [Attempts -> Attempt]
           /\ \A a \in Attempts \ {run[r].id} : attempts'[a] = attempts[a]
           /\ attempts'[run[r].id].incident = attempts[run[r].id].incident
           /\ \/ attempts'[run[r].id].status = attempts[run[r].id].status
              \/ /\ attempts[run[r].id].status = "running"
                 /\ attempts'[run[r].id].status \in {"success", "failed"}
           /\ attempts[run[r].id].status # "none" /\ run[r].id \in Attempts
<1> DEFINE a == run[r].id
<1>1. a \in Attempts /\ attempts[a] \in Attempt
  BY DEF IInv, TypeOK, RunStates
<1>2. /\ attempts[a].status = IF run[r].dryRun THEN "dry_run" ELSE "running"
      /\ attempts[a].status # "none"
  BY DEF IInv, HeldIsStored, RecordOutcome, At
<1>3. Verdict(r) \in Statuses
  BY DEF Verdict, Statuses
<1>4. CASE UNCHANGED attempts
  BY <1>1, <1>2, <1>4 DEF IInv, TypeOK
<1>5. CASE attempts' = [attempts EXCEPT ![a].status = Verdict(r)]
  <2>1. [attempts[a] EXCEPT !.status = Verdict(r)] \in Attempt
    BY <1>1, <1>3 DEF Attempt
  <2>2. /\ attempts' \in [Attempts -> Attempt] /\ attempts'[a] = [attempts[a] EXCEPT !.status = Verdict(r)]
        /\ \A b \in Attempts \ {a} : attempts'[b] = attempts[b]
    BY <1>1, <1>5, <2>1 DEF IInv, TypeOK
  <2>3. attempts'[a].incident = attempts[a].incident /\ attempts'[a].status = Verdict(r)
    BY <1>1, <2>2 DEF Attempt
  <2> QED
    BY <1>1, <1>2, <2>2, <2>3 DEF Verdict
<1> QED
  BY <1>4, <1>5 DEF RecordOutcome

\* The rest of execute, with the attempt in hand.
LEMMA HoldingStep ==
    ASSUME IInv, NEW r \in Runs,
           ActionEnds(r) \/ RecordOutcome(r) \/ AnalyzeFailure(r) \/ SetCooldown(r)
    PROVE  IInv'
<1> USE DEF IInv
<1>1. /\ Moved(r) /\ Kept(r) /\ run'[r].id = run[r].id
      /\ run[r].pc \in {"exec", "record", "analyze", "cool"}
      /\ run'[r].pc \in {"record", "analyze", "cool", "leave"}
      /\ run'[r].pc = "record" => run[r].pc = "exec" /\ attempts' = attempts
      /\ UNCHANGED <<config, registry, triggered, running>>
  <2>1. CASE ActionEnds(r)
    BY <2>1, ActionEndsMoves DEF ActionEnds, At
  <2>2. CASE RecordOutcome(r)
    BY <2>2, RecordMoves DEF RecordOutcome, At
  <2>3. CASE AnalyzeFailure(r)
    BY <2>3, GotoMoves DEF AnalyzeFailure, At, PCs, InExecute
  <2>4. CASE SetCooldown(r)
    BY <2>4, GotoMoves DEF SetCooldown, At, PCs, InExecute
  <2> QED
    BY <2>1, <2>2, <2>3, <2>4
<1>2. cooling' \in [Checks -> BOOLEAN]
  BY DEF ActionEnds, RecordOutcome, AnalyzeFailure, SetCooldown, TypeOK
<1>3. /\ run[r].pc \in InExecute /\ run'[r].pc \in InExecute
      /\ run[r].pc \in Holding /\ run'[r].pc \in Holding
      /\ \A q \in Runs \ {r} : run'[q].pc = run[q].pc
  BY <1>1 DEF InExecute, Holding, Moved
<1>4. RunningExact' /\ running' \in Nat
  BY <1>1, <1>3, CountInside
<1>5. /\ attempts' \in [Attempts -> Attempt]
      /\ \A q \in Runs \ {r} : run[q].pc \in Holding => attempts'[run[q].id] = attempts[run[q].id]
      /\ attempts'[run[r].id].status # "none"
      /\ \A i \in Incidents : AttemptsOf(i)' = AttemptsOf(i)
  <2>1. CASE RecordOutcome(r)
    <3>1. attempts'[run[r].id].status # "none"
      BY <2>1, OutcomeStored
    <3>2. \A q \in Runs \ {r} : run[q].pc \in Holding => run[q].id # run[r].id /\ run[q].id \in Attempts
      BY <1>3 DEF HoldersApart, TypeOK, RunStates
    <3>3. \A i \in Incidents : AttemptsOf(i)' = AttemptsOf(i)
      BY <2>1, <3>1, OutcomeStored DEF AttemptsOf
    <3> QED
      BY <2>1, <3>1, <3>2, <3>3, OutcomeStored
  <2>2. CASE attempts' = attempts
    BY <1>3, <2>2 DEF TypeOK, HeldIsStored, AttemptsOf
  <2> QED
    BY <2>1, <2>2 DEF ActionEnds, AnalyzeFailure, SetCooldown
<1>6. TypeOK'
  BY <1>1, <1>2, <1>4, <1>5 DEF TypeOK, Moved
<1>7. HeldIsStored' /\ HoldersApart'
  BY <1>1, <1>3, <1>5, HeldOnward
<1>8. OvershootInv'
  BY <1>1, <1>5, OvershootKept
<1> QED
  BY <1>4, <1>6, <1>7, <1>8

LEMMA LeaveStep ==
    ASSUME IInv, NEW r \in Runs, LeaveExecute(r)
    PROVE  IInv'
<1> USE DEF IInv
<1>1. /\ Moved(r) /\ run[r].pc = "leave" /\ run'[r].pc = "idle" /\ running' = running - 1
      /\ UNCHANGED <<config, registry, attempts, triggered, cooling>>
  BY ReturnMoves DEF LeaveExecute, At
<1>2. /\ run[r].pc \in InExecute /\ run'[r].pc \notin InExecute /\ run'[r].pc \notin Holding
      /\ \A q \in Runs \ {r} : run'[q].pc = run[q].pc
  BY <1>1 DEF InExecute, Holding, Moved
<1>3. RunningExact' /\ running' \in Nat
  BY <1>1, <1>2, CountInside
<1>4. TypeOK'
  BY <1>1, <1>3 DEF TypeOK, Moved
<1>5. HeldIsStored' /\ HoldersApart'
  BY <1>1, <1>2, HeldElsewhere
<1>6. \A i \in Incidents : AttemptsOf(i)' = AttemptsOf(i)
  BY <1>1 DEF AttemptsOf
<1> QED
  BY <1>1, <1>3, <1>4, <1>5, <1>6, OvershootKept

\* Everything the engine keeps in memory is gone: no goroutine is inside
\* execute, holds an attempt or has passed the limit.
LEMMA RestartStep ==
    ASSUME IInv, Restart
    PROVE  IInv'
<1> USE DEF IInv
<1>1. \A r \in Runs : run'[r].pc = "idle"
  BY DEF Restart, IdleRun
<1>2. TypeOK'
  BY DefaultsTyped DEF Restart, SeedRegistry, TypeOK, Configs
<1>3. RunningExact'
  <2>1. Inside' = {}
    BY <1>1 DEF Inside, InExecute
  <2> QED
    BY <2>1, FS_EmptySet DEF RunningExact, Inside, Restart
<1>4. HeldIsStored' /\ HoldersApart'
  BY <1>1 DEF HeldIsStored, HoldersApart, Holding, InExecute
<1>5. OvershootInv'
  <2> SUFFICES ASSUME NEW i \in Incidents
               PROVE Cardinality(AttemptsOf(i)') + Cardinality(Passed(i)') <= MaxAttempts + Cardinality(Runs) - 1
    BY DEF OvershootInv
  <2>1. AttemptsOf(i)' = AttemptsOf(i) /\ Passed(i)' = {}
    BY <1>1 DEF AttemptsOf, Passed, Restart
  <2> QED
    BY <2>1, Finite, FS_EmptySet, RemediationAssumption DEF OvershootInv
<1> QED
  BY <1>2, <1>3, <1>4, <1>5

LEMMA NextIInv == IInv /\ [Next]_vars => IInv'
<1> SUFFICES ASSUME IInv, [Next]_vars PROVE IInv'
  OBVIOUS
<1>1. ASSUME NEW r \in Runs, Before(r) \/ Execute(r) PROVE IInv'
  BY <1>1, BeforeStep, InsertStep, HoldingStep, LeaveStep DEF Execute
<1>2. ASSUME \/ \E k \in Checks : CooldownExpires(k)
             \/ SaveConfig \/ EditAction \/ UNCHANGED vars
      PROVE  IInv'
  <2>1. UNCHANGED <<attempts, triggered, running, run>>
    BY <1>2 DEF CooldownExpires, SaveConfig, EditAction, vars
  <2>2. TypeOK'
    BY <1>2, <2>1 DEF IInv, CooldownExpires, SaveConfig, EditAction, vars, TypeOK
  <2>3. RunningExact' /\ HeldIsStored' /\ HoldersApart'
    BY <2>1 DEF IInv, RunningExact, HeldIsStored, HoldersApart
  <2>4. OvershootInv'
    BY <2>1 DEF IInv, OvershootInv, AttemptsOf, Passed
  <2> QED
    BY <2>2, <2>3, <2>4 DEF IInv
<1> QED
  BY <1>1, <1>2, RestartStep DEF Next

LEMMA Invariance == Spec => []IInv
<1> QED
  BY InitIInv, NextIInv, PTL DEF Spec

-----------------------------------------------------------------------------
(***************************************************************************)
(* The theorems.                                                           *)
(***************************************************************************)
\* Every variable stays in its type; for the counter e.running, which execute
\* decrements when it returns, this says that it never becomes negative.
THEOREM TypeCorrect == Spec => []TypeOK
<1>1. IInv => TypeOK
  BY DEF IInv
<1> QED
  BY <1>1, Invariance, PTL

\* Automation keeps its records and its limits: e.running is the number of
\* goroutines inside execute, an action that runs has a stored attempt of its
\* own, and an incident's attempts exceed MaxAttempts by at most the other
\* goroutines that counted at the same time.
THEOREM EngineTheorem == Spec => []EngineSound
<1>1. IInv => EngineSound
  <2> SUFFICES ASSUME IInv PROVE EngineSound
    OBVIOUS
  <2>1. RunningExact
    BY DEF IInv
  <2>2. RunningIsRecorded
    <3>1. "exec" \in Holding /\ InExecute \ {"insert"} = Holding
      BY DEF Holding, InExecute
    <3> QED
      BY <3>1 DEF IInv, HeldIsStored, HoldersApart, RunningIsRecorded, At
  <2>3. AttemptsOvershoot
    <3> SUFFICES ASSUME NEW i \in Incidents
                 PROVE  Cardinality(AttemptsOf(i)) <= MaxAttempts + Cardinality(Runs) - 1
      BY DEF AttemptsOvershoot, AttemptsOf
    <3> QED
      BY Finite, RemediationAssumption DEF IInv, OvershootInv
  <2> QED
    BY <2>1, <2>2, <2>3 DEF EngineSound
<1> QED
  BY <1>1, Invariance, PTL

\* The outcome that updateAttempt stores is final: an attempt leaves "running"
\* once, for success or failure, and a dry run stays one.
THEOREM VerdictTheorem == Spec => VerdictFinal
<1>1. IInv /\ [Next]_vars => [\A a \in Attempts : VerdictStep(a)]_vars
  <2> SUFFICES ASSUME IInv, Next, NEW a \in Attempts PROVE VerdictStep(a)
    BY DEF VerdictStep, vars
  <2>1. ASSUME NEW r \in Runs, RecordOutcome(r) PROVE VerdictStep(a)
    BY <2>1, OutcomeStored DEF VerdictStep
  <2>2. ASSUME NEW r \in Runs, CreateAttempt(r) \/ InsertFailed(r) PROVE VerdictStep(a)
    <3>1. \/ attempts' = attempts
          \/ \E b \in Unused : attempts' = [attempts EXCEPT ![b] = NewAttempt(r)]
      BY <2>2 DEF CreateAttempt, InsertFailed
    <3> QED
      BY <3>1 DEF VerdictStep, Unused, IInv, TypeOK
  <2>3. CASE attempts' = attempts
    BY <2>3 DEF VerdictStep
  <2> QED
    BY <2>1, <2>2, <2>3
       DEF Next, Before, Execute, TryRemediate, ManualRemediate, Begin, Prepare, CheckConcurrency,
           CheckCooldown, RefuseExhausted, CountAttempts, EnterExecute, ActionEnds, AnalyzeFailure,
           SetCooldown, LeaveExecute, CooldownExpires, SaveConfig, EditAction, Restart
<1> QED
  BY <1>1, Invariance, PTL DEF Spec, VerdictFinal

=============================================================================
