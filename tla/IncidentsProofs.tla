-------------------------- MODULE IncidentsProofs --------------------------
(***************************************************************************)
(* Proofs about Incidents, for any number of checks, callers and seconds.  *)
(***************************************************************************)
EXTENDS Incidents, TLAPS

(***************************************************************************)
(* What a caller was asked to do determines where it can be.               *)
(***************************************************************************)
RequestOK ==
    \A c \in Callers :
        /\ pc[c] = "find" => req[c].op \in {"alert", "recover"}
        /\ pc[c] \in {"insert", "created"} => req[c].op = "alert"
        /\ pc[c] \in {"load", "replace", "reread"} => req[c].op \in {"alert", "ack", "resolve"}

TypeInv == TypeOK /\ RequestOK

LEMMA IDType ==
    ASSUME NEW id \in IDs
    PROVE  /\ CheckOf(id) \in Checks
           /\ SecondOf(id) \in Seconds
           /\ \A s \in Seconds : <<CheckOf(id), s>> \in IDs
BY DEF IDs, CheckOf, SecondOf

LEMMA ZeroType == ZeroIncident \in Incident
BY ConstantsAssumption DEF ZeroIncident, Incident, Statuses, Seconds

LEMMA NoRequestType == NoRequest \in Requests
<1>1. PICK k \in Checks : TRUE
  BY ConstantsAssumption
<1>2. <<k, 0>> \in IDs
  BY ConstantsAssumption DEF IDs, Seconds
<1>3. AnyID \in IDs
  BY <1>2 DEF AnyID
<1> QED
  BY <1>3, ConstantsAssumption DEF NoRequest, Requests

LEMMA MutatedType ==
    ASSUME NEW r \in Requests, NEW d \in Incident, clock \in Seconds,
           r.op \in {"alert", "ack", "resolve"}
    PROVE  Mutated(r, d) \in Incident
<1>1. CASE r.op = "alert"
  <2>1. Mutated(r, d) = UpdateMutator(d, r.sev)
    BY <1>1 DEF Mutated
  <2> QED
    BY <2>1 DEF UpdateMutator, Incident, Requests
<1>2. CASE r.op = "ack"
  <2>1. Mutated(r, d) = AcknowledgeMutator(d)
    BY <1>2 DEF Mutated
  <2> QED
    BY <2>1 DEF AcknowledgeMutator, Incident, Statuses
<1>3. CASE r.op = "resolve"
  <2>1. Mutated(r, d) = ResolveMutator(d)
    BY <1>3 DEF Mutated
  <2> QED
    BY <2>1 DEF ResolveMutator, Incident, Statuses
<1> QED
  BY <1>1, <1>2, <1>3

-----------------------------------------------------------------------------
LEMMA TypeInit == Init => TypeInv
BY ZeroType, NoRequestType, ConstantsAssumption
   DEF Init, TypeInv, TypeOK, RequestOK, Seconds, PCs, Requests, NoRequest

LEMMA ReturnType ==
    ASSUME TypeInv, NEW c \in Callers, Return(c)
    PROVE  /\ pc' \in [Callers -> PCs]
           /\ req' \in [Callers -> Requests]
           /\ doc' \in [Callers -> Incident]
           /\ RequestOK'
BY ZeroType, NoRequestType
   DEF TypeInv, TypeOK, RequestOK, Return, Goto, PCs

LEMMA BeginType ==
    ASSUME TypeInv, NEW c \in Callers, NEW label, NEW op, NEW id \in IDs, NEW sev \in Severities,
           \/ label = "find" /\ op \in {"alert", "recover"}
           \/ label = "load" /\ op \in {"ack", "resolve"},
           Begin(c, label, op, id, sev)
    PROVE  TypeInv'
<1>1. [op |-> op, id |-> id, sev |-> sev] \in Requests
  BY DEF Requests, Ops
<1>2. req' \in [Callers -> Requests] /\ req'[c].op = op /\ pc'[c] = label
      /\ \A b \in Callers \ {c} : req'[b] = req[b] /\ pc'[b] = pc[b]
  BY <1>1 DEF TypeInv, TypeOK, Begin, Goto
<1>3. TypeOK'
  BY <1>2 DEF TypeInv, TypeOK, Begin, Goto, PCs, History
<1>4. RequestOK'
  BY <1>2 DEF TypeInv, RequestOK
<1> QED
  BY <1>3, <1>4 DEF TypeInv

LEMMA StartCreateType ==
    ASSUME TypeInv, NEW c \in Callers, pc[c] = "find", req[c].op = "alert", StartCreate(c)
    PROVE  /\ pc' \in [Callers -> PCs]
           /\ req' \in [Callers -> Requests]
           /\ doc' \in [Callers -> Incident]
           /\ RequestOK'
<1>1. <<CheckOf(req[c].id), clock>> \in IDs
  BY IDType DEF TypeInv, TypeOK, Requests
<1>2. req' \in [Callers -> Requests] /\ req'[c].op = "alert" /\ pc'[c] = "insert"
      /\ \A b \in Callers \ {c} : req'[b] = req[b] /\ pc'[b] = pc[b]
  BY <1>1 DEF TypeInv, TypeOK, StartCreate, Goto, Requests
<1> QED
  BY <1>2 DEF TypeInv, TypeOK, RequestOK, StartCreate, Goto, PCs

LEMMA NewIncidentType ==
    ASSUME NEW r \in Requests
    PROVE  NewIncident(r) \in Incident
<1>1. SecondOf(r.id) \in Seconds
  BY IDType DEF Requests
<1> QED
  BY <1>1 DEF NewIncident, Incident, Requests, Statuses

LEMMA UpdatedType ==
    ASSUME TypeInv, NEW c \in Callers, pc[c] \in {"load", "replace"}, Updated(c)
    PROVE  /\ pc' \in [Callers -> PCs]
           /\ req' \in [Callers -> Requests]
           /\ doc' \in [Callers -> Incident]
           /\ RequestOK'
<1>1. CASE req[c].op = "resolve"
  BY <1>1 DEF Updated, Goto, TypeInv, TypeOK, RequestOK, PCs
<1>2. CASE req[c].op # "resolve"
  BY <1>2, ReturnType DEF Updated
<1> QED
  BY <1>1, <1>2

\* The history variable names callers.
LEMMA StaleType ==
    ASSUME TypeOK, [Next]_vars
    PROVE  stale' \subseteq Callers
BY DEF TypeOK, Next, vars, Call, Step, ProcessAlert, AutoResolveOnRecovery, AcknowledgeRequest,
       ResolveRequest, Begin, FindHit, FindMiss, FindError, CreateIncident, CreateDuplicate,
       CreateError, OnIncidentCreated, UpdateLoad, UpdateReplace, UpdateError,
       OnIncidentResolved, PruneBefore, Restart, Tick, History

(***************************************************************************)
(* Every action keeps the types.                                           *)
(***************************************************************************)
LEMMA TypeNext == TypeInv /\ [Next]_vars => TypeInv'
<1> SUFFICES ASSUME TypeInv, [Next]_vars PROVE TypeInv'
  OBVIOUS
<1> USE DEF TypeInv
<1> stale' \subseteq Callers
  BY StaleType
<1>1. ASSUME NEW c \in Callers, Call(c) PROVE TypeInv'
  <2>0. \A k \in Checks : <<k, 0>> \in IDs
    BY ConstantsAssumption DEF IDs, Seconds
  <2>1. CASE ProcessAlert(c)
    BY <2>0, <2>1, BeginType DEF ProcessAlert
  <2>2. CASE AutoResolveOnRecovery(c)
    BY <2>0, <2>2, BeginType, ConstantsAssumption DEF AutoResolveOnRecovery
  <2>3. CASE AcknowledgeRequest(c)
    BY <2>3, BeginType, ConstantsAssumption DEF AcknowledgeRequest
  <2>4. CASE ResolveRequest(c)
    BY <2>4, BeginType, ConstantsAssumption DEF ResolveRequest
  <2> QED
    BY <1>1, <2>1, <2>2, <2>3, <2>4 DEF Call
<1>2. ASSUME NEW c \in Callers, Step(c) PROVE TypeInv'
  <2> req[c] \in Requests /\ req[c].id \in IDs /\ incidents[req[c].id] \in Incident
    BY DEF TypeOK, Requests
  <2>1. CASE FindHit(c)
    <3>1. PICK id \in IDs :
             req' = [req EXCEPT ![c].id = id,
                                ![c].op = IF @ = "recover" THEN "resolve" ELSE @]
      BY <2>1 DEF FindHit
    <3>2. req' \in [Callers -> Requests] /\ req'[c].op \in {"alert", "resolve"}
          /\ pc'[c] = "load"
          /\ \A b \in Callers \ {c} : req'[b] = req[b] /\ pc'[b] = pc[b]
      BY <2>1, <3>1 DEF TypeOK, RequestOK, FindHit, Goto, Requests, Ops
    <3> QED
      BY <2>1, <3>2 DEF TypeOK, RequestOK, FindHit, Goto, PCs
  <2>2. CASE FindMiss(c)
    BY <2>2, ReturnType, StartCreateType DEF FindMiss, TypeOK
  <2>3. CASE FindError(c)
    BY <2>3, ReturnType, StartCreateType DEF FindError, TypeOK
  <2>4. CASE CreateIncident(c)
    BY <2>4, NewIncidentType DEF CreateIncident, Goto, TypeOK, RequestOK, PCs
  <2>5. CASE CreateDuplicate(c)
    BY <2>5, ReturnType DEF CreateDuplicate, TypeOK
  <2>6. CASE CreateError(c)
    BY <2>6, ReturnType, NewIncidentType DEF CreateError, TypeOK
  <2>7. CASE OnIncidentCreated(c)
    BY <2>7, ReturnType DEF OnIncidentCreated, TypeOK
  <2>8. CASE UpdateLoad(c)
    <3>1. CASE Return(c)
      BY <2>8, <3>1, ReturnType DEF UpdateLoad, TypeOK
    <3>2. CASE /\ doc' = [doc EXCEPT ![c] = Mutated(req[c], incidents[req[c].id])]
               /\ Goto(c, "replace") /\ UNCHANGED req
      BY <2>8, <3>2, MutatedType DEF UpdateLoad, Goto, TypeOK, RequestOK, PCs
    <3> QED
      BY <2>8, <3>1, <3>2 DEF UpdateLoad
  <2>9. CASE UpdateReplace(c)
    BY <2>9, ReturnType, UpdatedType DEF UpdateReplace, TypeOK
  <2>10. CASE UpdateError(c)
    BY <2>10, ReturnType DEF UpdateError, TypeOK
  <2>11. CASE OnIncidentResolved(c)
    BY <2>11, ReturnType DEF OnIncidentResolved, TypeOK
  <2> QED
    BY <1>2, <2>1, <2>2, <2>3, <2>4, <2>5, <2>6, <2>7, <2>8, <2>9, <2>10, <2>11 DEF Step
<1>3. CASE PruneBefore
  BY <1>3, ZeroType DEF PruneBefore, TypeOK, RequestOK
<1>4. CASE Restart
  BY <1>4, ZeroType, NoRequestType DEF Restart, TypeOK, RequestOK, PCs
<1>5. CASE Tick
  BY <1>5, ConstantsAssumption DEF Tick, TypeOK, RequestOK, Seconds
<1>6. CASE UNCHANGED vars
  BY <1>6 DEF vars, TypeOK, RequestOK
<1> QED
  BY <1>1, <1>2, <1>3, <1>4, <1>5, <1>6 DEF Next

(***************************************************************************)
(* Type correctness, with the fact that a caller is only where its request *)
(* can take it.                                                            *)
(***************************************************************************)
THEOREM TypeCorrect == Spec => []TypeInv
BY TypeInit, TypeNext, PTL DEF Spec

-----------------------------------------------------------------------------
\* A mutator that accepts a resolved incident leaves it resolved.
LEMMA MutatedResolved ==
    ASSUME NEW r \in Requests, NEW d \in Incident, clock \in Seconds,
           r.op \in {"alert", "ack", "resolve"}, d.status = "resolved", ~MutatorRefuses(r, d)
    PROVE  Mutated(r, d).status = "resolved"
<1>1. r.op = "alert"
  BY DEF MutatorRefuses
<1>2. Mutated(r, d) = UpdateMutator(d, r.sev)
  BY <1>1 DEF Mutated
<1> QED
  BY <1>2 DEF UpdateMutator, Incident

\* A caller that returns holds nothing, and the others hold what they held.
LEMMA ReturnHolds ==
    ASSUME TypeInv, NEW c \in Callers, NEW id \in IDs, Return(c),
           \A b \in Callers : ~HoldsStaleCopy(b, id)
    PROVE  \A b \in Callers : ~HoldsStaleCopy(b, id)'
BY DEF TypeInv, TypeOK, Return, Goto, HoldsStaleCopy

LEMMA SettledStep ==
    ASSUME TypeInv, [Next]_vars, NEW id \in IDs, Settled(id)
    PROVE  Settled(id)' \/ ~Exists(id)'
<1> DEFINE Free == \A b \in Callers : ~HoldsStaleCopy(b, id)
<1>0. /\ Free
      /\ incidents[id].status = "resolved"
      /\ incidents \in [IDs -> Incident] /\ pc \in [Callers -> PCs]
      /\ req \in [Callers -> Requests] /\ doc \in [Callers -> Incident]
      /\ clock \in Seconds
  BY DEF Settled, TypeInv, TypeOK
<1>1. ASSUME NEW c \in Callers, Call(c) PROVE Settled(id)'
  <2>1. PICK op, i, sev : Begin(c, "find", op, i, sev) \/ Begin(c, "load", op, i, sev)
    BY <1>1 DEF Call, ProcessAlert, AutoResolveOnRecovery, AcknowledgeRequest, ResolveRequest
  <2> QED
    BY <1>0, <2>1 DEF Begin, Goto, Settled, HoldsStaleCopy
<1>2. ASSUME NEW c \in Callers, Step(c) PROVE Settled(id)'
  <2> req[c] \in Requests /\ req[c].id \in IDs /\ incidents[req[c].id] \in Incident
    BY <1>0 DEF Requests
  <2>1. CASE FindHit(c)
    BY <1>0, <2>1 DEF FindHit, Goto, Settled, HoldsStaleCopy
  <2>2. CASE FindMiss(c) \/ FindError(c)
    <3>1. CASE Return(c)
      BY <1>0, <2>2, <3>1, ReturnHolds DEF FindMiss, FindError, Settled
    <3>2. CASE StartCreate(c)
      BY <1>0, <2>2, <3>2 DEF FindMiss, FindError, StartCreate, Goto, Settled, HoldsStaleCopy
    <3> QED
      BY <2>2, <3>1, <3>2 DEF FindMiss, FindError
  <2>3. CASE CreateIncident(c)
    BY <1>0, <2>3 DEF CreateIncident, Exists, Goto, Settled, HoldsStaleCopy
  <2>4. CASE CreateDuplicate(c) \/ OnIncidentCreated(c) \/ OnIncidentResolved(c)
    BY <1>0, <2>4, ReturnHolds DEF CreateDuplicate, OnIncidentCreated, OnIncidentResolved, Settled
  <2>5. CASE CreateError(c)
    BY <1>0, <2>5, ReturnHolds DEF CreateError, Exists, Settled
  <2>6. CASE UpdateLoad(c)
    <3>1. CASE Return(c)
      BY <1>0, <2>6, <3>1, ReturnHolds DEF UpdateLoad, Settled
    <3>2. CASE /\ doc' = [doc EXCEPT ![c] = Mutated(req[c], incidents[req[c].id])]
               /\ ~MutatorRefuses(req[c], incidents[req[c].id])
               /\ Goto(c, "replace") /\ UNCHANGED req
      <4>1. req[c].id = id => doc'[c].status = "resolved"
        BY <1>0, <2>6, <3>2, MutatedResolved DEF UpdateLoad, TypeInv, RequestOK
      <4> QED
        BY <1>0, <2>6, <3>2, <4>1 DEF UpdateLoad, Goto, Settled, HoldsStaleCopy
    <3> QED
      BY <2>6, <3>1, <3>2 DEF UpdateLoad
  <2>7. CASE UpdateReplace(c)
    <3>1. incidents'[id].status = "resolved"
      BY <1>0, <2>7 DEF UpdateReplace, HoldsStaleCopy
    <3>2. CASE Return(c)
      BY <1>0, <3>1, <3>2, ReturnHolds DEF Settled
    <3>3. CASE Goto(c, "reread") /\ UNCHANGED <<req, doc>>
      BY <1>0, <3>1, <3>3 DEF Goto, Settled, HoldsStaleCopy
    <3> QED
      BY <2>7, <3>2, <3>3 DEF UpdateReplace, Updated
  <2>8. CASE UpdateError(c)
    <3>1. incidents'[id].status = "resolved"
      BY <1>0, <2>8 DEF UpdateError, HoldsStaleCopy
    <3> QED
      BY <1>0, <2>8, <3>1, ReturnHolds DEF UpdateError, Settled
  <2> QED
    BY <1>2, <2>1, <2>2, <2>3, <2>4, <2>5, <2>6, <2>7, <2>8 DEF Step
<1>3. CASE PruneBefore
  BY <1>0, <1>3 DEF PruneBefore, ZeroIncident, Settled, HoldsStaleCopy, Exists
<1>4. CASE Restart
  BY <1>0, <1>4 DEF Restart, Settled, HoldsStaleCopy
<1>5. CASE Tick \/ UNCHANGED vars
  BY <1>0, <1>5 DEF Tick, vars, Settled, HoldsStaleCopy
<1> QED
  BY <1>1, <1>2, <1>3, <1>4, <1>5 DEF Next

(***************************************************************************)
(* A resolution that no write-back is racing any more is final, although  *)
(* UpdateIncident is not atomic.                                           *)
(***************************************************************************)
THEOREM SettledFinal == Spec => SettledIsFinal
<1>1. TypeInv /\ [Next]_vars
        => [\A id \in IDs : Settled(id) => (Settled(id)' \/ ~Exists(id)')]_vars
  BY SettledStep
<1> QED
  BY <1>1, TypeCorrect, PTL DEF Spec, SettledIsFinal

-----------------------------------------------------------------------------
(***************************************************************************)
(* Why an identifier is announced at most once.  An insert under way is    *)
(* younger than the operation timeout; a document is at least as young as  *)
(* its identifier; so when the retention job removes a document, no insert *)
(* of the same identifier can still be under way.                          *)
(***************************************************************************)
InsertIsRecent ==
    \A c \in Callers : pc[c] = "insert" =>
        SecondOf(req[c].id) <= clock /\ clock <= SecondOf(req[c].id) + OpTimeout

WriteIsRecent ==
    /\ \A id \in IDs : Exists(id) =>
          SecondOf(id) <= incidents[id].updatedAt /\ SecondOf(id) <= clock
    /\ \A c \in Callers : pc[c] = "replace" =>
          SecondOf(req[c].id) <= doc[c].updatedAt /\ doc[c].status # "none"

Announcing(c, id) == pc[c] = "created" /\ req[c].id = id

AnnouncedOnce ==
    /\ \A id \in IDs : created[id] <= 1
    /\ \A id \in IDs, c \in Callers : Announcing(c, id) => created[id] = 0
    /\ \A id \in IDs, b, c \in Callers : Announcing(b, id) /\ Announcing(c, id) => b = c

AnnouncedIsTaken ==
    \A id \in IDs :
        (created[id] > 0 \/ \E c \in Callers : Announcing(c, id))
            => (Exists(id) \/ SecondOf(id) + OpTimeout < clock)

AnnounceInv == InsertIsRecent /\ WriteIsRecent /\ AnnouncedOnce /\ AnnouncedIsTaken

LEMMA AnnounceInit == Init => AnnounceInv
BY DEF Init, AnnounceInv, InsertIsRecent, WriteIsRecent, AnnouncedOnce, AnnouncedIsTaken,
       Announcing, Exists, ZeroIncident

\* The mutators stamp the document with the current second.
LEMMA MutatedTime ==
    ASSUME NEW r \in Requests, NEW d \in Incident, clock \in Seconds,
           r.op \in {"alert", "ack", "resolve"}
    PROVE  Mutated(r, d).updatedAt = clock /\ (d.status # "none" => Mutated(r, d).status # "none")
<1>1. CASE r.op = "alert"
  <2>1. Mutated(r, d) = UpdateMutator(d, r.sev)
    BY <1>1 DEF Mutated
  <2> QED
    BY <2>1 DEF UpdateMutator, Incident
<1>2. CASE r.op = "ack"
  <2>1. Mutated(r, d) = AcknowledgeMutator(d)
    BY <1>2 DEF Mutated
  <2> QED
    BY <2>1 DEF AcknowledgeMutator, Incident
<1>3. CASE r.op = "resolve"
  <2>1. Mutated(r, d) = ResolveMutator(d)
    BY <1>3 DEF Mutated
  <2> QED
    BY <2>1 DEF ResolveMutator, Incident
<1> QED
  BY <1>1, <1>2, <1>3

\* A caller that returns is nowhere near an insert, a replace or a callback.
LEMMA ReturnFrame ==
    ASSUME TypeInv, NEW c \in Callers, Return(c)
    PROVE  /\ pc'[c] = "idle"
           /\ \A b \in Callers \ {c} : pc'[b] = pc[b] /\ req'[b] = req[b] /\ doc'[b] = doc[b]
BY DEF TypeInv, TypeOK, Return, Goto

\* A caller that moves to a step that neither inserts, replaces nor announces,
\* while the collection is left alone, keeps the invariant.
LEMMA AnnounceFrame ==
    ASSUME TypeInv, AnnounceInv, NEW c \in Callers,
           pc'[c] \notin {"insert", "created", "replace"},
           \A b \in Callers \ {c} : pc'[b] = pc[b] /\ req'[b] = req[b] /\ doc'[b] = doc[b],
           UNCHANGED <<clock, incidents, created>>
    PROVE  AnnounceInv'
BY DEF AnnounceInv, InsertIsRecent, WriteIsRecent, AnnouncedOnce, AnnouncedIsTaken, Announcing,
       Exists

LEMMA AnnounceNext == TypeInv /\ AnnounceInv /\ [Next]_vars => AnnounceInv'
<1> SUFFICES ASSUME TypeInv, AnnounceInv, [Next]_vars PROVE AnnounceInv'
  OBVIOUS
<1>0. /\ incidents \in [IDs -> Incident] /\ pc \in [Callers -> PCs]
      /\ req \in [Callers -> Requests] /\ doc \in [Callers -> Incident]
      /\ created \in [IDs -> Nat] /\ clock \in Nat
      /\ OpTimeout \in Nat /\ Retention \in Nat /\ OpTimeout < Retention
      /\ \A id \in IDs : SecondOf(id) \in Nat /\ incidents[id].updatedAt \in Nat
  BY IDType, ConstantsAssumption DEF TypeInv, TypeOK, Seconds, Incident
<1>1. ASSUME NEW c \in Callers, Call(c) PROVE AnnounceInv'
  <2>1. PICK op, i, sev : Begin(c, "find", op, i, sev) \/ Begin(c, "load", op, i, sev)
    BY <1>1 DEF Call, ProcessAlert, AutoResolveOnRecovery, AcknowledgeRequest, ResolveRequest
  <2> QED
    BY <1>0, <2>1, AnnounceFrame DEF Begin, Goto
<1>2. ASSUME NEW c \in Callers, Step(c) PROVE AnnounceInv'
  <2>0. req[c] \in Requests /\ req[c].id \in IDs /\ incidents[req[c].id] \in Incident
    BY <1>0 DEF Requests
  <2>1. CASE FindHit(c)
    BY <1>0, <2>1, AnnounceFrame DEF FindHit, Goto
  <2>2. CASE FindMiss(c) \/ FindError(c)
    <3>1. CASE Return(c)
      BY <2>2, <3>1, ReturnFrame, AnnounceFrame DEF FindMiss, FindError
    <3>2. CASE StartCreate(c)
      <4>1. /\ pc'[c] = "insert" /\ SecondOf(req'[c].id) = clock
            /\ \A b \in Callers \ {c} : pc'[b] = pc[b] /\ req'[b] = req[b]
            /\ UNCHANGED <<clock, incidents, created, doc>>
        BY <1>0, <2>0, <2>2, <3>2 DEF FindMiss, FindError, StartCreate, Goto, SecondOf, Requests
      <4> QED
        BY <1>0, <4>1
           DEF AnnounceInv, InsertIsRecent, WriteIsRecent, AnnouncedOnce, AnnouncedIsTaken,
               Announcing, Exists
    <3> QED
      BY <2>2, <3>1, <3>2 DEF FindMiss, FindError
  <2>3. CASE CreateIncident(c)
    <3>1. /\ pc'[c] = "created" /\ pc[c] = "insert" /\ ~Exists(req[c].id)
          /\ \A b \in Callers \ {c} : pc'[b] = pc[b]
          /\ UNCHANGED <<clock, created, doc, req>>
          /\ \A id \in IDs \ {req[c].id} : incidents'[id] = incidents[id]
          /\ incidents'[req[c].id] = NewIncident(req[c])
      BY <1>0, <2>0, <2>3 DEF CreateIncident, Goto
    <3>2. /\ created[req[c].id] = 0
          /\ \A b \in Callers : ~Announcing(b, req[c].id)
      BY <1>0, <2>0, <3>1 DEF AnnounceInv, InsertIsRecent, AnnouncedIsTaken
    <3>3. InsertIsRecent' /\ AnnouncedOnce' /\ AnnouncedIsTaken'
      BY <1>0, <2>0, <3>1, <3>2
         DEF AnnounceInv, InsertIsRecent, AnnouncedOnce, AnnouncedIsTaken, Announcing, Exists,
             NewIncident
    <3>4. WriteIsRecent'
      BY <1>0, <2>0, <3>1
         DEF AnnounceInv, InsertIsRecent, WriteIsRecent, Exists, NewIncident
    <3> QED
      BY <3>3, <3>4 DEF AnnounceInv
  <2>4. CASE CreateDuplicate(c) \/ OnIncidentResolved(c)
    BY <2>4, ReturnFrame, AnnounceFrame DEF CreateDuplicate, OnIncidentResolved
  <2>5. CASE CreateError(c)
    <3>1. CASE UNCHANGED incidents
      BY <2>5, <3>1, ReturnFrame, AnnounceFrame DEF CreateError
    <3>2. CASE /\ ~Exists(req[c].id)
               /\ incidents' = [incidents EXCEPT ![req[c].id] = NewIncident(req[c])]
      <4>1. /\ pc'[c] = "idle" /\ pc[c] = "insert"
            /\ \A b \in Callers \ {c} : pc'[b] = pc[b] /\ req'[b] = req[b] /\ doc'[b] = doc[b]
            /\ UNCHANGED <<clock, created>>
            /\ \A id \in IDs \ {req[c].id} : incidents'[id] = incidents[id]
            /\ incidents'[req[c].id] = NewIncident(req[c])
        BY <1>0, <2>0, <2>5, <3>2, ReturnFrame DEF CreateError
      <4>2. InsertIsRecent' /\ AnnouncedOnce' /\ AnnouncedIsTaken'
        BY <1>0, <2>0, <4>1
           DEF AnnounceInv, InsertIsRecent, AnnouncedOnce, AnnouncedIsTaken, Announcing, Exists,
               NewIncident
      <4>3. WriteIsRecent'
        BY <1>0, <2>0, <4>1
           DEF AnnounceInv, InsertIsRecent, WriteIsRecent, Exists, NewIncident
      <4> QED
        BY <4>2, <4>3 DEF AnnounceInv
    <3> QED
      BY <2>5, <3>1, <3>2 DEF CreateError
  <2>6. CASE OnIncidentCreated(c)
    <3>1. /\ pc'[c] = "idle" /\ Announcing(c, req[c].id)
          /\ \A b \in Callers \ {c} : pc'[b] = pc[b] /\ req'[b] = req[b] /\ doc'[b] = doc[b]
          /\ UNCHANGED <<clock, incidents>>
          /\ \A id \in IDs \ {req[c].id} : created'[id] = created[id]
          /\ created'[req[c].id] = created[req[c].id] + 1
      BY <1>0, <2>0, <2>6, ReturnFrame DEF OnIncidentCreated, Announcing
    <3> QED
      BY <1>0, <2>0, <3>1
         DEF AnnounceInv, InsertIsRecent, WriteIsRecent, AnnouncedOnce, AnnouncedIsTaken,
             Announcing, Exists
  <2>7. CASE UpdateLoad(c)
    <3>1. CASE Return(c)
      BY <2>7, <3>1, ReturnFrame, AnnounceFrame DEF UpdateLoad
    <3>2. CASE /\ doc' = [doc EXCEPT ![c] = Mutated(req[c], incidents[req[c].id])]
               /\ Exists(req[c].id)
               /\ Goto(c, "replace") /\ UNCHANGED req
      <4>1. /\ pc'[c] = "replace" /\ doc'[c].updatedAt = clock /\ doc'[c].status # "none"
            /\ \A b \in Callers \ {c} : pc'[b] = pc[b] /\ doc'[b] = doc[b]
            /\ UNCHANGED <<clock, created, incidents, req>>
        BY <1>0, <2>0, <2>7, <3>2, MutatedTime
           DEF UpdateLoad, Goto, TypeInv, TypeOK, RequestOK, Exists
      <4> QED
        BY <1>0, <2>0, <3>2, <4>1
           DEF AnnounceInv, InsertIsRecent, WriteIsRecent, AnnouncedOnce, AnnouncedIsTaken,
               Announcing, Exists
    <3> QED
      BY <2>7, <3>1, <3>2 DEF UpdateLoad, Exists
  <2>8. CASE UpdateReplace(c) \/ UpdateError(c)
    <3>1. CASE UNCHANGED incidents
      BY <2>8, <3>1, ReturnFrame, AnnounceFrame DEF UpdateReplace, UpdateError, Updated, Goto,
         TypeInv, TypeOK
    <3>2. CASE /\ Exists(req[c].id) /\ pc[c] = "replace"
               /\ incidents' = [incidents EXCEPT ![req[c].id] = doc[c]]
      <4>1. /\ pc'[c] \in {"idle", "reread"}
            /\ \A b \in Callers \ {c} : pc'[b] = pc[b] /\ req'[b] = req[b] /\ doc'[b] = doc[b]
            /\ UNCHANGED <<clock, created>>
            /\ \A id \in IDs \ {req[c].id} : incidents'[id] = incidents[id]
            /\ incidents'[req[c].id] = doc[c]
        BY <1>0, <2>0, <2>8, <3>2, ReturnFrame DEF UpdateReplace, UpdateError, Updated, Goto
      <4>2. doc[c].status # "none"
        BY <3>2 DEF AnnounceInv, WriteIsRecent
      <4> QED
        BY <1>0, <2>0, <3>2, <4>1, <4>2
           DEF AnnounceInv, InsertIsRecent, WriteIsRecent, AnnouncedOnce, AnnouncedIsTaken,
               Announcing, Exists
    <3> QED
      BY <2>8, <3>1, <3>2 DEF UpdateReplace, UpdateError
  <2> QED
    BY <1>2, <2>1, <2>2, <2>3, <2>4, <2>5, <2>6, <2>7, <2>8 DEF Step
<1>3. CASE PruneBefore
  <2>1. PICK S \in SUBSET Prunable :
           incidents' = [id \in IDs |-> IF id \in S THEN ZeroIncident ELSE incidents[id]]
    BY <1>3 DEF PruneBefore
  <2>2. \A id \in S : SecondOf(id) + OpTimeout < clock
    BY <1>0, <2>1 DEF Prunable, AnnounceInv, WriteIsRecent, Exists
  <2> QED
    BY <1>0, <1>3, <2>1, <2>2
       DEF PruneBefore, AnnounceInv, InsertIsRecent, WriteIsRecent, AnnouncedOnce,
           AnnouncedIsTaken, Announcing, Exists, ZeroIncident
<1>4. CASE Restart
  BY <1>0, <1>4
     DEF Restart, AnnounceInv, InsertIsRecent, WriteIsRecent, AnnouncedOnce, AnnouncedIsTaken,
         Announcing, Exists
<1>5. CASE Tick
  <2>1. \A c \in Callers : SecondOf(req[c].id) \in Nat
    BY <1>0 DEF Requests
  <2>2. InsertIsRecent'
    BY <1>0, <1>5, <2>1 DEF Tick, AnnounceInv, InsertIsRecent
  <2>3. WriteIsRecent'
    BY <1>0, <1>5 DEF Tick, AnnounceInv, WriteIsRecent, Exists
  <2>4. AnnouncedOnce' /\ AnnouncedIsTaken'
    BY <1>0, <1>5 DEF Tick, AnnounceInv, AnnouncedOnce, AnnouncedIsTaken, Announcing, Exists
  <2> QED
    BY <2>2, <2>3, <2>4 DEF AnnounceInv
<1>6. CASE UNCHANGED vars
  BY <1>6
     DEF vars, AnnounceInv, InsertIsRecent, WriteIsRecent, AnnouncedOnce, AnnouncedIsTaken,
         Announcing, Exists
<1> QED
  BY <1>1, <1>2, <1>3, <1>4, <1>5, <1>6 DEF Next

(***************************************************************************)
(* onIncidentCreated fires at most once for an incident identifier,        *)
(* whatever fails.                                                         *)
(***************************************************************************)
THEOREM AnnouncedTheorem == Spec => []AnnouncedAtMostOnce
<1>1. AnnounceInv => AnnouncedAtMostOnce
  BY DEF AnnounceInv, AnnouncedOnce, AnnouncedAtMostOnce
<1> QED
  BY <1>1, TypeCorrect, AnnounceInit, AnnounceNext, PTL DEF Spec

-----------------------------------------------------------------------------
(***************************************************************************)
(* What a caller's read is worth.  As long as no other call has overtaken  *)
(* it, a caller that is about to insert still sees no open incident of its *)
(* check, and a caller that is about to replace holds what its mutator     *)
(* makes of the document that is in the collection now.                    *)
(***************************************************************************)

\* The part of an incident that the lifecycle speaks of.
Seen(d) == [status |-> d.status, severity |-> d.severity, ackBy |-> d.ackBy]
Mapped == [id \in IDs |-> Seen(incidents[id])]

\* What a mutator changes of it; the clock has no part in that.
Effect(r, d) ==
    [status   |-> IF r.op = "ack" THEN "acknowledged"
                  ELSE IF r.op = "resolve" THEN "resolved" ELSE d.status,
     severity |-> IF r.op = "alert" /\ severityHasIncreased(d.severity, r.sev)
                  THEN r.sev ELSE d.severity,
     ackBy    |-> IF r.op = "ack" THEN "operator" ELSE d.ackBy]

LEMMA MutatedSeen ==
    ASSUME NEW r \in Requests, NEW d \in Incident, clock \in Seconds,
           r.op \in {"alert", "ack", "resolve"}
    PROVE  Seen(Mutated(r, d)) = Effect(r, d)
<1>1. CASE r.op = "alert"
  <2>1. Mutated(r, d) = UpdateMutator(d, r.sev)
    BY <1>1 DEF Mutated
  <2> QED
    BY <1>1, <2>1 DEF UpdateMutator, Incident, Seen, Effect
<1>2. CASE r.op = "ack"
  <2>1. Mutated(r, d) = AcknowledgeMutator(d)
    BY <1>2 DEF Mutated
  <2> QED
    BY <1>2, <2>1 DEF AcknowledgeMutator, Incident, Seen, Effect
<1>3. CASE r.op = "resolve"
  <2>1. Mutated(r, d) = ResolveMutator(d)
    BY <1>3 DEF Mutated
  <2> QED
    BY <1>3, <2>1 DEF ResolveMutator, Incident, Seen, Effect
<1> QED
  BY <1>1, <1>2, <1>3

Applicable(r, d) == d.status # "none" /\ ~MutatorRefuses(r, d)

InsertIsFirst ==
    \A c \in Callers : pc[c] = "insert" /\ c \notin stale => OpenOf(CheckOf(req[c].id)) = {}

ReplaceIsFresh ==
    \A c \in Callers : pc[c] = "replace" /\ c \notin stale =>
        /\ Applicable(req[c], incidents[req[c].id])
        /\ Seen(doc[c]) = Effect(req[c], incidents[req[c].id])

FreshRead == InsertIsFirst /\ ReplaceIsFresh

\* How a caller comes to an insert or to a replace.
LEMMA Arrivals ==
    ASSUME TypeInv, Next, NEW c \in Callers
    PROVE  /\ pc'[c] = "insert" =>
                \/ pc[c] = "insert" /\ req'[c] = req[c]
                \/ /\ pc[c] = "find" /\ UNCHANGED incidents
                   /\ CheckOf(req'[c].id) = CheckOf(req[c].id)
           /\ pc'[c] = "replace" =>
                \/ pc[c] = "replace" /\ req'[c] = req[c] /\ doc'[c] = doc[c]
                \/ UpdateLoad(c)
<1> DEFINE Claim == /\ pc'[c] = "insert" =>
                         \/ pc[c] = "insert" /\ req'[c] = req[c]
                         \/ /\ pc[c] = "find" /\ UNCHANGED incidents
                            /\ CheckOf(req'[c].id) = CheckOf(req[c].id)
                    /\ pc'[c] = "replace" =>
                         \/ pc[c] = "replace" /\ req'[c] = req[c] /\ doc'[c] = doc[c]
                         \/ UpdateLoad(c)
<1>0. /\ pc \in [Callers -> PCs] /\ req \in [Callers -> Requests] /\ doc \in [Callers -> Incident]
      /\ \A b \in Callers : req[b] \in Requests
  BY DEF TypeInv, TypeOK
<1>1. ASSUME NEW b \in Callers, Call(b) PROVE Claim
  BY <1>0, <1>1 DEF Call, ProcessAlert, AutoResolveOnRecovery, AcknowledgeRequest,
     ResolveRequest, Begin, Goto
<1>2. ASSUME NEW b \in Callers, Step(b) PROVE Claim
  <2>1. CASE Return(b)
    BY <1>0, <2>1, ReturnFrame
  <2>2. CASE FindMiss(b) \/ FindError(b)
    <3>1. CASE StartCreate(b)
      BY <1>0, <2>2, <3>1
         DEF FindMiss, FindError, StartCreate, Goto, CheckOf, Requests
    <3> QED
      BY <2>1, <2>2, <3>1 DEF FindMiss, FindError
  <2>3. CASE FindHit(b)
    BY <1>0, <2>3 DEF FindHit, Goto
  <2>4. CASE CreateIncident(b)
    BY <1>0, <2>4 DEF CreateIncident, Goto
  <2>5. CASE UpdateLoad(b)
    BY <1>0, <2>1, <2>5 DEF UpdateLoad, Goto
  <2>6. CASE UpdateReplace(b)
    BY <1>0, <2>1, <2>6 DEF UpdateReplace, Updated, Goto
  <2> QED
    BY <1>2, <2>1, <2>2, <2>3, <2>4, <2>5, <2>6
       DEF Step, CreateDuplicate, CreateError, OnIncidentCreated, UpdateError, OnIncidentResolved
<1>3. CASE PruneBefore \/ Tick
  BY <1>3 DEF PruneBefore, Tick
<1>4. CASE Restart
  BY <1>4 DEF Restart
<1> QED
  BY <1>1, <1>2, <1>3, <1>4 DEF Next

\* A caller that stays off the record has not been overtaken.
LEMMA NotOvertaken ==
    ASSUME Next, NEW c \in Callers, c \notin stale', pc'[c] \in {"insert", "replace"}
    PROVE  ~OutOfDate(c)
BY DEF Next, Call, Step, ProcessAlert, AutoResolveOnRecovery, AcknowledgeRequest,
       ResolveRequest, Begin, FindHit, FindMiss, FindError, CreateIncident, CreateDuplicate,
       CreateError, OnIncidentCreated, UpdateLoad, UpdateReplace, UpdateError,
       OnIncidentResolved, PruneBefore, Restart, Tick, History

LEMMA FreshReadInit == Init => FreshRead
BY DEF Init, FreshRead, InsertIsFirst, ReplaceIsFresh

LEMMA FreshReadNext == TypeInv /\ FreshRead /\ [Next]_vars => FreshRead'
<1> SUFFICES ASSUME TypeInv, FreshRead, [Next]_vars PROVE FreshRead'
  OBVIOUS
<1>0. /\ incidents \in [IDs -> Incident] /\ doc \in [Callers -> Incident] /\ clock \in Seconds
      /\ \A b \in Callers : req[b] \in Requests /\ req[b].id \in IDs
  BY DEF TypeInv, TypeOK, Requests
<1>1. CASE UNCHANGED vars
  BY <1>1 DEF vars, FreshRead, InsertIsFirst, ReplaceIsFresh, OpenOf, IsOpen
<1>2. CASE Next
  <2>1. ASSUME NEW c \in Callers, pc'[c] = "insert", c \notin stale'
        PROVE  OpenOf(CheckOf(req[c].id))' = {}
    <3>1. ~OutOfDate(c)
      BY <1>2, <2>1, NotOvertaken
    <3>2. CASE pc[c] = "insert" /\ req'[c] = req[c]
      <4>1. c \notin stale /\ ~Opened(CheckOf(req[c].id))
        BY <3>1, <3>2 DEF OutOfDate
      <4>2. OpenOf(CheckOf(req[c].id)) = {}
        BY <3>2, <4>1 DEF FreshRead, InsertIsFirst
      <4> QED
        BY <3>2, <4>1, <4>2 DEF Opened, OpenOf
    <3>3. CASE /\ pc[c] = "find" /\ UNCHANGED incidents
               /\ CheckOf(req'[c].id) = CheckOf(req[c].id)
      BY <3>1, <3>3 DEF OutOfDate, OpenOf, IsOpen
    <3> QED
      BY <1>2, <2>1, <3>2, <3>3, Arrivals
  <2>2. ASSUME NEW c \in Callers, pc'[c] = "replace", c \notin stale'
        PROVE  /\ Applicable(req[c], incidents[req[c].id])'
               /\ Seen(doc[c])' = Effect(req[c], incidents[req[c].id])'
    <3>1. CASE pc[c] = "replace" /\ req'[c] = req[c] /\ doc'[c] = doc[c]
      <4>1. c \notin stale /\ incidents'[req[c].id] = incidents[req[c].id]
        BY <1>2, <2>2, <3>1, NotOvertaken DEF OutOfDate, Changed
      <4>2. /\ Applicable(req[c], incidents[req[c].id])
            /\ Seen(doc[c]) = Effect(req[c], incidents[req[c].id])
        BY <3>1, <4>1 DEF FreshRead, ReplaceIsFresh
      <4> QED
        BY <3>1, <4>1, <4>2
           DEF Applicable, MutatorRefuses, Seen, Effect, severityHasIncreased
    <3>2. CASE UpdateLoad(c)
      <4> DEFINE d == incidents[req[c].id]
      <4>1. /\ Applicable(req[c], d) /\ pc[c] = "load"
            /\ doc' = [doc EXCEPT ![c] = Mutated(req[c], d)] /\ UNCHANGED <<incidents, req>>
        BY <2>2, <3>2, ReturnFrame DEF UpdateLoad, Applicable
      <4>2. d \in Incident /\ req[c].op \in {"alert", "ack", "resolve"}
        BY <1>0, <4>1 DEF TypeInv, RequestOK
      <4>3. Seen(doc'[c]) = Effect(req[c], d)
        BY <1>0, <4>1, <4>2, MutatedSeen
      <4> QED
        BY <4>1, <4>3 DEF Applicable, MutatorRefuses, Seen, Effect, severityHasIncreased
    <3> QED
      BY <1>2, <2>2, <3>1, <3>2, Arrivals
  <2>3. InsertIsFirst'
    BY <2>1 DEF InsertIsFirst, OpenOf
  <2>4. ReplaceIsFresh'
    BY <2>2 DEF ReplaceIsFresh
  <2> QED
    BY <2>3, <2>4 DEF FreshRead
<1> QED
  BY <1>1, <1>2

(***************************************************************************)
(* A resolution is announced by whoever took the incident out of the open  *)
(* state, or by a caller whose copy was overtaken between its read and its *)
(* write (ResolveIncident, incident_manager.go).                           *)
(***************************************************************************)
THEOREM ResolutionTheorem == Spec => ResolutionAnnouncedOnce
<1> DEFINE Taken == \A c \in Callers :
                       pc[c] # "reread" /\ pc'[c] = "reread" => IsOpen(req[c].id) \/ c \in stale
<1>1. ASSUME TypeInv, FreshRead, [Next]_vars, NEW c \in Callers,
             pc[c] # "reread", pc'[c] = "reread", c \notin stale
      PROVE  IsOpen(req[c].id)
  <2> /\ pc \in [Callers -> PCs] /\ req[c] \in Requests /\ incidents \in [IDs -> Incident]
    BY <1>1 DEF TypeInv, TypeOK
  <2>0. incidents[req[c].id] \in Incident
    BY DEF Requests
  <2>1. UpdateReplace(c) /\ req[c].op = "resolve"
    <3>1. ASSUME NEW b \in Callers, Call(b) PROVE FALSE
      BY <1>1, <2>0, <3>1 DEF Call, ProcessAlert, AutoResolveOnRecovery, AcknowledgeRequest,
         ResolveRequest, Begin, Goto
    <3>2. ASSUME NEW b \in Callers, Return(b) PROVE FALSE
      BY <1>1, <3>2, ReturnFrame
    <3>3. PICK b \in Callers : Step(b)
      BY <1>1, <3>1 DEF Next, PruneBefore, Restart, Tick, vars
    <3>4. UpdateReplace(b) /\ req[b].op = "resolve" /\ b = c
      BY <1>1, <2>0, <3>2, <3>3
         DEF Step, FindHit, FindMiss, FindError, StartCreate, CreateIncident, CreateDuplicate,
             CreateError, OnIncidentCreated, UpdateLoad, UpdateReplace, UpdateError,
             OnIncidentResolved, Updated, Goto
    <3> QED
      BY <3>4
  <2>2. Applicable(req[c], incidents[req[c].id])
    BY <1>1, <2>1 DEF UpdateReplace, FreshRead, ReplaceIsFresh
  <2> QED
    BY <2>0, <2>1, <2>2 DEF Applicable, MutatorRefuses, Incident, Statuses, IsOpen
<1>2. TypeInv /\ FreshRead /\ [Next]_vars => [Taken]_vars
  BY <1>1
<1> QED
  BY <1>2, TypeCorrect, FreshReadInit, FreshReadNext, PTL DEF Spec, ResolutionAnnouncedOnce

-----------------------------------------------------------------------------
\* A change of one incident, seen through the mapping.
LEMMA MappedUpdate ==
    ASSUME incidents \in [IDs -> Incident], NEW id \in IDs, NEW d \in Incident,
           incidents' = [incidents EXCEPT ![id] = d]
    PROVE  /\ Mapped' = [Mapped EXCEPT ![id] = Seen(d)]
           /\ Mapped[id] = Seen(incidents[id])
BY DEF Mapped

LEMMA LifecycleNext ==
    ASSUME NEW i \in IDs,
           Lifecycle!Open(i) \/ Lifecycle!Escalate(i) \/ Lifecycle!Acknowledge(i)
             \/ Lifecycle!Resolve(i) \/ Lifecycle!Overwrite(i)
    PROVE  Lifecycle!Next
BY DEF Lifecycle!Next

\* The retention job removes resolved incidents.
LEMMA PruneStep ==
    ASSUME TypeInv, PruneBefore
    PROVE  Lifecycle!Next
<1>1. PICK S \in SUBSET Prunable :
         incidents' = [id \in IDs |-> IF id \in S THEN ZeroIncident ELSE incidents[id]]
  BY DEF PruneBefore
<1>2. S \in SUBSET IDs
  BY DEF Prunable
<1>3. \A i \in S : Mapped[i].status = "resolved"
  BY DEF Prunable, Mapped, Seen
<1>4. Seen(ZeroIncident) = Lifecycle!Absent
  BY DEF Seen, ZeroIncident, Lifecycle!Absent
<1>5. Mapped' = [i \in IDs |-> IF i \in S THEN Lifecycle!Absent ELSE Mapped[i]]
  BY <1>1, <1>4 DEF Mapped
<1> QED
  BY <1>2, <1>3, <1>5 DEF Lifecycle!Next, Lifecycle!Remove, Mapped, Seen

\* An insert opens an incident where there is none, or beside another one when
\* the lookup before it is out of date.
LEMMA InsertStep ==
    ASSUME TypeInv, FreshRead, NEW c \in Callers, pc[c] = "insert", ~Exists(req[c].id),
           incidents' = [incidents EXCEPT ![req[c].id] = NewIncident(req[c])]
    PROVE  Lifecycle!Next
<1>1. /\ req[c] \in Requests /\ req[c].id \in IDs /\ req[c].sev \in Severities
      /\ incidents \in [IDs -> Incident]
  BY DEF TypeInv, TypeOK, Requests
<1>2. PICK i \in IDs : i = req[c].id
  BY <1>1
<1>3. /\ Mapped' = [Mapped EXCEPT ![i] = Seen(NewIncident(req[c]))]
      /\ Mapped[i] = Seen(incidents[i])
  BY <1>1, <1>2, NewIncidentType, MappedUpdate
<1>4. Seen(NewIncident(req[c])) = Lifecycle!Opened(req[c].sev)
  BY DEF Seen, NewIncident, Lifecycle!Opened
<1>5. Mapped[i].status = "none"
  BY <1>2, <1>3 DEF Exists, Seen
<1>6. CASE c \notin stale
  <2>1. \A j \in IDs : j[1] = i[1] => ~IsOpen(j)
    BY <1>2, <1>6 DEF FreshRead, InsertIsFirst, OpenOf, CheckOf
  <2>2. \A j \in IDs : j[1] = i[1] => ~Lifecycle!Unresolved(j)
    BY <2>1 DEF IsOpen, Lifecycle!Unresolved
  <2>3. Lifecycle!Open(i)
    BY <1>1, <1>3, <1>4, <1>5, <2>2 DEF Lifecycle!Open, Mapped, Seen
  <2> QED
    BY <2>3, LifecycleNext
<1>7. CASE c \in stale
  <2>1. Lifecycle!Opened(req[c].sev) \in Lifecycle!Written
    BY <1>1 DEF Lifecycle!Opened, Lifecycle!Written
  <2>2. Lifecycle!Overwrite(i)
    BY <1>1, <1>2, <1>3, <1>4, <1>7, <2>1 DEF Lifecycle!Overwrite, Mapped, Seen
  <2> QED
    BY <2>2, LifecycleNext
<1> QED
  BY <1>6, <1>7

\* What an applicable mutator does to an incident is a step of its lifecycle.
LEMMA EffectIsStep ==
    ASSUME TypeInv, NEW id \in IDs, NEW r \in Requests, r.op \in {"alert", "ack", "resolve"},
           Applicable(r, incidents[id]),
           Mapped' = [Mapped EXCEPT ![id] = Effect(r, incidents[id])]
    PROVE  Lifecycle!Next \/ Mapped' = Mapped
<1> DEFINE d == incidents[id]
<1>0. \A s \in Severities : s \in Nat
  BY ConstantsAssumption
<1>1. d \in Incident /\ r.sev \in Severities /\ d.severity \in Nat /\ r.sev \in Nat
  BY <1>0 DEF TypeInv, TypeOK, Incident, Requests
<1>2. Mapped[id] = Seen(d) /\ d.status # "none"
  BY DEF Mapped, Applicable
<1>3. CASE r.op = "alert"
  <2>1. CASE severityHasIncreased(d.severity, r.sev) /\ r.sev # d.severity
    <3>1. r.sev > d.severity
      BY <1>1, <2>1 DEF severityHasIncreased
    <3>2. Mapped' = [Mapped EXCEPT ![id].severity = r.sev]
      BY <1>2, <1>3, <2>1 DEF Effect, Seen, Mapped
    <3>3. Lifecycle!Escalate(id)
      BY <1>1, <1>2, <3>1, <3>2 DEF Lifecycle!Escalate, Seen, Mapped
    <3> QED
      BY <3>3, LifecycleNext
  <2>2. CASE ~(severityHasIncreased(d.severity, r.sev) /\ r.sev # d.severity)
    <3>1. Effect(r, d) = Seen(d)
      BY <1>3, <2>2 DEF Effect, Seen
    <3> QED
      BY <1>2, <3>1 DEF Mapped
  <2> QED
    BY <2>1, <2>2
<1>4. CASE r.op = "ack"
  <2>1. d.status \in {"open", "acknowledged"}
    BY <1>1, <1>4 DEF Applicable, MutatorRefuses, Incident, Statuses
  <2>2. Mapped' = [Mapped EXCEPT ![id].status = "acknowledged", ![id].ackBy = "operator"]
    BY <1>2, <1>4 DEF Effect, Seen, Mapped
  <2>3. Lifecycle!Acknowledge(id)
    BY <1>2, <2>1, <2>2 DEF Lifecycle!Acknowledge, Lifecycle!Unresolved, Seen, Mapped
  <2> QED
    BY <2>3, LifecycleNext
<1>5. CASE r.op = "resolve"
  <2>1. d.status \in {"open", "acknowledged"}
    BY <1>1, <1>5 DEF Applicable, MutatorRefuses, Incident, Statuses
  <2>2. Mapped' = [Mapped EXCEPT ![id].status = "resolved"]
    BY <1>2, <1>5 DEF Effect, Seen, Mapped
  <2>3. Lifecycle!Resolve(id)
    BY <1>2, <2>1, <2>2 DEF Lifecycle!Resolve, Lifecycle!Unresolved, Seen, Mapped
  <2> QED
    BY <2>3, LifecycleNext
<1> QED
  BY <1>3, <1>4, <1>5

\* A replace does what its mutator promises, or overwrites what overtook it.
LEMMA ReplaceStep ==
    ASSUME TypeInv, AnnounceInv, FreshRead, NEW c \in Callers, pc[c] = "replace",
           Exists(req[c].id), incidents' = [incidents EXCEPT ![req[c].id] = doc[c]]
    PROVE  Lifecycle!Next \/ Mapped' = Mapped
<1>1. /\ req[c] \in Requests /\ req[c].id \in IDs /\ incidents \in [IDs -> Incident]
      /\ doc[c] \in Incident /\ req[c].op \in {"alert", "ack", "resolve"}
  BY DEF TypeInv, TypeOK, RequestOK, Requests
<1>2. PICK i \in IDs : i = req[c].id
  BY <1>1
<1>3. /\ Mapped' = [Mapped EXCEPT ![i] = Seen(doc[c])]
      /\ Mapped[i] = Seen(incidents[i])
  BY <1>1, <1>2, MappedUpdate
<1>4. CASE c \notin stale
  BY <1>1, <1>2, <1>3, <1>4, EffectIsStep DEF FreshRead, ReplaceIsFresh
<1>5. CASE c \in stale
  <2>1. doc[c].status # "none"
    BY DEF AnnounceInv, WriteIsRecent
  <2>2. Seen(doc[c]) \in Lifecycle!Written
    BY <1>1, <2>1 DEF Incident, Statuses, Seen, Lifecycle!Written
  <2>3. Mapped[i].status # "none"
    BY <1>2, <1>3 DEF Exists, Seen
  <2>4. Lifecycle!Overwrite(i)
    BY <1>2, <1>3, <1>5, <2>2, <2>3 DEF Lifecycle!Overwrite, Mapped, Seen
  <2> QED
    BY <2>4, LifecycleNext
<1> QED
  BY <1>4, <1>5

LEMMA LifecycleStep ==
    ASSUME TypeInv, AnnounceInv, FreshRead, [Next]_vars
    PROVE  [Lifecycle!Next]_Mapped
<1>1. CASE UNCHANGED incidents
  BY <1>1 DEF Mapped
<1>2. CASE PruneBefore
  BY <1>2, PruneStep
<1>3. ASSUME NEW c \in Callers, pc[c] = "insert", ~Exists(req[c].id),
             incidents' = [incidents EXCEPT ![req[c].id] = NewIncident(req[c])]
      PROVE  Lifecycle!Next
  BY <1>3, InsertStep
<1>4. ASSUME NEW c \in Callers, pc[c] = "replace", Exists(req[c].id),
             incidents' = [incidents EXCEPT ![req[c].id] = doc[c]]
      PROVE  Lifecycle!Next \/ Mapped' = Mapped
  BY <1>4, ReplaceStep
<1> QED
  BY <1>1, <1>2, <1>3, <1>4
     DEF Next, vars, Call, Step, ProcessAlert, AutoResolveOnRecovery, AcknowledgeRequest,
       ResolveRequest, Begin, FindHit, FindMiss, FindError, CreateIncident, CreateDuplicate,
       CreateError, OnIncidentCreated, UpdateLoad, UpdateReplace, UpdateError,
       OnIncidentResolved, Restart, Tick

(***************************************************************************)
(* The manager implements the incident lifecycle, for any number of        *)
(* callers, checks and seconds, with the non-atomic UpdateIncident, failed *)
(* and timed-out operations, restarts and retention runs.                  *)
(***************************************************************************)
THEOREM LifecycleTheorem == Spec => ImplementsLifecycle
<1>1. Init => Lifecycle!Init
  BY DEF Init, Lifecycle!Init, Lifecycle!Absent, ZeroIncident
<1>2. TypeInv /\ AnnounceInv /\ FreshRead /\ [Next]_vars => [Lifecycle!Next]_Mapped
  BY LifecycleStep
<1> QED
  BY <1>1, <1>2, TypeCorrect, AnnounceInit, AnnounceNext, FreshReadInit, FreshReadNext, PTL
     DEF Spec, ImplementsLifecycle, Lifecycle!Spec, Mapped, Seen
=============================================================================
