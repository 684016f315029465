----------------------------- MODULE Incidents -----------------------------
(***************************************************************************)
(* The IncidentManager (incident_manager.go) on top of the repository the  *)
(* program gives it, MongoIncidentRepository, whose UpdateIncident is a    *)
(* FindOne followed later by a ReplaceOne of the whole document, and any   *)
(* of whose operations can fail or time out.                               *)
(*                                                                         *)
(* A caller is a goroutine inside the manager: the alert callback of a     *)
(* scheduler loop, the handler of POST /runs, the HTTP handlers behind the *)
(* acknowledge and resolve buttons, the remediation engine's success       *)
(* callback.  Each database round trip is a step of its own; what a        *)
(* goroutine does between two of them is not observable and is part of     *)
(* the step before.                                                        *)
(***************************************************************************)
EXTENDS Naturals, FiniteSets

CONSTANTS
    Checks,      \* check identifiers
    Callers,     \* goroutines that call the manager
    Severities,  \* severity levels; 0: one the manager does not rank, 1: warning, 2: critical
    Alerters,    \* [Checks -> SUBSET Callers]: who evaluates results of a check
    Operators,   \* who acknowledges and resolves: HTTP handlers, the remediation engine
    MaxClock,    \* bound: last second of the modelled period
    OpTimeout,   \* mongoIncidentOpTimeout, in seconds
    Retention    \* IncidentRetentionDays, in seconds

ASSUME ConstantsAssumption ==
    /\ Checks # {}
    /\ Severities \subseteq 0..2 /\ 0 \in Severities
    /\ Alerters \in [Checks -> SUBSET Callers]
    /\ Operators \subseteq Callers
    /\ MaxClock \in Nat /\ OpTimeout \in Nat /\ Retention \in Nat
    /\ OpTimeout < Retention

VARIABLES
    clock,       \* seconds since the start of the period
    incidents,   \* the collection; status "none" is "no document with this _id"
    pc,          \* where each caller is
    req,         \* what each caller was asked to do
    doc,         \* the mutated copy a caller is about to write back
    created,     \* how often onIncidentCreated fired for an identifier
    stale        \* history: callers about to write after a read that is out of date

vars == <<clock, incidents, pc, req, doc, created, stale>>

Seconds == 0..MaxClock
IDs == Checks \X Seconds \* generateIncidentID: the check and the Unix second
Statuses == {"none", "open", "acknowledged", "resolved"}
Incident == [status : Statuses, severity : Severities, ackBy : {"nobody", "operator"},
             updatedAt : Seconds]

\* The zero Incident{} that GetIncident and FindOpenIncident return on a miss.
ZeroIncident == [status |-> "none", severity |-> 0, ackBy |-> "nobody", updatedAt |-> 0]

Ops == {"alert", "recover", "ack", "resolve"}
Requests == [op : Ops \cup {"none"}, id : IDs, sev : Severities]
PCs == {"idle", "find", "insert", "created", "load", "replace", "reread"}

CheckOf(id) == id[1]
SecondOf(id) == id[2]
AnyID == CHOOSE id \in IDs : TRUE
NoRequest == [op |-> "none", id |-> AnyID, sev |-> 0]

Exists(id) == incidents[id].status # "none"
IsOpen(id) == incidents[id].status \in {"open", "acknowledged"}
OpenOf(k) == {id \in IDs : CheckOf(id) = k /\ IsOpen(id)}

(***************************************************************************)
(* A caller between its read and its write is out of date once another     *)
(* call has changed the document it loaded, or opened an incident of the   *)
(* check it found without one, or when its lookup failed and there was an  *)
(* open incident.                                                          *)
(***************************************************************************)
Changed(id) == incidents'[id] # incidents[id]
Opened(k) == \E id \in IDs : CheckOf(id) = k /\ ~IsOpen(id) /\ IsOpen(id)'
OutOfDate(c) ==
    \/ pc[c] = "replace" /\ (c \in stale \/ Changed(req[c].id))
    \/ pc[c] = "insert"  /\ (c \in stale \/ Opened(CheckOf(req[c].id)))
    \/ pc[c] = "find"    /\ OpenOf(CheckOf(req[c].id)) # {}

History == stale' = {c \in Callers : pc'[c] \in {"insert", "replace"} /\ OutOfDate(c)}

-----------------------------------------------------------------------------
\* Mutant: any different level replaces the old one.
severityHasChanged(old, new) == old # new
severityHasIncreased(old, new) == old = 0 \/ (new # 0 /\ new > old)

(***************************************************************************)
(* The three mutators passed to UpdateIncident.  Acknowledging and         *)
(* resolving refuse a resolved incident; an alert changes its severity and *)
(* its update time whatever its status.                                    *)
(***************************************************************************)
UpdateMutator(d, sev) ==
    [d EXCEPT !.severity = IF severityHasIncreased(@, sev) THEN sev ELSE @,
              !.updatedAt = clock]

AcknowledgeMutator(d) ==
    [d EXCEPT !.status = "acknowledged", !.ackBy = "operator", !.updatedAt = clock]

ResolveMutator(d) == [d EXCEPT !.status = "resolved", !.updatedAt = clock]

\* Mutants: the guard of one of the two mutators is missing.
OnlyResolveRefuses(r, d) == r.op = "resolve" /\ d.status = "resolved"
OnlyAckRefuses(r, d) == r.op = "ack" /\ d.status = "resolved"
MutatorRefuses(r, d) == r.op \in {"ack", "resolve"} /\ d.status = "resolved"

Mutated(r, d) ==
    CASE r.op = "alert"   -> UpdateMutator(d, r.sev)
      [] r.op = "ack"     -> AcknowledgeMutator(d)
      [] r.op = "resolve" -> ResolveMutator(d)

-----------------------------------------------------------------------------
Init ==
    /\ clock = 0
    /\ incidents = [id \in IDs |-> ZeroIncident]
    /\ pc = [c \in Callers |-> "idle"]
    /\ req = [c \in Callers |-> NoRequest]
    /\ doc = [c \in Callers |-> ZeroIncident]
    /\ created = [id \in IDs |-> 0]
    /\ stale = {}

Goto(c, label) == pc' = [pc EXCEPT ![c] = label]

\* The caller returns; its locals die.
Return(c) ==
    /\ Goto(c, "idle")
    /\ req' = [req EXCEPT ![c] = NoRequest]
    /\ doc' = [doc EXCEPT ![c] = ZeroIncident]

Begin(c, label, op, id, sev) ==
    /\ pc[c] = "idle"
    /\ Goto(c, label)
    /\ req' = [req EXCEPT ![c] = [op |-> op, id |-> id, sev |-> sev]]
    /\ UNCHANGED <<clock, incidents, doc, created>> /\ History

(***************************************************************************)
(* Calls.  The HTTP handlers look the incident up first and answer 404     *)
(* when it is missing.  (The remediation engine's success callback, which  *)
(* resolves too, never runs: no runner is registered to verify a check.)   *)
(***************************************************************************)
ProcessAlert(c) ==
    \E k \in Checks, s \in Severities :
        c \in Alerters[k] /\ Begin(c, "find", "alert", <<k, 0>>, s)

AutoResolveOnRecovery(c) ==
    \E k \in Checks : c \in Alerters[k] /\ Begin(c, "find", "recover", <<k, 0>>, 0)

AcknowledgeRequest(c) ==
    \E id \in IDs : c \in Operators /\ Exists(id) /\ Begin(c, "load", "ack", id, 0)

ResolveRequest(c) ==
    \E id \in IDs : c \in Operators /\ Exists(id) /\ Begin(c, "load", "resolve", id, 0)

(***************************************************************************)
(* FindOpenIncident sorts by updatedAt descending, a second being too      *)
(* coarse to order updates within it.                                      *)
(***************************************************************************)
FoundOpen(k, id) ==
    /\ id \in OpenOf(k)
    /\ \A other \in OpenOf(k) : incidents[other].updatedAt <= incidents[id].updatedAt

\* createIncident reads the clock, hence the identifier, before it inserts.
StartCreate(c) ==
    /\ Goto(c, "insert")
    /\ req' = [req EXCEPT ![c].id = <<CheckOf(req[c].id), clock>>]
    /\ UNCHANGED doc

FindHit(c) ==
    /\ pc[c] = "find"
    /\ \E id \in IDs :
         /\ FoundOpen(CheckOf(req[c].id), id)
         /\ req' = [req EXCEPT ![c].id = id,
                               ![c].op = IF @ = "recover" THEN "resolve" ELSE @]
    /\ Goto(c, "load")
    /\ UNCHANGED <<clock, incidents, doc, created>> /\ History

\* An alert goes on to create; a recovery has nothing to resolve.
FindMiss(c) ==
    /\ pc[c] = "find"
    /\ OpenOf(CheckOf(req[c].id)) = {}
    /\ IF req[c].op = "alert" THEN StartCreate(c) ELSE Return(c)
    /\ UNCHANGED <<clock, incidents, created>> /\ History

\* ProcessAlert logs the error and goes on to create; AutoResolve returns it.
FindError(c) ==
    /\ pc[c] = "find"
    /\ IF req[c].op = "alert" THEN StartCreate(c) ELSE Return(c)
    /\ UNCHANGED <<clock, incidents, created>> /\ History

NewIncident(r) ==
    [status |-> "open", severity |-> r.sev, ackBy |-> "nobody", updatedAt |-> SecondOf(r.id)]

\* Mutant: an upsert in place of the insert.
CreateByUpsert(c) ==
    /\ pc[c] = "insert"
    /\ incidents' = [incidents EXCEPT ![req[c].id] = NewIncident(req[c])]
    /\ Goto(c, "created")
    /\ UNCHANGED <<clock, req, doc, created>> /\ History

CreateIncident(c) ==
    /\ pc[c] = "insert"
    /\ ~Exists(req[c].id)
    /\ incidents' = [incidents EXCEPT ![req[c].id] = NewIncident(req[c])]
    /\ Goto(c, "created")
    /\ UNCHANGED <<clock, req, doc, created>> /\ History

\* ErrIncidentExists: the caller drops the alert.
CreateDuplicate(c) ==
    /\ pc[c] = "insert"
    /\ Exists(req[c].id)
    /\ Return(c)
    /\ UNCHANGED <<clock, incidents, created>> /\ History

\* The insert fails, or times out after the server has applied it: the caller
\* sees an error either way and fires no callback.
CreateError(c) ==
    /\ pc[c] = "insert"
    /\ \/ UNCHANGED incidents
       \/ /\ ~Exists(req[c].id)
          /\ incidents' = [incidents EXCEPT ![req[c].id] = NewIncident(req[c])]
    /\ Return(c)
    /\ UNCHANGED <<clock, created>> /\ History

OnIncidentCreated(c) ==
    /\ pc[c] = "created"
    /\ created' = [created EXCEPT ![req[c].id] = @ + 1]
    /\ Return(c)
    /\ UNCHANGED <<clock, incidents>> /\ History

-----------------------------------------------------------------------------
\* After a successful update: ResolveIncident re-reads, the others return.
Updated(c) ==
    IF req[c].op = "resolve" THEN Goto(c, "reread") /\ UNCHANGED <<req, doc>>
                             ELSE Return(c)

\* UpdateIncident, first half: FindOne and the mutator.
UpdateLoad(c) ==
    /\ pc[c] = "load"
    /\ LET d == incidents[req[c].id] IN
       IF d.status = "none" \/ MutatorRefuses(req[c], d)
         THEN Return(c)
         ELSE /\ doc' = [doc EXCEPT ![c] = Mutated(req[c], d)]
              /\ Goto(c, "replace")
              /\ UNCHANGED req
    /\ UNCHANGED <<clock, incidents, created>> /\ History

\* Second half: ReplaceOne of the whole document, matched by _id alone.
UpdateReplace(c) ==
    /\ pc[c] = "replace"
    /\ IF Exists(req[c].id)
         THEN /\ incidents' = [incidents EXCEPT ![req[c].id] = doc[c]]
              /\ Updated(c)
         ELSE Return(c) /\ UNCHANGED incidents
    /\ UNCHANGED <<clock, created>> /\ History

\* Either round trip fails; a timed-out replace may have been applied.
UpdateError(c) ==
    /\ \/ pc[c] \in {"load", "replace"} /\ UNCHANGED incidents
       \/ /\ pc[c] = "replace" /\ Exists(req[c].id)
          /\ incidents' = [incidents EXCEPT ![req[c].id] = doc[c]]
    /\ Return(c)
    /\ UNCHANGED <<clock, created>> /\ History

\* GetIncident, then onIncidentResolved with whatever was read (the zero incident
\* when it was pruned meanwhile); a read error skips the callback.
OnIncidentResolved(c) ==
    /\ pc[c] = "reread"
    /\ Return(c)
    /\ UNCHANGED <<clock, incidents, created>> /\ History

-----------------------------------------------------------------------------
\* PruneBefore(now - retention).  DeleteMany works document by document and can
\* stop half way.
Prunable == {id \in IDs : /\ incidents[id].status = "resolved"
                          /\ incidents[id].updatedAt + Retention < clock}

PruneBefore ==
    /\ \E S \in SUBSET Prunable :
         /\ S # {}
         /\ incidents' = [id \in IDs |-> IF id \in S THEN ZeroIncident ELSE incidents[id]]
    /\ UNCHANGED <<clock, pc, req, doc, created>> /\ History

\* The process is killed and restarted; the documents are kept.
Restart ==
    /\ \E c \in Callers : pc[c] # "idle"
    /\ pc' = [c \in Callers |-> "idle"]
    /\ req' = [c \in Callers |-> NoRequest]
    /\ doc' = [c \in Callers |-> ZeroIncident]
    /\ UNCHANGED <<clock, incidents, created>> /\ History

\* A second passes.  No insert outlives its operation timeout.
Tick ==
    /\ clock < MaxClock
    /\ \A c \in Callers : pc[c] = "insert" => clock < SecondOf(req[c].id) + OpTimeout
    /\ clock' = clock + 1
    /\ UNCHANGED <<incidents, pc, req, doc, created>> /\ History

Call(c) ==
    \/ ProcessAlert(c) \/ AutoResolveOnRecovery(c)
    \/ AcknowledgeRequest(c) \/ ResolveRequest(c)

Step(c) ==
    \/ FindHit(c) \/ FindMiss(c) \/ FindError(c)
    \/ CreateIncident(c) \/ CreateDuplicate(c) \/ CreateError(c) \/ OnIncidentCreated(c)
    \/ UpdateLoad(c) \/ UpdateReplace(c) \/ UpdateError(c)
    \/ OnIncidentResolved(c)

Next ==
    \/ \E c \in Callers : Call(c) \/ Step(c)
    \/ PruneBefore \/ Restart \/ Tick

Spec == Init /\ [][Next]_vars

-----------------------------------------------------------------------------
TypeOK ==
    /\ clock \in Seconds
    /\ incidents \in [IDs -> Incident]
    /\ pc \in [Callers -> PCs]
    /\ req \in [Callers -> Requests]
    /\ doc \in [Callers -> Incident]
    /\ created \in [IDs -> Nat]
    /\ stale \subseteq Callers

(***************************************************************************)
(* An incident identifier is announced to the AI queue, the notification   *)
(* dispatcher and the remediation engine at most once, whatever duplicate  *)
(* alerts, timed-out inserts, restarts and retention runs happen.          *)
(***************************************************************************)
AnnouncedAtMostOnce == \A id \in IDs : created[id] <= 1

(***************************************************************************)
(* A caller that still holds a copy of the incident, loaded before it was  *)
(* resolved, and is about to write it back.                                *)
(***************************************************************************)
HoldsStaleCopy(c, id) ==
    pc[c] = "replace" /\ req[c].id = id /\ doc[c].status # "resolved"

Settled(id) ==
    incidents[id].status = "resolved" /\ \A c \in Callers : ~HoldsStaleCopy(c, id)

(***************************************************************************)
(* Once an incident is resolved and the last write-back that was under way *)
(* has ended, it stays resolved until it is pruned: the guards of the      *)
(* mutators keep every later call from reopening it, although              *)
(* UpdateIncident is not atomic.                                           *)
(***************************************************************************)
SettledIsFinal ==
    [][\A id \in IDs : Settled(id) => (Settled(id)' \/ ~Exists(id)')]_vars

(***************************************************************************)
(* A resolved incident stays resolved until the retention job removes it:  *)
(* "cannot acknowledge resolved incident".                                 *)
(***************************************************************************)
ResolvedIsFinal ==
    [][\A id \in IDs : incidents[id].status = "resolved"
                         => incidents'[id].status \in {"resolved", "none"}]_vars

(***************************************************************************)
(* A resolution is announced by the caller that took the incident out of   *)
(* the open state: a second announcement of the same incident comes from   *)
(* a caller that had loaded it before the first one replaced it.           *)
(***************************************************************************)
ResolutionAnnouncedOnce ==
    [][\A c \in Callers :
           pc[c] # "reread" /\ pc'[c] = "reread" => IsOpen(req[c].id) \/ c \in stale]_vars

Lifecycle == INSTANCE IncidentLifecycle WITH
    inc <- [id \in IDs |-> [status |-> incidents[id].status,
                            severity |-> incidents[id].severity,
                            ackBy |-> incidents[id].ackBy]],
    rushed <- {req[c].id : c \in stale}

(***************************************************************************)
(* The manager implements the lifecycle, whatever fails: every step either *)
(* opens an incident where the check has none, escalates, acknowledges,    *)
(* resolves or removes incidents the way IncidentLifecycle allows, leaves  *)
(* them alone, or is the write of a caller whose read is out of date.      *)
(***************************************************************************)
ImplementsLifecycle == Lifecycle!Spec
=============================================================================
