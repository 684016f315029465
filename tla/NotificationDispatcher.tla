----------------------- MODULE NotificationDispatcher -----------------------
(***************************************************************************)
(* The NotificationDispatcher (notify/dispatcher.go) and its outbox: open  *)
(* incidents are buffered and flushed by a debounced timer, resolutions    *)
(* are sent at once, every message in a goroutine of its own.              *)
(*                                                                         *)
(* An incident is created and resolved at most once; its two callbacks run *)
(* in the goroutines that did so, at any time afterwards.  NotifyIncident  *)
(* arms one timer, so the timer and the flushBatch it starts are named     *)
(* after the incident; Stop runs one more flushBatch itself.  Critical     *)
(* sections of batchMu and mu, database calls and sends are one step each. *)
(***************************************************************************)
EXTENDS Naturals, Sequences

CONSTANTS
    Incidents,    \* incident identifiers
    Info,         \* [Incidents -> [check, severity, type, server]]
    Channels,     \* notification channels
    Filters,      \* [Channels -> [severities, checkIDs, types, servers, tags : sets]]
    Assigned,     \* [Incidents -> SUBSET Channels]: channel IDs of the incident's check
    OnResolve,    \* channels with NotifyOnResolve
    Main,         \* the goroutine that calls Stop
    NoTimer       \* batchTimer = nil

ASSUME DispatcherAssumption ==
    /\ Assigned \in [Incidents -> SUBSET Channels]
    /\ OnResolve \subseteq Channels
    /\ Main \notin Incidents /\ NoTimer \notin Incidents

VARIABLES
    created,               \* how far the created callback of each incident is
    resolved,              \* incidents whose resolved callback has run
    state,                 \* what reading the channel store yields of each channel
    Cooled,                \* channels with CooldownMinutes > 0
    pending, batchTimer,   \* guarded by batchMu
    cooling, notified,     \* guarded by mu
    flush,                 \* the timers and the flushBatch calls they become
    sends,                 \* the goroutines that send a message
    main                   \* the process: running, stopping, stopped, exited

vars == <<created, resolved, Cooled, state, pending, batchTimer, cooling, notified, flush,
          sends, main>>

Flushes == Incidents \cup {Main}
Callbacks == {"no", "due", "called"}
ChannelStates == {"absent", "enabled", "disabled"}
CheckOf(i) == Info[i].check
Checks == {CheckOf(i) : i \in Incidents}
FlushPCs == {"idle", "armed", "fired", "list", "filter", "record", "spawn", "done"}
\* list: the channels flushBatch read; todo: those not yet visited for the head of the batch.
NoFlush == [pc |-> "idle", batch |-> <<>>, list |-> {}, todo |-> {}, ch |-> NoTimer,
            out |-> [c \in Channels |-> {}]]
Done == [NoFlush EXCEPT !.pc = "done"]
Messages == [ch : Channels, kind : {"open", "resolved"}, incs : SUBSET Incidents,
             pc : {"sending", "done"}]

Init ==
    /\ created = [i \in Incidents |-> "no"]
    /\ resolved = {}
    /\ state = [c \in Channels |-> "enabled"] /\ Cooled \in SUBSET Channels
    /\ pending = <<>> /\ batchTimer = NoTimer
    /\ cooling = {} /\ notified = {}
    /\ flush = [f \in Flushes |-> NoFlush]
    /\ sends = {}
    /\ main = "running"

Alive == main # "exited"

-----------------------------------------------------------------------------
(***************************************************************************)
(* The rest of the program: incidents open and resolve, channels are       *)
(* edited, cooldowns expire.                                               *)
(***************************************************************************)
Create(i) ==
    /\ Alive /\ created[i] = "no"
    /\ created' = [created EXCEPT ![i] = "due"]
    /\ UNCHANGED <<resolved, Cooled, state, pending, batchTimer, cooling, notified, flush,
                   sends, main>>

\* Channels are added, edited and deleted.  A read that fails yields an empty
\* list (the adapter drops the error), as if every channel were absent for a while.
EditChannels ==
    /\ Alive
    /\ \E s \in [Channels -> ChannelStates] \ {state} : state' = s
    /\ UNCHANGED <<created, resolved, Cooled, pending, batchTimer, cooling, notified,
                   flush, sends, main>>

CooldownExpires ==
    /\ Alive
    /\ \E e \in cooling : cooling' = cooling \ {e}
    /\ UNCHANGED <<created, resolved, Cooled, state, pending, batchTimer, notified, flush,
                   sends, main>>

ListRaw == {c \in Channels : state[c] # "absent"}

-----------------------------------------------------------------------------
\* timer.Stop() has no effect on a timer that has fired.
StopTimer ==
    [f \in Flushes |-> IF f = batchTimer /\ flush[f].pc = "armed" THEN NoFlush ELSE flush[f]]

\* Mutant: a pending timer is stopped but not replaced.
NotifyIncidentNoRearm(i) ==
    /\ Alive /\ created[i] = "due"
    /\ created' = [created EXCEPT ![i] = "called"]
    /\ IF ListRaw = {} THEN UNCHANGED <<pending, batchTimer, flush>>
       ELSE /\ pending' = Append(pending, i)
            /\ IF batchTimer = NoTimer
                 THEN batchTimer' = i /\ flush' = [flush EXCEPT ![i].pc = "armed"]
                 ELSE batchTimer' = NoTimer /\ flush' = StopTimer
    /\ UNCHANGED <<resolved, Cooled, state, cooling, notified, sends, main>>

NotifyIncident(i) ==
    /\ Alive /\ created[i] = "due"
    /\ created' = [created EXCEPT ![i] = "called"]
    /\ IF ListRaw = {} THEN UNCHANGED <<pending, batchTimer, flush>>
       ELSE /\ pending' = Append(pending, i)
            /\ batchTimer' = i
            /\ flush' = [StopTimer EXCEPT ![i].pc = "armed"]
    /\ UNCHANGED <<resolved, Cooled, state, cooling, notified, sends, main>>

Fire(f) ==
    /\ Alive /\ flush[f].pc = "armed"
    /\ flush' = [flush EXCEPT ![f].pc = "fired"]
    /\ UNCHANGED <<created, resolved, Cooled, state, pending, batchTimer, cooling,
                   notified, sends, main>>

\* Mutant: the batch is read but not taken.
TakeBatchCopy(f) ==
    /\ Alive /\ flush[f].pc = "fired"
    /\ flush' = [flush EXCEPT ![f].pc = IF pending = <<>> THEN "done" ELSE "list",
                              ![f].batch = pending]
    /\ batchTimer' = NoTimer
    /\ UNCHANGED <<created, resolved, Cooled, state, pending, cooling, notified, sends, main>>

\* flushBatch, first critical section: swap the batch out.
TakeBatch(f) ==
    /\ Alive /\ flush[f].pc = "fired"
    /\ flush' = [flush EXCEPT ![f].pc = IF pending = <<>> THEN "done" ELSE "list",
                              ![f].batch = pending]
    /\ pending' = <<>> /\ batchTimer' = NoTimer
    /\ UNCHANGED <<created, resolved, Cooled, state, cooling, notified, sends, main>>

\* The check result is nil in every call: a tag filter never matches, and a
\* server filter only looks at the incident's metadata.
matchesFilters(c, i) ==
    /\ Filters[c].severities # {} => Info[i].severity \in Filters[c].severities
    /\ Filters[c].checkIDs # {} => CheckOf(i) \in Filters[c].checkIDs
    /\ Filters[c].types # {} => Info[i].type \in Filters[c].types
    /\ Filters[c].servers # {} => Info[i].server \in Filters[c].servers
    /\ Filters[c].tags = {}

Wanted(c, i) == c \in Assigned[i] \/ matchesFilters(c, i)

inCooldown(c, i) == c \in Cooled /\ <<c, CheckOf(i)>> \in cooling
Chosen(c, i) == Wanted(c, i) /\ ~inCooldown(c, i) /\ <<i, c>> \notin notified

\* A flush between two channels: it goes on to the next one, to the next
\* incident of the batch, or to the sends.
Advance(fl) ==
    LET rest == Tail(fl.batch) IN
    IF fl.todo # {} THEN [fl EXCEPT !.pc = "filter"]
    ELSE [fl EXCEPT !.batch = rest, !.pc = IF rest = <<>> THEN "spawn" ELSE "filter",
                    !.todo = IF rest = <<>> THEN {} ELSE fl.list]

FlushList(f) ==
    /\ Alive /\ flush[f].pc = "list"
    /\ LET enabled == {c \in ListRaw : state[c] = "enabled"} IN
       flush' = [flush EXCEPT ![f] = IF enabled = {} THEN Done
                                     ELSE [@ EXCEPT !.list = enabled, !.todo = enabled,
                                                    !.pc = "filter"]]
    /\ UNCHANGED <<created, resolved, Cooled, state, pending, batchTimer, cooling,
                   notified, sends, main>>

\* One channel for the incident at the head of the batch: filters, cooldown, dedup.
FlushFilter(f) ==
    /\ Alive /\ flush[f].pc = "filter"
    /\ \E c \in flush[f].todo :
         LET left == [flush[f] EXCEPT !.todo = @ \ {c}] IN
         flush' = [flush EXCEPT ![f] = IF Chosen(c, Head(left.batch))
                                         THEN [left EXCEPT !.ch = c, !.pc = "record"]
                                         ELSE Advance(left)]
    /\ UNCHANGED <<created, resolved, Cooled, state, pending, batchTimer, cooling,
                   notified, sends, main>>

\* recordCooldown and markNotified, before anything is sent.
FlushRecord(f) ==
    /\ Alive /\ flush[f].pc = "record"
    /\ LET i == Head(flush[f].batch)
           c == flush[f].ch
       IN /\ flush' = [flush EXCEPT ![f] = Advance([flush[f] EXCEPT !.out[c] = @ \cup {i},
                                                                    !.ch = NoTimer])]
          /\ cooling' = cooling \cup (IF c \in Cooled THEN {<<c, CheckOf(i)>>} ELSE {})
          /\ notified' = notified \cup {<<i, c>>}
    /\ UNCHANGED <<created, resolved, Cooled, state, pending, batchTimer, sends, main>>

\* Mutant: the goroutine starts in a state nothing leads out of.
NewSendQueued(c, kind, incs) == [ch |-> c, kind |-> kind, incs |-> incs, pc |-> "queued"]

NewSend(c, kind, incs) == [ch |-> c, kind |-> kind, incs |-> incs, pc |-> "sending"]

\* One goroutine per channel with something to send; flushBatch does not wait.
FlushSpawn(f) ==
    /\ Alive /\ flush[f].pc = "spawn"
    /\ sends' = sends \cup {NewSend(c, "open", flush[f].out[c]) :
                              c \in {d \in Channels : flush[f].out[d] # {}}}
    /\ flush' = [flush EXCEPT ![f] = Done]
    /\ UNCHANGED <<created, resolved, Cooled, state, pending, batchTimer, cooling,
                   notified, main>>

-----------------------------------------------------------------------------
\* NotifyResolved: forget the dedup entries, then one goroutine per channel.
NotifyResolved(i) ==
    /\ Alive /\ created[i] # "no" /\ i \notin resolved
    /\ resolved' = resolved \cup {i}
    /\ notified' = {e \in notified : e[1] # i}
    /\ sends' = sends \cup {NewSend(c, "resolved", {i}) :
                              c \in {d \in ListRaw \cap OnResolve :
                                       state[d] = "enabled" /\ Wanted(d, i)}}
    /\ UNCHANGED <<created, Cooled, state, pending, batchTimer, cooling, flush, main>>

\* sendToChannel or sendDigest, and the outbox record of what came of it.  The
\* outcome is left out: nothing sends again what failed.
Deliver ==
    /\ Alive
    /\ \E s \in sends : /\ s.pc = "sending"
                       /\ sends' = (sends \ {s}) \cup {[s EXCEPT !.pc = "done"]}
    /\ UNCHANGED <<created, resolved, Cooled, state, pending, batchTimer, cooling, notified,
                   flush, main>>

-----------------------------------------------------------------------------
\* Stop: the timer is stopped, then the flush runs in the calling goroutine.
Stop ==
    /\ main = "running"
    /\ main' = "stopping"
    /\ batchTimer' = NoTimer
    /\ flush' = [StopTimer EXCEPT ![Main].pc = "fired"]
    /\ UNCHANGED <<created, resolved, Cooled, state, pending, cooling, notified, sends>>

\* The remaining deferred calls run and the process ends, with every goroutine in it.
Exit ==
    /\ main = "stopping" /\ flush[Main].pc = "done"
    /\ main' = "exited"
    /\ UNCHANGED <<created, resolved, Cooled, state, pending, batchTimer, cooling,
                   notified, flush, sends>>

FlushStep(f) ==
    \/ Fire(f) \/ TakeBatch(f) \/ FlushList(f) \/ FlushFilter(f) \/ FlushRecord(f)
    \/ FlushSpawn(f)

Next ==
    \/ \E i \in Incidents : Create(i) \/ NotifyIncident(i) \/ NotifyResolved(i)
    \/ \E f \in Flushes : FlushStep(f)
    \/ EditChannels \/ Deliver \/ CooldownExpires \/ Stop \/ Exit

(***************************************************************************)
(* Goroutines run, timers fire, sends end (the HTTP client has a timeout). *)
(***************************************************************************)
Fairness ==
    /\ \A i \in Incidents : WF_vars(NotifyIncident(i))
    /\ \A f \in Flushes : WF_vars(FlushStep(f))
    /\ WF_vars(Deliver)

Spec == Init /\ [][Next]_vars
FairSpec == Spec /\ Fairness

-----------------------------------------------------------------------------
TypeOK ==
    /\ created \in [Incidents -> Callbacks] /\ resolved \subseteq Incidents
    /\ state \in [Channels -> ChannelStates] /\ Cooled \in SUBSET Channels
    /\ pending \in Seq(Incidents) /\ batchTimer \in Incidents \cup {NoTimer}
    /\ cooling \subseteq Channels \X Checks /\ notified \subseteq Incidents \X Channels
    /\ flush \in [Flushes -> [pc : FlushPCs, batch : Seq(Incidents), list : SUBSET Channels,
                              todo : SUBSET Channels, ch : Channels \cup {NoTimer},
                              out : [Channels -> SUBSET Incidents]]]
    /\ sends \subseteq Messages
    /\ main \in {"running", "stopping", "exited"}

(***************************************************************************)
(* Whatever is buffered has a timer, armed or fired, or the flush of Stop  *)
(* ahead of it: no interleaving of NotifyIncident with a flush that is     *)
(* already waiting for batchMu leaves an incident behind without one.      *)
(***************************************************************************)
BufferedIsTimed ==
    Alive /\ pending # <<>> => \E f \in Flushes : flush[f].pc \in {"armed", "fired"}

(***************************************************************************)
(* "each incident + channel pair only fires once": no two messages about   *)
(* the opening of an incident go to the same channel, although a           *)
(* resolution clears the dedup entries and flushes overlap.                *)
(***************************************************************************)
OpenFiresOnce ==
    \A s, t \in sends :
        /\ s.kind = "open" /\ t.kind = "open" /\ s.ch = t.ch
        /\ s.incs \cap t.incs # {}
        => s = t

(***************************************************************************)
(* What is sent, under overlapping flushes, cleared dedup entries and      *)
(* edited channels: nothing is left behind, and nothing opens twice.       *)
(***************************************************************************)
SendsSound == BufferedIsTimed /\ OpenFiresOnce

(***************************************************************************)
(* A channel that stays enabled and wants the incident is sent the opening *)
(* message, unless it has a cooldown, as long as the process runs and the  *)
(* reads of the channel store succeed.                                     *)
(***************************************************************************)
OpenEventuallySent ==
    \A i \in Incidents, c \in Channels :
        [](c \notin Cooled /\ main = "running" /\ state[c] = "enabled") /\ Wanted(c, i) =>
            (created[i] = "due" ~> \E s \in sends : s.kind = "open" /\ s.ch = c /\ i \in s.incs)
=============================================================================
