--------------------- MODULE NotificationDispatcherProofs ---------------------
(***************************************************************************)
(* Proofs about NotificationDispatcher: type correctness and SendsSound,   *)
(* for any incidents, channels, filters and assignments.                   *)
(*                                                                         *)
(* OpenFiresOnce does not rest on the dedup entries, which a resolution    *)
(* clears: it rests on an incident being in at most one place (OnePlace),  *)
(* first in the buffer, then in one flush, then in messages.  A flush      *)
(* sends one message per channel, so an incident that is in one flush only *)
(* is in one message per channel.  BufferedIsTimed is inductive.           *)
(*                                                                         *)
(* The last section is about the channels and the secrets they keep.       *)
(***************************************************************************)
EXTENDS NotificationDispatcher, Channels, TLAPS

Elems(s) == {s[k] : k \in 1..Len(s)}

\* The incidents that a flush holds, and those that opening messages are about.
Held(f) == Elems(flush[f].batch) \cup UNION {flush[f].out[c] : c \in Channels}
OpenMessages == {s \in sends : s.kind = "open"}
Sent == UNION {s.incs : s \in OpenMessages}

\* A flush at work on an incident has one, and a channel to record it for.
AtWork ==
    \A f \in Flushes :
        /\ flush[f].pc \in {"list", "filter", "record"} => flush[f].batch # <<>>
        /\ flush[f].pc = "record" => flush[f].ch \in Channels

OnePlace ==
    /\ \A i \in Elems(pending) : created[i] = "called" /\ i \notin Sent
    /\ \A i \in Sent : created[i] = "called"
    /\ \A f \in Flushes : \A i \in Held(f) :
         /\ created[i] = "called" /\ i \notin Elems(pending) /\ i \notin Sent
         /\ \A g \in Flushes \ {f} : i \notin Held(g)

IInv == TypeOK /\ AtWork /\ OnePlace /\ OpenFiresOnce /\ BufferedIsTimed

FlushRecords == [pc : FlushPCs, batch : Seq(Incidents), list : SUBSET Channels,
                 todo : SUBSET Channels, ch : Channels \cup {NoTimer},
                 out : [Channels -> SUBSET Incidents]]

-----------------------------------------------------------------------------
(***************************************************************************)
(* Sequences and records.                                                  *)
(***************************************************************************)
LEMMA ElemsFacts ==
    ASSUME NEW S, NEW s \in Seq(S)
    PROVE  /\ Elems(s) \subseteq S /\ Elems(<<>>) = {}
           /\ \A x \in S : Append(s, x) \in Seq(S) /\ Elems(Append(s, x)) = Elems(s) \cup {x}
           /\ s # <<>> => /\ Head(s) \in Elems(s)
                          /\ Tail(s) \in Seq(S) /\ Elems(Tail(s)) \subseteq Elems(s)
<1>1. Elems(s) \subseteq S /\ Elems(<<>>) = {}
  BY DEF Elems
<1>2. ASSUME NEW x \in S
      PROVE  Append(s, x) \in Seq(S) /\ Elems(Append(s, x)) = Elems(s) \cup {x}
  <2>1. /\ Append(s, x) \in Seq(S) /\ Len(Append(s, x)) = Len(s) + 1 /\ Len(s) \in Nat
        /\ \A k \in 1..Len(s) : Append(s, x)[k] = s[k]
        /\ Append(s, x)[Len(s) + 1] = x
    OBVIOUS
  <2>2. 1..(Len(s) + 1) = 1..Len(s) \cup {Len(s) + 1}
    BY <2>1
  <2> QED
    BY <2>1, <2>2 DEF Elems
<1>3. ASSUME s # <<>>
      PROVE  /\ Head(s) \in Elems(s)
             /\ Tail(s) \in Seq(S) /\ Elems(Tail(s)) \subseteq Elems(s)
  <2>1. Len(s) \in Nat /\ Len(s) # 0 /\ Head(s) = s[1]
    BY <1>3
  <2>2. /\ Tail(s) \in Seq(S) /\ Len(Tail(s)) = Len(s) - 1
        /\ \A k \in 1..Len(Tail(s)) : Tail(s)[k] = s[k + 1] /\ k + 1 \in 1..Len(s)
    BY <1>3, <2>1
  <2> QED
    BY <2>1, <2>2 DEF Elems
<1> QED
  BY <1>1, <1>2, <1>3

LEMMA NoFlushTyped ==
    /\ NoFlush \in FlushRecords /\ Done \in FlushRecords
    /\ NoFlush.pc = "idle" /\ NoFlush.batch = <<>> /\ \A c \in Channels : NoFlush.out[c] = {}
    /\ Done.pc = "done" /\ Done.batch = <<>> /\ \A c \in Channels : Done.out[c] = {}
<1>1. <<>> \in Seq(Incidents)
  OBVIOUS
<1> QED
  BY <1>1 DEF NoFlush, Done, FlushRecords, FlushPCs

LEMMA InitIInv == Init => IInv
<1> SUFFICES ASSUME Init PROVE IInv
  OBVIOUS
<1>1. TypeOK
  BY NoFlushTyped DEF Init, TypeOK, FlushRecords, Callbacks, ChannelStates
<1>2. \A f \in Flushes : flush[f] = NoFlush
  BY DEF Init
<1>3. AtWork
  BY <1>2, NoFlushTyped DEF AtWork
<1>4. OpenMessages = {} /\ Sent = {} /\ Elems(pending) = {}
  BY DEF Init, OpenMessages, Sent, Elems
<1>5. \A f \in Flushes : Held(f) = {}
  BY <1>2, NoFlushTyped DEF Held, Elems
<1>6. OnePlace
  BY <1>4, <1>5 DEF OnePlace
<1> QED
  BY <1>1, <1>3, <1>6 DEF IInv, OpenFiresOnce, BufferedIsTimed, Init

-----------------------------------------------------------------------------
(***************************************************************************)
(* Steps that move incidents only downstream.                              *)
(***************************************************************************)
\* Places only lose incidents, and a callback that has run has run.
LEMMA PlacesShrink ==
    ASSUME OnePlace,
           \A i \in Elems(pending) \cup Sent \cup UNION {Held(f) : f \in Flushes} :
               created'[i] = created[i],
           Elems(pending)' \subseteq Elems(pending), Sent' \subseteq Sent,
           \A f \in Flushes : Held(f)' \subseteq Held(f)
    PROVE  OnePlace'
<1>1. \A i \in Elems(pending)' : created'[i] = "called" /\ i \notin Sent'
  BY DEF OnePlace
<1>2. \A i \in Sent' : created'[i] = "called"
  BY DEF OnePlace
<1>3. ASSUME NEW f \in Flushes, NEW i \in Held(f)'
      PROVE  /\ created'[i] = "called" /\ i \notin Elems(pending)' /\ i \notin Sent'
             /\ \A g \in Flushes \ {f} : i \notin Held(g)'
  <2>1. i \in Held(f) /\ created'[i] = created[i]
    OBVIOUS
  <2> QED
    BY <2>1 DEF OnePlace
<1> QED
  BY <1>1, <1>2, <1>3 DEF OnePlace

\* Whatever is in a place is an incident whose callback has run.
LEMMA PlacedCalled ==
    ASSUME IInv
    PROVE  /\ Elems(pending) \subseteq Incidents /\ Sent \subseteq Incidents
           /\ \A f \in Flushes : Held(f) \subseteq Incidents
           /\ \A i \in Elems(pending) \cup Sent \cup UNION {Held(f) : f \in Flushes} :
                created[i] = "called" /\ i \in Incidents
<1>1. Elems(pending) \subseteq Incidents
  BY ElemsFacts DEF IInv, TypeOK
<1>2. Sent \subseteq Incidents
  BY DEF IInv, TypeOK, Sent, OpenMessages, Messages
<1>3. ASSUME NEW f \in Flushes PROVE Held(f) \subseteq Incidents
  <2>1. flush[f].batch \in Seq(Incidents) /\ \A c \in Channels : flush[f].out[c] \subseteq Incidents
    BY DEF IInv, TypeOK
  <2> QED
    BY <2>1, ElemsFacts DEF Held
<1> QED
  BY <1>1, <1>2, <1>3 DEF IInv, OnePlace

\* The messages about openings are the same up to their progress.
LEMMA SameMessages ==
    ASSUME sends' = sends
    PROVE  Sent' = Sent /\ OpenMessages' = OpenMessages
<1> QED
  BY DEF Sent, OpenMessages

\* What flush f holds depends on its own record only.
LEMMA HeldOf ==
    ASSUME NEW f \in Flushes, flush'[f].batch = flush[f].batch, flush'[f].out = flush[f].out
    PROVE  Held(f)' = Held(f)
<1> QED
  BY DEF Held

\* Stopping the armed timer drops a flush that has not begun.
LEMMA StopTimerShrinks ==
    ASSUME TypeOK, AtWork
    PROVE  /\ StopTimer \in [Flushes -> FlushRecords]
           /\ \A f \in Flushes : StopTimer[f] = flush[f] \/ StopTimer[f] = NoFlush
<1> QED
  BY NoFlushTyped DEF StopTimer, TypeOK, FlushRecords

\* A flush whose record is the old one or NoFlush, but for its pc.
LEMMA HeldShrinks ==
    ASSUME NEW f \in Flushes,
           \/ flush'[f].batch = flush[f].batch /\ flush'[f].out = flush[f].out
           \/ flush'[f].batch = NoFlush.batch /\ flush'[f].out = NoFlush.out
    PROVE  Held(f)' \subseteq Held(f)
<1>1. CASE flush'[f].batch = flush[f].batch /\ flush'[f].out = flush[f].out
  BY <1>1, HeldOf
<1>2. CASE flush'[f].batch = NoFlush.batch /\ flush'[f].out = NoFlush.out
  <2>1. flush'[f].batch = <<>> /\ \A c \in Channels : flush'[f].out[c] = {}
    BY <1>2, NoFlushTyped
  <2>2. Held(f)' = {}
    BY <2>1 DEF Held, Elems
  <2> QED
    BY <2>2
<1> QED
  BY <1>1, <1>2

\* Arming or firing: the record of flush t, which may have been stopped, with
\* another pc.
LEMMA TimerSet ==
    ASSUME TypeOK, AtWork, NEW t \in Flushes, NEW pc \in {"armed", "fired"},
           NEW base \in [Flushes -> FlushRecords],
           \A f \in Flushes : base[f] = flush[f] \/ base[f] = NoFlush,
           flush' = [base EXCEPT ![t].pc = pc]
    PROVE  /\ flush' \in [Flushes -> FlushRecords] /\ flush'[t].pc = pc
           /\ AtWork' /\ \A f \in Flushes : Held(f)' \subseteq Held(f)
<1> DEFINE r == [base[t] EXCEPT !.pc = pc]
<1>1. flush' = [base EXCEPT ![t] = r]
  OBVIOUS
<1>2. r \in FlushRecords /\ r.pc = pc /\ r.batch = base[t].batch /\ r.out = base[t].out
  BY DEF FlushRecords, FlushPCs
<1> HIDE DEF r
<1>3. flush' \in [Flushes -> FlushRecords] /\ flush'[t] = r /\ \A f \in Flushes \ {t} : flush'[f] = base[f]
  BY <1>1, <1>2
<1>4. ASSUME NEW f \in Flushes
      PROVE  Held(f)' \subseteq Held(f)
  <2>1. flush'[f].batch = base[f].batch /\ flush'[f].out = base[f].out
    BY <1>2, <1>3
  <2> QED
    BY <2>1, HeldShrinks
<1>5. AtWork'
  BY <1>2, <1>3, NoFlushTyped DEF AtWork
<1> QED
  BY <1>2, <1>3, <1>4, <1>5

-----------------------------------------------------------------------------
(***************************************************************************)
(* One lemma per action.                                                   *)
(***************************************************************************)
\* Incidents, channels, cooldowns and the exit do not touch the places.
LEMMA SurroundingsStep ==
    ASSUME IInv, \/ \E i \in Incidents : Create(i)
                 \/ EditChannels \/ CooldownExpires \/ Exit \/ UNCHANGED vars
    PROVE  IInv'
<1>1. UNCHANGED <<pending, flush, sends>>
  BY DEF Create, EditChannels, CooldownExpires, Exit, vars
<1>2. TypeOK'
  BY DEF IInv, TypeOK, Create, EditChannels, CooldownExpires, Exit, vars, Callbacks
<1>3. \A i \in Incidents : created[i] = "called" => created'[i] = created[i]
  BY DEF IInv, TypeOK, Create, EditChannels, CooldownExpires, Exit, vars
<1>4. \A f \in Flushes : Held(f)' = Held(f)
  BY <1>1 DEF Held
<1>5. Sent' = Sent /\ Elems(pending)' = Elems(pending)
  BY <1>1, SameMessages DEF Elems
<1>6. \A i \in Elems(pending) \cup Sent \cup UNION {Held(f) : f \in Flushes} : created'[i] = created[i]
  BY <1>3, PlacedCalled
<1>7. OnePlace'
  BY <1>4, <1>5, <1>6, PlacesShrink DEF IInv
<1>8. AtWork' /\ OpenFiresOnce'
  BY <1>1 DEF IInv, AtWork, OpenFiresOnce
<1>9. BufferedIsTimed'
  BY <1>1 DEF IInv, BufferedIsTimed, Alive, Create, EditChannels, CooldownExpires, Exit, vars
<1> QED
  BY <1>2, <1>7, <1>8, <1>9 DEF IInv

LEMMA NotifyStep ==
    ASSUME IInv, NEW i \in Incidents, NotifyIncident(i)
    PROVE  IInv'
<1>1. /\ created[i] = "due" /\ created' = [created EXCEPT ![i] = "called"] /\ Alive
      /\ UNCHANGED <<resolved, Cooled, state, cooling, notified, sends, main>>
  BY DEF NotifyIncident
<1>2. created' \in [Incidents -> Callbacks] /\ created'[i] = "called"
      /\ \A j \in Incidents \ {i} : created'[j] = created[j]
  BY <1>1 DEF IInv, TypeOK, Callbacks
<1>3. i \notin Elems(pending) /\ i \notin Sent /\ \A f \in Flushes : i \notin Held(f)
  BY <1>1, PlacedCalled
<1>4. \A j \in Elems(pending) \cup Sent \cup UNION {Held(f) : f \in Flushes} : created'[j] = created[j]
  BY <1>2, <1>3, PlacedCalled
<1>5. Sent' = Sent /\ OpenFiresOnce'
  BY <1>1, SameMessages DEF IInv, OpenFiresOnce
<1>6. CASE UNCHANGED <<pending, batchTimer, flush>>
  <2>1. \A f \in Flushes : Held(f)' = Held(f)
    BY <1>6 DEF Held
  <2>2. Elems(pending)' = Elems(pending)
    BY <1>6
  <2>3. OnePlace'
    BY <1>4, <1>5, <2>1, <2>2, PlacesShrink DEF IInv
  <2>4. TypeOK' /\ AtWork' /\ BufferedIsTimed'
    BY <1>1, <1>2, <1>6 DEF IInv, TypeOK, AtWork, BufferedIsTimed, Alive
  <2> QED
    BY <1>5, <2>3, <2>4 DEF IInv
<1>7. CASE /\ pending' = Append(pending, i) /\ batchTimer' = i
           /\ flush' = [StopTimer EXCEPT ![i].pc = "armed"]
  <2>1. i \in Flushes
    BY DEF Flushes
  <2>2. /\ flush' \in [Flushes -> FlushRecords] /\ flush'[i].pc = "armed"
        /\ AtWork' /\ \A f \in Flushes : Held(f)' \subseteq Held(f)
    BY <1>7, <2>1, StopTimerShrinks, TimerSet DEF IInv
  <2>3. pending' \in Seq(Incidents) /\ Elems(pending)' = Elems(pending) \cup {i}
    BY <1>7, ElemsFacts DEF IInv, TypeOK
  <2>4. TypeOK'
    BY <1>1, <1>2, <1>7, <2>2, <2>3 DEF IInv, TypeOK, FlushRecords
  <2>5. OnePlace'
    <3>1. \A j \in Elems(pending)' : created'[j] = "called" /\ j \notin Sent'
      BY <1>2, <1>3, <1>4, <1>5, <2>3 DEF IInv, OnePlace
    <3>2. \A j \in Sent' : created'[j] = "called"
      BY <1>4, <1>5 DEF IInv, OnePlace
    <3>3. ASSUME NEW f \in Flushes, NEW j \in Held(f)'
          PROVE  /\ created'[j] = "called" /\ j \notin Elems(pending)' /\ j \notin Sent'
                 /\ \A g \in Flushes \ {f} : j \notin Held(g)'
      <4>1. j \in Held(f) /\ j # i /\ created'[j] = created[j]
        BY <1>3, <1>4, <2>2
      <4>2. created[j] = "called" /\ j \notin Elems(pending) /\ j \notin Sent
        BY <4>1 DEF IInv, OnePlace
      <4>3. \A g \in Flushes \ {f} : j \notin Held(g)
        BY <4>1 DEF IInv, OnePlace
      <4> QED
        BY <1>5, <2>2, <2>3, <4>1, <4>2, <4>3
    <3> QED
      BY <3>1, <3>2, <3>3 DEF OnePlace
  <2>6. BufferedIsTimed'
    BY <2>1, <2>2 DEF BufferedIsTimed
  <2> QED
    BY <1>5, <2>2, <2>4, <2>5, <2>6 DEF IInv
<1> QED
  BY <1>6, <1>7 DEF NotifyIncident

\* Places lose nothing and gain nothing when a timer fires; Stop stops the
\* timer and starts a flush of its own.
LEMMA TimerStep ==
    ASSUME IInv, (\E f \in Flushes : Fire(f)) \/ Stop
    PROVE  IInv'
<1>1. PICK base \in [Flushes -> FlushRecords], t \in Flushes :
        /\ \A f \in Flushes : base[f] = flush[f] \/ base[f] = NoFlush
        /\ flush' = [base EXCEPT ![t].pc = "fired"]
  <2>1. ASSUME NEW f \in Flushes, Fire(f)
        PROVE  \E base \in [Flushes -> FlushRecords], t \in Flushes :
                 /\ \A g \in Flushes : base[g] = flush[g] \/ base[g] = NoFlush
                 /\ flush' = [base EXCEPT ![t].pc = "fired"]
    <3>1. flush \in [Flushes -> FlushRecords]
      BY DEF IInv, TypeOK, FlushRecords
    <3>2. flush' = [flush EXCEPT ![f].pc = "fired"]
      BY <2>1 DEF Fire
    <3> QED
      BY <3>1, <3>2
  <2>2. ASSUME Stop
        PROVE  \E base \in [Flushes -> FlushRecords], t \in Flushes :
                 /\ \A g \in Flushes : base[g] = flush[g] \/ base[g] = NoFlush
                 /\ flush' = [base EXCEPT ![t].pc = "fired"]
    <3>1. Main \in Flushes
      BY DEF Flushes
    <3>2. flush' = [StopTimer EXCEPT ![Main].pc = "fired"]
      BY <2>2 DEF Stop
    <3> QED
      BY <3>1, <3>2, StopTimerShrinks DEF IInv
  <2> QED
    BY <2>1, <2>2
<1>2. /\ flush' \in [Flushes -> FlushRecords] /\ flush'[t].pc = "fired"
      /\ AtWork' /\ \A f \in Flushes : Held(f)' \subseteq Held(f)
  BY <1>1, TimerSet DEF IInv
<1>3. /\ UNCHANGED <<created, resolved, Cooled, state, pending, cooling, notified, sends>>
      /\ main' \in {main, "stopping"} /\ batchTimer' \in {batchTimer, NoTimer}
  BY DEF Fire, Stop
<1>4. TypeOK'
  BY <1>2, <1>3 DEF IInv, TypeOK, FlushRecords
<1>5. OnePlace'
  <2>1. Sent' = Sent /\ Elems(pending)' = Elems(pending)
    BY <1>3, SameMessages
  <2> QED
    BY <1>2, <1>3, <2>1, PlacesShrink DEF IInv
<1>6. OpenFiresOnce' /\ BufferedIsTimed'
  BY <1>2, <1>3 DEF IInv, OpenFiresOnce, BufferedIsTimed
<1> QED
  BY <1>2, <1>4, <1>5, <1>6 DEF IInv

\* The buffer moves into flush f as a whole.
LEMMA TakeStep ==
    ASSUME IInv, NEW f \in Flushes, TakeBatch(f)
    PROVE  IInv'
<1> DEFINE r == [flush[f] EXCEPT !.pc = IF pending = <<>> THEN "done" ELSE "list", !.batch = pending]
<1>1. /\ flush' = [flush EXCEPT ![f] = r] /\ pending' = <<>> /\ batchTimer' = NoTimer
      /\ UNCHANGED <<created, resolved, Cooled, state, cooling, notified, sends, main>>
  BY DEF TakeBatch
<1>2. /\ r \in FlushRecords /\ r.pc = IF pending = <<>> THEN "done" ELSE "list"
      /\ r.batch = pending /\ r.out = flush[f].out
  BY DEF IInv, TypeOK, FlushRecords, FlushPCs
<1> HIDE DEF r
<1>3. /\ flush' \in [Flushes -> FlushRecords] /\ flush'[f] = r
      /\ \A g \in Flushes \ {f} : flush'[g] = flush[g]
  BY <1>1, <1>2 DEF IInv, TypeOK, FlushRecords
<1>4. TypeOK'
  <2>1. <<>> \in Seq(Incidents)
    OBVIOUS
  <2> QED
    BY <1>1, <1>3, <2>1 DEF IInv, TypeOK, FlushRecords
<1>5. AtWork'
  BY <1>2, <1>3 DEF IInv, AtWork
<1>6. OnePlace'
  <2>1. Sent' = Sent /\ Elems(pending)' = {}
    BY <1>1, SameMessages DEF Elems
  <2>2. Held(f)' \subseteq Held(f) \cup Elems(pending)
    BY <1>2, <1>3 DEF Held
  <2>3. \A g \in Flushes \ {f} : Held(g)' = Held(g)
    BY <1>3, HeldOf
  <2>4. ASSUME NEW g \in Flushes, NEW j \in Held(g)'
        PROVE  /\ created'[j] = "called" /\ j \notin Elems(pending)' /\ j \notin Sent'
               /\ \A h \in Flushes \ {g} : j \notin Held(h)'
    <3>1. CASE g = f
      <4>1. j \in Held(f) \/ j \in Elems(pending)
        BY <2>2, <3>1
      <4>2. created[j] = "called" /\ j \notin Sent /\ \A h \in Flushes \ {f} : j \notin Held(h)
        BY <4>1 DEF IInv, OnePlace
      <4> QED
        BY <1>1, <2>1, <2>3, <3>1, <4>2
    <3>2. CASE g # f
      <4>1. j \in Held(g)
        BY <2>3, <3>2
      <4>2. /\ created[j] = "called" /\ j \notin Sent /\ j \notin Elems(pending)
            /\ \A h \in Flushes \ {g} : j \notin Held(h)
        BY <4>1 DEF IInv, OnePlace
      <4> QED
        BY <1>1, <2>1, <2>2, <2>3, <4>2
    <3> QED
      BY <3>1, <3>2
  <2> QED
    BY <1>1, <2>1, <2>4 DEF IInv, OnePlace
<1>7. OpenFiresOnce' /\ BufferedIsTimed'
  BY <1>1 DEF IInv, OpenFiresOnce, BufferedIsTimed
<1> QED
  BY <1>4, <1>5, <1>6, <1>7 DEF IInv

\* A flush at work replaces its record r by one that holds no other incident.
LEMMA FlushOnly ==
    ASSUME IInv, NEW f \in Flushes, NEW r \in FlushRecords,
           flush' = [flush EXCEPT ![f] = r],
           flush[f].pc \notin {"armed", "fired"},
           r.pc \in {"list", "filter", "record"} => r.batch # <<>>,
           r.pc = "record" => r.ch \in Channels,
           Elems(r.batch) \subseteq Held(f), \A c \in Channels : r.out[c] \subseteq Held(f),
           UNCHANGED <<created, resolved, Cooled, state, pending, batchTimer, sends, main>>,
           cooling' \subseteq Channels \X Checks, notified' \subseteq Incidents \X Channels
    PROVE  IInv'
<1>1. /\ flush' \in [Flushes -> FlushRecords] /\ flush'[f] = r
      /\ \A g \in Flushes \ {f} : flush'[g] = flush[g]
  BY DEF IInv, TypeOK, FlushRecords
<1>2. TypeOK'
  BY <1>1 DEF IInv, TypeOK, FlushRecords
<1>3. AtWork'
  BY <1>1 DEF IInv, AtWork
<1>4. OnePlace'
  <2>1. Sent' = Sent /\ Elems(pending)' = Elems(pending)
    BY SameMessages
  <2>2. Held(f)' \subseteq Held(f)
    BY <1>1 DEF Held
  <2>3. \A g \in Flushes \ {f} : Held(g)' = Held(g)
    BY <1>1, HeldOf
  <2> QED
    BY <2>1, <2>2, <2>3, PlacesShrink DEF IInv
<1>5. OpenFiresOnce'
  BY DEF IInv, OpenFiresOnce
<1>6. BufferedIsTimed'
  BY <1>1 DEF IInv, BufferedIsTimed, Alive
<1> QED
  BY <1>2, <1>3, <1>4, <1>5, <1>6 DEF IInv

LEMMA AdvanceFacts ==
    ASSUME NEW fl \in FlushRecords, fl.batch # <<>>
    PROVE  /\ Advance(fl) \in FlushRecords /\ Advance(fl).pc \in {"filter", "spawn"}
           /\ Advance(fl).pc = "filter" => Advance(fl).batch # <<>>
           /\ Elems(Advance(fl).batch) \subseteq Elems(fl.batch) /\ Advance(fl).out = fl.out
<1>1. fl.batch \in Seq(Incidents)
  BY DEF FlushRecords
<1>2. Tail(fl.batch) \in Seq(Incidents) /\ Elems(Tail(fl.batch)) \subseteq Elems(fl.batch)
  BY <1>1, ElemsFacts
<1>3. CASE fl.todo # {}
  BY <1>3 DEF Advance, FlushRecords, FlushPCs
<1>4. CASE fl.todo = {}
  <2> DEFINE rest == Tail(fl.batch)
  <2>1. Advance(fl) = [fl EXCEPT !.batch = rest, !.pc = IF rest = <<>> THEN "spawn" ELSE "filter",
                                 !.todo = IF rest = <<>> THEN {} ELSE fl.list]
    BY <1>4 DEF Advance
  <2>2. /\ Advance(fl).batch = rest /\ Advance(fl).out = fl.out
        /\ Advance(fl).pc = IF rest = <<>> THEN "spawn" ELSE "filter"
    BY <2>1 DEF FlushRecords
  <2>3. Advance(fl) \in FlushRecords
    BY <1>2, <2>1 DEF FlushRecords, FlushPCs
  <2> QED
    BY <1>2, <2>2, <2>3
<1> QED
  BY <1>3, <1>4

\* flushBatch between taking the batch and sending it.
LEMMA WorkStep ==
    ASSUME IInv, NEW f \in Flushes, FlushList(f) \/ FlushFilter(f) \/ FlushRecord(f)
    PROVE  IInv'
<1>0. /\ flush[f] \in FlushRecords /\ flush[f].batch \in Seq(Incidents)
      /\ flush[f].out \in [Channels -> SUBSET Incidents]
  BY DEF IInv, TypeOK, FlushRecords
<1>1. Elems(flush[f].batch) \subseteq Held(f) /\ \A c \in Channels : flush[f].out[c] \subseteq Held(f)
  BY DEF Held
<1>2. cooling \subseteq Channels \X Checks /\ notified \subseteq Incidents \X Channels
  BY DEF IInv, TypeOK
<1>3. CASE FlushList(f)
  <2> DEFINE enabled == {c \in ListRaw : state[c] = "enabled"}
             r == IF enabled = {} THEN Done
                  ELSE [flush[f] EXCEPT !.list = enabled, !.todo = enabled, !.pc = "filter"]
  <2>1. /\ flush' = [flush EXCEPT ![f] = r] /\ flush[f].pc = "list"
        /\ UNCHANGED <<created, resolved, Cooled, state, pending, batchTimer, cooling, notified, sends, main>>
    BY <1>3 DEF FlushList
  <2>2. CASE enabled = {}
    <3>1. r = Done
      BY <2>2
    <3>2. Elems(Done.batch) = {}
      BY NoFlushTyped DEF Elems
    <3> QED
      BY <1>2, <2>1, <3>1, <3>2, NoFlushTyped, FlushOnly
  <2>3. CASE enabled # {}
    <3> DEFINE q == [flush[f] EXCEPT !.list = enabled, !.todo = enabled, !.pc = "filter"]
    <3>1. enabled \subseteq Channels
      BY DEF ListRaw
    <3>2. q \in FlushRecords /\ q.pc = "filter" /\ q.batch = flush[f].batch /\ q.out = flush[f].out
      BY <1>0, <3>1 DEF FlushRecords, FlushPCs
    <3>3. flush' = [flush EXCEPT ![f] = q]
      BY <2>1, <2>3
    <3>4. flush[f].batch # <<>>
      BY <2>1 DEF IInv, AtWork
    <3> HIDE DEF q, r, enabled
    <3> QED
      BY <1>1, <1>2, <2>1, <3>2, <3>3, <3>4, FlushOnly
  <2> QED
    BY <2>2, <2>3
<1>4. CASE FlushFilter(f)
  <2>1. PICK c \in flush[f].todo :
          flush' = [flush EXCEPT ![f] =
                     IF Chosen(c, Head([flush[f] EXCEPT !.todo = @ \ {c}].batch))
                       THEN [[flush[f] EXCEPT !.todo = @ \ {c}] EXCEPT !.ch = c, !.pc = "record"]
                       ELSE Advance([flush[f] EXCEPT !.todo = @ \ {c}])]
    BY <1>4 DEF FlushFilter
  <2> DEFINE left == [flush[f] EXCEPT !.todo = @ \ {c}]
             chosen == [left EXCEPT !.ch = c, !.pc = "record"]
  <2>2. /\ flush' = [flush EXCEPT ![f] = chosen] \/ flush' = [flush EXCEPT ![f] = Advance(left)]
        /\ flush[f].pc = "filter" /\ flush[f].batch # <<>>
        /\ UNCHANGED <<created, resolved, Cooled, state, pending, batchTimer, cooling, notified, sends, main>>
    BY <1>4, <2>1 DEF FlushFilter, IInv, AtWork
  <2>3. c \in Channels
    BY <1>0 DEF FlushRecords
  <2>4. left \in FlushRecords /\ left.batch = flush[f].batch /\ left.out = flush[f].out
    BY <1>0 DEF FlushRecords
  <2> HIDE DEF left
  <2>5. /\ chosen \in FlushRecords /\ chosen.batch = flush[f].batch /\ chosen.out = flush[f].out
        /\ chosen.pc = "record" /\ chosen.ch = c
    BY <2>3, <2>4 DEF FlushRecords, FlushPCs
  <2>6. /\ Advance(left) \in FlushRecords /\ Advance(left).pc \in {"filter", "spawn"}
        /\ Advance(left).pc = "filter" => Advance(left).batch # <<>>
        /\ Elems(Advance(left).batch) \subseteq Held(f) /\ Advance(left).out = flush[f].out
    BY <1>1, <2>2, <2>4, AdvanceFacts
  <2> HIDE DEF chosen
  <2>7. CASE flush' = [flush EXCEPT ![f] = chosen]
    BY <1>1, <1>2, <2>2, <2>3, <2>5, <2>7, FlushOnly
  <2>8. CASE flush' = [flush EXCEPT ![f] = Advance(left)]
    BY <1>1, <1>2, <2>2, <2>6, <2>8, FlushOnly
  <2> QED
    BY <2>2, <2>7, <2>8
<1>5. CASE FlushRecord(f)
  <2> DEFINE i == Head(flush[f].batch)
             c == flush[f].ch
             r == [flush[f] EXCEPT !.out[c] = @ \cup {i}, !.ch = NoTimer]
  <2>1. /\ flush[f].pc = "record" /\ flush' = [flush EXCEPT ![f] = Advance(r)]
        /\ cooling' = cooling \cup (IF c \in Cooled THEN {<<c, CheckOf(i)>>} ELSE {})
        /\ notified' = notified \cup {<<i, c>>}
        /\ UNCHANGED <<created, resolved, Cooled, state, pending, batchTimer, sends, main>>
    BY <1>5 DEF FlushRecord
  <2>2. flush[f].batch # <<>> /\ c \in Channels
    BY <2>1 DEF IInv, AtWork
  <2>3. i \in Held(f) /\ i \in Incidents
    BY <1>0, <1>1, <2>2, ElemsFacts, PlacedCalled
  <2>4. cooling' \subseteq Channels \X Checks /\ notified' \subseteq Incidents \X Channels
    BY <1>2, <2>1, <2>2, <2>3 DEF Checks
  <2>5. /\ r \in FlushRecords /\ r.batch = flush[f].batch
        /\ r.out = [flush[f].out EXCEPT ![c] = @ \cup {i}]
    BY <1>0, <2>2, <2>3 DEF FlushRecords
  <2>6. \A d \in Channels : r.out[d] \subseteq Held(f)
    BY <1>0, <1>1, <2>2, <2>3, <2>5
  <2> HIDE DEF r
  <2>7. /\ Advance(r) \in FlushRecords /\ Advance(r).pc \in {"filter", "spawn"}
        /\ Advance(r).pc = "filter" => Advance(r).batch # <<>>
        /\ Elems(Advance(r).batch) \subseteq Held(f) /\ Advance(r).out = r.out
    BY <1>1, <2>2, <2>5, AdvanceFacts
  <2> HIDE DEF i, c
  <2> QED
    BY <2>1, <2>4, <2>6, <2>7, FlushOnly
<1> QED
  BY <1>3, <1>4, <1>5

\* What the flush chose becomes messages, one per channel; the flush is over.
LEMMA SpawnStep ==
    ASSUME IInv, NEW f \in Flushes, FlushSpawn(f)
    PROVE  IInv'
<1> DEFINE used == {d \in Channels : flush[f].out[d] # {}}
           new == {NewSend(c, "open", flush[f].out[c]) : c \in used}
<1>1. /\ flush[f].pc = "spawn" /\ sends' = sends \cup new /\ flush' = [flush EXCEPT ![f] = Done]
      /\ UNCHANGED <<created, resolved, Cooled, state, pending, batchTimer, cooling, notified, main>>
  BY DEF FlushSpawn
<1>2. flush[f].out \in [Channels -> SUBSET Incidents]
  BY DEF IInv, TypeOK
<1>3. \A s \in new : /\ s \in Messages /\ s.kind = "open" /\ s.incs = flush[f].out[s.ch]
                     /\ s.incs \subseteq Held(f)
                     /\ s = NewSend(s.ch, "open", flush[f].out[s.ch])
  BY <1>2 DEF NewSend, Messages, Held
<1> HIDE DEF new
<1>4. /\ flush' \in [Flushes -> FlushRecords] /\ flush'[f] = Done
      /\ \A g \in Flushes \ {f} : flush'[g] = flush[g]
  BY <1>1, NoFlushTyped DEF IInv, TypeOK, FlushRecords
<1>5. TypeOK'
  BY <1>1, <1>3, <1>4 DEF IInv, TypeOK, FlushRecords
<1>6. AtWork'
  BY <1>4, NoFlushTyped DEF IInv, AtWork
<1>7. Held(f)' = {} /\ \A g \in Flushes \ {f} : Held(g)' = Held(g)
  <2>1. Held(f)' = {}
    BY <1>4, NoFlushTyped DEF Held, Elems
  <2> QED
    BY <1>4, <2>1, HeldOf
<1>8. Sent' \subseteq Sent \cup Held(f)
  BY <1>1, <1>3 DEF Sent, OpenMessages
<1>9. OnePlace'
  <2>1. \A j \in Held(f) : /\ created[j] = "called" /\ j \notin Elems(pending)
                           /\ \A g \in Flushes \ {f} : j \notin Held(g)
    BY DEF IInv, OnePlace
  <2>2. \A j \in Elems(pending)' : created'[j] = "called" /\ j \notin Sent'
    BY <1>1, <1>8, <2>1 DEF IInv, OnePlace
  <2>3. \A j \in Sent' : created'[j] = "called"
    BY <1>1, <1>8, <2>1 DEF IInv, OnePlace
  <2>4. ASSUME NEW g \in Flushes, NEW j \in Held(g)'
        PROVE  /\ created'[j] = "called" /\ j \notin Elems(pending)' /\ j \notin Sent'
               /\ \A h \in Flushes \ {g} : j \notin Held(h)'
    <3>1. g # f /\ j \in Held(g)
      BY <1>7, <2>4
    <3>2. /\ created[j] = "called" /\ j \notin Elems(pending) /\ j \notin Sent
          /\ \A h \in Flushes \ {g} : j \notin Held(h)
      BY <3>1 DEF IInv, OnePlace
    <3> QED
      BY <1>1, <1>7, <1>8, <3>1, <3>2
  <2> QED
    BY <2>2, <2>3, <2>4 DEF OnePlace
<1>10. OpenFiresOnce'
  <2> SUFFICES ASSUME NEW s \in sends', NEW t \in sends', s.kind = "open", t.kind = "open",
                      s.ch = t.ch, s.incs \cap t.incs # {}
               PROVE  s = t
    BY DEF OpenFiresOnce
  <2>0. s \in sends \cup new /\ t \in sends \cup new
    BY <1>1
  <2>1. \A m \in sends : m.kind = "open" => m.incs \cap Held(f) = {}
    BY DEF IInv, OnePlace, Sent, OpenMessages
  <2>2. CASE s \in sends /\ t \in sends
    BY <2>2 DEF IInv, OpenFiresOnce
  <2>3. CASE s \in new /\ t \in new
    BY <1>3, <2>3
  <2>4. CASE (s \in sends /\ t \in new) \/ (s \in new /\ t \in sends)
    BY <1>3, <2>1, <2>4
  <2> QED
    BY <2>0, <2>2, <2>3, <2>4
<1>11. BufferedIsTimed'
  BY <1>1, <1>4 DEF IInv, BufferedIsTimed, Alive
<1> QED
  BY <1>5, <1>6, <1>9, <1>10, <1>11 DEF IInv

\* Messages about resolutions, and the progress of any message.
LEMMA MessageStep ==
    ASSUME IInv, Deliver \/ \E i \in Incidents : NotifyResolved(i)
    PROVE  IInv'
<1>1. /\ UNCHANGED <<created, Cooled, state, pending, batchTimer, cooling, flush, main>>
      /\ resolved' \subseteq Incidents /\ notified' \subseteq notified
  BY DEF Deliver, NotifyResolved, IInv, TypeOK
<1>2. sends' \subseteq Messages /\ Sent' \subseteq Sent /\ OpenFiresOnce'
  <2>1. ASSUME NEW i \in Incidents, NotifyResolved(i)
        PROVE  sends' \subseteq Messages /\ Sent' \subseteq Sent /\ OpenFiresOnce'
    <3> DEFINE new == {NewSend(c, "resolved", {i}) :
                         c \in {d \in ListRaw \cap OnResolve : state[d] = "enabled" /\ Wanted(d, i)}}
    <3>1. sends' = sends \cup new
      BY <2>1 DEF NotifyResolved
    <3>2. \A s \in new : s \in Messages /\ s.kind # "open"
      BY DEF NewSend, Messages, ListRaw
    <3> HIDE DEF new
    <3>3. sends' \subseteq Messages
      BY <3>1, <3>2 DEF IInv, TypeOK
    <3>4. Sent' \subseteq Sent
      BY <3>1, <3>2 DEF Sent, OpenMessages
    <3>5. OpenFiresOnce'
      BY <3>1, <3>2 DEF IInv, OpenFiresOnce
    <3> QED
      BY <3>3, <3>4, <3>5
  <2>2. ASSUME Deliver
        PROVE  sends' \subseteq Messages /\ Sent' \subseteq Sent /\ OpenFiresOnce'
    <3>1. PICK s \in sends : sends' = (sends \ {s}) \cup {[s EXCEPT !.pc = "done"]}
      BY <2>2 DEF Deliver
    <3> DEFINE n == [s EXCEPT !.pc = "done"]
    <3>2. s \in Messages
      BY DEF IInv, TypeOK
    <3>3. n \in Messages /\ n.ch = s.ch /\ n.kind = s.kind /\ n.incs = s.incs
      BY <3>2 DEF Messages
    <3> HIDE DEF n
    <3>4. sends' = (sends \ {s}) \cup {n}
      BY <3>1 DEF n
    <3>5. sends' \subseteq Messages
      BY <3>3, <3>4 DEF IInv, TypeOK
    <3>6. Sent' \subseteq Sent
      BY <3>3, <3>4 DEF Sent, OpenMessages
    <3>7. OpenFiresOnce'
      <4> SUFFICES ASSUME NEW u \in sends', NEW t \in sends', u.kind = "open", t.kind = "open",
                          u.ch = t.ch, u.incs \cap t.incs # {}
                   PROVE  u = t
        BY DEF OpenFiresOnce
      <4>1. CASE u \in sends \ {s} /\ t \in sends \ {s}
        BY <4>1 DEF IInv, OpenFiresOnce
      <4>2. CASE u = n /\ t \in sends \ {s}
        BY <3>3, <4>2 DEF IInv, OpenFiresOnce
      <4>3. CASE t = n /\ u \in sends \ {s}
        BY <3>3, <4>3 DEF IInv, OpenFiresOnce
      <4> QED
        BY <3>4, <4>1, <4>2, <4>3
    <3> QED
      BY <3>5, <3>6, <3>7
  <2> QED
    BY <2>1, <2>2
<1>3. TypeOK'
  BY <1>1, <1>2 DEF IInv, TypeOK
<1>4. OnePlace'
  <2>1. Elems(pending)' = Elems(pending) /\ \A f \in Flushes : Held(f)' = Held(f)
    BY <1>1 DEF Held
  <2> QED
    BY <1>1, <1>2, <2>1, PlacesShrink DEF IInv
<1>5. AtWork' /\ BufferedIsTimed'
  BY <1>1 DEF IInv, AtWork, BufferedIsTimed, Alive
<1> QED
  BY <1>2, <1>3, <1>4, <1>5 DEF IInv

LEMMA NextIInv == IInv /\ [Next]_vars => IInv'
<1> QED
  BY SurroundingsStep, NotifyStep, TimerStep, TakeStep, WorkStep, SpawnStep, MessageStep
     DEF Next, FlushStep

LEMMA Invariance == Spec => []IInv
<1> QED
  BY InitIInv, NextIInv, PTL DEF Spec

-----------------------------------------------------------------------------
(***************************************************************************)
(* The theorems.                                                           *)
(***************************************************************************)
\* Every variable of the dispatcher stays in its type: a flush that filters
\* an incident always has one at the head of its batch.
THEOREM TypeCorrect == Spec => []TypeOK
<1>1. IInv => TypeOK
  BY DEF IInv
<1> QED
  BY <1>1, Invariance, PTL

\* Whatever NotifyIncident has buffered has a timer or a flush ahead of it, and
\* no channel is sent the opening of an incident twice, although NotifyResolved
\* clears the dedup entries, channels change and flushes overlap.
THEOREM SendsTheorem == Spec => []SendsSound
<1>1. IInv => SendsSound
  BY DEF IInv, SendsSound
<1> QED
  BY <1>1, Invariance, PTL

-----------------------------------------------------------------------------
(***************************************************************************)
(* Channels.  A channel outside mixed has at most one request that read it *)
(* and has not replaced it, and what that request is about to write agrees *)
(* with what was typed; deleting the channel in between makes the next     *)
(* creation of it a mixed one.                                             *)
(***************************************************************************)
TokenValues == Tokens \cup {Empty, Mask}
ChannelDocs == [token : TokenValues, config : TokenValues, url : {"full", "short"}, enabled : BOOLEAN]
Updates     == [op : {"update"}, id : ChannelIDs, sent : TokenValues, doc : ChannelDocs]
Toggles     == [op : {"toggle"}, id : ChannelIDs, doc : ChannelDocs]
TokenOf(i)  == modelToChannel(channels[i]).token

ChannelsTypeOK ==
    /\ channels \in [ChannelIDs -> ChannelDocs \cup {NoChannel}]
    /\ channelCall \in [ChannelCalls -> Updates \cup Toggles \cup {NoChannelCall}]
    /\ typed \in [ChannelIDs -> TokenValues]
    /\ mixed \subseteq ChannelIDs /\ shortened \subseteq ChannelIDs

\* What request r is about to write to the channel it read.
AboutToWrite(r) ==
    LET i == channelCall[r].id
        d == channelCall[r].doc
    IN  /\ firstNonEmpty(d.token, d.config) =
             IF channelCall[r].op = "update" /\ channelCall[r].sent # Mask THEN channelCall[r].sent ELSE typed[i]
        /\ channelCall[r].op = "toggle" => d.url = channels[i].url

ChannelsInv ==
    /\ ChannelsTypeOK
    /\ \A i \in ChannelIDs \ mixed : \A r, s \in Holding(i) : r = s
    /\ \A i \in Configured \ mixed :
         /\ TokenOf(i) = typed[i] /\ (i \notin shortened => channels[i].url = "full")
         /\ \A r \in Holding(i) : AboutToWrite(r)

LEMMA ChannelConstants ==
    /\ Mask # Empty /\ Mask \in TokenValues
    /\ \A d \in ChannelDocs : d # NoChannel
    /\ \A c \in Updates \cup Toggles : c # NoChannelCall
    /\ NoChannelCall.op \notin {"update", "toggle"}
    /\ \A d \in ChannelDocs \cup {NoChannel} :
         modelToChannel(d).token = firstNonEmpty(d.token, d.config) /\ modelToChannel(d).token \in TokenValues
    /\ \A t \in TokenValues, e \in BOOLEAN, u \in {"full", "short"} :
         /\ channelToModel([token |-> t, url |-> u, enabled |-> e]) \in ChannelDocs
         /\ channelToModel([token |-> t, url |-> u, enabled |-> e]) =
              [token |-> t, config |-> t, url |-> u, enabled |-> e]
         /\ firstNonEmpty(t, t) = t
<1>1. Mask # Empty /\ Mask \in TokenValues
  BY DEF TokenValues, Mask, Empty
<1>2. \A d \in ChannelDocs : d # NoChannel
  <2>1. NoChannel.url = "none" /\ \A d \in ChannelDocs : d.url \in {"full", "short"}
    BY DEF NoChannel, ChannelDoc, ChannelDocs
  <2> QED
    BY <2>1
<1>3. NoChannelCall.op = "idle" /\ \A c \in Updates \cup Toggles : c.op \in {"update", "toggle"}
  BY DEF NoChannelCall, Updates, Toggles
<1>4. \A c \in Updates \cup Toggles : c # NoChannelCall
  BY <1>3
<1>5. \A d \in ChannelDocs \cup {NoChannel} :
        modelToChannel(d).token = firstNonEmpty(d.token, d.config) /\ modelToChannel(d).token \in TokenValues
  BY DEF ChannelDocs, NoChannel, ChannelDoc, modelToChannel, firstNonEmpty, TokenValues
<1>6. \A t \in TokenValues, e \in BOOLEAN, u \in {"full", "short"} :
         /\ channelToModel([token |-> t, url |-> u, enabled |-> e]) \in ChannelDocs
         /\ channelToModel([token |-> t, url |-> u, enabled |-> e]) =
              [token |-> t, config |-> t, url |-> u, enabled |-> e]
         /\ firstNonEmpty(t, t) = t
  BY DEF channelToModel, ChannelDoc, ChannelDocs, firstNonEmpty
<1> QED
  BY <1>1, <1>2, <1>3, <1>4, <1>5, <1>6

LEMMA ChannelsInitInv == ChannelsInit => ChannelsInv
<1> SUFFICES ASSUME ChannelsInit PROVE ChannelsInv
  OBVIOUS
<1>1. {ChannelDoc(Empty, t, "full", TRUE) : t \in Tokens} \subseteq ChannelDocs
  <2>1. ASSUME NEW t \in Tokens PROVE ChannelDoc(Empty, t, "full", TRUE) \in ChannelDocs
    <3>1. Empty \in TokenValues /\ t \in TokenValues /\ TRUE \in BOOLEAN
      BY DEF TokenValues
    <3> QED
      BY <3>1 DEF ChannelDoc, ChannelDocs
  <2> QED
    BY <2>1
<1>2. ChannelsTypeOK
  <2>1. channels \in [ChannelIDs -> ChannelDocs \cup {NoChannel}]
    <3> DEFINE D == {ChannelDoc(Empty, t, "full", TRUE) : t \in Tokens}
    <3>1. channels \in [ChannelIDs -> {NoChannel} \cup D] /\ D \subseteq ChannelDocs
      BY <1>1 DEF ChannelsInit
    <3> HIDE DEF D
    <3> QED
      BY <3>1
  <2>2. typed \in [ChannelIDs -> TokenValues]
    BY <2>1, ChannelConstants DEF ChannelsInit
  <2> QED
    BY <2>1, <2>2 DEF ChannelsInit, ChannelsTypeOK
<1>3. \A i \in ChannelIDs : Holding(i) = {}
  BY ChannelConstants DEF ChannelsInit, Holding
<1>4. \A i \in Configured : TokenOf(i) = typed[i] /\ channels[i].url = "full"
  BY DEF ChannelsInit, Configured, ChannelDoc, TokenOf
<1> QED
  BY <1>2, <1>3, <1>4 DEF ChannelsInv, Configured

\* What is written after a step in which request r lets go of its channel.
Written(r) == channelCall[r].op = "update" /\ channelCall[r].sent # Mask

LEMMA LetGo ==
    ASSUME ChannelsInv, NEW r \in ChannelCalls, channelCall[r] \in Updates \cup Toggles,
           channelCall' = [channelCall EXCEPT ![r] = NoChannelCall]
    PROVE  /\ channelCall' \in [ChannelCalls -> Updates \cup Toggles \cup {NoChannelCall}]
           /\ \A j \in ChannelIDs : Holding(j)' = Holding(j) \ {r}
           /\ \A j \in ChannelIDs : \A s \in Holding(j)' : s \in Holding(j) /\ channelCall'[s] = channelCall[s]
           /\ channelCall[r].id \in ChannelIDs /\ channelCall[r].doc \in ChannelDocs
           /\ r \in Holding(channelCall[r].id)
<1>1. channelCall'[r] = NoChannelCall /\ \A s \in ChannelCalls \ {r} : channelCall'[s] = channelCall[s]
  BY DEF ChannelsInv, ChannelsTypeOK
<1>2. \A j \in ChannelIDs : Holding(j)' = Holding(j) \ {r}
  BY <1>1, ChannelConstants DEF Holding
<1>3. channelCall' \in [ChannelCalls -> Updates \cup Toggles \cup {NoChannelCall}]
  BY DEF ChannelsInv, ChannelsTypeOK
<1>4. channelCall[r].id \in ChannelIDs /\ channelCall[r].doc \in ChannelDocs /\ r \in Holding(channelCall[r].id)
  BY DEF Updates, Toggles, Holding
<1>5. \A j \in ChannelIDs : \A s \in Holding(j)' : s \in Holding(j) /\ channelCall'[s] = channelCall[s]
  BY <1>1, <1>2 DEF Holding
<1> QED
  BY <1>2, <1>3, <1>4, <1>5

\* A request that fails, or finds its channel gone.
LEMMA NothingWritten ==
    ASSUME ChannelsInv, NEW r \in ChannelCalls, channelCall[r] \in Updates \cup Toggles,
           channelCall' = [channelCall EXCEPT ![r] = NoChannelCall],
           UNCHANGED <<channels, typed, mixed, shortened>>
    PROVE  ChannelsInv'
<1>1. ChannelsTypeOK'
  BY LetGo DEF ChannelsInv, ChannelsTypeOK
<1>2. \A j \in ChannelIDs \ mixed' : \A s, u \in Holding(j)' : s = u
  <2>1. \A j \in ChannelIDs : Holding(j)' = Holding(j) \ {r}
    BY LetGo
  <2> QED
    BY <2>1 DEF ChannelsInv
<1>3. ASSUME NEW j \in Configured' \ mixed'
      PROVE  /\ TokenOf(j)' = typed'[j] /\ (j \notin shortened' => channels'[j].url = "full")
             /\ \A s \in Holding(j)' : AboutToWrite(s)'
  <2>1. j \in Configured \ mixed /\ j \in ChannelIDs
    BY DEF Configured
  <2>2. \A s \in Holding(j)' : s \in Holding(j) /\ channelCall'[s] = channelCall[s]
    BY <2>1, LetGo
  <2> QED
    BY <2>1, <2>2 DEF ChannelsInv, TokenOf, AboutToWrite
<1> QED
  BY <1>1, <1>2, <1>3 DEF ChannelsInv

LEMMA ReplaceStep ==
    ASSUME ChannelsInv, NEW r \in ChannelCalls, channelCall[r] \in Updates \cup Toggles,
           channelCall' = [channelCall EXCEPT ![r] = NoChannelCall], mixed' = mixed,
           NEW i, i = channelCall[r].id, i \in Configured,
           channels' = [channels EXCEPT ![i] = channelCall[r].doc],
           typed' = IF Written(r) THEN [typed EXCEPT ![i] = channelCall[r].sent] ELSE typed,
           shortened' = IF channelCall[r].op = "toggle" THEN shortened
                        ELSE IF channelCall[r].doc.url = "short" THEN shortened \cup {i} ELSE shortened \ {i}
    PROVE  ChannelsInv'
<1> DEFINE d == channelCall[r].doc
<1>1. i \in ChannelIDs /\ d \in ChannelDocs /\ r \in Holding(i)
  BY LetGo
<1>2. Written(r) => channelCall[r].sent \in TokenValues
  BY DEF Updates, Toggles, Written
<1>3. channels' \in [ChannelIDs -> ChannelDocs \cup {NoChannel}]
  BY <1>1 DEF ChannelsInv, ChannelsTypeOK
<1>4. typed' \in [ChannelIDs -> TokenValues]
  BY <1>1, <1>2 DEF ChannelsInv, ChannelsTypeOK
<1>5. ChannelsTypeOK'
  BY <1>1, <1>3, <1>4, LetGo DEF ChannelsInv, ChannelsTypeOK
<1>6. /\ channels'[i] = d
      /\ \A j \in ChannelIDs \ {i} : channels'[j] = channels[j] /\ typed'[j] = typed[j]
      /\ \A j \in ChannelIDs \ {i} : j \in shortened' <=> j \in shortened
      /\ typed'[i] = IF Written(r) THEN channelCall[r].sent ELSE typed[i]
  <2>1. channels'[i] = d /\ \A j \in ChannelIDs \ {i} : channels'[j] = channels[j]
    BY <1>1 DEF ChannelsInv, ChannelsTypeOK
  <2>2. \A j \in ChannelIDs \ {i} : typed'[j] = typed[j]
    BY <1>1 DEF ChannelsInv, ChannelsTypeOK
  <2>3. typed'[i] = IF Written(r) THEN channelCall[r].sent ELSE typed[i]
    BY <1>1 DEF ChannelsInv, ChannelsTypeOK
  <2>4. \A j \in ChannelIDs \ {i} : j \in shortened' <=> j \in shortened
    OBVIOUS
  <2> QED
    BY <2>1, <2>2, <2>3, <2>4
<1>7. \A j \in ChannelIDs \ mixed' : \A s, u \in Holding(j)' : s = u
  <2>1. \A j \in ChannelIDs : Holding(j)' = Holding(j) \ {r}
    BY LetGo
  <2> QED
    BY <2>1 DEF ChannelsInv
<1>8. ASSUME NEW j \in Configured' \ mixed'
      PROVE  /\ TokenOf(j)' = typed'[j] /\ (j \notin shortened' => channels'[j].url = "full")
             /\ \A s \in Holding(j)' : AboutToWrite(s)'
  <2>1. CASE j = i
    <3>1. AboutToWrite(r) /\ i \in Configured \ mixed
      BY <1>1, <2>1 DEF ChannelsInv
    <3>2. TokenOf(i)' = firstNonEmpty(d.token, d.config)
      <4>1. TokenOf(i)' = modelToChannel(d).token
        BY <1>6 DEF TokenOf
      <4> QED
        BY <1>1, <4>1, ChannelConstants
    <3>3. TokenOf(i)' = typed'[i]
      BY <1>6, <3>1, <3>2 DEF AboutToWrite, Written
    <3>4. i \notin shortened' => d.url = "full"
      <4>1. CASE channelCall[r].op = "toggle"
        BY <3>1, <4>1 DEF AboutToWrite, ChannelsInv
      <4>2. CASE channelCall[r].op # "toggle"
        BY <1>1, <4>2 DEF ChannelDocs
      <4> QED
        BY <4>1, <4>2
    <3>5. \A s \in Holding(i)' : FALSE
      <4>1. i \in ChannelIDs \ mixed
        BY <1>1, <3>1
      <4> QED
        <5>1. Holding(i)' = Holding(i) \ {r}
          BY <1>1, LetGo
        <5> QED
          BY <1>1, <4>1, <5>1 DEF ChannelsInv
    <3> QED
      BY <1>6, <2>1, <3>3, <3>4, <3>5
  <2>2. CASE j # i
    <3>1. j \in ChannelIDs
      BY DEF Configured
    <3>2. channels'[j] = channels[j] /\ typed'[j] = typed[j] /\ (j \in shortened' <=> j \in shortened)
      BY <1>6, <2>2, <3>1
    <3>3. j \in Configured \ mixed
      BY <3>1, <3>2 DEF Configured
    <3>4. \A s \in Holding(j)' : s \in Holding(j) /\ channelCall'[s] = channelCall[s] /\ channelCall[s].id = j
      BY <3>1, LetGo DEF Holding
    <3>5. TokenOf(j)' = TokenOf(j)
      BY <3>2 DEF TokenOf
    <3> QED
      BY <3>2, <3>3, <3>4, <3>5 DEF ChannelsInv, AboutToWrite
  <2> QED
    BY <2>1, <2>2
<1> QED
  BY <1>5, <1>7, <1>8 DEF ChannelsInv

\* A request that reads channel i, and what it will write, c.
LEMMA GetStep ==
    ASSUME ChannelsInv, NEW r \in ChannelCalls, channelCall[r] = NoChannelCall,
           NEW i \in Configured, NEW c \in Updates \cup Toggles, c.id = i,
           firstNonEmpty(c.doc.token, c.doc.config) =
               IF c.op = "update" /\ c.sent # Mask THEN c.sent ELSE TokenOf(i),
           c.op = "toggle" => c.doc.url = channels[i].url,
           channelCall' = [channelCall EXCEPT ![r] = c],
           mixed' = IF Holding(i) = {} THEN mixed ELSE mixed \cup {i},
           UNCHANGED <<channels, typed, shortened>>
    PROVE  ChannelsInv'
<1>1. i \in ChannelIDs /\ c.op \in {"update", "toggle"} /\ r \notin Holding(i)
  BY ChannelConstants DEF Configured, Updates, Toggles, Holding
<1>2. channelCall'[r] = c /\ \A s \in ChannelCalls \ {r} : channelCall'[s] = channelCall[s]
  BY DEF ChannelsInv, ChannelsTypeOK
<1>3. Holding(i)' = Holding(i) \cup {r} /\ \A j \in ChannelIDs \ {i} : Holding(j)' = Holding(j)
  BY <1>1, <1>2, ChannelConstants DEF Holding
<1>4. ChannelsTypeOK'
  <2>1. channelCall' \in [ChannelCalls -> Updates \cup Toggles \cup {NoChannelCall}]
    BY DEF ChannelsInv, ChannelsTypeOK
  <2> QED
    BY <1>1, <2>1 DEF ChannelsInv, ChannelsTypeOK
<1>5. \A j \in ChannelIDs \ mixed' : \A s, u \in Holding(j)' : s = u
  <2>1. ASSUME NEW j \in ChannelIDs \ mixed', j # i PROVE \A s, u \in Holding(j)' : s = u
    BY <1>3, <2>1 DEF ChannelsInv
  <2>2. i \notin mixed' => Holding(i)' = {r}
    BY <1>3
  <2> QED
    BY <2>1, <2>2
<1>6. ASSUME NEW j \in Configured' \ mixed'
      PROVE  /\ TokenOf(j)' = typed'[j] /\ (j \notin shortened' => channels'[j].url = "full")
             /\ \A s \in Holding(j)' : AboutToWrite(s)'
  <2>1. j \in Configured \ mixed /\ j \in ChannelIDs /\ TokenOf(j)' = TokenOf(j)
    BY DEF Configured, TokenOf
  <2>2. TokenOf(j)' = typed'[j] /\ (j \notin shortened' => channels'[j].url = "full")
    BY <2>1 DEF ChannelsInv
  <2>3. ASSUME NEW s \in Holding(j)' PROVE AboutToWrite(s)'
    <3>1. CASE s = r
      <4>1. j = i
        BY <1>1, <1>2, <2>1, <3>1 DEF Holding
      <4>2. TokenOf(i) = typed[i]
        BY <2>1, <4>1 DEF ChannelsInv
      <4> QED
        BY <1>2, <3>1, <4>2 DEF AboutToWrite
    <3>2. CASE s # r
      <4>1. s \in Holding(j) /\ channelCall'[s] = channelCall[s]
        BY <1>2, <3>2 DEF Holding
      <4>2. AboutToWrite(s)
        BY <2>1, <4>1 DEF ChannelsInv
      <4> QED
        BY <4>1, <4>2 DEF AboutToWrite
    <3> QED
      BY <3>1, <3>2
  <2> QED
    BY <2>2, <2>3
<1> QED
  BY <1>4, <1>5, <1>6 DEF ChannelsInv

LEMMA ChannelsStepInv == ChannelsInv /\ [ChannelsNext]_channelVars => ChannelsInv'
<1> SUFFICES ASSUME ChannelsInv, [ChannelsNext]_channelVars PROVE ChannelsInv'
  OBVIOUS
<1>1. CASE CreateChannel
  <2>1. PICK i \in ChannelIDs \ Configured, t \in TokenValues, e \in BOOLEAN :
          /\ channels' = [channels EXCEPT ![i] = channelToModel([token |-> t, url |-> "full", enabled |-> e])]
          /\ typed' = [typed EXCEPT ![i] = t]
          /\ mixed' = IF Holding(i) = {} THEN mixed \ {i} ELSE mixed \cup {i}
          /\ shortened' = shortened \ {i}
    BY <1>1 DEF CreateChannel, TokenValues
  <2> DEFINE d == [token |-> t, config |-> t, url |-> "full", enabled |-> e]
  <2>2. channels' = [channels EXCEPT ![i] = d] /\ d \in ChannelDocs
    <3>1. d \in ChannelDocs /\ channelToModel([token |-> t, url |-> "full", enabled |-> e]) = d
      BY ChannelConstants
    <3> QED
      BY <2>1, <3>1
  <2>3. d.url = "full" /\ modelToChannel(d).token = t
    BY DEF modelToChannel, firstNonEmpty
  <2> HIDE DEF d
  <2>4. channelCall' = channelCall
    BY <1>1 DEF CreateChannel
  <2>5. \A j \in ChannelIDs : Holding(j)' = Holding(j)
    BY <2>4 DEF Holding
  <2>6. /\ channels'[i] = d /\ typed'[i] = t
        /\ \A j \in ChannelIDs \ {i} : channels'[j] = channels[j] /\ typed'[j] = typed[j]
    BY <2>1, <2>2 DEF ChannelsInv, ChannelsTypeOK
  <2>7. ChannelsTypeOK'
    <3>1. channels' \in [ChannelIDs -> ChannelDocs \cup {NoChannel}]
      BY <2>2 DEF ChannelsInv, ChannelsTypeOK
    <3>2. typed' \in [ChannelIDs -> TokenValues]
      BY <2>1 DEF ChannelsInv, ChannelsTypeOK
    <3> QED
      BY <2>1, <2>4, <3>1, <3>2 DEF ChannelsInv, ChannelsTypeOK
  <2>8. i \notin mixed' => Holding(i)' = {}
    BY <2>1, <2>5
  <2>9. \A j \in ChannelIDs \ mixed' : \A s, u \in Holding(j)' : s = u
    BY <2>1, <2>5, <2>8 DEF ChannelsInv
  <2>10. ASSUME NEW j \in Configured' \ mixed'
        PROVE  /\ TokenOf(j)' = typed'[j] /\ (j \notin shortened' => channels'[j].url = "full")
               /\ \A s \in Holding(j)' : AboutToWrite(s)'
    <3>1. CASE j = i
      BY <2>3, <2>6, <2>8, <3>1 DEF TokenOf
    <3>2. CASE j # i
      <4>1. j \in Configured \ mixed /\ j \in ChannelIDs /\ (j \in shortened' <=> j \in shortened)
        BY <2>1, <2>6, <3>2 DEF Configured
      <4>2. TokenOf(j)' = TokenOf(j) /\ channels'[j] = channels[j] /\ typed'[j] = typed[j]
        BY <2>6, <3>2, <4>1 DEF TokenOf
      <4>3. \A s \in Holding(j)' : s \in Holding(j) /\ channelCall'[s] = channelCall[s] /\ channelCall[s].id = j
        BY <2>4, <2>5, <4>1 DEF Holding
      <4> QED
        BY <4>1, <4>2, <4>3 DEF ChannelsInv, AboutToWrite
    <3> QED
      BY <3>1, <3>2
  <2> QED
    BY <2>7, <2>9, <2>10 DEF ChannelsInv
<1>2. CASE DeleteChannel
  <2>1. PICK i \in Configured : channels' = [channels EXCEPT ![i] = NoChannel]
    BY <1>2 DEF DeleteChannel
  <2>2. UNCHANGED <<channelCall, typed, mixed, shortened>>
    BY <1>2 DEF DeleteChannel
  <2>3. i \in ChannelIDs /\ channels'[i] = NoChannel /\ \A j \in ChannelIDs \ {i} : channels'[j] = channels[j]
    BY <2>1 DEF ChannelsInv, ChannelsTypeOK, Configured
  <2>4. channels' \in [ChannelIDs -> ChannelDocs \cup {NoChannel}]
    BY <2>1 DEF ChannelsInv, ChannelsTypeOK
  <2>5. ChannelsTypeOK'
    BY <2>2, <2>4 DEF ChannelsInv, ChannelsTypeOK
  <2>6. \A j \in ChannelIDs : Holding(j)' = Holding(j)
    BY <2>2 DEF Holding
  <2>7. ASSUME NEW j \in Configured' \ mixed'
        PROVE  /\ TokenOf(j)' = typed'[j] /\ (j \notin shortened' => channels'[j].url = "full")
               /\ \A s \in Holding(j)' : AboutToWrite(s)'
    <3>1. j \in Configured \ mixed /\ j \in ChannelIDs /\ channels'[j] = channels[j]
      BY <2>2, <2>3 DEF Configured
    <3>2. \A s \in Holding(j)' : s \in Holding(j) /\ channelCall[s].id = j
      BY <2>6, <3>1 DEF Holding
    <3> QED
      BY <2>2, <3>1, <3>2 DEF ChannelsInv, TokenOf, AboutToWrite
  <2> QED
    BY <2>2, <2>5, <2>6, <2>7 DEF ChannelsInv
<1>3. ASSUME NEW r \in ChannelCalls, handleChannelByID(r) PROVE ChannelsInv'
  <2>1. channelCall[r] # NoChannelCall => channelCall[r] \in Updates \cup Toggles
    BY DEF ChannelsInv, ChannelsTypeOK
  <2>2. channelCall[r].op = "update" => channelCall[r] \in Updates
    BY <2>1, ChannelConstants DEF Toggles
  <2>3. channelCall[r].op = "toggle" => channelCall[r] \in Toggles
    BY <2>1, ChannelConstants DEF Updates
  <2>4. ASSUME NEW i \in Configured
        PROVE  /\ i \in ChannelIDs /\ channels[i] \in ChannelDocs
               /\ TokenOf(i) \in TokenValues /\ channels[i].url \in {"full", "short"}
    <3>1. i \in ChannelIDs /\ channels[i] \in ChannelDocs
      BY DEF ChannelsInv, ChannelsTypeOK, Configured
    <3> QED
      BY <3>1, ChannelConstants DEF TokenOf, ChannelDocs
  <2>5. CASE UpdateChannelGet(r)
    <3>1. PICK i \in Configured :
             \E t \in TokenValues, u \in {"full", SafeView(modelToChannel(channels[i])).url}, e \in BOOLEAN :
               /\ channelCall' = [channelCall EXCEPT ![r] =
                   [op |-> "update", id |-> i, sent |-> t,
                    doc |-> channelToModel([token |-> MergedToken(TokenOf(i), t), url |-> u, enabled |-> e])]]
               /\ mixed' = IF Holding(i) = {} THEN mixed ELSE mixed \cup {i}
      BY <2>5 DEF UpdateChannelGet, TokenOf, TokenValues
    <3>2. PICK t \in TokenValues, u \in {"full", "short"}, e \in BOOLEAN :
               /\ channelCall' = [channelCall EXCEPT ![r] =
                   [op |-> "update", id |-> i, sent |-> t,
                    doc |-> channelToModel([token |-> MergedToken(TokenOf(i), t), url |-> u, enabled |-> e])]]
               /\ mixed' = IF Holding(i) = {} THEN mixed ELSE mixed \cup {i}
      <4>1. SafeView(modelToChannel(channels[i])).url = "short"
        BY DEF SafeView
      <4> QED
        BY <3>1, <4>1
    <3> DEFINE m == MergedToken(TokenOf(i), t)
               d == [token |-> m, config |-> m, url |-> u, enabled |-> e]
               c == [op |-> "update", id |-> i, sent |-> t, doc |-> d]
    <3>3. m \in TokenValues /\ m = IF t # Mask THEN t ELSE TokenOf(i)
      BY <2>4 DEF MergedToken
    <3> HIDE DEF m
    <3>4. d \in ChannelDocs /\ channelToModel([token |-> m, url |-> u, enabled |-> e]) = d
      BY <3>3 DEF ChannelDocs, channelToModel, ChannelDoc
    <3>5. firstNonEmpty(d.token, d.config) = m
      BY <3>3, ChannelConstants
    <3>6. c \in Updates \cup Toggles
      BY <2>4, <3>4 DEF Updates
    <3>7. channelCall' = [channelCall EXCEPT ![r] = c]
      BY <3>2, <3>4 DEF m
    <3>8. c.op = "update" /\ c.id = i /\ c.sent = t /\ c.doc = d
      OBVIOUS
    <3> HIDE DEF c, d
    <3>9. firstNonEmpty(c.doc.token, c.doc.config) =
               IF c.op = "update" /\ c.sent # Mask THEN c.sent ELSE TokenOf(i)
      BY <3>3, <3>5, <3>8
    <3>10. channelCall[r] = NoChannelCall /\ UNCHANGED <<channels, typed, shortened>>
      BY <2>5 DEF UpdateChannelGet
    <3> QED
      BY <3>2, <3>6, <3>7, <3>8, <3>9, <3>10, GetStep
  <2>6. CASE ToggleGet(r)
    <3>1. PICK i \in Configured, e \in BOOLEAN :
               /\ channelCall' = [channelCall EXCEPT ![r] =
                   [op |-> "toggle", id |-> i, doc |-> channelToModel([modelToChannel(channels[i]) EXCEPT !.enabled = e])]]
               /\ mixed' = IF Holding(i) = {} THEN mixed ELSE mixed \cup {i}
      BY <2>6 DEF ToggleGet
    <3> DEFINE m == TokenOf(i)
               d == [token |-> m, config |-> m, url |-> channels[i].url, enabled |-> e]
               c == [op |-> "toggle", id |-> i, doc |-> d]
    <3>2. [modelToChannel(channels[i]) EXCEPT !.enabled = e] = [token |-> m, url |-> channels[i].url, enabled |-> e]
      BY DEF modelToChannel, TokenOf
    <3>3. m \in TokenValues
      BY <2>4
    <3> HIDE DEF m
    <3>4. d \in ChannelDocs /\ channelToModel([token |-> m, url |-> channels[i].url, enabled |-> e]) = d
      BY <2>4, <3>3 DEF ChannelDocs, channelToModel, ChannelDoc
    <3>5. firstNonEmpty(d.token, d.config) = m
      BY <3>3, ChannelConstants
    <3>6. c \in Updates \cup Toggles
      BY <2>4, <3>4 DEF Toggles
    <3>7. channelCall' = [channelCall EXCEPT ![r] = c]
      BY <3>1, <3>2, <3>4
    <3>8. c.op = "toggle" /\ c.id = i /\ c.doc = d /\ d.url = channels[i].url
      OBVIOUS
    <3> HIDE DEF c, d
    <3>9. firstNonEmpty(c.doc.token, c.doc.config) =
               IF c.op = "update" /\ c.sent # Mask THEN c.sent ELSE TokenOf(i)
      BY <3>5, <3>8 DEF m
    <3>10. channelCall[r] = NoChannelCall /\ UNCHANGED <<channels, typed, shortened>>
      BY <2>6 DEF ToggleGet
    <3> QED
      BY <3>1, <3>6, <3>7, <3>8, <3>9, <3>10, GetStep
  <2>7. CASE UpdateChannelReplace(r)
    <3>1. /\ channelCall[r].op = "update" /\ channelCall[r] \in Updates \cup Toggles
          /\ channelCall' = [channelCall EXCEPT ![r] = NoChannelCall] /\ mixed' = mixed
      BY <2>2, <2>7 DEF UpdateChannelReplace
    <3> DEFINE i == channelCall[r].id
    <3>2. CASE i \notin Configured
      BY <2>7, <3>1, <3>2, NothingWritten DEF UpdateChannelReplace
    <3>3. CASE i \in Configured
      BY <2>7, <3>1, <3>3, ReplaceStep DEF UpdateChannelReplace, Written
    <3> QED
      BY <3>2, <3>3
  <2>8. CASE ToggleReplace(r)
    <3>1. /\ channelCall[r].op = "toggle" /\ channelCall[r] \in Updates \cup Toggles
          /\ channelCall' = [channelCall EXCEPT ![r] = NoChannelCall] /\ UNCHANGED <<typed, mixed, shortened>>
      BY <2>3, <2>8 DEF ToggleReplace
    <3> DEFINE i == channelCall[r].id
    <3>2. CASE i \notin Configured
      BY <2>8, <3>1, <3>2, NothingWritten DEF ToggleReplace
    <3>3. CASE i \in Configured
      BY <2>8, <3>1, <3>3, ReplaceStep DEF ToggleReplace, Written
    <3> QED
      BY <3>2, <3>3
  <2>9. CASE AbandonChannelCall(r)
    BY <2>1, <2>9, NothingWritten DEF AbandonChannelCall
  <2> QED
    BY <1>3, <2>5, <2>6, <2>7, <2>8, <2>9 DEF handleChannelByID
<1>4. CASE UNCHANGED channelVars
  <2> USE <1>4 DEF channelVars
  <2>1. Configured' = Configured /\ \A j \in ChannelIDs : Holding(j)' = Holding(j) /\ TokenOf(j)' = TokenOf(j)
    BY DEF Configured, Holding, TokenOf
  <2>2. \A s \in ChannelCalls : AboutToWrite(s)' <=> AboutToWrite(s)
    BY DEF AboutToWrite
  <2>3. ChannelsTypeOK'
    BY DEF ChannelsInv, ChannelsTypeOK
  <2>4. \A j \in Configured \ mixed : j \in ChannelIDs /\ \A s \in Holding(j) : s \in ChannelCalls
    BY DEF Configured, Holding
  <2> QED
    BY <2>1, <2>2, <2>3, <2>4 DEF ChannelsInv
<1> QED
  BY <1>1, <1>2, <1>3, <1>4 DEF ChannelsNext

(***************************************************************************)
(* The mask gets into a channel only when it is created: what an update or *)
(* a toggle writes is what it read, or what was typed.                     *)
(***************************************************************************)
Unmasked(d) == d.token # Mask /\ d.config # Mask

CopiedInv ==
    \A i \in ChannelIDs \ copied :
        /\ Unmasked(channels[i])
        /\ \A r \in Holding(i) : Unmasked(channelCall[r].doc)

LEMMA UnmaskedDocs ==
    /\ Unmasked(NoChannel)
    /\ \A d : Unmasked(d) => modelToChannel(d).token # Mask
    /\ \A t, u, e : t # Mask => Unmasked(channelToModel([token |-> t, url |-> u, enabled |-> e]))
BY DEF Unmasked, NoChannel, ChannelDoc, Mask, Empty, modelToChannel, firstNonEmpty, channelToModel

LEMMA CopiedInit == ChannelsInit => CopiedInv
<1> SUFFICES ASSUME ChannelsInit, NEW i \in ChannelIDs
             PROVE  Unmasked(channels[i]) /\ Holding(i) = {}
  BY DEF CopiedInv
<1>1. Holding(i) = {}
  BY ChannelConstants DEF ChannelsInit, Holding
<1>2. channels[i] = NoChannel \/ \E t \in Tokens : channels[i] = ChannelDoc(Empty, t, "full", TRUE)
  BY DEF ChannelsInit
<1>3. \A t \in Tokens : Unmasked(ChannelDoc(Empty, t, "full", TRUE))
  BY ChannelsAssumption DEF Unmasked, ChannelDoc, Empty, Mask
<1> QED
  BY <1>1, <1>2, <1>3, UnmaskedDocs

\* A request that reads channel i, and writes nothing yet.
LEMMA CopiedGet ==
    ASSUME ChannelsInv, CopiedInv, NEW r \in ChannelCalls, channelCall[r] = NoChannelCall,
           NEW i \in Configured, NEW c, c.id = i, i \notin copied => Unmasked(c.doc),
           channelCall' = [channelCall EXCEPT ![r] = c], UNCHANGED <<channels, copied>>
    PROVE  CopiedInv'
<1>1. channelCall'[r] = c /\ \A s \in ChannelCalls \ {r} : channelCall'[s] = channelCall[s]
  BY DEF ChannelsInv, ChannelsTypeOK
<1> QED
  BY <1>1 DEF CopiedInv, Holding

\* A request that lets go of its channel, written or not.
LEMMA CopiedReplace ==
    ASSUME ChannelsInv, CopiedInv, NEW r \in ChannelCalls, channelCall[r] \in Updates \cup Toggles,
           channelCall' = [channelCall EXCEPT ![r] = NoChannelCall], UNCHANGED copied,
           \/ UNCHANGED channels
           \/ channels' = [channels EXCEPT ![channelCall[r].id] = channelCall[r].doc]
    PROVE  CopiedInv'
<1>1. ASSUME NEW j \in ChannelIDs, j \notin copied
      PROVE  Unmasked(channels'[j])
  <2>1. r \in Holding(channelCall[r].id) /\ Unmasked(channels[j])
    BY <1>1, LetGo DEF CopiedInv
  <2> QED
    BY <1>1, <2>1 DEF CopiedInv, ChannelsInv, ChannelsTypeOK
<1>2. ASSUME NEW j \in ChannelIDs, j \notin copied, NEW s \in Holding(j)'
      PROVE  Unmasked(channelCall'[s].doc)
  <2>1. s \in Holding(j) /\ channelCall'[s] = channelCall[s]
    BY <1>2, LetGo
  <2> QED
    BY <1>2, <2>1 DEF CopiedInv
<1> QED
  BY <1>1, <1>2 DEF CopiedInv

LEMMA CopiedStep == ChannelsInv /\ CopiedInv /\ [ChannelsNext]_channelVars => CopiedInv'
<1> SUFFICES ASSUME ChannelsInv, CopiedInv, [ChannelsNext]_channelVars PROVE CopiedInv'
  OBVIOUS
<1>1. CASE CreateChannel
  <2>1. PICK i \in ChannelIDs \ Configured, t \in TokenValues, e \in BOOLEAN :
          /\ channels' = [channels EXCEPT ![i] = channelToModel([token |-> t, url |-> "full", enabled |-> e])]
          /\ copied' = IF t = Mask THEN copied \cup {i} ELSE copied
    BY <1>1 DEF CreateChannel, TokenValues
  <2>2. channelCall' = channelCall
    BY <1>1 DEF CreateChannel
  <2>3. ASSUME NEW j \in ChannelIDs, j \notin copied' PROVE Unmasked(channels'[j])
    <3>1. CASE j = i
      BY <2>1, <2>3, <3>1, UnmaskedDocs DEF ChannelsInv, ChannelsTypeOK
    <3>2. CASE j # i
      BY <2>1, <2>3, <3>2 DEF CopiedInv, ChannelsInv, ChannelsTypeOK
    <3> QED
      BY <3>1, <3>2
  <2>4. \A j \in ChannelIDs : j \notin copied' => j \notin copied
    BY <2>1
  <2> QED
    BY <2>2, <2>3, <2>4 DEF CopiedInv, Holding
<1>2. CASE DeleteChannel
  BY <1>2, UnmaskedDocs DEF DeleteChannel, CopiedInv, Holding, ChannelsInv, ChannelsTypeOK
<1>3. ASSUME NEW r \in ChannelCalls, handleChannelByID(r) PROVE CopiedInv'
  <2>0. \A i \in Configured : i \in ChannelIDs /\ (i \notin copied => TokenOf(i) # Mask)
    BY UnmaskedDocs DEF Configured, CopiedInv, TokenOf
  <2>1. channelCall[r].op \in {"update", "toggle"} => channelCall[r] # NoChannelCall
    BY ChannelConstants
  <2>2. channelCall[r] # NoChannelCall => channelCall[r] \in Updates \cup Toggles
    BY DEF ChannelsInv, ChannelsTypeOK
  <2>3. CASE UpdateChannelGet(r)
    <3>0. PICK i \in Configured :
             \E t \in Tokens \cup {Empty, Mask}, u \in {"full", SafeView(modelToChannel(channels[i])).url}, e \in BOOLEAN :
               channelCall' = [channelCall EXCEPT ![r] =
                 [op |-> "update", id |-> i, sent |-> t,
                  doc |-> channelToModel([token |-> MergedToken(TokenOf(i), t), url |-> u, enabled |-> e])]]
      BY <2>3 DEF UpdateChannelGet, TokenOf
    <3>1. PICK t \in Tokens \cup {Empty, Mask}, u \in {"full", SafeView(modelToChannel(channels[i])).url}, e \in BOOLEAN :
             channelCall' = [channelCall EXCEPT ![r] =
               [op |-> "update", id |-> i, sent |-> t,
                doc |-> channelToModel([token |-> MergedToken(TokenOf(i), t), url |-> u, enabled |-> e])]]
      BY <3>0
    <3> DEFINE d == channelToModel([token |-> MergedToken(TokenOf(i), t), url |-> u, enabled |-> e])
               c == [op |-> "update", id |-> i, sent |-> t, doc |-> d]
    <3>2. i \notin copied => Unmasked(d)
      BY <2>0, UnmaskedDocs DEF MergedToken
    <3> HIDE DEF d
    <3>3. c.id = i /\ c.doc = d /\ channelCall' = [channelCall EXCEPT ![r] = c]
      BY <3>1 DEF d
    <3> HIDE DEF c
    <3> QED
      BY <2>3, <3>2, <3>3, CopiedGet DEF UpdateChannelGet
  <2>4. CASE ToggleGet(r)
    <3>1. PICK i \in Configured, e \in BOOLEAN :
             channelCall' = [channelCall EXCEPT ![r] =
               [op |-> "toggle", id |-> i, doc |-> channelToModel([modelToChannel(channels[i]) EXCEPT !.enabled = e])]]
      BY <2>4 DEF ToggleGet
    <3> DEFINE d == channelToModel([modelToChannel(channels[i]) EXCEPT !.enabled = e])
               c == [op |-> "toggle", id |-> i, doc |-> d]
    <3>2. [modelToChannel(channels[i]) EXCEPT !.enabled = e] =
             [token |-> TokenOf(i), url |-> channels[i].url, enabled |-> e]
      BY DEF modelToChannel, TokenOf
    <3>3. i \notin copied => Unmasked(d)
      BY <2>0, <3>2, UnmaskedDocs
    <3> HIDE DEF d
    <3>4. c.id = i /\ c.doc = d /\ channelCall' = [channelCall EXCEPT ![r] = c]
      BY <3>1 DEF d
    <3> HIDE DEF c
    <3> QED
      BY <2>4, <3>3, <3>4, CopiedGet DEF ToggleGet
  <2>5. CASE UpdateChannelReplace(r) \/ ToggleReplace(r)
    <3>1. /\ channelCall[r] \in Updates \cup Toggles
          /\ channelCall' = [channelCall EXCEPT ![r] = NoChannelCall] /\ UNCHANGED copied
          /\ \/ UNCHANGED channels
             \/ channels' = [channels EXCEPT ![channelCall[r].id] = channelCall[r].doc]
      BY <2>1, <2>2, <2>5 DEF UpdateChannelReplace, ToggleReplace
    <3> QED
      BY <3>1, CopiedReplace
  <2>6. CASE AbandonChannelCall(r)
    BY <2>2, <2>6, CopiedReplace DEF AbandonChannelCall
  <2> QED
    BY <1>3, <2>3, <2>4, <2>5, <2>6 DEF handleChannelByID
<1>4. CASE UNCHANGED channelVars
  BY <1>4 DEF channelVars, CopiedInv, Holding
<1> QED
  BY <1>1, <1>2, <1>3, <1>4 DEF ChannelsNext

LEMMA ChannelsInvSecrets == ChannelsInv /\ CopiedInv => ChannelSecretsKept
<1> SUFFICES ASSUME ChannelsInv, CopiedInv, NEW i \in Configured
             PROVE  /\ TokenOf(i) = Mask => i \in copied
                    /\ i \notin mixed => TokenOf(i) = typed[i]
                    /\ i \notin mixed \cup shortened => channels[i].url = "full"
  BY DEF ChannelSecretsKept, TokenOf, modelToChannel
<1>1. i \in ChannelIDs
  BY DEF Configured
<1>2. i \notin copied => TokenOf(i) # Mask
  BY <1>1, UnmaskedDocs DEF CopiedInv, TokenOf
<1> QED
  BY <1>2 DEF ChannelsInv

\* A channel delivers with the secret that was typed last, whatever forms send
\* the mask back, unless two requests had read the channel at the same time, and
\* the mask is its secret only when it was created with it
\* (channel_store_adapter.go Create, Update, ToggleEnabled).
THEOREM ChannelsTheorem == ChannelsSpec => []ChannelSecretsKept
<1>1. ChannelsSpec => [](ChannelsInv /\ CopiedInv)
  BY ChannelsInitInv, ChannelsStepInv, CopiedInit, CopiedStep, PTL DEF ChannelsSpec
<1> QED
  BY <1>1, ChannelsInvSecrets, PTL

=============================================================================
