---------------------------- MODULE Maintenance ----------------------------
(***************************************************************************)
(* Maintenance windows: the handlers (maintenance_api.go), the file store  *)
(* (maintenance.go) or the MongoDB repository, and the question the alert  *)
(* path and the status page ask: is this check in maintenance now?         *)
(*                                                                         *)
(* Time is a number of slots since the first of a month that begins on a   *)
(* weekday 0, MonthLengths the calendar from there on; windows and maintClock   *)
(* are in one time zone without daylight saving, as the API's times are.   *)
(***************************************************************************)
EXTENDS Integers, Sequences, FiniteSets

CONSTANTS MaintStores,   \* subset of {"mongo", "file"}
          WindowIDs,     \* identifiers of windows
          WindowCfgs,    \* windows users enter: [start, dur, rule, scope]
          MaintChecks,   \* checks
          SlotsPerDay,   \* resolution of the maintClock
          MonthLengths,  \* days in each month of the calendar
          Probes         \* windows for the test of the recurrence

ASSUME MaintenanceAssumption ==
    /\ SlotsPerDay \in Nat \ {0} /\ MonthLengths \in Seq(Nat \ {0}) /\ MonthLengths # <<>>
    /\ IsFiniteSet(WindowIDs)
    /\ \A w \in WindowCfgs \cup Probes :
          w.start \in Nat /\ w.dur \in Int /\ w.rule \in {"once", "daily", "weekly", "monthly"}

VARIABLES maintKind,     \* the store the program runs with
          windows,       \* id -> window or NoWindow
          windowsFile,   \* the file of the file store
          maintClock          \* the present slot

maintVars == <<maintKind, windows, windowsFile, maintClock>>

NoWindow  == [rule |-> "none"]
NoWindows == [i \in WindowIDs |-> NoWindow]
Windows   == {i \in WindowIDs : windows[i] # NoWindow}

-----------------------------------------------------------------------------
(***************************************************************************)
(* The calendar: day, slot of the day, weekday, month and day of month.    *)
(***************************************************************************)
DayOf(t)      == t \div SlotsPerDay
SlotOfDay(t)  == t % SlotsPerDay
Weekday(t)    == DayOf(t) % 7
Before[m \in 1..(Len(MonthLengths) + 1)] == IF m <= 1 THEN 0 ELSE Before[m - 1] + MonthLengths[m - 1]
MonthOf(t)    == CHOOSE m \in 1..Len(MonthLengths) : Before[m] <= DayOf(t) /\ DayOf(t) < Before[m] + MonthLengths[m]
MonthDay(t)   == DayOf(t) - Before[MonthOf(t)]
Horizon       == SlotsPerDay * Before[Len(MonthLengths) + 1]

\* The day of the month clamped to the month's last one.
buildMonthlyOccurrence(m, start) ==
    LET day == IF MonthDay(start) < MonthLengths[m] THEN MonthDay(start) ELSE MonthLengths[m] - 1
    IN  (Before[m] + day) * SlotsPerDay + SlotOfDay(start)

\* Forgetting yesterday's occurrence of a window that runs over midnight, for the
\* mutant of MaintenanceSound.
currentOccurrenceToday(w, now) ==
    CASE w.rule = "daily"   -> DayOf(now) * SlotsPerDay + SlotOfDay(w.start)
      [] w.rule = "weekly"  -> now - ((now - w.start) % (7 * SlotsPerDay))
      [] w.rule = "monthly" -> buildMonthlyOccurrence(MonthOf(now), w.start)

\* The start of the latest occurrence; asked only when now is not before start.
currentOccurrence(w, now) ==
    LET today == DayOf(now) * SlotsPerDay + SlotOfDay(w.start)
        week  == today - SlotsPerDay * ((Weekday(now) + 7 - Weekday(w.start)) % 7)
        month == buildMonthlyOccurrence(MonthOf(now), w.start)
    IN  CASE w.rule = "daily"   -> IF today > now THEN today - SlotsPerDay ELSE today
          [] w.rule = "weekly"  -> IF week > now THEN week - 7 * SlotsPerDay ELSE week
          [] w.rule = "monthly" -> IF month > now THEN buildMonthlyOccurrence(MonthOf(now) - 1, w.start) ELSE month

IsActive(w, now) ==
    /\ w.enabled /\ now >= w.start
    /\ LET occ == IF w.rule = "once" THEN w.start ELSE currentOccurrence(w, now)
       IN  occ <= now /\ now < occ + w.dur

CoversCheck(w, c) == w.scope = {} \/ c \in w.scope

-----------------------------------------------------------------------------
(***************************************************************************)
(* Which windows are active.  The file store asks each one.  MongoDB asks  *)
(* the one-shot filter first and then the recurring windows not yet seen;  *)
(* documents carry the identifier as _id, the type reads it from id, so    *)
(* every window comes back without one and all of them look seen as soon   *)
(* as the first query has found any.  Either query may fail: without the   *)
(* first one there is no window, without the second none that recurs now.  *)
(***************************************************************************)
ListActiveFile == {i \in Windows : IsActive(windows[i], maintClock)}

\* reads: the queries that succeed, a subset of Queries.
Queries == {"first", "recurring"}

ListActiveMongo(reads) ==
    LET first == {i \in Windows : /\ maintClock >= windows[i].start /\ maintClock < windows[i].start + windows[i].dur
                                  /\ IsActive(windows[i], maintClock)}
    IN  IF "first" \notin reads THEN {}
        ELSE IF first # {} \/ "recurring" \notin reads THEN first
        ELSE {i \in Windows : windows[i].rule # "once" /\ IsActive(windows[i], maintClock)}

ListActive(reads) == IF maintKind = "file" THEN ListActiveFile ELSE ListActiveMongo(reads)

IsCheckInMaintenance(c, reads) == \E i \in ListActive(reads) : CoversCheck(windows[i], c)

-----------------------------------------------------------------------------
MaintenanceInit ==
    /\ maintKind \in MaintStores /\ windows = NoWindows /\ windowsFile = NoWindows /\ maintClock = 0

\* persist: the file store keeps in memory what it could not write.
persist(new, ok) ==
    IF maintKind = "file" THEN windowsFile' = (IF ok THEN new ELSE windowsFile)
    ELSE ok /\ UNCHANGED windowsFile

\* POST: start and end are given, the end after the start; enabled.
handleMaintenanceCreate ==
    /\ \E i \in WindowIDs \ Windows, w \in WindowCfgs, ok \in BOOLEAN :
          /\ w.dur > 0
          /\ windows' = [windows EXCEPT ![i] = [start |-> w.start, dur |-> w.dur, rule |-> w.rule,
                                                scope |-> w.scope, enabled |-> TRUE]]
          /\ persist(windows', ok)
    /\ UNCHANGED <<maintKind, maintClock>>

\* PUT: the fields of the body over the stored ones.  Of MongoDB's repository it
\* never changes a window: the replacement has an empty _id and is refused.
handleMaintenanceUpdate ==
    /\ maintKind = "file"
    /\ \E i \in Windows, w \in WindowCfgs, on, ok \in BOOLEAN :
          /\ windows' = [windows EXCEPT ![i] = [start |-> w.start, dur |-> w.dur, rule |-> w.rule,
                                                scope |-> w.scope, enabled |-> on]]
          /\ persist(windows', ok)
    /\ UNCHANGED <<maintKind, maintClock>>

handleMaintenanceDelete ==
    /\ \E i \in Windows, ok \in BOOLEAN :
          windows' = [windows EXCEPT ![i] = NoWindow] /\ persist(windows', ok)
    /\ UNCHANGED <<maintKind, maintClock>>

RestartMaintenance ==
    /\ windows' = IF maintKind = "file" THEN windowsFile ELSE windows
    /\ UNCHANGED <<maintKind, windowsFile, maintClock>>

ClockTick ==
    /\ maintClock + 1 < Horizon /\ maintClock' = maintClock + 1
    /\ UNCHANGED <<maintKind, windows, windowsFile>>

MaintenanceNext ==
    \/ handleMaintenanceCreate \/ handleMaintenanceUpdate \/ handleMaintenanceDelete
    \/ RestartMaintenance \/ ClockTick

MaintenanceSpec == MaintenanceInit /\ [][MaintenanceNext]_maintVars
-----------------------------------------------------------------------------
(***************************************************************************)
(* What a recurring window means: it began some whole number of periods    *)
(* after its first start, in a month that lacks its day on the last one,   *)
(* and it has not run for its duration yet.                                *)
(***************************************************************************)
Begins(w, s) ==
    CASE w.rule = "once"    -> s = w.start
      [] w.rule = "daily"   -> (s - w.start) % SlotsPerDay = 0
      [] w.rule = "weekly"  -> (s - w.start) % (7 * SlotsPerDay) = 0
      [] w.rule = "monthly" ->
            /\ SlotOfDay(s) = SlotOfDay(w.start)
            /\ \/ MonthDay(s) = MonthDay(w.start)
               \/ MonthDay(w.start) >= MonthLengths[MonthOf(s)] /\ MonthDay(s) + 1 = MonthLengths[MonthOf(s)]

Meant(w, now) == w.enabled /\ \E s \in w.start..now : now < s + w.dur /\ Begins(w, s)

\* The occurrence computed from calendar fields is the right one at any time,
\* months of different lengths, windows over midnight and over a month's end and
\* windows longer than their period included.  (At each time after the first it
\* is enough to look once, while there are no windows.)
RecurrenceCorrect == Windows = {} /\ maintClock > 0 => \A w \in Probes : IsActive(w, maintClock) = Meant(w, maintClock)

InMaintenance(c) == \E i \in Windows : Meant(windows[i], maintClock) /\ CoversCheck(windows[i], c)

\* What it takes for MongoDB to find every active window.
FindsAll(reads) ==
    /\ "first" \in reads /\ Cardinality(ListActiveFile) <= 1
    /\ "recurring" \in reads \/ \A i \in ListActiveFile : windows[i].rule = "once"

(***************************************************************************)
(* An alert is held back only while a window covers its check, whichever   *)
(* queries fail.  With the file store it also is whenever one does; with   *)
(* MongoDB when no more than one window is active and the first query      *)
(* succeeds, for a recurring window the second one as well.                *)
(***************************************************************************)
MaintenanceSound ==
    /\ RecurrenceCorrect
    /\ \A c \in MaintChecks, reads \in SUBSET Queries :
          /\ IsCheckInMaintenance(c, reads) => InMaintenance(c)
          /\ maintKind = "file" \/ FindsAll(reads) => (InMaintenance(c) => IsCheckInMaintenance(c, reads))
=============================================================================
