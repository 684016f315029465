---------------------------- MODULE Dashboards -----------------------------
(***************************************************************************)
(* Custom dashboards: the handlers of custom_dashboard_api.go over the     *)
(* file store (custom_dashboard.go) or the MongoDB repository.  A handler  *)
(* reads the dashboard, decides whether the caller may view or change it,  *)
(* and then calls the store: two calls, so that other requests fit between *)
(* the decision and the change.                                            *)
(***************************************************************************)
EXTENDS Naturals, FiniteSets

CONSTANTS DashStores,  \* subset of {"mongo", "file"}
          DashIDs,     \* 1..n: the identifiers dash-1, dash-2, ...
          Owners,      \* usernames
          Callers      \* requests in flight

NoDash       == [owner |-> "none"]
Anonymous    == ""    \* ownerFromRequest: a request by legacy Basic Auth has no claims
People       == Owners \cup {Anonymous}
Visibilities == {"private", "team"}

\* Users have names; NoDash is no dashboard of anyone.
ASSUME DashboardAssumption ==
    /\ DashStores \subseteq {"mongo", "file"} /\ Anonymous \notin Owners
    /\ DashIDs \subseteq Nat /\ IsFiniteSet(DashIDs)

VARIABLES
    dashKind,    \* the store the program runs with
    boards,      \* id -> dashboard: the documents, or the map in memory
    boardsFile,  \* the file of the file store
    dashNext,    \* the counter of the file store; the clock of MongoDB's ids
    calls,       \* what each request is in the middle of
    entitled,    \* history: who created the dashboard, or its duplicate;
                 \* nobody's, or the original's owner, when without a name
    disputed     \* history: dashboards whose owner can be someone else: a
                 \* failed or unfinished duplication, an overlapping change

dashVars == <<dashKind, boards, boardsFile, dashNext, calls, entitled, disputed>>

NoBoards   == [i \in DashIDs |-> NoDash]
NoCall     == [op |-> "idle"]
Boards     == {i \in DashIDs : boards[i] # NoDash}

DashboardsInit ==
    /\ dashKind \in DashStores /\ boards = NoBoards /\ boardsFile = NoBoards /\ dashNext = 1
    /\ calls = [c \in Callers |-> NoCall]
    /\ entitled = [i \in DashIDs |-> Anonymous] /\ disputed = {}

\* save of the file store; MongoDB has no second copy.
saveBoards(new, ok) ==
    IF dashKind = "file" THEN boardsFile' = (IF ok THEN new ELSE boardsFile)
    ELSE ok /\ UNCHANGED boardsFile

\* The file store counts; MongoDB's identifiers are the time, never met again.
FreshID(i) == IF dashKind = "file" THEN i = dashNext ELSE i >= dashNext /\ boards[i] = NoDash

\* An identifier that came with the body: the file store puts the dashboard
\* there whatever it holds, MongoDB refuses an identifier in use.
GivenID(i) == dashKind = "file" \/ boards[i] = NoDash

\* The rules on the document that was read: a dashboard without an owner is
\* everybody's, and a caller without a name may do everything.
canViewDashboard(d, who) == d.visibility # "private" \/ d.owner = Anonymous \/ who \in {Anonymous, d.owner}

\* Allowing whoever may view, for the mutant of DashboardsOwned.
canModifyDashboardView(d, who) == canViewDashboard(d, who)

canModifyDashboard(d, who) == d.owner = Anonymous \/ who \in {Anonymous, d.owner}

\* Some request was decided on a dashboard with this id.
InFlight(i) == \E c \in Callers : calls[c] # NoCall /\ calls[c].id = i

\* What the four calls of the repository make of the documents.
CreateBoard(i, who, v)    == [boards EXCEPT ![i] = [owner |-> who, visibility |-> v]]
UpdateBoard(i, owner, v)  == [boards EXCEPT ![i] = [owner |-> IF owner = Anonymous /\ dashKind = "mongo" THEN @.owner ELSE owner,
                                              visibility |-> v]]
DeleteBoard(i)            == [boards EXCEPT ![i] = NoDash]
DuplicateBoard(i, k)      == [boards EXCEPT ![k] = boards[i]]

-----------------------------------------------------------------------------
\* POST /dashboards: the caller becomes the owner whatever the body says.  A
\* file store that counts from its length again can meet an id in use, and a
\* body that names an id in use takes the place of that dashboard.
createDashboard ==
    /\ \E i \in DashIDs, who \in People, v \in Visibilities, ok \in BOOLEAN :
          /\ \/ FreshID(i) /\ dashNext' = i + 1
             \/ GivenID(i) /\ UNCHANGED dashNext
          /\ boards' = IF ok THEN CreateBoard(i, who, v) ELSE DeleteBoard(i)
          /\ saveBoards(boards', ok)
          /\ entitled' = [entitled EXCEPT ![i] = who]
          /\ disputed' = IF InFlight(i) THEN disputed \cup {i} ELSE disputed \ {i}
    /\ UNCHANGED <<dashKind, calls>>

\* PUT, DELETE and duplicate begin alike: read the dashboard, test the rule.
ReadFor(c, op) ==
    /\ calls[c] = NoCall
    /\ \E i \in Boards, who \in People :
          /\ IF op = "duplicate" THEN canViewDashboard(boards[i], who) ELSE canModifyDashboard(boards[i], who)
          /\ calls' = [calls EXCEPT ![c] = [op |-> op, id |-> i, who |-> who, owner |-> boards[i].owner]]
    /\ UNCHANGED <<dashKind, boards, boardsFile, dashNext, entitled, disputed>>

\* The owner that was read goes into the update, so that the body cannot change
\* it; the store writes it over the present one (MongoDB only when not empty).
updateDashboard(c) ==
    /\ calls[c].op = "update" /\ calls' = [calls EXCEPT ![c] = NoCall]
    /\ LET i == calls[c].id IN
       \/ i \notin Boards /\ UNCHANGED <<boards, boardsFile, disputed>>
       \/ /\ i \in Boards
          /\ \E v \in Visibilities, ok \in BOOLEAN :
                /\ boards' = UpdateBoard(i, calls[c].owner, v)
                /\ saveBoards(boards', ok)
          /\ disputed' = IF boards[i].owner = calls[c].owner THEN disputed ELSE disputed \cup {i}
    /\ UNCHANGED <<dashKind, dashNext, entitled>>

deleteDashboard(c) ==
    /\ calls[c].op = "delete" /\ calls' = [calls EXCEPT ![c] = NoCall]
    /\ LET i == calls[c].id IN
       \/ i \notin Boards /\ UNCHANGED <<boards, boardsFile>>
       \/ /\ i \in Boards
          /\ boards' = DeleteBoard(i)
          /\ \E ok \in BOOLEAN : saveBoards(boards', ok)
    /\ UNCHANGED <<dashKind, dashNext, entitled, disputed>>

\* Duplicate of the store: a copy with the owner of the original, which is the
\* end of it when the caller has no name ...
duplicateDashboard(c) ==
    /\ calls[c].op = "duplicate"
    /\ LET i     == calls[c].id
           named == calls[c].who # Anonymous IN
       \/ /\ i \notin Boards /\ calls' = [calls EXCEPT ![c] = NoCall]
          /\ UNCHANGED <<boards, boardsFile, dashNext, entitled, disputed>>
       \/ /\ i \in Boards
          /\ \E k \in DashIDs, ok \in BOOLEAN :
                /\ FreshID(k)
                /\ boards' = IF ok THEN DuplicateBoard(i, k) ELSE DeleteBoard(k)
                /\ saveBoards(boards', ok)
                /\ dashNext' = k + 1
                /\ entitled' = [entitled EXCEPT ![k] = IF named THEN calls[c].who ELSE boards[i].owner]
                /\ disputed' = IF named \/ InFlight(k) THEN disputed \cup {k} ELSE disputed \ {k}
                /\ calls' = [calls EXCEPT ![c] = IF ok /\ named THEN [op |-> "own", id |-> k, who |-> @.who, visibility |-> boards[i].visibility] ELSE NoCall]
    /\ UNCHANGED dashKind

\* ... and an Update that hands it to the caller.  Its error is ignored.
ReassignOwner(c) ==
    /\ calls[c].op = "own" /\ calls' = [calls EXCEPT ![c] = NoCall]
    /\ LET k == calls[c].id
           overlapped == \E d \in Callers \ {c} : calls[d].op \in {"update", "delete"} /\ calls[d].id = k
           settled    == entitled[k] = calls[c].who /\ ~overlapped
       IN  \/ UNCHANGED <<boards, boardsFile, disputed>>
           \/ /\ k \in Boards
              /\ boards' = UpdateBoard(k, calls[c].who, calls[c].visibility)
              /\ \E ok \in BOOLEAN : saveBoards(boards', ok) /\ disputed' = IF ok /\ settled THEN disputed \ {k} ELSE disputed \cup {k}
    /\ UNCHANGED <<dashKind, dashNext, entitled>>

\* A new process of the file store: the file, and the count of what is in it.
RestartDashboards ==
    /\ dashKind = "file"
    /\ boards' = boardsFile
    /\ dashNext' = 1 + Cardinality({i \in DashIDs : boardsFile[i] # NoDash})
    /\ calls' = [c \in Callers |-> NoCall]
    /\ disputed' = disputed \cup {i \in DashIDs : boards[i] # boardsFile[i]}
    /\ UNCHANGED <<dashKind, boardsFile, entitled>>

\* What clients begin, and how it goes on.
DashboardRequest == createDashboard \/ \E c \in Callers, op \in {"update", "delete", "duplicate"} : ReadFor(c, op)
DashboardCall ==
    \/ RestartDashboards
    \/ \E c \in Callers : updateDashboard(c) \/ deleteDashboard(c) \/ duplicateDashboard(c) \/ ReassignOwner(c)

DashboardsNext == DashboardRequest \/ DashboardCall

DashboardsSpec == DashboardsInit /\ [][DashboardsNext]_dashVars
-----------------------------------------------------------------------------
\* A dashboard belongs to whoever created it last under its id, or asked for the
\* duplicate, however requests overlap; but a duplicate whose second write fails
\* keeps the owner of the original, and an update that read it before that write
\* gives it back.
OwnedByCreator == \A i \in Boards : i \notin disputed => boards[i].owner = entitled[i]

\* The caller of an update or deletion that takes effect has no name, or owns the
\* dashboard, if anybody does, at that moment, not only when the rule was tested.
OnlyOwnerChanges ==
    \A c \in Callers : calls[c].op \in {"update", "delete"} /\ calls'[c] = NoCall =>
        LET i == calls[c].id IN
        boards'[i] # boards[i] /\ i \notin disputed => calls[c].who = Anonymous \/ boards[i].owner \in {Anonymous, calls[c].who}

(***************************************************************************)
(* Deciding on what was read and changing later is safe: the owner of a    *)
(* dashboard does not change in between, but around a duplication.         *)
(***************************************************************************)
DashboardsOwned == [][OwnedByCreator' /\ (dashVars' # dashVars => (RestartDashboards \/ OnlyOwnerChanges))]_dashVars
=============================================================================
