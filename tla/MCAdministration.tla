-------------------------- MODULE MCAdministration --------------------------
(***************************************************************************)
(* The records that users and operators manage through the API, for TLC:   *)
(* accounts, status pages, dashboards, maintenance windows, checks and     *)
(* their results, and conversations.  The components share no state, so    *)
(* their behaviours are explored side by side and not interleaved: focus   *)
(* is the component that runs, and the others rest, each in one of its     *)
(* initial states.                                                         *)
(***************************************************************************)
EXTENDS UserAccounts, StatusPages, Dashboards, Maintenance, CheckStore, HybridStore,
        Chat, TLC

CONSTANTS c1, c2,            \* the two requests, writers or executions that overlap
          MaxDashRequests    \* bound on the dashboard requests of a behaviour

VARIABLES focus,
          dashRequests       \* how many dashboard requests there have been

\* They are interchangeable in every component.
Interchangeable == Permutations({c1, c2})

MCWindow(r, s, d, sc) == [start |-> s, dur |-> d, rule |-> r, scope |-> sc, enabled |-> TRUE]
MCWindowCfgs   == {MCWindow("once", 3, 4, {"web"}), MCWindow("daily", 1, 1, {"db"}),
                   MCWindow("monthly", 8, 2, {})}
MCProbes       == {MCWindow(r, s, d, {}) : r \in {"daily", "weekly", "monthly"}, s \in 0..9, d \in {1, 2, 3, 5, 16}}
MCMonthLengths == <<5, 3, 4>>

MCSeeds == <<"a", "b">>

AdministrationInit ==
    /\ focus \in {"users", "pages", "dashboards", "maintenance", "checks", "results",
                  "hybrid", "chat"}
    /\ UsersInit /\ StatusPagesInit /\ DashboardsInit /\ MaintenanceInit /\ CheckStoreInit
    /\ HybridInit /\ ChatInit /\ dashRequests = 0
    /\ focus # "users"       => store = "mongo" /\ index
    /\ focus # "pages"       => pageKind = "mongo"
    /\ focus # "dashboards"  => dashKind = "mongo"
    /\ focus # "maintenance" => maintKind = "mongo"
    /\ focus # "checks"      => docs = Seeded(Len(Seeds))
    /\ focus # "hybrid"      => mirror = Defaults
    /\ focus # "chat"        => chatKind = "mongo"

Others(f) ==
    /\ UNCHANGED focus
    /\ IF f = "dashboards" THEN TRUE ELSE UNCHANGED dashRequests
    /\ IF f = "users" THEN TRUE ELSE UNCHANGED userVars
    /\ IF f = "pages" THEN TRUE ELSE UNCHANGED pageVars
    /\ IF f = "dashboards" THEN TRUE ELSE UNCHANGED dashVars
    /\ IF f = "maintenance" THEN TRUE ELSE UNCHANGED maintVars
    /\ IF f \in {"checks", "results"} THEN TRUE ELSE UNCHANGED storeVars
    /\ IF f = "hybrid" THEN TRUE ELSE UNCHANGED hybridVars
    /\ IF f = "chat" THEN TRUE ELSE UNCHANGED chatVars

\* Dashboards under a bounded number of requests.
FewDashboardRequests ==
    \/ DashboardRequest /\ dashRequests < MaxDashRequests /\ dashRequests' = dashRequests + 1
    \/ DashboardCall /\ UNCHANGED dashRequests

AdministrationNext ==
    \/ focus = "users"       /\ UsersNext       /\ Others("users")
    \/ focus = "pages"       /\ StatusPagesNext /\ Others("pages")
    \/ focus = "dashboards"  /\ FewDashboardRequests /\ Others("dashboards")
    \/ focus = "maintenance" /\ MaintenanceNext /\ Others("maintenance")
    \/ focus = "checks"      /\ ChecksNext      /\ Others("checks")
    \/ focus = "results"     /\ ResultsNext     /\ Others("results")
    \/ focus = "hybrid"      /\ HybridNext      /\ Others("hybrid")
    \/ focus = "chat"        /\ ChatNext        /\ Others("chat")

AdministrationSpec ==
    AdministrationInit
    /\ [][AdministrationNext]_<<userVars, pageVars, dashVars, maintVars, storeVars, hybridVars,
                                chatVars, focus, dashRequests>>
=============================================================================
