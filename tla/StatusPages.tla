---------------------------- MODULE StatusPages ----------------------------
(***************************************************************************)
(* Status pages: the administrator's handlers and the public page          *)
(* (status_page_api.go), over the file store (status_page.go) or the       *)
(* MongoDB repository (mongo_status_page_repository.go).                   *)
(*                                                                         *)
(* The file store answers from memory and writes the whole map to its file *)
(* under one lock, so each of its operations is one step that includes the *)
(* save; a failed save leaves the file as it was, or torn.  MongoDB has    *)
(* the documents only, with a unique index on the slug.                    *)
(***************************************************************************)
EXTENDS Naturals, FiniteSets

CONSTANTS PageStores,  \* subset of {"mongo", "file"}
          PageIDs,     \* 1..n: the identifiers sp-1, sp-2, ...
          Slugs,       \* non-empty slugs
          PageNames,   \* non-empty names
          PageChecks       \* checks of the dashboard

\* Identifiers start at 1: 0 stands for a page that has none yet.
ASSUME PagesAssumption ==
    /\ 0 \notin PageIDs /\ PageStores \subseteq {"mongo", "file"}
    /\ IsFiniteSet(PageChecks) /\ PageChecks # {}

NoPage == [slug |-> "none"]
TornPages   == [i \in PageIDs |-> [slug |-> "torn"]]
PageCfgs == [slug : Slugs, name : PageNames, public : BOOLEAN]

VARIABLES
    pageKind,    \* which store the program runs with
    pages,       \* id -> page: the documents, or the map in memory
    pagesFile,   \* what the file holds, or TornPages
    nextPageID,      \* the counter of the file store; the clock of MongoDB's ids
    pagesUnsaved,     \* history: memory was changed by a call that did not save
    visit        \* a visitor's request for a public page

pageVars == <<pageKind, pages, pagesFile, nextPageID, pagesUnsaved, visit>>

NoPages  == [i \in PageIDs |-> NoPage]
NoVisit     == [phase |-> "idle"]
ExistingPages == {i \in PageIDs : pages[i] # NoPage}

StatusPagesInit ==
    /\ pageKind \in PageStores
    /\ pages = NoPages /\ pagesFile = NoPages /\ nextPageID = 1 /\ pagesUnsaved = FALSE /\ visit = NoVisit

\* save: the file becomes the map; on an error it is what it was or torn.
savePages(new, ok) ==
    IF pageKind = "mongo" THEN ok /\ UNCHANGED <<pagesFile, pagesUnsaved>>
    ELSE IF ok THEN pagesFile' = new /\ pagesUnsaved' = FALSE
    ELSE pagesFile' \in {pagesFile, TornPages} /\ pagesUnsaved' = TRUE

\* Comparing with the public pages only, for the mutant of StatusPagesSound.
SlugTakenByPublic(i, slug) == \E j \in ExistingPages \ {i} : pages[j].slug = slug /\ pages[j].public

\* The loop over the map, or the unique index.
SlugTaken(i, slug) == \E j \in ExistingPages \ {i} : pages[j].slug = slug

(***************************************************************************)
(* POST /status-pages.  The body may name the id.  The file store then     *)
(* writes over the page that has it, and drops that page from memory when  *)
(* the save fails; MongoDB refuses a duplicate _id.                        *)
(***************************************************************************)
fileCreate(i, cfg, ok) ==
    /\ pageKind = "file" /\ ~SlugTaken(0, cfg.slug)
    /\ pages' = [pages EXCEPT ![i] = IF ok THEN cfg ELSE NoPage]
    /\ savePages(pages', ok)

mongoCreate(i, cfg) ==
    /\ pageKind = "mongo" /\ pages[i] = NoPage /\ ~SlugTaken(0, cfg.slug)
    /\ pages' = [pages EXCEPT ![i] = cfg]
    /\ UNCHANGED <<pagesFile, pagesUnsaved>>

handleStatusPagesCreate ==
    /\ \E cfg \in PageCfgs, i \in PageIDs :
          /\ mongoCreate(i, cfg) \/ \E ok \in BOOLEAN : fileCreate(i, cfg, ok)
          /\ \/ UNCHANGED nextPageID                                  \* the id of the body
             \/ nextPageID' = i + 1 /\ (IF pageKind = "file" THEN i = nextPageID ELSE i >= nextPageID)
    /\ UNCHANGED <<pageKind, visit>>

(***************************************************************************)
(* PUT /status-pages/{id}: only the fields present are changed.  The file  *)
(* store sets the name before it finds that the slug is in use, and leaves *)
(* it so; what a failed save could not write stays in memory too.          *)
(***************************************************************************)
fileUpdatePartial(i, cfg, ok) ==
    LET renamed == [pages EXCEPT ![i].name = cfg.name] IN
    /\ pageKind = "file" /\ i \in ExistingPages
    /\ \/ /\ SlugTaken(i, cfg.slug) /\ renamed # pages
          /\ pages' = renamed /\ pagesUnsaved' = TRUE /\ UNCHANGED pagesFile
       \/ /\ ~SlugTaken(i, cfg.slug)
          /\ pages' = [pages EXCEPT ![i] = cfg] /\ savePages(pages', ok)

mongoUpdatePartial(i, cfg) ==
    /\ pageKind = "mongo" /\ i \in ExistingPages /\ ~SlugTaken(i, cfg.slug)
    /\ pages' = [pages EXCEPT ![i] = cfg]
    /\ UNCHANGED <<pagesFile, pagesUnsaved>>

handleStatusPageUpdate ==
    /\ \E i \in PageIDs, cfg \in PageCfgs :
          mongoUpdatePartial(i, cfg) \/ \E ok \in BOOLEAN : fileUpdatePartial(i, cfg, ok)
    /\ UNCHANGED <<pageKind, nextPageID, visit>>

handleStatusPageDelete ==
    /\ \E i \in ExistingPages, ok \in BOOLEAN :
          /\ pages' = [pages EXCEPT ![i] = NoPage]
          /\ savePages(pages', ok)
    /\ UNCHANGED <<pageKind, nextPageID, visit>>

\* A new process: the file store starts from its file and counts the pages it
\* finds there; it does not start from a torn file.
RestartPages ==
    /\ pagesFile # TornPages
    /\ IF pageKind = "mongo" THEN UNCHANGED <<pages, nextPageID, pagesUnsaved>>
       ELSE /\ pages' = pagesFile /\ pagesUnsaved' = FALSE
            /\ nextPageID' = 1 + Cardinality({i \in PageIDs : pagesFile[i] # NoPage})
    /\ visit' = NoVisit
    /\ UNCHANGED <<pageKind, pagesFile>>

-----------------------------------------------------------------------------
(***************************************************************************)
(* GET /status/{slug}, without login.  A component is a set of checks; the *)
(* snapshot gives each check's latest result ("none" before the first) and *)
(* whether it is in maintenance.                                           *)
(***************************************************************************)
PageSnapshots == [result : [PageChecks -> {"ok", "bad", "none"}], maint : SUBSET PageChecks]

resolveComponentState(comp, snap) ==
    LET bad == Cardinality({c \in comp : snap.result[c] = "bad"})
    IN  IF comp \cap snap.maint # {} THEN "under_maintenance"
        ELSE IF bad = 0 THEN "operational"
        ELSE IF bad = Cardinality(comp) THEN "major_outage"
        ELSE IF 2 * bad > Cardinality(comp) THEN "partial_outage" ELSE "degraded"

buildPublicResponse(states) ==
    IF "major_outage" \in states THEN "major"
    ELSE IF states \ {"operational"} # {} THEN "minor" ELSE "none"

VisitRead ==
    /\ visit = NoVisit
    /\ \E i \in ExistingPages : pages[i].public
    /\ visit' = [phase |-> "read"]
    /\ UNCHANGED <<pageKind, pages, pagesFile, nextPageID, pagesUnsaved>>

\* What is kept of the answer: its indicator, whether the snapshot is free of
\* failures and maintenance, whether some component is down altogether.  The
\* incidents, from a second snapshot taken later, are listed beside it.
VisitAnswer ==
    /\ visit.phase = "read"
    /\ \E snap \in PageSnapshots, comps \in {{}, {PageChecks}, {{c} : c \in PageChecks}} :
          visit' = [phase |-> "shown",
                    indicator |-> buildPublicResponse({resolveComponentState(k, snap) : k \in comps}),
                    clean |-> \A c \in UNION comps : snap.result[c] # "bad" /\ c \notin snap.maint,
                    down |-> \E k \in comps : \A c \in k : snap.result[c] = "bad" /\ c \notin snap.maint]
    /\ UNCHANGED <<pageKind, pages, pagesFile, nextPageID, pagesUnsaved>>

renderPublicStatusPage ==
    /\ visit.phase = "shown" /\ visit' = NoVisit
    /\ UNCHANGED <<pageKind, pages, pagesFile, nextPageID, pagesUnsaved>>

StatusPagesNext ==
    \/ handleStatusPagesCreate \/ handleStatusPageUpdate \/ handleStatusPageDelete \/ RestartPages
    \/ VisitRead \/ VisitAnswer \/ renderPublicStatusPage

StatusPagesSpec == StatusPagesInit /\ [][StatusPagesNext]_pageVars
-----------------------------------------------------------------------------
\* A slug leads to one page, in memory, in the file and after any restart.
SlugsUnique ==
    \A store \in {pages} \cup ({pagesFile} \ {TornPages}) : \A i, j \in PageIDs :
        store[i] # NoPage /\ store[j] # NoPage /\ store[i].slug = store[j].slug => i = j

\* A restart shows the pages that were shown before, unless the last change of
\* the map came from a call that answered with an error.
FileCurrent == pageKind = "file" /\ ~pagesUnsaved => pagesFile = pages

\* All Systems Operational is shown exactly when no check of the page failed
\* last and none is in maintenance, a major outage exactly when some component
\* has a failure in every check and no maintenance.
ShownHonestly ==
    visit.phase = "shown" => (visit.indicator = "none") = visit.clean /\ (visit.indicator = "major") = visit.down

(***************************************************************************)
(* Status pages stay sound over creations, partial updates, deletions,     *)
(* failed saves and restarts.                                              *)
(***************************************************************************)
StatusPagesSound == SlugsUnique /\ FileCurrent /\ ShownHonestly
=============================================================================
