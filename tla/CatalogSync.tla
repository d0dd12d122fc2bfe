---------------------------- MODULE CatalogSync ----------------------------
(***************************************************************************)
(* The resumable walk over Steam's app list: the durable cursor of         *)
(* crates/steam-source/src/cursor.rs, the pages of app_list.rs and the     *)
(* collector collect_steam_catalog of apps/dbtool/src/main.rs.             *)
(*                                                                         *)
(* A collector process reads the stored cursor, fetches a page, ingests it *)
(* in one transaction and then stores the advanced cursor in a second      *)
(* statement.  It may die between any two of these, and Steam changes      *)
(* while a pass is under way.                                              *)
(***************************************************************************)
EXTENDS Integers, FiniteSets, FiniteSetsExt

CONSTANTS
    NumApps,    \* app ids are 1 .. NumApps
    PageSize,   \* max_results
    MaxPages,   \* pages one collector run may fetch
    MaxTime,    \* bound: Steam's clock stops here
    MaxBuild,   \* bound: adapter versions installed one after another
    MaxCrashes  \* bound: collector runs that fail or are killed

Apps == 1 .. NumApps
Times == 0 .. MaxTime

ASSUME WalkAssumption ==
    /\ NumApps \in Nat
    /\ PageSize \in Nat \ {0}
    /\ MaxPages \in Nat \ {0}
    /\ MaxTime \in Nat \ {0}
    /\ MaxBuild \in Nat \ {0}
    /\ MaxCrashes \in Nat

VARIABLES
    steam,    \* steam[a]: last_modified of app a, 0 while it is not listed
    now,      \* Steam's clock
    build,    \* ADAPTER_VERSION of the installed collector
    catalog,  \* catalog[a]: the last_modified ingested for a, 0 without a row
    stored,   \* the source_cursors row
    run,      \* the collector process
    crashes,  \* runs that ended early so far
    atStart,  \* history: what Steam listed when the stored pass began
    slipped   \* history: apps changed behind the cursor of a pass under way

vars == <<steam, now, build, catalog, stored, run, crashes, atStart, slipped>>

Cursor ==
    [last : Apps \cup {0}, since : Times, high : Times, more : BOOLEAN,
     build : 0 .. MaxBuild]

\* mods[a]: last_modified the page gives for a, 0 when a is not on it.
Page == [mods : [Apps -> Times], last : Apps \cup {0}, high : Times, more : BOOLEAN]

NewPass(since, b) == [last |-> 0, since |-> since, high |-> since, more |-> TRUE, build |-> b]

\* is_in_progress
InProgress(c) == c.more \/ c.last > 0

NoPage == [mods |-> [a \in Apps |-> 0], last |-> 0, high |-> 0, more |-> FALSE]

\* A process that is not running remembers nothing.
Off == [pc |-> "off", cursor |-> NewPass(0, 1), page |-> NoPage, pages |-> 0]

TypeOK ==
    /\ steam \in [Apps -> Times]
    /\ now \in Times
    /\ build \in 1 .. MaxBuild
    /\ catalog \in [Apps -> Times]
    /\ stored \in Cursor
    /\ run \in [pc : {"off", "fetch", "ingest", "save"}, cursor : Cursor, page : Page,
                pages : 0 .. MaxPages]
    /\ crashes \in 0 .. MaxCrashes
    /\ atStart \in [Apps -> Times]
    /\ slipped \in SUBSET Apps

\* No stored cursor behaves as a new pass from time 0; Steam lists some apps.
Init ==
    /\ steam \in [Apps -> {0, 1}]
    /\ now = 1
    /\ build = 1
    /\ catalog = [a \in Apps |-> 0]
    /\ stored = NewPass(0, 1)
    /\ run = Off
    /\ crashes = 0
    /\ atStart = [a \in Apps |-> 0]
    /\ slipped = {}

-----------------------------------------------------------------------------
(* Steam                                                                   *)

\* What GetAppList answers: the first PageSize apps after last_appid that
\* changed at or after if_modified_since.
Listed(c) == {a \in Apps : a > c.last /\ steam[a] > 0 /\ steam[a] >= c.since}

FirstOf(S) == {a \in S : Cardinality({b \in S : b < a}) < PageSize}

Largest(S) == IF S = {} THEN 0 ELSE Max(S)

PageFor(c) ==
    LET apps == FirstOf(Listed(c)) IN
    [mods |-> [a \in Apps |-> IF a \in apps THEN steam[a] ELSE 0],
     last |-> Largest(apps), high |-> Largest({steam[a] : a \in apps}),
     more |-> apps # Listed(c)]

\* The pass under way has fetched a's page for good.
Passed(a) ==
    \/ InProgress(stored) /\ stored.build = build /\ a <= stored.last
    \/ run.pc \in {"ingest", "save"} /\ run.page.more /\ a <= run.page.last

Change(a) ==
    /\ steam[a] # now
    /\ steam' = [steam EXCEPT ![a] = now]
    /\ slipped' = IF Passed(a) THEN slipped \cup {a} ELSE slipped
    /\ UNCHANGED <<now, build, catalog, stored, run, crashes, atStart>>

Tick ==
    /\ now < MaxTime
    /\ now' = now + 1
    /\ UNCHANGED <<steam, build, catalog, stored, run, crashes, atStart, slipped>>

-----------------------------------------------------------------------------
(* The collector                                                           *)

\* Mutant: a parser upgrade forgets the watermark.
ResumedFromZero(c) ==
    IF c.build # build THEN NewPass(0, build)
    ELSE IF InProgress(c) THEN c ELSE NewPass(c.since, build)

\* A finished pass, or a cursor of another adapter, starts a new pass.
Resumed(c) == IF InProgress(c) /\ c.build = build THEN c ELSE NewPass(c.since, build)

StartRun ==
    LET c == Resumed(stored) IN
    /\ run.pc = "off"
    /\ run' = [Off EXCEPT !.pc = "fetch", !.cursor = c]
    /\ atStart' = IF c.last = 0 THEN steam ELSE atStart
    /\ UNCHANGED <<steam, now, build, catalog, stored, crashes, slipped>>

FetchPage ==
    /\ run.pc = "fetch"
    /\ run' = [run EXCEPT !.pc = "ingest", !.page = PageFor(run.cursor)]
    /\ UNCHANGED <<steam, now, build, catalog, stored, crashes, atStart, slipped>>

\* ingest_app_list_page: the whole page in one transaction.
IngestPage ==
    LET mods == run.page.mods IN
    /\ run.pc = "ingest"
    /\ catalog' = [a \in Apps |-> IF mods[a] > 0 THEN mods[a] ELSE catalog[a]]
    /\ slipped' = {a \in slipped : mods[a] # steam[a]}
    /\ run' = [run EXCEPT !.pc = "save"]
    /\ UNCHANGED <<steam, now, build, stored, crashes, atStart>>

\* Mutant: the watermark is put one second past the newest app seen.
AdvancedPastHigh(c, p) ==
    LET high == IF p.high > c.high THEN p.high ELSE c.high IN
    IF p.more THEN [c EXCEPT !.last = p.last, !.more = TRUE, !.high = high]
    ELSE [c EXCEPT !.last = 0, !.more = FALSE, !.high = high, !.since = high + 1]

\* Mutant: complete_pass does not reset last_appid.
AdvancedWithoutReset(c, p) ==
    LET high == IF p.high > c.high THEN p.high ELSE c.high IN
    IF p.more THEN [c EXCEPT !.last = p.last, !.more = TRUE, !.high = high]
    ELSE [c EXCEPT !.more = FALSE, !.high = high, !.since = high]

\* Mutant: complete_pass after every page, whether more remain or not.
AdvancedAlwaysDone(c, p) ==
    LET high == IF p.high > c.high THEN p.high ELSE c.high
    IN  [c EXCEPT !.last = 0, !.more = FALSE, !.high = high, !.since = high]

\* apply_page_to_cursor: advance_page, then complete_pass on the last page.
Advanced(c, p) ==
    LET high == IF p.high > c.high THEN p.high ELSE c.high IN
    IF p.more THEN [c EXCEPT !.last = p.last, !.more = TRUE, !.high = high]
    ELSE [c EXCEPT !.last = 0, !.more = FALSE, !.high = high, !.since = high]

SaveCursor ==
    LET c == Advanced(run.cursor, run.page)
        pages == run.pages + 1
    IN  /\ run.pc = "save"
        /\ stored' = c
        /\ run' = IF ~InProgress(c) \/ pages = MaxPages THEN Off
                  ELSE [Off EXCEPT !.pc = "fetch", !.cursor = c, !.pages = pages]
        /\ UNCHANGED <<steam, now, build, catalog, crashes, atStart, slipped>>

\* A page that cannot be fetched or stored, or a killed process.
RunStops ==
    /\ run.pc # "off"
    /\ crashes < MaxCrashes
    /\ crashes' = crashes + 1
    /\ run' = Off
    /\ UNCHANGED <<steam, now, build, catalog, stored, atStart, slipped>>

Upgrade ==
    /\ run.pc = "off"
    /\ build < MaxBuild
    /\ build' = build + 1
    /\ UNCHANGED <<steam, now, catalog, stored, run, crashes, atStart, slipped>>

-----------------------------------------------------------------------------
Collecting == StartRun \/ FetchPage \/ IngestPage \/ SaveCursor

Next ==
    \/ Collecting
    \/ RunStops
    \/ Upgrade
    \/ Tick
    \/ \E a \in Apps : Change(a)

Spec == Init /\ [][Next]_vars

\* The worker loop starts collectors for ever.
FairSpec == Spec /\ WF_vars(Collecting)

-----------------------------------------------------------------------------
(* Properties                                                              *)

\* The stored cursor never runs ahead of the catalog: what it has walked
\* past, and what its watermark will filter out, has been ingested.  Only
\* an app that changed behind a pass under way escapes.
CursorIsJustified ==
    \A a \in Apps \ slipped :
        /\ InProgress(stored) /\ stored.build = build /\ a <= stored.last =>
               catalog[a] = steam[a]
        /\ steam[a] < stored.since => catalog[a] = steam[a]

\* Restarts, retries and new adapters never move the watermark back.
WatermarkOnlyRises == [][stored'.since >= stored.since]_vars

\* When Steam stops changing the catalog catches up with it.
CatchesUp == \A a \in Apps : <>[](catalog[a] = steam[a] \/ a \in slipped)

\* Passes end, so that the next incremental window can open.
PassesFinish == []<>~InProgress(stored)

\* A finished pass has brought in everything Steam listed when it began.
PassIsComplete ==
    [][~InProgress(stored') /\ stored' # stored =>
          \A a \in Apps : catalog[a] >= atStart[a]]_vars
=============================================================================
