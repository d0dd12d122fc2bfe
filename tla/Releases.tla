------------------------------ MODULE Releases ------------------------------
(***************************************************************************)
(* The release of one game: state and date in apps, and the log of changes *)
(* in release_events from which the feed takes the earliest date a game    *)
(* ever had, so that moving a date does not make an old game new. Each     *)
(* write is one transaction. Dates are days in order; TextOnly stands for  *)
(* a date Steam states in words, which the feed cannot compare.            *)
(***************************************************************************)
EXTENDS Integers, FiniteSetsExt

CONSTANTS Days,           \* ISO days
          TextOnly, NoDate

ASSUME ReleaseAssumption ==
    /\ Days \subseteq Nat /\ Days # {}
    /\ {TextOnly, NoDate} \cap Days = {} /\ TextOnly # NoDate

VARIABLES release,    \* apps: [known, state, date], known = FALSE: no row
          logged,     \* release_events: the dates its rows name
          shown,      \* history: every day the game was dated
          told,       \* history: the last state Steam stated with a date, and
          relisted    \* whether a catalog or search page came after it

releaseVars == <<release, logged, shown, told, relisted>>

States == {"unknown", "coming_soon", "upcoming", "released", "retired"}
Dated == Days \cup {TextOnly, NoDate}

(* No row, or one that seed_demo_catalog made, which asks Steam nothing.   *)
ReleaseInit ==
    /\ \/ release = [known |-> FALSE, state |-> "unknown", date |-> NoDate] /\ shown = {}
       \/ \E day \in Days : /\ release = [known |-> TRUE, state |-> "released", date |-> day]
                            /\ shown = {day}
    /\ logged = {} /\ told = release.state /\ relisted = FALSE

(* ingest_app_catalog, for a page of the app list or of a store search:    *)
(* the date stays, the state does not.                                     *)
ListApp ==
    /\ release' = [release EXCEPT !.known = TRUE, !.state = "unknown"]
    /\ relisted' = TRUE
    /\ UNCHANGED <<logged, shown, told>>

\* Mutant: only a change of state is logged.
IsChangeOfState(state, date) == release.known /\ release.state # state

(* What makes an event: the row was there, and state or date is another.   *)
IsChange(state, date) == release.known /\ (release.state # state \/ release.date # date)

(* ingest_store_details. Steam may leave the release out of an answer,     *)
(* which then says nothing about it, or state that there is no date.       *)
StoreStates(observed, state, date) ==
    LET stands == IF observed \/ ~release.known THEN state ELSE release.state
    IN  /\ ~observed => date = NoDate
        /\ release' = [known |-> TRUE, state |-> stands,
                       date |-> IF observed THEN date ELSE release.date]
        /\ logged' = IF observed /\ IsChange(state, date)
                     THEN logged \cup ({release.date, date} \ {NoDate}) ELSE logged
        /\ shown' = shown \cup ({release'.date} \cap Days)
        /\ told' = IF observed \/ ~release.known THEN state ELSE told
        /\ relisted' = (relisted /\ ~observed)

ReleaseNext ==
    \/ ListApp
    \/ \E observed \in BOOLEAN, state \in States, date \in Dated :
         StoreStates(observed, state, date)

ReleaseSpec == ReleaseInit /\ [][ReleaseNext]_releaseVars

(* classification_dates of list_candidates: the earliest day of the row    *)
(* and the log, or else what the row says.                                 *)
FirstDate ==
    LET days == (logged \cup {release.date}) \cap Days
    IN  IF days = {} THEN release.date ELSE Min(days)

(***************************************************************************)
(* Properties                                                              *)
(***************************************************************************)

ReleaseTypeOK ==
    /\ release \in [known : BOOLEAN, state : States, date : Dated]
    /\ logged \subseteq Dated \ {NoDate} /\ shown \subseteq Days
    /\ told \in States /\ relisted \in BOOLEAN

(* The feed's date is the earliest day a game was ever dated, however      *)
(* often Steam moved, withdrew or restated it, and the state is what Steam *)
(* said last with a date - except that a page of the catalog or of the     *)
(* search sets it to unknown, which takes the game out of every section    *)
(* until the next answer about it (ingest.rs:32, query.rs:288).            *)
ReleaseRemembered ==
    /\ shown # {} => FirstDate = Min(shown)
    /\ release.state = (IF relisted THEN "unknown" ELSE told) \/ ~release.known
=============================================================================
