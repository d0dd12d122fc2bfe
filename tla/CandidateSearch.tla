-------------------------- MODULE CandidateSearch ---------------------------
(***************************************************************************)
(* collect_candidates: Steam's store search is walked page by page from a  *)
(* stored offset until enough multiplayer candidates are known, or the     *)
(* list ends. The list is Steam's: it may change between two pages, and    *)
(* a row before the offset is then not looked at.                          *)
(***************************************************************************)
EXTENDS Integers, Sequences, FiniteSets, SequencesExt

CONSTANTS StoreGames,     \* games of the store
          PageRows,       \* rows asked for at a time
          Wanted,         \* targets a collector may be started with
          MaxShuffles     \* bound on changes of Steam's list

ASSUME SearchAssumption ==
    /\ IsFiniteSet(StoreGames) /\ PageRows \in Nat \ {0}
    /\ Wanted \subseteq Nat \ {0} /\ MaxShuffles \in Nat

VARIABLES results,    \* Steam's list, best reviewed first
          shuffles,   \* how often it changed
          candidates, \* games with a category hint: normalized_multiplayer_candidates
          offset,     \* stored StoreSearchCursor: [next, complete]
          collector,  \* [stage, target, start, page, total]
          steady      \* history: no change since the list was last walked to its end

searchVars == <<results, shuffles, candidates, offset, collector, steady>>

NoWalk == [stage |-> "idle", target |-> 0, start |-> 0, page |-> <<>>, total |-> 0]
StoreLists == UNION {SetToSeqs(games) : games \in SUBSET StoreGames}

SearchInit ==
    /\ results = SetToSeq(StoreGames)
    /\ shuffles = 0 /\ candidates = {}
    /\ offset = [next |-> 0, complete |-> TRUE]
    /\ collector = NoWalk /\ steady = TRUE

Reached(target) == Cardinality(candidates) >= target

(* Steam lists another order, or other games.                              *)
Shuffle(list) ==
    /\ shuffles < MaxShuffles /\ list # results
    /\ results' = list /\ shuffles' = shuffles + 1 /\ steady' = FALSE
    /\ UNCHANGED <<candidates, offset, collector>>

(* A walk that ended begins again at the top.                              *)
BeginCollecting(target) ==
    /\ collector.stage = "idle" /\ ~Reached(target)
    /\ collector' = [NoWalk EXCEPT !.stage = "fetch", !.target = target,
                       !.start = IF offset.complete THEN 0 ELSE offset.next]
    /\ UNCHANGED <<results, shuffles, candidates, offset, steady>>

(* parse_store_search_page: no rows before the end of the list is an       *)
(* error, and ends the task as any failure does.                           *)
Parses(rows) ==
    IF rows = 0 THEN collector.start >= Len(results)
    ELSE collector.start + rows <= Len(results)

(* fetch_store_search_page_with_retry: the rows Steam chose to send, as    *)
(* many as asked for or fewer.                                             *)
FetchPage(rows) ==
    LET start == collector.start
        page == IF rows = 0 THEN <<>> ELSE SubSeq(results, start + 1, start + rows)
    IN  /\ collector.stage = "fetch" /\ Parses(rows)
        /\ collector' = [collector EXCEPT !.stage = "ingest", !.page = page, !.total = Len(results)]
        /\ UNCHANGED <<results, shuffles, candidates, offset, steady>>

NextStart == collector.start + Len(collector.page)

\* Mutant: the end is where the next page would not be a full one.
EndsWithPage == NextStart + PageRows > collector.total

EndsHere == collector.page = <<>> \/ NextStart >= collector.total

(* ingest_store_search_page: one transaction.                              *)
IngestPage ==
    /\ collector.stage = "ingest"
    /\ candidates' = candidates \cup ToSet(collector.page)
    /\ collector' = [collector EXCEPT !.stage = "save"]
    /\ UNCHANGED <<results, shuffles, offset, steady>>

(* save_source_cursor, and what follows: enough, the end, or the next page.*)
SaveOffset ==
    LET goesOn == ~Reached(collector.target) /\ ~EndsHere
    IN  /\ collector.stage = "save"
        /\ offset' = [next |-> NextStart, complete |-> EndsHere]
        /\ collector' = IF goesOn THEN [collector EXCEPT !.stage = "fetch", !.start = NextStart]
                        ELSE [collector EXCEPT !.stage = IF Reached(collector.target)
                                                         THEN "enough" ELSE "exhausted"]
        /\ UNCHANGED <<results, shuffles, candidates, steady>>

(* run_candidate_worker_task closes its run as succeeded, or as partial    *)
(* with insufficient_results.                                              *)
CloseRun ==
    /\ collector.stage \in {"enough", "exhausted"}
    /\ collector' = NoWalk
    /\ steady' = (steady \/ offset.complete)
    /\ UNCHANGED <<results, shuffles, candidates, offset>>

(* Steam fails for good, a write fails, or the process dies.               *)
AbortWalk ==
    /\ collector.stage \in {"fetch", "ingest", "save"}
    /\ collector' = NoWalk
    /\ UNCHANGED <<results, shuffles, candidates, offset, steady>>

SearchNext ==
    \/ \E list \in StoreLists : Shuffle(list)
    \/ \E target \in Wanted : BeginCollecting(target)
    \/ \E rows \in 0..PageRows : FetchPage(rows)
    \/ IngestPage \/ SaveOffset \/ CloseRun \/ AbortWalk

SearchSpec == SearchInit /\ [][SearchNext]_searchVars

(***************************************************************************)
(* Properties                                                              *)
(***************************************************************************)

SearchTypeOK ==
    /\ ToSet(results) \subseteq StoreGames /\ candidates \subseteq StoreGames
    /\ offset.next \in 0..Cardinality(StoreGames)

(* "Steam search exhausted" is true when Steam's list held still since it  *)
(* was last walked to its end: every game on it is known, across crashes,  *)
(* short pages and walks continued by another run.                         *)
ExhaustedIsTrue ==
    (collector.stage = "exhausted" /\ steady) => ToSet(results) \subseteq candidates
=============================================================================
