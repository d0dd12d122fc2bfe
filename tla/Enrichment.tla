----------------------------- MODULE Enrichment -----------------------------
(***************************************************************************)
(* candidate_enrichment: passes that pick the games most in need of fresh  *)
(* facts, ask Steam about each and keep what it answers. The worker's job  *)
(* and the operator's command run the same pass and may do so at once;     *)
(* they share the rotating cursor and the count of attempts at a gallery.  *)
(*                                                                         *)
(* Whether an observation is fresh is a fact of each game that time takes  *)
(* away; only kinds that are looked at are kept track of. "store" stands   *)
(* for details and price, "snapshot" for reviews,                          *)
(* review excerpts and player counts, which are alike.                     *)
(***************************************************************************)
EXTENDS Integers, Sequences, FiniteSets, SequencesExt, Selection

CONSTANTS Candidates,     \* multiplayer candidates, app ids
          Enrichers,      \* processes that may run a pass
          Kinds,          \* the needs that are looked at (EnrichmentNeedFilter)
          BatchLimit,
          MaxAttempts,    \* MediaBackfillPolicy.max_attempts
          Threshold       \* coverage_threshold, in percent

ASSUME EnrichmentAssumption ==
    /\ Candidates \subseteq Nat \ {0} /\ IsFiniteSet(Candidates) /\ IsFiniteSet(Enrichers)
    /\ Kinds \subseteq {"gallery", "english", "store", "snapshot"}
    /\ {BatchLimit, MaxAttempts} \subseteq Nat \ {0} /\ Threshold \in 0..100

VARIABLES fresh,      \* by game: observations not yet due again
          gallery,    \* app_media_assets and app_media_backfill_state
          rotation,   \* the stored cursor: after_app_id
          pass        \* what each process is at

enrichVars == <<fresh, gallery, rotation, pass>>

NoTargets == [stage |-> "idle", targets |-> <<>>, last |-> 0, answer |-> "none"]
Terminal == {"complete", "none", "exhausted"}

EnrichInit ==
    /\ fresh = [a \in Candidates |-> {}]
    /\ gallery = [a \in Candidates |->
                    [assets |-> FALSE, attempts |-> 0, status |-> "pending", rested |-> TRUE]]
    /\ rotation = 0 /\ pass = [w \in Enrichers |-> NoTargets]

(***************************************************************************)
(* list_enrichment_targets_after_filtered_with_media                       *)
(***************************************************************************)

(* media_coverage_stats against the policy.                                *)
CoverageIsLow ==
    Cardinality({a \in Candidates : gallery[a].assets}) * 100 < Threshold * Cardinality(Candidates)

\* Mutant: attempts are not counted.
NeedsGalleryForEver(a) ==
    /\ CoverageIsLow /\ ~gallery[a].assets
    /\ gallery[a].status \notin Terminal /\ gallery[a].rested

NeedsGallery(a) ==
    /\ CoverageIsLow /\ ~gallery[a].assets
    /\ gallery[a].status \notin Terminal
    /\ gallery[a].attempts < MaxAttempts /\ gallery[a].rested

Needs(a) == {k \in Kinds : IF k = "gallery" THEN NeedsGallery(a) ELSE k \notin fresh[a]}
Weight(k, needs, w) == IF k \in needs THEN w ELSE 0
Score(needs) ==
    Weight("gallery", needs, 5) + Weight("english", needs, 4)
      + Weight("store", needs, 3) + Weight("snapshot", needs, 4)

(* Games after the cursor come first, but only among equals: a higher      *)
(* score goes before any rotation.                                         *)
Rotated(a) == IF a > rotation THEN 0 ELSE 1

Precedes(a, b) ==
    \/ Score(Needs(a)) > Score(Needs(b))
    \/ Score(Needs(a)) = Score(Needs(b))
         /\ (Rotated(a) < Rotated(b) \/ (Rotated(a) = Rotated(b) /\ a < b))

Due == {a \in Candidates : Needs(a) # {}}
Targets ==
    LET order == InOrder(Due, {p \in Due \X Due : Precedes(p[1], p[2])})
    IN  SubSeq(order, 1, IF Len(order) < BatchLimit THEN Len(order) ELSE BatchLimit)

(***************************************************************************)
(* A pass                                                                  *)
(***************************************************************************)

At(w, stage) == pass[w].stage = stage
This(w) == Head(pass[w].targets)
Goes(w, fields) == pass' = [pass EXCEPT ![w] = fields]
Refreshed(a, kind) == [fresh EXCEPT ![a] = @ \cup ({kind} \cap Kinds)]

(* run_enrichment_worker_task, enrich-steam-candidates: without targets    *)
(* there is no pass. What a target needs is decided here.                  *)
BeginPicking(w) ==
    /\ At(w, "idle") /\ Targets # <<>>
    /\ Goes(w, [NoTargets EXCEPT !.stage = "target",
                  !.targets = [i \in DOMAIN Targets |->
                                 [app |-> Targets[i], needs |-> Needs(Targets[i])]],
                  !.last = Last(Targets)])
    /\ UNCHANGED <<fresh, gallery, rotation>>

(* begin_media_backfill_attempt counts before anything is asked.           *)
Attempted(g) ==
    [g EXCEPT !.attempts = g.attempts + 1, !.rested = FALSE,
              !.status = IF g.status \in Terminal THEN g.status ELSE "pending"]

BeginTarget(w) ==
    LET t == This(w)
        asks == t.needs \cap {"gallery", "store"} # {}
    IN  /\ At(w, "target")
        /\ gallery' = IF "gallery" \in t.needs
                      THEN [gallery EXCEPT ![t.app] = Attempted(@)] ELSE gallery
        /\ Goes(w, [pass[w] EXCEPT !.stage = IF asks THEN "ask" ELSE "english"])
        /\ UNCHANGED <<fresh, rotation>>

(* What a request can end with after its retries: an answer without the    *)
(* game, with it, or none that can be read or written down.                *)
Responses == [known : {"no", "yes", "broken"}, media : {"absent", "unusable", "usable"}]

(* normalize_screenshots, normalize_movies: a gallery that is left out is  *)
(* kept, one without a usable entry is empty.                              *)
GalleryOf(media) ==
    CASE media = "absent" -> "kept" [] media = "unusable" -> "empty" [] OTHER -> "pictures"

(* parse_store_details                                                     *)
Understood(response) ==
    CASE response.known = "no" -> "unknown" [] response.known = "broken" -> "failed"
      [] OTHER -> GalleryOf(response.media)

(* replace_app_media_assets                                                *)
Replaced(g, answer) ==
    [g EXCEPT !.assets = answer = "pictures" \/ (@ /\ answer # "empty")]

(* enrich_store_details: an unknown game is an answer too.                 *)
StoreAnswers(w, response) ==
    LET a == This(w).app
        answer == Understood(response)
    IN  /\ At(w, "ask")
        /\ fresh' = IF answer = "failed" THEN fresh ELSE Refreshed(a, "store")
        /\ gallery' = [gallery EXCEPT ![a] = Replaced(@, answer)]
        /\ Goes(w, [pass[w] EXCEPT !.stage = IF "gallery" \in This(w).needs
                                             THEN "settle" ELSE "english",
                                   !.answer = IF "gallery" \in This(w).needs
                                              THEN answer ELSE "none"])
        /\ UNCHANGED <<rotation>>

(* finish_media_backfill_attempt: the last word, whoever spoke before.     *)
Outcome(g, answer) ==
    CASE answer = "failed" -> IF g.attempts >= MaxAttempts THEN "exhausted" ELSE "failed"
      [] answer = "unknown" -> "none"
      [] OTHER -> IF g.assets THEN "complete" ELSE "none"

SettleGallery(w) ==
    LET a == This(w).app
    IN  /\ At(w, "settle")
        /\ gallery' = [gallery EXCEPT ![a].status = Outcome(gallery[a], pass[w].answer),
                                      ![a].rested = FALSE]
        /\ Goes(w, [pass[w] EXCEPT !.stage = "english", !.answer = "none"])
        /\ UNCHANGED <<fresh, rotation>>

(* ensure_english_search_name: asked once, for every target that lacks it; *)
(* an answer of any kind settles it and a failure is no error.             *)
EnglishName(w, answered) ==
    LET a == This(w).app
    IN  /\ At(w, "english")
        /\ fresh' = IF answered THEN Refreshed(a, "english") ELSE fresh
        /\ Goes(w, [pass[w] EXCEPT !.stage = "snapshot"])
        /\ UNCHANGED <<gallery, rotation>>

(* enrich_reviews, enrich_popular_reviews, enrich_ccu. For players online, *)
(* no such game and no figure are observations too (parse_ccu,             *)
(* http_not_found_proposal).                                               *)
Observes(said) == said \in {"figure", "no figure", "no such game"}

(* ingest_review_summary, ingest_popular_reviews, ingest_ccu *)
Snapshotted(a) == Refreshed(a, "snapshot")

Snapshots(w, said) ==
    LET t == This(w)
        rest == Tail(pass[w].targets)
        records == "snapshot" \in t.needs /\ Observes(said)
    IN  /\ At(w, "snapshot")
        /\ fresh' = IF records THEN Snapshotted(t.app) ELSE fresh
        /\ Goes(w, [pass[w] EXCEPT !.stage = IF rest = <<>> THEN "end" ELSE "target",
                                   !.targets = rest])
        /\ UNCHANGED <<gallery, rotation>>

(* The cursor moves to the last target, also when requests failed.         *)
EndPass(w) ==
    /\ At(w, "end")
    /\ rotation' = pass[w].last
    /\ Goes(w, NoTargets)
    /\ UNCHANGED <<fresh, gallery>>

(* The process dies, at any point.                                         *)
DieInPass(w) ==
    /\ ~At(w, "idle") /\ Goes(w, NoTargets)
    /\ UNCHANGED <<fresh, gallery, rotation>>

(* A day or six hours later.                                               *)
ComesDueAgain(a, kind) ==
    /\ kind \in fresh[a]
    /\ fresh' = [fresh EXCEPT ![a] = @ \ {kind}]
    /\ UNCHANGED <<gallery, rotation, pass>>

RestGallery(a) ==
    /\ ~gallery[a].rested /\ gallery' = [gallery EXCEPT ![a].rested = TRUE]
    /\ UNCHANGED <<fresh, rotation, pass>>

EnrichNext ==
    \/ \E w \in Enrichers :
         \/ BeginPicking(w) \/ BeginTarget(w) \/ SettleGallery(w) \/ EndPass(w) \/ DieInPass(w)
         \/ \E response \in Responses : StoreAnswers(w, response)
         \/ \E answered \in BOOLEAN : EnglishName(w, answered)
         \/ \E said \in {"figure", "no figure", "no such game", "broken"} : Snapshots(w, said)
    \/ \E a \in Candidates : RestGallery(a) \/ \E kind \in {"store", "snapshot"} : ComesDueAgain(a, kind)

EnrichSpec == EnrichInit /\ [][EnrichNext]_enrichVars

(***************************************************************************)
(* Properties                                                              *)
(***************************************************************************)

EnrichTypeOK ==
    /\ fresh \in [Candidates -> SUBSET Kinds]
    /\ \A a \in Candidates : gallery[a].attempts \in Nat
    /\ rotation \in Candidates \cup {0}

(* The gallery of a game is asked for no more often than the policy says,  *)
(* and once more for each other process that had picked it too, through    *)
(* crashes at any point; and it is given up for good only after that many. *)
GalleryAsksEnd ==
    \A a \in Candidates :
        /\ gallery[a].attempts <= MaxAttempts + Cardinality(Enrichers) - 1
        /\ gallery[a].status = "exhausted" => gallery[a].attempts >= MaxAttempts
=============================================================================
