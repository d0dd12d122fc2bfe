------------------------------ MODULE Curation ------------------------------
(***************************************************************************)
(* How the profile of one game comes to say what it says. Steam's labels,  *)
(* the human golden set and curators all write the same columns, each in   *)
(* one transaction; every source keeps its evidence, a curator's override  *)
(* goes before all of them, and what a column may be replaced by depends   *)
(* on how far the profile as a whole is trusted.                           *)
(*                                                                         *)
(* One column stands for each kind: dominant_mode (any value derived from  *)
(* the labels), online_coop (Steam can only say yes) and platforms (a list *)
(* Steam states outright, with no golden label). Player bounds and the     *)
(* labels without a column are left out.                                   *)
(***************************************************************************)
EXTENDS Integers, Sequences, SequencesExt, Selection

CONSTANTS Hints,          \* sets of store labels Steam may answer with
          Platforms,      \* non-empty platform lists
          GoldenGames,    \* versions of the golden entry: [mode, coop, dual]
          Rulings         \* values a curator may rule, by feature

CONSTANT Unknown          \* NULL: no value, no label

Features == {"dominant_mode", "online_coop", "platforms"}

ASSUME CurationAssumption ==
    /\ \A labels \in Hints : labels \subseteq {"co-op", "pvp", "multi-player"}
    /\ Unknown \notin Platforms /\ DOMAIN Rulings = Features
    /\ \A f \in Features : Unknown \notin Rulings[f]

VARIABLES column,     \* multiplayer_profiles and app_availability
          trust,      \* profile_confidence in hundredths
          evidence,   \* by feature: active feature_evidence, oldest first
          labels,     \* active category_hint evidence: of store details, of search
          ruling,     \* the active override of each feature
          seeded      \* the profile came from the demo catalog, without evidence

curationVars == <<column, trust, evidence, labels, ruling, seeded>>

StoreTrust == 30
Evidence(source, value, ref) == [source |-> source, value |-> value, ref |-> ref]

(* A new profile; one of seed_demo_catalog, which only fills an empty      *)
(* catalog; or one that an earlier release left without the platforms      *)
(* Steam had stated (repair-empty-availability).                           *)
CurationInit ==
    /\ seeded \in BOOLEAN
    /\ column = [f \in Features |-> IF seeded /\ f # "platforms"
                                    THEN CHOOSE v \in Rulings[f] : TRUE ELSE Unknown]
    /\ trust = IF seeded THEN 85 ELSE 0
    /\ \E stated \in {<<>>} \cup {<<Evidence("steam_store", p, "details")>> : p \in Platforms} :
         evidence = [f \in Features |-> IF ~seeded /\ f = "platforms" THEN stated ELSE <<>>]
    /\ labels = [store |-> {}, search |-> {}]
    /\ ruling = [f \in Features |-> Unknown]

(* insert_feature_evidence_with_document: what the same source said before *)
(* is no longer active.                                                    *)
Observed(log, e) == Append(Among(log, {old \in ToSet(log) : old.source # e.source}), e)

(* latest_active_evidence, whatever its confidence.                        *)
Newest(log) == IF log = <<>> THEN Unknown ELSE Last(log).value

(***************************************************************************)
(* Steam                                                                   *)
(***************************************************************************)

(* derive_mode_from_category_labels                                        *)
DerivedMode(said) ==
    CASE {"co-op", "pvp"} \subseteq said -> "mixed"
      [] "co-op" \in said /\ "pvp" \notin said -> "coop"
      [] "pvp" \in said /\ "co-op" \notin said -> "pvp"
      [] said = {"multi-player"} -> "multiplayer"
      [] OTHER -> Unknown

DerivedValue(f, said) ==
    IF f = "dominant_mode" THEN DerivedMode(said)
    ELSE IF f = "online_coop" /\ "co-op" \in said THEN TRUE ELSE Unknown

\* Mutant: an override does not stop the store's value.
MayDeriveAnyway(f, value) ==
    column[f] = Unknown \/ (column[f] # value /\ trust <= StoreTrust)

(* The store fills a gap, and replaces another value only in a profile     *)
(* that is not trusted further than the store is.                          *)
MayDerive(f, value) ==
    /\ ruling[f] = Unknown
    /\ column[f] = Unknown \/ (column[f] # value /\ trust <= StoreTrust)

(* materialize_store_category_profile for these labels, none of them: no   *)
(* change at all.                                                          *)
DerivedColumn(said) ==
    [f \in Features |-> LET value == DerivedValue(f, said)
                        IN  IF value # Unknown /\ MayDerive(f, value) THEN value ELSE column[f]]

DerivedEvidence(said) ==
    [f \in Features |-> LET value == DerivedValue(f, said)
                        IN  IF value = Unknown THEN evidence[f]
                            ELSE Observed(evidence[f], Evidence("store_derived", value, "labels"))]

Trusted(level) == IF trust < level THEN level ELSE trust

(* ingest_store_details: platforms and labels, either of which Steam may   *)
(* leave out. Labels that were left out stay active.                       *)
StoreDetails(said, platforms) ==
    LET derived == DerivedEvidence(said)
    IN  /\ labels' = IF said = {} THEN labels ELSE [labels EXCEPT !.store = said]
        /\ evidence' = IF platforms = Unknown THEN derived
                       ELSE [derived EXCEPT !["platforms"] =
                               Observed(@, Evidence("steam_store", platforms, "details"))]
        /\ column' = [DerivedColumn(said) EXCEPT !["platforms"] =
                        IF platforms = Unknown \/ ruling["platforms"] # Unknown
                        THEN @ ELSE platforms]
        /\ trust' = IF said = {} THEN trust ELSE Trusted(StoreTrust)
        /\ UNCHANGED <<ruling, seeded>>

(* ingest_store_search_page: found by the multiplayer filter.              *)
SearchPage ==
    /\ labels' = [labels EXCEPT !.search = {"multi-player"}]
    /\ UNCHANGED <<column, trust, evidence, ruling, seeded>>

(* materialize_store_category_profiles, from whatever labels are active:   *)
(* after each page of a search, and as a command.                          *)
MaterializeAll ==
    LET said == labels.store \cup labels.search
    IN  /\ said # {}
        /\ column' = DerivedColumn(said) /\ evidence' = DerivedEvidence(said)
        /\ trust' = Trusted(StoreTrust)
        /\ UNCHANGED <<labels, ruling, seeded>>

(* restore_empty_availability_from_evidence, an operator's repair.         *)
RestoreAvailability ==
    /\ column["platforms"] = Unknown /\ evidence["platforms"] # <<>>
    /\ column' = [column EXCEPT !["platforms"] = Newest(evidence["platforms"])]
    /\ UNCHANGED <<trust, evidence, labels, ruling, seeded>>

(***************************************************************************)
(* The golden set and the curators                                         *)
(***************************************************************************)

GoldenValue(game, f) ==
    IF f = "dominant_mode" THEN game.mode
    ELSE IF f = "online_coop" THEN game.coop ELSE Unknown

(* insert_golden_evidence: a label already there under the same entry is   *)
(* not news, and then the column is left alone.                            *)
IsNews(game, f) ==
    LET value == GoldenValue(game, f)
    IN  value # Unknown
          /\ \A i \in DOMAIN evidence[f] : evidence[f][i] # Evidence("human_golden", value, game)

(* import_golden_multiplayer_profile                                       *)
ImportGolden(game) ==
    /\ evidence' = [f \in Features |->
         IF IsNews(game, f)
         THEN Observed(evidence[f], Evidence("human_golden", GoldenValue(game, f), game))
         ELSE evidence[f]]
    /\ column' = [f \in Features |->
         IF IsNews(game, f) /\ ruling[f] = Unknown THEN GoldenValue(game, f) ELSE column[f]]
    /\ trust' = Trusted(IF game.dual THEN 85 ELSE 65)
    /\ UNCHANGED <<labels, ruling, seeded>>

(* validate_override_request: each feature takes values of its own kind.   *)
Rulable(f, value) == value \in Rulings[f]

(* apply_override_to_profile                                               *)
Ruled(f, value) == [column EXCEPT ![f] = value]

(* create_override replaces the active one of the feature.                 *)
CreateOverride(f, value) ==
    /\ Rulable(f, value)
    /\ ruling' = [ruling EXCEPT ![f] = value]
    /\ column' = Ruled(f, value)
    /\ UNCHANGED <<trust, evidence, labels, seeded>>

(* recompute_feature_after_revoke: the newest evidence speaks again, or    *)
(* nobody.                                                                 *)
Recomputed(f) == Ruled(f, Newest(evidence[f]))

RevokeOverride(f) ==
    /\ ruling[f] # Unknown
    /\ ruling' = [ruling EXCEPT ![f] = Unknown]
    /\ column' = Recomputed(f)
    /\ UNCHANGED <<trust, evidence, labels, seeded>>

CurationNext ==
    \/ \E said \in Hints \cup {{}}, platforms \in Platforms \cup {Unknown} :
         StoreDetails(said, platforms)
    \/ SearchPage \/ MaterializeAll \/ RestoreAvailability
    \/ \E game \in GoldenGames : ImportGolden(game)
    \/ \E f \in Features : RevokeOverride(f) \/ \E value \in Rulings[f] : CreateOverride(f, value)

CurationSpec == CurationInit /\ [][CurationNext]_curationVars

(***************************************************************************)
(* Properties                                                              *)
(***************************************************************************)

CurationTypeOK ==
    /\ DOMAIN column = Features /\ DOMAIN evidence = Features
    /\ trust \in {0, 30, 65, 85}
    /\ \A f \in Features : ruling[f] \in Rulings[f] \cup {Unknown}

(* A column shows the curator's ruling as long as there is one, whoever    *)
(* writes in the meantime (DEVELOPMENT.md:100 says so of the golden set).  *)
(* Without one, what a profile trusted no further than the store shows is  *)
(* what some active evidence says: no value outlives its source. A golden  *)
(* entry lifts the trust of the whole profile, and from then on a column   *)
(* may keep a value whose evidence was replaced.                           *)
ProfileExplained ==
    \A f \in Features :
        /\ ruling[f] # Unknown => column[f] = ruling[f]
        /\ (ruling[f] = Unknown /\ column[f] # Unknown /\ trust <= StoreTrust)
             => \E i \in DOMAIN evidence[f] : evidence[f][i].value = column[f]
=============================================================================
