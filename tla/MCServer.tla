------------------------------ MODULE MCServer ------------------------------
(***************************************************************************)
(* Thirteen parts of the server, the worker and the database for one run   *)
(* of TLC. They share no variable, so their interleavings would show       *)
(* nothing: the initial state names the part that moves (focus), and the   *)
(* others stay in one of their initial states. The state space is the sum  *)
(* of theirs, not the product.                                             *)
(***************************************************************************)
EXTENDS Avatars, Listings, Membership, AiBudget, AiRouter, AiRank, Curation,
        Releases, Enrichment, RateLimits, CandidateSearch, Retrieval, Migrations, TLC

VARIABLE focus

(***************************************************************************)
(* Values of constants                                                     *)
(***************************************************************************)

CONSTANTS member, guest, p1, p2, p3

ModelChains == [call1 |-> <<"m1", "m2">>, call2 |-> <<"m2">>]
ResponsesFirst == <<"responses", "chat">>

RankAsks == {[who |-> member, own |-> TRUE, async |-> FALSE],
             [who |-> member, own |-> FALSE, async |-> TRUE],
             [who |-> guest, own |-> FALSE, async |-> TRUE]}
RankBases == {<<1, 2>>}
HybridLists == {<<0, 2>>}

LabelSets == {{"co-op"}, {"pvp"}, {"co-op", "pvp"}}
PlatformLists == {{"windows"}, {"windows", "linux"}}
GoldenEntries == {[mode |-> "mmo", coop |-> Unknown, dual |-> TRUE],
                  [mode |-> Unknown, coop |-> FALSE, dual |-> FALSE]}
CuratorRulings == [dominant_mode |-> {"coop", "pvp"}, online_coop |-> BOOLEAN,
                   platforms |-> {{"mac"}}]

RequestKinds == {[bucket |-> "session", identities |-> {"d1", "ip1"}, name |-> "ann"],
                 [bucket |-> "read", identities |-> {"d2", "ip1"}, name |-> "-"],
                 [bucket |-> "session", identities |-> {"ip2"}, name |-> "ann"]}
Quotas == [session |-> 1, read |-> 2, global |-> 3, login |-> 1]

ThreeReleases == [old |-> 1, new |-> 2, next |-> 3]

(* p1 and p2 are two requests, calls, tasks or processes of whichever part *)
(* moves, and may change places.                                           *)
Interchangeable == Permutations({p1, p2})

(***************************************************************************)
(* One part at a time                                                      *)
(***************************************************************************)

Parts == {"avatars", "lists", "members", "budget", "router", "ranking", "curation",
          "releases", "enrichment", "limits", "search", "retrieval", "migrations"}

(* A part that does not move starts where there is nothing to choose.      *)
ServerInit ==
    /\ focus \in Parts
    /\ AvatarInit /\ BudgetInit /\ EnrichInit /\ LimitInit /\ SearchInit
    /\ RetrievalInit /\ MigrationInit
    /\ ListInit /\ (focus = "lists" \/ list = "feed")
    /\ MemberInit /\ \/ focus = "members"
                     \/ events = {} /\ \A x \in Subjects : prefs[x].version < 2 /\ intents[x] = {}
    /\ RouterInit /\ (focus = "router" \/ registry.at = Never)
    /\ RankInit /\ (focus = "ranking" \/ mode = [x \in Users |-> "builtin"])
    /\ CurationInit /\ (focus = "curation" \/ (~seeded /\ evidence["platforms"] = <<>>))
    /\ ReleaseInit /\ (focus = "releases" \/ ~release.known)

Rest(part, vars) == IF focus = part THEN TRUE ELSE UNCHANGED vars

OthersRest ==
    /\ Rest("avatars", avatarVars) /\ Rest("lists", listVars) /\ Rest("members", memberVars)
    /\ Rest("budget", budgetVars) /\ Rest("router", routerVars) /\ Rest("ranking", rankVars)
    /\ Rest("curation", curationVars) /\ Rest("releases", releaseVars)
    /\ Rest("enrichment", enrichVars) /\ Rest("limits", limitVars)
    /\ Rest("search", searchVars) /\ Rest("retrieval", retrievalVars)
    /\ Rest("migrations", migrationVars) /\ UNCHANGED focus

ServerNext ==
    \/ focus = "avatars" /\ AvatarNext /\ OthersRest
    \/ focus = "lists" /\ ListNext /\ OthersRest
    \/ focus = "members" /\ MemberNext /\ OthersRest
    \/ focus = "budget" /\ BudgetNext /\ OthersRest
    \/ focus = "router" /\ RouterNext /\ OthersRest
    \/ focus = "ranking" /\ RankNext /\ OthersRest
    \/ focus = "curation" /\ CurationNext /\ OthersRest
    \/ focus = "releases" /\ ReleaseNext /\ OthersRest
    \/ focus = "enrichment" /\ EnrichNext /\ OthersRest
    \/ focus = "limits" /\ LimitNext /\ OthersRest
    \/ focus = "search" /\ SearchNext /\ OthersRest
    \/ focus = "retrieval" /\ RetrievalNext /\ OthersRest
    \/ focus = "migrations" /\ MigrationNext /\ OthersRest

serverVariables ==
    <<focus, avatarVars, listVars, memberVars, budgetVars, routerVars, rankVars, curationVars,
      releaseVars, enrichVars, limitVars, searchVars, retrievalVars, migrationVars>>

ServerSpec == ServerInit /\ [][ServerNext]_serverVariables

(* The part that moves is well typed, and what it writes stays in range.   *)
TypesOK ==
    CASE focus = "avatars" -> AvatarTypeOK
      [] focus = "lists" -> ListTypeOK
      [] focus = "members" -> MemberTypeOK
      [] focus = "budget" -> BudgetTypeOK
      [] focus = "router" -> RouterTypeOK
      [] focus = "ranking" -> RankTypeOK
      [] focus = "curation" -> CurationTypeOK
      [] focus = "releases" -> ReleaseTypeOK
      [] focus = "enrichment" -> EnrichTypeOK
      [] focus = "limits" -> LimitTypeOK
      [] focus = "search" -> SearchTypeOK
      [] focus = "retrieval" -> RetrievalTypeOK
      [] focus = "migrations" -> MigrationTypeOK
=============================================================================
