--------------------------- MODULE SearchAiProofs ---------------------------
(***************************************************************************)
(* Search, the model providers and the data of a game, for any games,      *)
(* providers, users, quotas, timeouts and thresholds: the collection of    *)
(* candidates, the retrieval index, the router of calls, the rankings a    *)
(* model may reorder and the budgets of a provider; then the log of        *)
(* release dates, the profiles that curators correct, and the artwork the  *)
(* store is asked for.                                                     *)
(***************************************************************************)
EXTENDS CandidateSearch, Retrieval, AiRouter, AiRank, AiBudget, Releases, Curation,
        Enrichment, CommonLemmas

-----------------------------------------------------------------------------
(* The collection of candidates                                            *)

GameSeqs == Seq(StoreGames)
AllGames == Cardinality(StoreGames)
WalkStages == {"idle", "fetch", "ingest", "save", "enough", "exhausted"}
WalkType == [stage : WalkStages, target : Nat, start : 0..AllGames, page : GameSeqs, total : Nat]

(* The first n rows of Steam's list are candidates.                        *)
Known(n) == \A i \in DOMAIN results : i <= n => results[i] \in candidates

(* The page in hand is what the list says, or the list ended before it.    *)
InHand ==
    /\ collector.total = Len(results)
    /\ collector.page = <<>> => collector.start >= Len(results)
    /\ \A i \in DOMAIN collector.page :
          /\ collector.start + i \in DOMAIN results
          /\ results[collector.start + i] = collector.page[i]

(* While the list holds still, everything before the offset is known, and  *)
(* everything before the page a walk is at.                                *)
SteadyInv ==
    /\ ~offset.complete => Known(offset.next)
    /\ collector.stage \in {"fetch", "ingest", "save"} => Known(collector.start)
    /\ collector.stage \in {"ingest", "save"} => InHand
    /\ collector.stage = "save" => ToSet(collector.page) \subseteq candidates
    /\ collector.stage = "exhausted" => ToSet(results) \subseteq candidates

SearchInv ==
    /\ results \in GameSeqs /\ Len(results) <= AllGames /\ candidates \subseteq StoreGames
    /\ offset \in [next : 0..AllGames, complete : BOOLEAN] /\ collector \in WalkType
    /\ steady \in BOOLEAN
    /\ collector.stage \in {"ingest", "save"} => NextStart <= AllGames
    /\ steady => SteadyInv

LEMMA WalkWords ==
    /\ "idle" \in WalkStages /\ "fetch" \in WalkStages /\ "ingest" \in WalkStages
    /\ "save" \in WalkStages /\ "enough" \in WalkStages /\ "exhausted" \in WalkStages
  BY DEF WalkStages

LEMMA GamesCount == AllGames \in Nat
  BY SearchAssumption, FS_CardinalityType DEF AllGames

LEMMA NoWalkFacts == NoWalk \in WalkType /\ NoWalk.stage = "idle"
  BY GamesCount, WalkWords DEF NoWalk, WalkType, GameSeqs

(* A list of distinct games of the store is no longer than the store.      *)
LEMMA ListFits ==
    ASSUME NEW games \in SUBSET StoreGames, NEW list \in [1..Cardinality(games) -> games]
    PROVE  list \in GameSeqs /\ Len(list) <= AllGames
<1>1. Cardinality(games) \in Nat /\ Cardinality(games) <= AllGames
  BY SearchAssumption, FS_Subset, FS_CardinalityType DEF AllGames
<1>2. list \in [1..Cardinality(games) -> StoreGames]
  OBVIOUS
<1> QED
  BY <1>1, <1>2 DEF GameSeqs

LEMMA SearchKept == SearchInv => SearchTypeOK /\ ExhaustedIsTrue
<1> SUFFICES ASSUME SearchInv PROVE SearchTypeOK /\ ExhaustedIsTrue
  OBVIOUS
<1>1. ToSet(results) \subseteq StoreGames
  BY DEF SearchInv, GameSeqs, ToSet
<1>2. offset.next \in 0..Cardinality(StoreGames)
  BY DEF SearchInv, AllGames
<1> QED
  BY <1>1, <1>2 DEF SearchInv, SteadyInv, SearchTypeOK, ExhaustedIsTrue

LEMMA SearchStarts == SearchInit => SearchInv
<1> SUFFICES ASSUME SearchInit PROVE SearchInv
  OBVIOUS
<1>1. results \in [1..Cardinality(StoreGames) -> StoreGames]
  <2>1. PICK f \in Bijection(1..Cardinality(StoreGames), StoreGames) : TRUE
    BY SearchAssumption, FS_CardinalityType DEF ExistsBijection
  <2>2. f \in [1..Cardinality(StoreGames) -> StoreGames] /\ IsInjective(f)
    BY <2>1 DEF Bijection, Injection, IsInjective
  <2> QED
    BY <2>2 DEF SearchInit, SetToSeq
<1>2. results \in GameSeqs /\ Len(results) <= AllGames
  BY <1>1, ListFits
<1>3. offset = [next |-> 0, complete |-> TRUE] /\ collector = NoWalk /\ candidates = {} /\ steady = TRUE
  BY DEF SearchInit
<1>4. offset \in [next : 0..AllGames, complete : BOOLEAN]
  BY <1>3, GamesCount
<1>5. SteadyInv
  BY <1>3, NoWalkFacts DEF SteadyInv
<1> QED
  BY <1>2, <1>3, <1>4, <1>5, NoWalkFacts DEF SearchInv

LEMMA ShuffleInv ==
    ASSUME SearchInv, NEW list \in StoreLists, Shuffle(list)
    PROVE  SearchInv'
<1>1. PICK games \in SUBSET StoreGames : list \in SetToSeqs(games)
  BY DEF StoreLists
<1>2. list \in [1..Cardinality(games) -> games]
  BY <1>1 DEF SetToSeqs
<1>3. list \in GameSeqs /\ Len(list) <= AllGames
  BY <1>2, ListFits
<1>4. results' = list /\ steady' = FALSE /\ UNCHANGED <<candidates, offset, collector>>
  BY DEF Shuffle
<1> QED
  BY <1>3, <1>4 DEF SearchInv, NextStart

LEMMA BeginCollectingInv ==
    ASSUME SearchInv, NEW target \in Wanted, BeginCollecting(target)
    PROVE  SearchInv'
<1>0. target \in Nat /\ offset.next \in 0..AllGames
  BY SearchAssumption DEF SearchInv
<1>1. PICK start \in 0..AllGames : start = IF offset.complete THEN 0 ELSE offset.next
  BY <1>0, GamesCount
<1>2. PICK k : k = [NoWalk EXCEPT !.stage = "fetch", !.target = target, !.start = start]
  OBVIOUS
<1>3. collector' = k /\ UNCHANGED <<results, candidates, offset, steady>>
  BY <1>1, <1>2 DEF BeginCollecting
<1>4. k \in WalkType /\ k.stage = "fetch" /\ k.start = start
  BY <1>0, <1>2, NoWalkFacts, WalkWords DEF WalkType, NoWalk, GameSeqs
<1>5. ASSUME steady PROVE SteadyInv'
  <2>1. ~offset.complete => Known(offset.next)
    BY <1>5 DEF SearchInv, SteadyInv
  <2>2. \A i \in DOMAIN results : ~(i <= 0)
    BY DEF SearchInv, GameSeqs
  <2>3. Known(start)
    <3>1. CASE offset.complete
      BY <1>1, <2>2, <3>1 DEF Known
    <3>2. CASE ~offset.complete
      BY <1>1, <2>1, <3>2
    <3> QED
      BY <3>1, <3>2
  <2>4. (~offset.complete => Known(offset.next))' /\ Known(collector.start)'
    BY <1>3, <1>4, <2>1, <2>3 DEF Known
  <2> QED
    BY <1>3, <1>4, <2>4 DEF SteadyInv
<1> QED
  BY <1>3, <1>4, <1>5 DEF SearchInv

LEMMA FetchPageInv ==
    ASSUME SearchInv, NEW rows \in 0..PageRows, FetchPage(rows)
    PROVE  SearchInv'
<1> DEFINE start == collector.start
<1>0. /\ rows \in Nat /\ start \in 0..AllGames /\ collector \in WalkType /\ results \in GameSeqs
      /\ Len(results) \in Nat /\ DOMAIN results = 1..Len(results) /\ Len(results) <= AllGames
  BY SearchAssumption DEF SearchInv, WalkType, GameSeqs
<1>1. PICK page : page = IF rows = 0 THEN <<>> ELSE SubSeq(results, start + 1, start + rows)
  OBVIOUS
<1>2. /\ collector.stage = "fetch" /\ Parses(rows)
      /\ collector' = [collector EXCEPT !.stage = "ingest", !.page = page, !.total = Len(results)]
      /\ UNCHANGED <<results, candidates, offset, steady>>
  BY <1>1 DEF FetchPage
<1>3. /\ page \in GameSeqs /\ Len(page) = rows /\ DOMAIN page = 1..rows
      /\ \A i \in 1..rows : start + i \in DOMAIN results /\ results[start + i] = page[i]
  <2>1. CASE rows = 0
    BY <1>1, <2>1 DEF GameSeqs
  <2>2. CASE rows # 0
    <3>1. start + rows <= Len(results) /\ start + 1 \in 1..Len(results) /\ start \in Int
      BY <1>0, <1>2, <2>2 DEF Parses
    <3>2. PICK m \in Int : m = start + 1
      BY <1>0
    <3>3. PICK n \in Int : n = start + rows
      BY <1>0
    <3>4. \A i \in m..n : results[i] \in StoreGames
      BY <1>0, <3>1, <3>2, <3>3 DEF GameSeqs
    <3>5. /\ SubSeq(results, m, n) \in Seq(StoreGames)
          /\ Len(SubSeq(results, m, n)) = IF m <= n THEN n - m + 1 ELSE 0
          /\ \A i \in 1..(n - m + 1) : SubSeq(results, m, n)[i] = results[m + i - 1]
      BY <3>4, SubSeqProperties
    <3>10. page = SubSeq(results, m, n)
      BY <1>1, <2>2, <3>2, <3>3
    <3>11. rows \in Nat /\ rows # 0 /\ start \in Int
      BY <1>0, <2>2
    <3>12. n - m + 1 = rows /\ m <= n
      BY <3>2, <3>3, <3>11
    <3>6. page = SubSeq(results, m, n) /\ n - m + 1 = rows /\ m <= n
      BY <3>10, <3>12
    <3>7. page \in Seq(StoreGames) /\ Len(page) = rows
      BY <3>5, <3>6
    <3>8. \A i \in 1..rows : m + i - 1 = start + i /\ start + i \in DOMAIN results
      BY <1>0, <3>1, <3>2
    <3>9. \A i \in 1..rows : page[i] = results[start + i]
      BY <3>5, <3>6, <3>8
    <3> QED
      BY <3>7, <3>8, <3>9 DEF GameSeqs
  <2> QED
    BY <2>1, <2>2
<1>5. /\ collector' \in WalkType /\ collector'.stage = "ingest" /\ collector'.page = page
      /\ collector'.total = Len(results) /\ collector'.start = start
  BY <1>0, <1>2, <1>3, WalkWords DEF WalkType
<1>6. start + rows <= AllGames
  BY <1>0, <1>2, GamesCount DEF Parses
<1>7. ASSUME steady PROVE SteadyInv'
  <2>1. Known(start) /\ (~offset.complete => Known(offset.next))
    BY <1>2, <1>7 DEF SearchInv, SteadyInv
  <2>2. Known(collector.start)' /\ (~offset.complete => Known(offset.next))'
    BY <1>2, <1>5, <2>1 DEF Known
  <2>3. page = <<>> => start >= Len(results)
    BY <1>0, <1>2, <1>3 DEF Parses
  <2>4. InHand'
    BY <1>2, <1>3, <1>5, <2>3 DEF InHand
  <2> QED
    BY <1>5, <2>2, <2>4 DEF SteadyInv
<1> QED
  BY <1>2, <1>3, <1>5, <1>6, <1>7 DEF SearchInv, NextStart

LEMMA IngestPageInv == SearchInv /\ IngestPage => SearchInv'
<1> SUFFICES ASSUME SearchInv, IngestPage PROVE SearchInv'
  OBVIOUS
<1>1. /\ collector.stage = "ingest" /\ candidates' = candidates \cup ToSet(collector.page)
      /\ collector' = [collector EXCEPT !.stage = "save"]
      /\ UNCHANGED <<results, offset, steady>>
  BY DEF IngestPage
<1>2. /\ collector' \in WalkType /\ collector'.stage = "save" /\ collector'.page = collector.page
      /\ collector'.total = collector.total /\ collector'.start = collector.start
  BY <1>1, WalkWords DEF SearchInv, WalkType
<1>3. candidates' \subseteq StoreGames
  BY <1>1 DEF SearchInv, WalkType, GameSeqs, ToSet
<1>4. ASSUME steady PROVE SteadyInv'
  <2>1. Known(collector.start) /\ InHand /\ (~offset.complete => Known(offset.next))
    BY <1>1, <1>4 DEF SearchInv, SteadyInv
  <2>2. (~offset.complete => Known(offset.next))' /\ Known(collector.start)'
    BY <1>1, <1>2, <2>1 DEF Known
  <2>3. InHand'
    BY <1>1, <1>2, <2>1 DEF InHand
  <2>4. ToSet(collector'.page) \subseteq candidates'
    BY <1>1, <1>2
  <2> QED
    BY <1>2, <2>2, <2>3, <2>4 DEF SteadyInv
<1> QED
  BY <1>1, <1>2, <1>3, <1>4 DEF SearchInv, NextStart

LEMMA SaveOffsetInv == SearchInv /\ SaveOffset => SearchInv'
<1> SUFFICES ASSUME SearchInv, SaveOffset PROVE SearchInv'
  OBVIOUS
<1> DEFINE goesOn == ~Reached(collector.target) /\ ~EndsHere
<1>1. /\ collector.stage = "save" /\ offset' = [next |-> NextStart, complete |-> EndsHere]
      /\ goesOn => collector' = [collector EXCEPT !.stage = "fetch", !.start = NextStart]
      /\ ~goesOn => collector' = [collector EXCEPT !.stage = IF Reached(collector.target)
                                                             THEN "enough" ELSE "exhausted"]
      /\ UNCHANGED <<results, candidates, steady>>
  BY DEF SaveOffset
<1>2. /\ collector \in WalkType /\ NextStart \in 0..AllGames /\ EndsHere \in BOOLEAN
      /\ Len(results) \in Nat /\ Len(collector.page) \in Nat /\ collector.start \in Nat
      /\ DOMAIN collector.page = 1..Len(collector.page) /\ DOMAIN results = 1..Len(results)
  <2>1. /\ collector \in WalkType /\ NextStart <= AllGames /\ results \in GameSeqs
    BY <1>1 DEF SearchInv
  <2>2. /\ Len(collector.page) \in Nat /\ collector.start \in Nat
        /\ DOMAIN collector.page = 1..Len(collector.page)
    BY <2>1, GamesCount DEF WalkType, GameSeqs
  <2>3. NextStart \in 0..AllGames
    BY <2>1, <2>2, GamesCount DEF NextStart
  <2> QED
    BY <2>1, <2>2, <2>3 DEF EndsHere, GameSeqs
<1>3. offset' \in [next : 0..AllGames, complete : BOOLEAN]
  BY <1>1, <1>2
<1>4. ASSUME steady PROVE Known(NextStart) /\ (EndsHere => ToSet(results) \subseteq candidates)
  <2>1. /\ Known(collector.start) /\ InHand /\ ToSet(collector.page) \subseteq candidates
    BY <1>1, <1>4 DEF SearchInv, SteadyInv
  <2>2. ASSUME NEW i \in DOMAIN results, i <= NextStart PROVE results[i] \in candidates
    <3>1. CASE i <= collector.start
      BY <3>1, <2>1 DEF Known
    <3>2. CASE ~(i <= collector.start)
      <4>1. i - collector.start \in DOMAIN collector.page
        BY <1>2, <2>2, <3>2 DEF NextStart
      <4>2. collector.page[i - collector.start] \in candidates
        BY <2>1, <4>1 DEF ToSet
      <4>3. collector.start + (i - collector.start) = i
        BY <1>2
      <4> QED
        BY <2>1, <4>1, <4>2, <4>3 DEF InHand
    <3> QED
      BY <3>1, <3>2
  <2>3. ASSUME EndsHere PROVE Len(results) <= NextStart
    BY <1>2, <2>1, <2>3 DEF EndsHere, InHand, NextStart
  <2> QED
    BY <1>2, <2>2, <2>3 DEF Known, ToSet
<1>5. CASE goesOn
  <2>1. collector' = [collector EXCEPT !.stage = "fetch", !.start = NextStart]
    BY <1>1, <1>5
  <2>2. collector' \in WalkType /\ collector'.stage = "fetch" /\ collector'.start = NextStart
    BY <1>2, <2>1, WalkWords DEF WalkType
  <2>3. ASSUME steady PROVE SteadyInv'
    <3>1. (~offset.complete => Known(offset.next))' /\ Known(collector.start)'
      BY <1>1, <1>4, <2>2, <2>3 DEF Known
    <3> QED
      BY <2>2, <3>1 DEF SteadyInv
  <2> QED
    BY <1>1, <1>3, <2>2, <2>3 DEF SearchInv
<1>6. CASE ~goesOn
  <2>1. PICK stage \in WalkStages : stage = IF Reached(collector.target) THEN "enough" ELSE "exhausted"
    BY WalkWords
  <2>2. collector' = [collector EXCEPT !.stage = stage]
    BY <1>1, <1>6, <2>1
  <2>3. collector' \in WalkType /\ collector'.stage = stage
    BY <1>2, <2>2 DEF WalkType
  <2>4. stage # "fetch" /\ stage # "ingest" /\ stage # "save" /\ (stage = "exhausted" => EndsHere)
    BY <1>6, <2>1
  <2>5. ASSUME steady PROVE SteadyInv'
    <3>1. (~offset.complete => Known(offset.next))'
      BY <1>1, <1>4, <2>5 DEF Known
    <3> QED
      BY <1>1, <1>4, <2>3, <2>4, <2>5, <3>1 DEF SteadyInv
  <2> QED
    BY <1>1, <1>3, <2>3, <2>4, <2>5 DEF SearchInv
<1> QED
  BY <1>5, <1>6

(* A walk that is over or given up leaves the offset behind.               *)
LEMMA WalkEnds ==
    ASSUME SearchInv, collector' = NoWalk, UNCHANGED <<results, candidates, offset>>,
           steady' \in BOOLEAN, steady' => steady \/ offset.complete
    PROVE  SearchInv'
<1>1. ASSUME steady' PROVE SteadyInv'
  <2>1. ~offset.complete => Known(offset.next)
    BY <1>1 DEF SearchInv, SteadyInv
  <2>2. (~offset.complete => Known(offset.next))'
    BY <2>1 DEF Known
  <2> QED
    BY <2>2, NoWalkFacts DEF SteadyInv
<1> QED
  BY <1>1, NoWalkFacts DEF SearchInv

LEMMA SearchNextInv == SearchInv /\ [SearchNext]_searchVars => SearchInv'
<1> SUFFICES ASSUME SearchInv, [SearchNext]_searchVars PROVE SearchInv'
  OBVIOUS
<1>1. ASSUME NEW list \in StoreLists, Shuffle(list) PROVE SearchInv'
  BY <1>1, ShuffleInv
<1>2. ASSUME NEW target \in Wanted, BeginCollecting(target) PROVE SearchInv'
  BY <1>2, BeginCollectingInv
<1>3. ASSUME NEW rows \in 0..PageRows, FetchPage(rows) PROVE SearchInv'
  BY <1>3, FetchPageInv
<1>4. CASE IngestPage \/ SaveOffset
  BY <1>4, IngestPageInv, SaveOffsetInv
<1>5. CASE CloseRun
  <2>1. steady' \in BOOLEAN /\ (steady' => steady \/ offset.complete)
    BY <1>5 DEF CloseRun, SearchInv
  <2> QED
    BY <1>5, <2>1, WalkEnds DEF CloseRun
<1>6. CASE AbortWalk
  <2>1. steady' \in BOOLEAN /\ (steady' => steady \/ offset.complete)
    BY <1>6 DEF AbortWalk, SearchInv
  <2> QED
    BY <1>6, <2>1, WalkEnds DEF AbortWalk
<1>7. CASE UNCHANGED searchVars
  BY <1>7 DEF searchVars, SearchInv, SteadyInv, InHand, Known, NextStart
<1> QED
  BY <1>1, <1>2, <1>3, <1>4, <1>5, <1>6, <1>7 DEF SearchNext

LEMMA SearchInvariant == SearchSpec => []SearchInv
  BY SearchStarts, SearchNextInv, PTL DEF SearchSpec

(* When a walk says the search is exhausted and Steam's list held still    *)
(* since it was last walked to its end, every game on it is a candidate.   *)
THEOREM ExhaustionIsTrue == SearchSpec => []ExhaustedIsTrue
  BY SearchInvariant, SearchKept, PTL

(* The offset never leaves the list, and what is collected is the store's. *)
THEOREM SearchTypesHold == SearchSpec => []SearchTypeOK
  BY SearchInvariant, SearchKept, PTL

-----------------------------------------------------------------------------
(* The retrieval index                                                     *)

SomeText == Texts \cup {NoText}
SourceType == [profile : Texts, summary : SomeText]
Deeds == {"prune", "write", "embed"}
Steps == [do : Deeds, doc : Docs, text : SomeText]
StepLists == Seq(Steps)
SyncType == [todo : StepLists, embeds : BOOLEAN, fresh : BOOLEAN, scanned : SUBSET Entries]

(* Only a summary is pruned, and nothing is written without a text.        *)
StepOK(step) ==
    /\ step.do = "prune" => step.doc[2] = "summary"
    /\ step.do # "prune" => step.text \in Texts

(* The step says what the catalog says.                                    *)
Agrees(step) == step.text = source[step.doc[1]][step.doc[2]]

(* The index is right about a document, or T has the steps that make it so.*)
Coming(T, doc, text) ==
    IF text = NoText
    THEN doc \notin DOMAIN docs \/ Step("prune", doc, text) \in T
    ELSE /\ Has(doc, text) \/ Step("write", doc, text) \in T
         /\ Vector(doc, Local, text) \in vectors \/ Step("embed", doc, text) \in T

TextsOK ==
    /\ source \in [Entries -> SourceType]
    /\ DOMAIN docs \subseteq Docs /\ \A d \in DOMAIN docs : docs[d] \in Texts
    /\ \A v \in vectors : v.doc \in DOMAIN docs

SyncsOK ==
    /\ sync \in [Syncers -> SyncType] /\ current \subseteq Entries
    /\ \A w \in Syncers : \A step \in ToSet(sync[w].todo) : StepOK(step)

(* Whoever runs unovertaken does not run beside one that was overtaken.    *)
OneFreshness ==
    \A v, w \in Syncers : Running(v) /\ Running(w) /\ sync[v].fresh => sync[w].fresh

StepsAgree ==
    \A w \in Syncers : \A step \in ToSet(sync[w].todo) :
        (Running(w) /\ sync[w].fresh) \/ step.doc[1] \in current => Agrees(step)

(* Games that are synchronised, and those that will be when w is through.  *)
AllComing ==
    /\ \A a \in current, kind \in DocKinds : Coming({}, <<a, kind>>, source[a][kind])
    /\ \A w \in Syncers : Running(w) /\ sync[w].fresh /\ sync[w].embeds =>
         \A a \in sync[w].scanned, kind \in DocKinds :
            Coming(ToSet(sync[w].todo), <<a, kind>>, source[a][kind])

RetrievalInv == TextsOK /\ SyncsOK /\ OneFreshness /\ StepsAgree /\ AllComing

LEMMA RetrievalKept == RetrievalInv => RetrievalTypeOK /\ IndexFollowsCatalog
<1> SUFFICES ASSUME RetrievalInv PROVE RetrievalTypeOK /\ IndexFollowsCatalog
  OBVIOUS
<1>1. RetrievalTypeOK
  BY DEF RetrievalInv, TextsOK, SyncsOK, RetrievalTypeOK
<1>2. ASSUME NEW a \in current
      PROVE  /\ \A kind \in DocKinds :
                  IF source[a][kind] = NoText
                  THEN <<a, kind>> \notin DOMAIN docs
                  ELSE \E v \in Served : v = Vector(<<a, kind>>, Local, source[a][kind])
             /\ \A text \in Texts :
                  /\ a \in FullTextHits(text) <=> \E kind \in DocKinds : source[a][kind] = text
                  /\ a \in HybridHits(text, Local)
  <2>1. \A kind \in DocKinds : Coming({}, <<a, kind>>, source[a][kind])
    BY DEF RetrievalInv, AllComing
  <2>2. ASSUME NEW kind \in DocKinds
        PROVE  /\ source[a][kind] = NoText => <<a, kind>> \notin DOMAIN docs
               /\ source[a][kind] # NoText => /\ Has(<<a, kind>>, source[a][kind])
                                              /\ Vector(<<a, kind>>, Local, source[a][kind]) \in vectors
    BY <2>1 DEF Coming
  <2>3. ASSUME NEW kind \in DocKinds, source[a][kind] # NoText
        PROVE  Vector(<<a, kind>>, Local, source[a][kind]) \in Served
    BY <2>2, <2>3 DEF Served, Vector
  <2>4. ASSUME NEW text \in Texts
        PROVE  a \in FullTextHits(text) <=> \E kind \in DocKinds : source[a][kind] = text
    <3>1. ASSUME NEW d \in DOMAIN docs, docs[d] = text, d[1] = a
          PROVE  \E kind \in DocKinds : source[a][kind] = text
      <4>1. PICK kind \in DocKinds : d = <<a, kind>>
        BY <3>1 DEF RetrievalInv, TextsOK, Docs
      <4> QED
        BY <2>2, <3>1, <4>1 DEF Has
    <3>2. ASSUME NEW kind \in DocKinds, source[a][kind] = text
          PROVE  \E d \in DOMAIN docs : docs[d] = text /\ d[1] = a
      <4>1. source[a][kind] # NoText
        BY <3>2, RetrievalAssumption
      <4>2. Has(<<a, kind>>, text)
        BY <2>2, <3>2, <4>1
      <4> QED
        BY <4>2 DEF Has
    <3> QED
      BY <3>1, <3>2 DEF FullTextHits
  <2>5. \A text : a \in HybridHits(text, Local)
    <3>1. a \in Entries /\ "profile" \in DocKinds
      BY DEF RetrievalInv, SyncsOK, DocKinds
    <3>2. source[a]["profile"] # NoText
      BY <3>1, RetrievalAssumption DEF RetrievalInv, TextsOK, SourceType
    <3>3. Vector(<<a, "profile">>, Local, source[a]["profile"]) \in Served
      BY <2>3, <3>1, <3>2
    <3> QED
      BY <3>3 DEF HybridHits, Vector
  <2> QED
    BY <2>2, <2>3, <2>4, <2>5
<1> QED
  BY <1>1, <1>2 DEF IndexFollowsCatalog

LEMMA NoSyncFacts == NoSync \in SyncType /\ NoSync.todo = <<>> /\ ToSet(<<>>) = {}
  BY DEF NoSync, SyncType, StepLists, ToSet

LEMMA RetrievalStarts == RetrievalInit => RetrievalInv
<1> SUFFICES ASSUME RetrievalInit PROVE RetrievalInv
  OBVIOUS
<1>1. /\ source \in [Entries -> [profile : {CHOOSE t \in Texts : TRUE}, summary : {NoText}]]
      /\ docs = [d \in {} |-> NoText] /\ vectors = {} /\ current = {}
      /\ sync = [w \in Syncers |-> NoSync]
  BY DEF RetrievalInit
<1>2. source \in [Entries -> SourceType]
  <2>1. (CHOOSE t \in Texts : TRUE) \in Texts
    BY RetrievalAssumption
  <2>2. \A s \in [profile : {CHOOSE t \in Texts : TRUE}, summary : {NoText}] : s \in SourceType
    BY <2>1 DEF SourceType, SomeText
  <2> QED
    BY <1>1, <2>2
<1>3. TextsOK
  BY <1>1, <1>2 DEF TextsOK
<1>4. \A w \in Syncers : sync[w] \in SyncType /\ sync[w].todo = <<>> /\ ~Running(w)
  BY <1>1, NoSyncFacts DEF Running
<1>5. SyncsOK
  BY <1>1, <1>4, NoSyncFacts DEF SyncsOK
<1> QED
  BY <1>1, <1>3, <1>4, <1>5, NoSyncFacts DEF RetrievalInv, OneFreshness, StepsAgree, AllComing

(***************************************************************************)
(* One step of a synchronisation                                           *)
(***************************************************************************)

Happens(step) == docs' = DocOutcome(step)[1] /\ vectors' = DocOutcome(step)[2]

LEMMA StepCases ==
    ASSUME NEW step \in Steps, Happens(step)
    PROVE  \/ /\ step.do = "prune"
              /\ \/ step.text # NoText /\ docs' = docs /\ vectors' = vectors
                 \/ /\ step.text = NoText
                    /\ docs' = [d \in DOMAIN docs \ {step.doc} |-> docs[d]]
                    /\ vectors' = {v \in vectors : v.doc # step.doc}
           \/ /\ step.do = "write"
              /\ \/ Has(step.doc, step.text) /\ docs' = docs /\ vectors' = vectors
                 \/ /\ docs' = [d \in DOMAIN docs \cup {step.doc} |->
                                   IF d = step.doc THEN step.text ELSE docs[d]]
                    /\ vectors' = {v \in vectors : v.doc = step.doc => v.text = step.text}
           \/ /\ step.do = "embed" /\ docs' = docs
              /\ vectors' = vectors \cup {Vector(step.doc, Local, step.text)}
<1>1. step.do \in {"prune", "write", "embed"}
  BY DEF Steps, Deeds
<1>2. CASE step.do = "prune"
  BY <1>2 DEF Happens, DocOutcome, Pruned
<1>3. CASE step.do = "write"
  BY <1>3 DEF Happens, DocOutcome, Written
<1>4. CASE step.do = "embed"
  BY <1>4 DEF Happens, DocOutcome, Embedded
<1> QED
  BY <1>1, <1>2, <1>3, <1>4

(* A step keeps the texts well typed.                                      *)
LEMMA StepTexts ==
    ASSUME TextsOK, NEW step \in Steps, StepOK(step), Happens(step),
           step.do = "embed" => step.doc \in DOMAIN docs, UNCHANGED source
    PROVE  TextsOK'
<1>1. step.doc \in Docs /\ step.do \in {"prune", "write", "embed"}
  BY DEF Steps, Deeds
<1>2. CASE docs' = docs /\ vectors' = vectors
  BY <1>2 DEF TextsOK
<1>3. CASE /\ docs' = [d \in DOMAIN docs \ {step.doc} |-> docs[d]]
           /\ vectors' = {v \in vectors : v.doc # step.doc}
  BY <1>3 DEF TextsOK
<1>4. CASE /\ docs' = [d \in DOMAIN docs \cup {step.doc} |->
                          IF d = step.doc THEN step.text ELSE docs[d]]
           /\ vectors' = {v \in vectors : v.doc = step.doc => v.text = step.text}
           /\ step.do = "write"
  BY <1>1, <1>4 DEF TextsOK, StepOK
<1>5. CASE /\ docs' = docs /\ step.do = "embed"
           /\ vectors' = vectors \cup {Vector(step.doc, Local, step.text)}
  BY <1>5 DEF TextsOK, Vector
<1> QED
  BY <1>2, <1>3, <1>4, <1>5, StepCases

(* A step that agrees with the catalog on a document brings it nearer, and *)
(* one about another document leaves it alone.                             *)
LEMMA StepComes ==
    ASSUME NEW step \in Steps, StepOK(step), Happens(step),
           NEW doc, NEW text, step.doc = doc => step.text = text,
           NEW T, NEW T2, T \subseteq T2 \cup {step}, Coming(T, doc, text)
    PROVE  Coming(T2, doc, text)'
<1>1. step.do \in {"prune", "write", "embed"} /\ step = Step(step.do, step.doc, step.text)
  BY DEF Steps, Deeds, Step
<1>2. CASE text = NoText
  <2>1. doc \notin DOMAIN docs \/ Step("prune", doc, text) \in T
    BY <1>2 DEF Coming
  <2>2. CASE Step("prune", doc, text) \in T2
    BY <1>2, <2>2 DEF Coming
  <2>3. CASE Step("prune", doc, text) = step
    <3>1. step.do = "prune" /\ step.doc = doc /\ step.text = NoText
      BY <1>2, <2>3 DEF Step
    <3>2. docs' = [d \in DOMAIN docs \ {step.doc} |-> docs[d]]
      BY <3>1, StepCases
    <3> QED
      BY <1>2, <3>1, <3>2 DEF Coming
  <2>4. CASE doc \notin DOMAIN docs
    <3>1. step.doc = doc => step.do = "prune"
      BY <1>1, <1>2, RetrievalAssumption DEF StepOK
    <3>2. doc \notin DOMAIN docs'
      <4>1. CASE docs' = docs
        BY <2>4, <4>1
      <4>2. CASE docs' = [d \in DOMAIN docs \ {step.doc} |-> docs[d]]
        BY <2>4, <4>2
      <4>3. CASE /\ step.do = "write"
                 /\ docs' = [d \in DOMAIN docs \cup {step.doc} |->
                               IF d = step.doc THEN step.text ELSE docs[d]]
        BY <2>4, <3>1, <4>3
      <4> QED
        BY <4>1, <4>2, <4>3, StepCases
    <3> QED
      BY <1>2, <3>2 DEF Coming
  <2> QED
    BY <2>1, <2>2, <2>3, <2>4
<1>3. CASE text # NoText
  <2>1. /\ Has(doc, text) \/ Step("write", doc, text) \in T
        /\ Vector(doc, Local, text) \in vectors \/ Step("embed", doc, text) \in T
    BY <1>3 DEF Coming
  <2>2. ASSUME Has(doc, text) PROVE Has(doc, text)'
    <3>1. CASE docs' = docs
      BY <2>2, <3>1 DEF Has
    <3>2. CASE step.text = NoText /\ docs' = [d \in DOMAIN docs \ {step.doc} |-> docs[d]]
      BY <1>3, <2>2, <3>2 DEF Has
    <3>3. CASE docs' = [d \in DOMAIN docs \cup {step.doc} |->
                          IF d = step.doc THEN step.text ELSE docs[d]]
      BY <2>2, <3>3 DEF Has
    <3> QED
      BY <3>1, <3>2, <3>3, StepCases
  <2>3. ASSUME Step("write", doc, text) = step PROVE Has(doc, text)'
    <3>1. step.do = "write" /\ step.doc = doc /\ step.text = text
      BY <2>3 DEF Step
    <3>2. CASE Has(doc, text) /\ docs' = docs
      BY <3>2 DEF Has
    <3>3. CASE docs' = [d \in DOMAIN docs \cup {step.doc} |->
                          IF d = step.doc THEN step.text ELSE docs[d]]
      BY <3>1, <3>3 DEF Has
    <3> QED
      BY <3>1, <3>2, <3>3, StepCases
  <2>4. ASSUME Vector(doc, Local, text) \in vectors PROVE Vector(doc, Local, text) \in vectors'
    <3>1. PICK v : v = Vector(doc, Local, text)
      OBVIOUS
    <3>2. v.doc = doc /\ v.text = text /\ v \in vectors
      BY <2>4, <3>1 DEF Vector
    <3>3. step.doc = doc => step.text # NoText
      BY <1>3
    <3>4. v \in vectors'
      BY <3>2, <3>3, StepCases
    <3> QED
      BY <3>1, <3>4
  <2>5. ASSUME Step("embed", doc, text) = step PROVE Vector(doc, Local, text) \in vectors'
    <3>1. step.do = "embed" /\ step.doc = doc /\ step.text = text
      BY <2>5 DEF Step
    <3>2. vectors' = vectors \cup {Vector(step.doc, Local, step.text)}
      BY <3>1, StepCases
    <3> QED
      BY <3>1, <3>2
  <2>6. Has(doc, text)' \/ Step("write", doc, text) \in T2
    BY <2>1, <2>2, <2>3
  <2>7. Vector(doc, Local, text) \in vectors' \/ Step("embed", doc, text) \in T2
    BY <2>1, <2>4, <2>5
  <2> QED
    BY <1>3, <2>6, <2>7 DEF Coming
<1> QED
  BY <1>2, <1>3

LEMMA EditSourceInv ==
    ASSUME RetrievalInv, NEW a \in Entries, NEW kind \in DocKinds, NEW text \in SomeText,
           EditSource(a, kind, text)
    PROVE  RetrievalInv'
<1>1. /\ kind = "profile" => text # NoText
      /\ source' = [source EXCEPT ![a][kind] = text]
      /\ sync' = [w \in Syncers |-> [sync[w] EXCEPT !.fresh = FALSE]]
      /\ current' = current \ {a}
      /\ docs' = docs /\ vectors' = vectors
  BY DEF EditSource
<1>2. \A b \in Entries : source[b] \in SourceType
  BY DEF RetrievalInv, TextsOK
<1>3. source' \in [Entries -> SourceType]
  <2>1. [source[a] EXCEPT ![kind] = text] \in SourceType
    <3>1. CASE kind = "profile"
      BY <1>1, <1>2, <3>1 DEF SourceType, SomeText
    <3>2. CASE kind = "summary"
      BY <1>1, <1>2, <3>2 DEF SourceType, SomeText
    <3> QED
      BY <3>1, <3>2 DEF DocKinds
  <2> QED
    BY <1>1, <2>1 DEF RetrievalInv, TextsOK
<1>4. \A b \in Entries : b # a => source'[b] = source[b]
  BY <1>1 DEF RetrievalInv, TextsOK
<1>5. ASSUME NEW w \in Syncers
      PROVE  /\ sync'[w] \in SyncType /\ sync'[w].todo = sync[w].todo /\ ~sync'[w].fresh
             /\ Running(w)' <=> Running(w)
  <2>1. sync[w] \in SyncType /\ sync'[w] = [sync[w] EXCEPT !.fresh = FALSE]
    BY <1>1 DEF RetrievalInv, SyncsOK
  <2> QED
    BY <2>1 DEF SyncType, Running
<1>6. TextsOK'
  BY <1>1, <1>3 DEF RetrievalInv, TextsOK
<1>7. SyncsOK'
  <2>1. \A w \in Syncers : sync'[w] \in SyncType
    BY <1>5
  <2>2. sync' \in [Syncers -> SyncType]
    BY <1>1, <2>1
  <2> QED
    BY <1>1, <1>5, <2>2 DEF RetrievalInv, SyncsOK, StepOK
<1>8. OneFreshness'
  BY <1>5 DEF OneFreshness
<1>9. StepsAgree'
  <2>1. ASSUME NEW w \in Syncers, NEW step \in ToSet(sync'[w].todo), step.doc[1] \in current'
        PROVE  Agrees(step)'
    <3>1. step \in ToSet(sync[w].todo) /\ step.doc[1] \in current /\ step.doc[1] # a
      BY <1>1, <1>5, <2>1
    <3>2. step.doc[1] \in Entries /\ Agrees(step)
      BY <3>1 DEF RetrievalInv, StepsAgree, SyncsOK
    <3> QED
      BY <1>4, <3>1, <3>2 DEF Agrees
  <2> QED
    BY <1>5, <2>1 DEF StepsAgree
<1>10. AllComing'
  <2>1. ASSUME NEW b \in current', NEW k \in DocKinds
        PROVE  Coming({}, <<b, k>>, source[b][k])' 
    <3>1. b \in current /\ b # a /\ b \in Entries
      BY <1>1, <2>1 DEF RetrievalInv, SyncsOK
    <3>2. Coming({}, <<b, k>>, source[b][k])
      BY <3>1 DEF RetrievalInv, AllComing
    <3> QED
      BY <1>1, <1>4, <3>1, <3>2 DEF Coming, Has
  <2> QED
    BY <1>5, <2>1 DEF AllComing
<1> QED
  BY <1>6, <1>7, <1>8, <1>9, <1>10 DEF RetrievalInv

LEMMA HeadTail ==
    ASSUME NEW S, NEW s \in Seq(S), s # <<>>
    PROVE  /\ Head(s) \in S /\ Tail(s) \in Seq(S)
           /\ \A x : x \in ToSet(s) <=> x = Head(s) \/ x \in ToSet(Tail(s))
<1>1. PICK t : t = Tail(s)
  OBVIOUS
<1>2. /\ Len(s) \in Nat /\ Len(s) # 0 /\ DOMAIN s = 1..Len(s)
      /\ Len(t) = Len(s) - 1 /\ DOMAIN t = 1..(Len(s) - 1)
      /\ Head(s) = s[1] /\ t \in Seq(S)
  BY <1>1
<1>3. \A i \in DOMAIN t : i + 1 \in DOMAIN s /\ t[i] = s[i + 1]
  BY <1>1, <1>2
<1>4. \A i \in DOMAIN s : i = 1 \/ (i - 1 \in DOMAIN t /\ t[i - 1] = s[i])
  BY <1>1, <1>2
<1>5. 1 \in DOMAIN s
  BY <1>2
<1>6. ASSUME NEW x PROVE x \in ToSet(s) <=> x = Head(s) \/ x \in ToSet(t)
  BY <1>2, <1>3, <1>4, <1>5 DEF ToSet
<1> QED
  BY <1>1, <1>2, <1>6

LEMMA SyncStepInv ==
    ASSUME RetrievalInv, NEW w \in Syncers, SyncStep(w)
    PROVE  RetrievalInv'
<1>1. PICK step : step = Head(sync[w].todo)
  OBVIOUS
<1>2. PICK rest : rest = Tail(sync[w].todo)
  OBVIOUS
<1>3. PICK fails \in BOOLEAN : fails <=> step.do = "embed" /\ step.doc \notin DOMAIN docs
  OBVIOUS
<1>4. /\ sync[w].todo # <<>> /\ Running(w) /\ source' = source
      /\ fails => docs' = docs /\ vectors' = vectors /\ current' = current
      /\ ~fails => Happens(step)
      /\ sync' = [sync EXCEPT ![w] = IF fails THEN NoSync ELSE [sync[w] EXCEPT !.todo = rest]]
      /\ current' = IF rest = <<>> /\ ~fails /\ sync[w].fresh /\ sync[w].embeds
                    THEN current \cup sync[w].scanned ELSE current
  BY <1>1, <1>2, <1>3 DEF SyncStep, Running, Happens
<1>5. sync[w] \in SyncType /\ sync[w].todo \in StepLists
  BY DEF RetrievalInv, SyncsOK, SyncType
<1>6. /\ step \in Steps /\ rest \in StepLists
      /\ \A x : x \in ToSet(sync[w].todo) <=> x = step \/ x \in ToSet(rest)
  BY <1>1, <1>2, <1>4, <1>5, HeadTail DEF StepLists
<1>7. StepOK(step)
  BY <1>6 DEF RetrievalInv, SyncsOK
<1>8. ASSUME NEW v \in Syncers
      PROVE  /\ v # w => sync'[v] = sync[v]
             /\ sync'[v] \in SyncType
             /\ \A x \in ToSet(sync'[v].todo) : x \in ToSet(sync[v].todo)
             /\ Running(v)' => /\ Running(v) /\ sync'[v].fresh = sync[v].fresh
                               /\ sync'[v].embeds = sync[v].embeds
                               /\ sync'[v].scanned = sync[v].scanned
  <2>1. CASE v # w
    <3>1. sync'[v] = sync[v]
      BY <1>4, <2>1 DEF RetrievalInv, SyncsOK
    <3> QED
      BY <2>1, <3>1 DEF RetrievalInv, SyncsOK, Running
  <2>2. CASE v = w /\ fails
    <3>1. sync'[v] = NoSync
      BY <1>4, <2>2 DEF RetrievalInv, SyncsOK
    <3> QED
      BY <2>2, <3>1, NoSyncFacts DEF Running
  <2>3. CASE v = w /\ ~fails
    <3>1. sync'[v] = [sync[v] EXCEPT !.todo = rest]
      BY <1>4, <2>3 DEF RetrievalInv, SyncsOK
    <3>2. /\ sync'[v].todo = rest /\ sync'[v].fresh = sync[v].fresh
          /\ sync'[v].embeds = sync[v].embeds /\ sync'[v].scanned = sync[v].scanned
          /\ sync'[v] \in SyncType
      BY <1>5, <1>6, <2>3, <3>1 DEF SyncType
    <3> QED
      BY <1>4, <1>6, <2>3, <3>2
  <2> QED
    BY <2>1, <2>2, <2>3
<1>9. TextsOK'
  <2>1. CASE fails
    BY <1>4, <2>1 DEF RetrievalInv, TextsOK
  <2>2. CASE ~fails
    BY <1>3, <1>4, <1>6, <1>7, <2>2, StepTexts DEF RetrievalInv
  <2> QED
    BY <2>1, <2>2
<1>10. SyncsOK'
  <2>1. sync' \in [Syncers -> SyncType]
    BY <1>4, <1>8 DEF RetrievalInv, SyncsOK
  <2>2. current' \subseteq Entries
    BY <1>4, <1>5 DEF RetrievalInv, SyncsOK, SyncType
  <2> QED
    BY <1>8, <2>1, <2>2 DEF RetrievalInv, SyncsOK, StepOK
<1>11. OneFreshness'
  BY <1>8 DEF RetrievalInv, OneFreshness
<1>12. ASSUME NEW v \in Syncers, Running(v), sync[v].fresh
       PROVE  \A u \in Syncers : \A x \in ToSet(sync[u].todo) : Agrees(x)
  BY <1>12, NoSyncFacts DEF RetrievalInv, OneFreshness, StepsAgree, Running
<1>13. StepsAgree'
  <2>1. ASSUME NEW v \in Syncers, NEW x \in ToSet(sync'[v].todo),
               (Running(v)' /\ sync'[v].fresh) \/ x.doc[1] \in current'
        PROVE  Agrees(x)
    <3>1. x \in ToSet(sync[v].todo)
      BY <1>8
    <3>2. CASE Running(v)' /\ sync'[v].fresh
      BY <1>8, <1>12, <3>1, <3>2
    <3>3. CASE x.doc[1] \in current
      BY <3>1, <3>3 DEF RetrievalInv, StepsAgree
    <3>4. CASE x.doc[1] \notin current /\ x.doc[1] \in current'
      BY <1>4, <1>12, <3>1, <3>4
    <3> QED
      BY <2>1, <3>2, <3>3, <3>4
  <2>2. \A x : Agrees(x)' <=> Agrees(x)
    BY <1>4 DEF Agrees
  <2> QED
    BY <2>1, <2>2 DEF StepsAgree
<1>14. ASSUME ~fails, NEW a \in Entries, NEW kind \in DocKinds,
              step.doc[1] = a => Agrees(step),
              NEW T, NEW T2, T \subseteq T2 \cup {step},
              Coming(T, <<a, kind>>, source[a][kind])
       PROVE  Coming(T2, <<a, kind>>, source[a][kind])'
  <2>1. PICK doc : doc = <<a, kind>>
    OBVIOUS
  <2>2. PICK text : text = source[a][kind]
    OBVIOUS
  <2>3. step.doc = doc => step.text = text
    BY <1>14, <2>1, <2>2 DEF Agrees
  <2>4. Coming(T, doc, text)
    BY <1>14, <2>1, <2>2
  <2>5. Coming(T2, doc, text)'
    BY <1>4, <1>6, <1>7, <1>14, <2>3, <2>4, StepComes
  <2> QED
    BY <1>4, <2>1, <2>2, <2>5
<1>15. AllComing'
  <2>1. ASSUME NEW a \in current', NEW kind \in DocKinds
        PROVE  Coming({}, <<a, kind>>, source[a][kind])'
    <3>1. CASE a \in current
      <4>1. a \in Entries /\ Coming({}, <<a, kind>>, source[a][kind])
        BY <3>1 DEF RetrievalInv, SyncsOK, AllComing
      <4>2. CASE fails
        BY <1>4, <4>1, <4>2 DEF Coming, Has
      <4>3. CASE ~fails
        <5>1. step.doc[1] = a => Agrees(step)
          BY <1>6, <3>1 DEF RetrievalInv, StepsAgree
        <5> QED
          BY <1>14, <4>1, <4>3, <5>1
      <4> QED
        BY <4>2, <4>3
    <3>2. CASE a \notin current
      <4>1. /\ rest = <<>> /\ ~fails /\ sync[w].fresh /\ sync[w].embeds
            /\ a \in sync[w].scanned
        BY <1>4, <2>1, <3>2
      <4>2. a \in Entries
        BY <1>5, <4>1 DEF SyncType
      <4>3. Coming(ToSet(sync[w].todo), <<a, kind>>, source[a][kind])
        BY <1>4, <4>1 DEF RetrievalInv, AllComing
      <4>4. ToSet(sync[w].todo) \subseteq {} \cup {step}
        BY <1>6, <4>1, NoSyncFacts
      <4>5. Agrees(step)
        BY <1>4, <1>6, <1>12, <4>1
      <4>6. PICK T : T = ToSet(sync[w].todo)
        OBVIOUS
      <4> QED
        BY <1>14, <4>1, <4>2, <4>3, <4>4, <4>5, <4>6
    <3> QED
      BY <3>1, <3>2
  <2>2. ASSUME NEW v \in Syncers, Running(v)', sync'[v].fresh, sync'[v].embeds,
               NEW a \in sync'[v].scanned, NEW kind \in DocKinds
        PROVE  Coming(ToSet(sync[v].todo), <<a, kind>>, source[a][kind])'
    <3>1. /\ Running(v) /\ sync[v].fresh /\ sync[v].embeds /\ a \in sync[v].scanned
          /\ sync[v] \in SyncType
      BY <1>8, <2>2 DEF RetrievalInv, SyncsOK
    <3>2. a \in Entries
      BY <3>1 DEF SyncType
    <3>3. Coming(ToSet(sync[v].todo), <<a, kind>>, source[a][kind])
      BY <3>1 DEF RetrievalInv, AllComing
    <3>4. Agrees(step)
      BY <1>6, <1>12, <3>1
    <3>5. PICK T : T = ToSet(sync[v].todo)
      OBVIOUS
    <3>6. PICK T2 : T2 = ToSet(sync'[v].todo)
      OBVIOUS
    <3>7. CASE fails
      <4>1. v # w
        BY <1>4, <2>2, <3>7, NoSyncFacts DEF RetrievalInv, SyncsOK, Running
      <4>2. sync'[v] = sync[v]
        BY <1>8, <4>1
      <4> QED
        BY <1>4, <3>3, <3>7, <4>2 DEF Coming, Has
    <3>8. CASE ~fails
      <4>1. T \subseteq T2 \cup {step}
        <5>1. CASE v # w
          BY <1>8, <3>5, <3>6, <5>1
        <5>2. CASE v = w
          <6>1. sync'[v].todo = rest
            BY <1>4, <1>5, <3>8, <5>2 DEF RetrievalInv, SyncsOK, SyncType
          <6> QED
            BY <1>6, <3>5, <3>6, <5>2, <6>1
        <5> QED
          BY <5>1, <5>2
      <4>2. Coming(T, <<a, kind>>, source[a][kind])
        BY <3>3, <3>5
      <4>3. Coming(T2, <<a, kind>>, source[a][kind])'
        BY <1>14, <3>2, <3>4, <3>8, <4>1, <4>2
      <4> QED
        BY <3>6, <4>3
    <3> QED
      BY <3>7, <3>8
  <2> QED
    BY <2>1, <2>2 DEF AllComing
<1> QED
  BY <1>9, <1>10, <1>11, <1>13, <1>15 DEF RetrievalInv

(***************************************************************************)
(* The start of a synchronisation                                          *)
(***************************************************************************)

LEMMA PairFacts ==
    ASSUME NEW S, NEW x \in S, NEW y \in S
    PROVE  /\ <<x>> \in Seq(S) /\ <<x, y>> \in Seq(S)
           /\ \A z : z \in ToSet(<<x>>) <=> z = x
           /\ \A z : z \in ToSet(<<x, y>>) <=> z = x \/ z = y
<1>1. PICK s : s = <<x>>
  OBVIOUS
<1>2. PICK t : t = <<x, y>>
  OBVIOUS
<1>3. /\ s \in Seq(S) /\ DOMAIN s = {1} /\ s[1] = x
      /\ t \in Seq(S) /\ DOMAIN t = {1, 2} /\ t[1] = x /\ t[2] = y
  BY <1>1, <1>2
<1>4. \A z : z \in ToSet(s) <=> z = x
  BY <1>3 DEF ToSet
<1>5. \A z : z \in ToSet(t) <=> z = x \/ z = y
  BY <1>3 DEF ToSet
<1> QED
  BY <1>1, <1>2, <1>3, <1>4, <1>5

LEMMA WriteFacts ==
    ASSUME NEW a \in Entries, NEW kind \in DocKinds, NEW embeds \in BOOLEAN,
           NEW text \in Texts, text = source[a][kind]
    PROVE  /\ Write(a, kind, embeds) \in StepLists
           /\ Step("write", <<a, kind>>, text) \in ToSet(Write(a, kind, embeds))
           /\ embeds => Step("embed", <<a, kind>>, text) \in ToSet(Write(a, kind, embeds))
           /\ \A x \in ToSet(Write(a, kind, embeds)) :
                 StepOK(x) /\ Agrees(x) /\ x.doc[1] = a
<1>1. PICK x : x = Step("write", <<a, kind>>, text)
  OBVIOUS
<1>2. PICK y : y = Step("embed", <<a, kind>>, text)
  OBVIOUS
<1>3. /\ x \in Steps /\ x.do = "write" /\ x.doc = <<a, kind>> /\ x.text = text
      /\ y \in Steps /\ y.do = "embed" /\ y.doc = <<a, kind>> /\ y.text = text
  BY <1>1, <1>2 DEF Steps, Step, Deeds, Docs, SomeText
<1>4. StepOK(x) /\ Agrees(x) /\ StepOK(y) /\ Agrees(y) /\ x.doc[1] = a /\ y.doc[1] = a
  BY <1>3 DEF StepOK, Agrees
<1>5. PICK r : r = Write(a, kind, embeds)
  OBVIOUS
<1>6. r = IF embeds THEN <<x, y>> ELSE <<x>>
  BY <1>1, <1>2, <1>5 DEF Write
<1>7. /\ r \in StepLists /\ x \in ToSet(r)
      /\ embeds => y \in ToSet(r)
      /\ \A z \in ToSet(r) : z = x \/ z = y
  <2>1. CASE embeds
    <3>1. r = <<x, y>>
      BY <1>6, <2>1
    <3> QED
      BY <1>3, <3>1, PairFacts DEF StepLists
  <2>2. CASE ~embeds
    <3>1. r = <<x>>
      BY <1>6, <2>2
    <3> QED
      BY <1>3, <2>2, <3>1, PairFacts DEF StepLists
  <2> QED
    BY <2>1, <2>2
<1>8. \A z \in ToSet(r) : StepOK(z) /\ Agrees(z) /\ z.doc[1] = a
  BY <1>4, <1>7
<1> QED
  BY <1>1, <1>2, <1>5, <1>7, <1>8

(* The steps of a game agree with the catalog, and are all it takes.       *)
LEMMA StepsForFacts ==
    ASSUME TextsOK, NEW a \in Entries, NEW embeds \in BOOLEAN
    PROVE  /\ StepsFor(a, embeds) \in StepLists
           /\ \A x \in ToSet(StepsFor(a, embeds)) : StepOK(x) /\ Agrees(x)
           /\ embeds => \A kind \in DocKinds :
                           Coming(ToSet(StepsFor(a, embeds)), <<a, kind>>, source[a][kind])
<1>1. PICK profile : profile = source[a].profile
  OBVIOUS
<1>2. PICK summary : summary = source[a].summary
  OBVIOUS
<1>3. profile \in Texts /\ summary \in SomeText
  BY <1>1, <1>2 DEF TextsOK, SourceType
<1>4. PICK first : first = Step("prune", <<a, "summary">>, summary)
  OBVIOUS
<1>5. /\ first \in Steps /\ first.do = "prune" /\ first.doc = <<a, "summary">>
      /\ first.text = summary
  BY <1>3, <1>4 DEF Steps, Step, Deeds, Docs, DocKinds
<1>6. StepOK(first) /\ Agrees(first)
  BY <1>2, <1>5 DEF StepOK, Agrees
<1>7. /\ Write(a, "profile", embeds) \in StepLists
      /\ Step("write", <<a, "profile">>, profile) \in ToSet(Write(a, "profile", embeds))
      /\ embeds => Step("embed", <<a, "profile">>, profile) \in ToSet(Write(a, "profile", embeds))
      /\ \A x \in ToSet(Write(a, "profile", embeds)) : StepOK(x) /\ Agrees(x)
  <2>1. "profile" \in DocKinds
    BY DEF DocKinds
  <2> QED
    BY <1>1, <1>3, <2>1, WriteFacts
<1>8. PICK last : last = IF summary = NoText THEN <<>> ELSE Write(a, "summary", embeds)
  OBVIOUS
<1>9. /\ last \in StepLists
      /\ \A x \in ToSet(last) : StepOK(x) /\ Agrees(x)
      /\ summary # NoText =>
           /\ Step("write", <<a, "summary">>, summary) \in ToSet(last)
           /\ embeds => Step("embed", <<a, "summary">>, summary) \in ToSet(last)
  <2>1. CASE summary = NoText
    BY <1>8, <2>1, NoSyncFacts DEF StepLists
  <2>2. CASE summary # NoText
    <3>1. "summary" \in DocKinds /\ summary \in Texts
      BY <1>3, <2>2 DEF DocKinds, SomeText
    <3> QED
      BY <1>2, <1>8, <2>2, <3>1, WriteFacts
  <2> QED
    BY <2>1, <2>2
<1>10. PICK one : one = <<first>>
  OBVIOUS
<1>11. one \in StepLists /\ \A x : x \in ToSet(one) <=> x = first
  BY <1>5, <1>10, PairFacts DEF StepLists
<1>12. PICK two : two = one \o Write(a, "profile", embeds)
  OBVIOUS
<1>13. /\ two \in StepLists
       /\ \A x : x \in ToSet(two) <=> x = first \/ x \in ToSet(Write(a, "profile", embeds))
  BY <1>7, <1>11, <1>12, ConcatFacts DEF StepLists
<1>14. PICK all : all = StepsFor(a, embeds)
  OBVIOUS
<1>15. all = two \o last
  BY <1>2, <1>4, <1>8, <1>10, <1>12, <1>14 DEF StepsFor
<1>16. /\ all \in StepLists
       /\ \A x : x \in ToSet(all) <=> \/ x = first \/ x \in ToSet(last)
                                      \/ x \in ToSet(Write(a, "profile", embeds))
  BY <1>9, <1>13, <1>15, ConcatFacts DEF StepLists
<1>17. \A x \in ToSet(all) : StepOK(x) /\ Agrees(x)
  BY <1>6, <1>7, <1>9, <1>16
<1>18. ASSUME embeds, NEW kind \in DocKinds
       PROVE  Coming(ToSet(all), <<a, kind>>, source[a][kind])
  <2>1. CASE kind = "profile"
    <3>1. source[a][kind] = profile /\ profile # NoText
      BY <1>1, <1>3, <2>1, RetrievalAssumption
    <3> QED
      BY <1>7, <1>16, <1>18, <2>1, <3>1 DEF Coming
  <2>2. CASE kind = "summary"
    <3>1. source[a][kind] = summary
      BY <1>2, <2>2
    <3> QED
      BY <1>4, <1>9, <1>16, <1>18, <2>2, <3>1 DEF Coming
  <2> QED
    BY <2>1, <2>2 DEF DocKinds
<1> QED
  BY <1>14, <1>16, <1>17, <1>18

LEMMA ScannedOrder ==
    ASSUME NEW after
    PROVE  /\ InOrder(Scanned(after), {p \in Entries \X Entries : p[1] < p[2]}) \in Seq(Entries)
           /\ \A a : a \in ToSet(InOrder(Scanned(after), {p \in Entries \X Entries : p[1] < p[2]}))
                       <=> a \in Scanned(after)
<1>1. PICK S : S = Scanned(after)
  OBVIOUS
<1>2. PICK R : R = {p \in Entries \X Entries : p[1] < p[2]}
  OBVIOUS
<1>3. S \subseteq Entries /\ Entries \subseteq Nat
  BY <1>1, RetrievalAssumption DEF Scanned
<1>4. IsFiniteSet(S)
  BY <1>3, RetrievalAssumption, FS_Subset
<1>5. \A x, y \in S : <<x, y>> \in R <=> x < y
  BY <1>2, <1>3
<1>6. StrictOrder(S, R)
  <2>1. \A x \in S : x \in Nat
    BY <1>3
  <2>2. \A x \in S : <<x, x>> \notin R
    BY <1>5, <2>1
  <2>3. \A x, y \in S : x # y => <<x, y>> \in R \/ <<y, x>> \in R
    BY <1>5, <2>1
  <2>4. \A x, y, z \in S : <<x, y>> \in R /\ <<y, z>> \in R => <<x, z>> \in R
    BY <1>5, <2>1
  <2> QED
    BY <2>2, <2>3, <2>4 DEF StrictOrder
<1>7. /\ InOrder(S, R) \in Seq(S)
      /\ \A x : x \in ToSet(InOrder(S, R)) <=> x \in S
  BY <1>4, <1>6, OrderFacts
<1>8. InOrder(S, R) \in Seq(Entries)
  BY <1>3, <1>7, Narrowed
<1> QED
  BY <1>1, <1>2, <1>7, <1>8

LEMMA BeginSyncInv ==
    ASSUME RetrievalInv, NEW w \in Syncers, NEW after \in After, NEW embeds \in BOOLEAN,
           BeginSync(w, after, embeds)
    PROVE  RetrievalInv'
<1>1. PICK games : games = InOrder(Scanned(after), {p \in Entries \X Entries : p[1] < p[2]})
  OBVIOUS
<1>2. PICK lists : lists = [i \in DOMAIN games |-> StepsFor(games[i], embeds)]
  OBVIOUS
<1>3. PICK steps : steps = FlattenSeq(lists)
  OBVIOUS
<1>4. PICK all \in BOOLEAN : all <=> \A v \in Syncers : Running(v) => sync[v].fresh
  OBVIOUS
<1>5. PICK new : new = [todo |-> steps, embeds |-> embeds, scanned |-> ToSet(games), fresh |-> all]
  OBVIOUS
<1>6. all = \A v \in Syncers : Running(v) => sync[v].fresh
  BY <1>4
<1>7. /\ ~Running(w) /\ sync' = [sync EXCEPT ![w] = new]
      /\ UNCHANGED <<source, docs, vectors, current>>
  BY <1>1, <1>2, <1>3, <1>5, <1>6 DEF BeginSync
<1>8. games \in Seq(Entries)
  BY <1>1, ScannedOrder
<1>9. DOMAIN games = 1..Len(games) /\ Len(games) \in Nat /\ \A i \in DOMAIN games : games[i] \in Entries
  BY <1>8
<1>10. TextsOK
  BY DEF RetrievalInv
<1>11. /\ \A i \in DOMAIN lists : lists[i] = StepsFor(games[i], embeds)
       /\ DOMAIN lists = DOMAIN games
  BY <1>2
<1>12. \A i \in DOMAIN lists : lists[i] \in StepLists
  BY <1>9, <1>10, <1>11, StepsForFacts
<1>13. lists \in Seq(StepLists)
  BY <1>2, <1>9, <1>11, <1>12
<1>14. /\ steps \in StepLists
       /\ \A x : x \in ToSet(steps) <=> \E i \in DOMAIN lists : x \in ToSet(lists[i])
  BY <1>3, <1>13, FlattenFacts DEF StepLists
<1>15. \A x \in ToSet(steps) : StepOK(x) /\ Agrees(x)
  BY <1>9, <1>10, <1>11, <1>14, StepsForFacts
<1>16. ASSUME embeds, NEW a \in ToSet(games), NEW kind \in DocKinds
       PROVE  Coming(ToSet(steps), <<a, kind>>, source[a][kind])
  <2>1. PICK i \in DOMAIN games : games[i] = a
    BY DEF ToSet
  <2>2. a \in Entries /\ i \in DOMAIN lists /\ lists[i] = StepsFor(a, embeds)
    BY <1>9, <1>11, <2>1
  <2>3. Coming(ToSet(lists[i]), <<a, kind>>, source[a][kind])
    BY <1>10, <1>16, <2>2, StepsForFacts
  <2>4. ToSet(lists[i]) \subseteq ToSet(steps)
    BY <1>14, <2>2
  <2> QED
    BY <2>3, <2>4 DEF Coming
<1>17. \A a \in ToSet(games) : a \in Entries
  BY <1>9 DEF ToSet
<1>18. /\ new \in SyncType /\ new.todo = steps /\ new.embeds = embeds
       /\ new.scanned = ToSet(games) /\ new.fresh = all
  BY <1>5, <1>14, <1>17 DEF SyncType
<1>19. sync'[w] = new /\ \A v \in Syncers : v # w => sync'[v] = sync[v]
  BY <1>7 DEF RetrievalInv, SyncsOK
<1>20. TextsOK'
  BY <1>7 DEF RetrievalInv, TextsOK
<1>21. SyncsOK'
  <2>1. \A v \in Syncers : sync'[v] \in SyncType
    BY <1>18, <1>19 DEF RetrievalInv, SyncsOK
  <2>2. sync' \in [Syncers -> SyncType]
    BY <1>7, <2>1 DEF RetrievalInv, SyncsOK
  <2>3. \A v \in Syncers : \A step \in ToSet(sync'[v].todo) : StepOK(step)
    BY <1>15, <1>18, <1>19 DEF RetrievalInv, SyncsOK
  <2> QED
    BY <1>7, <2>2, <2>3 DEF RetrievalInv, SyncsOK, StepOK
<1>22. OneFreshness'
  <2>1. \A v \in Syncers : v # w => (Running(v)' <=> Running(v))
    BY <1>19 DEF Running
  <2> QED
    BY <1>4, <1>18, <1>19, <2>1 DEF RetrievalInv, OneFreshness
<1>23. StepsAgree'
  <2>1. \A x : Agrees(x)' <=> Agrees(x)
    BY <1>7 DEF Agrees
  <2>2. \A v \in Syncers : v # w => (Running(v)' <=> Running(v))
    BY <1>19 DEF Running
  <2> QED
    BY <1>7, <1>15, <1>18, <1>19, <2>1, <2>2 DEF RetrievalInv, StepsAgree
<1>24. AllComing'
  <2>1. \A T, doc, text : Coming(T, doc, text)' <=> Coming(T, doc, text)
    BY <1>7 DEF Coming, Has
  <2>2. \A a \in current', kind \in DocKinds : Coming({}, <<a, kind>>, source[a][kind])'
    BY <1>7, <2>1 DEF RetrievalInv, AllComing
  <2>3. ASSUME NEW v \in Syncers, Running(v)', sync'[v].fresh, sync'[v].embeds,
               NEW a \in sync'[v].scanned, NEW kind \in DocKinds
        PROVE  Coming(ToSet(sync[v].todo), <<a, kind>>, source[a][kind])'
    <3>1. CASE v # w
      BY <1>7, <1>19, <2>3, <3>1 DEF RetrievalInv, AllComing, Coming, Has, Running
    <3>2. CASE v = w
      BY <1>7, <1>16, <1>18, <1>19, <2>3, <3>2 DEF Coming, Has
    <3> QED
      BY <3>1, <3>2
  <2> QED
    BY <2>2, <2>3 DEF AllComing
<1> QED
  BY <1>20, <1>21, <1>22, <1>23, <1>24 DEF RetrievalInv

(***************************************************************************)
(* The other steps                                                         *)
(***************************************************************************)

LEMMA StopSyncInv ==
    ASSUME RetrievalInv, NEW w \in Syncers, StopSync(w)
    PROVE  RetrievalInv'
<1>1. /\ sync' = [sync EXCEPT ![w] = NoSync]
      /\ UNCHANGED <<source, docs, vectors, current>>
  BY DEF StopSync
<1>2. /\ sync'[w] = NoSync /\ ~Running(w)' /\ ToSet(sync'[w].todo) = {}
      /\ \A v \in Syncers : v # w => sync'[v] = sync[v]
  BY <1>1, NoSyncFacts DEF RetrievalInv, SyncsOK, Running
<1>3. \A v \in Syncers : v # w => (Running(v)' <=> Running(v))
  BY <1>2 DEF Running
<1>4. TextsOK'
  BY <1>1 DEF RetrievalInv, TextsOK
<1>5. SyncsOK'
  <2>1. sync' \in [Syncers -> SyncType]
    BY <1>1, NoSyncFacts DEF RetrievalInv, SyncsOK
  <2> QED
    BY <1>1, <1>2, <2>1 DEF RetrievalInv, SyncsOK, StepOK
<1>6. OneFreshness'
  BY <1>2, <1>3 DEF RetrievalInv, OneFreshness
<1>7. StepsAgree'
  BY <1>1, <1>2, <1>3 DEF RetrievalInv, StepsAgree, Agrees
<1>8. AllComing'
  BY <1>1, <1>2, <1>3 DEF RetrievalInv, AllComing, Coming, Has
<1> QED
  BY <1>4, <1>5, <1>6, <1>7, <1>8 DEF RetrievalInv

(* A vector of the provider is stored only for a document that is there.   *)
LEMMA StoreVectorInv ==
    ASSUME RetrievalInv, StoreVector
    PROVE  RetrievalInv'
<1>1. PICK one : one = Head(embedder.todo)
  OBVIOUS
<1>2. PICK v : v = Vector(one.doc, Provider, one.text)
  OBVIOUS
<1>3. /\ one.doc \in DOMAIN docs /\ vectors' = vectors \cup {v}
      /\ UNCHANGED <<source, docs, sync, current>>
  BY <1>1, <1>2 DEF StoreVector
<1>4. v.doc \in DOMAIN docs
  BY <1>2, <1>3 DEF Vector
<1>5. TextsOK'
  BY <1>3, <1>4 DEF RetrievalInv, TextsOK
<1>6. \A T, doc, text : Coming(T, doc, text) => Coming(T, doc, text)'
  BY <1>3 DEF Coming, Has
<1> QED
  BY <1>3, <1>5, <1>6
  DEF RetrievalInv, SyncsOK, StepOK, OneFreshness, StepsAgree, Agrees, AllComing, Running

LEMMA RetrievalNextInv ==
    ASSUME RetrievalInv, [RetrievalNext]_retrievalVars
    PROVE  RetrievalInv'
<1>1. CASE \E a \in Entries, kind \in DocKinds, text \in Texts \cup {NoText} :
              EditSource(a, kind, text)
  BY <1>1, EditSourceInv DEF SomeText
<1>2. CASE \E w \in Syncers, after \in After, embeds \in BOOLEAN : BeginSync(w, after, embeds)
  BY <1>2, BeginSyncInv
<1>3. CASE \E w \in Syncers : SyncStep(w)
  BY <1>3, SyncStepInv
<1>4. CASE \E w \in Syncers : StopSync(w)
  BY <1>4, StopSyncInv
<1>5. CASE StoreVector
  BY <1>5, StoreVectorInv
<1>6. CASE UNCHANGED <<source, docs, vectors, sync, current>>
  BY <1>6 DEF RetrievalInv, TextsOK, SyncsOK, StepOK, OneFreshness, StepsAgree, Agrees,
              AllComing, Coming, Has, Running
<1> QED
  BY <1>1, <1>2, <1>3, <1>4, <1>5, <1>6
  DEF RetrievalNext, BeginEmbedding, StopEmbedding, retrievalVars

(* What IndexFollowsCatalog and RetrievalTypeOK say holds in every         *)
(* behaviour: a game that a synchronisation went through unovertaken is    *)
(* found by what the catalog says of it, and by nothing else, until the    *)
(* next change of its data.                                                *)
THEOREM IndexIsFaithful == RetrievalSpec => []IndexFollowsCatalog
<1>1. RetrievalInit => RetrievalInv
  BY RetrievalStarts
<1>2. RetrievalInv /\ [RetrievalNext]_retrievalVars => RetrievalInv'
  BY RetrievalNextInv
<1>3. RetrievalInv => IndexFollowsCatalog
  BY RetrievalKept
<1> QED
  BY <1>1, <1>2, <1>3, PTL DEF RetrievalSpec

(* The documents, vectors and synchronised games have their types.         *)
THEOREM IndexTypesHold == RetrievalSpec => []RetrievalTypeOK
<1>1. RetrievalInit => RetrievalInv
  BY RetrievalStarts
<1>2. RetrievalInv /\ [RetrievalNext]_retrievalVars => RetrievalInv'
  BY RetrievalNextInv
<1>3. RetrievalInv => RetrievalTypeOK
  BY RetrievalKept
<1> QED
  BY <1>1, <1>2, <1>3, PTL DEF RetrievalSpec

-----------------------------------------------------------------------------
(* The router                                                              *)

Stages == {"idle", "walk", "wait", "trip", "over"}
Errors == {"none", "budget", "deadline", "circuit open", "no protocol", "failed", "timeout",
           "answered"}
ModelLists == Seq(Models)
WireLists == Seq(Wires)
CallType ==
    [stage : Stages, ends : Nat, expires : Nat, models : ModelLists, wires : WireLists,
     tried : Nat, last : Errors]

LEMMA ListFacts ==
    /\ <<>> \in ModelLists /\ <<>> \in WireLists
    /\ \A q \in ModelLists : q # <<>> => Tail(q) \in ModelLists /\ Head(q) \in Models
    /\ \A q \in WireLists : q # <<>> => Tail(q) \in WireLists /\ Head(q) \in Wires
    /\ "idle" \in Stages /\ "walk" \in Stages /\ "wait" \in Stages /\ "trip" \in Stages
    /\ "over" \in Stages
    /\ "none" \in Errors /\ "budget" \in Errors /\ "deadline" \in Errors
    /\ "circuit open" \in Errors /\ "no protocol" \in Errors /\ "failed" \in Errors
    /\ "timeout" \in Errors /\ "answered" \in Errors
  BY DEF ModelLists, WireLists, Stages, Errors

(* The registry and the circuits, whatever the clock.                      *)
RegistryType ==
    /\ registry.at \in Never..MaxClock
    /\ registry.rows = [m \in DOMAIN registry.rows |-> registry.rows[m]]
    /\ DOMAIN registry.rows \subseteq Models

(* One call: while it waits or has failed it has a model at hand; before   *)
(* the first attempt it has all its time, and until the second one it has  *)
(* some left.                                                              *)
CallInv(k, now) ==
    /\ k.stage \in {"wait", "trip"} => k.models # <<>> /\ k.tried >= 1
    /\ k.stage = "wait" => now <= k.expires /\ k.wires # <<>>
    /\ k.stage = "wait" /\ k.tried = 1 => k.expires < k.ends
    /\ k.stage = "walk" /\ k.tried = 0 => k.ends = now + RouteTicks
    /\ k.stage \in {"walk", "trip"} /\ k.tried = 1 => now < k.ends
    /\ k.last = "deadline" => k.stage = "over" /\ k.tried >= 2

RouterInv ==
    /\ clock \in 0..MaxClock
    /\ circuit \in [Models -> [failures : Nat, until : 0..(MaxClock + OpenTicks)]]
    /\ RegistryType
    /\ call \in [Calls -> CallType]
    /\ \A c \in Calls : CallInv(call[c], clock)

LEMMA RouterTypes ==
    RouterInv => RouterTypeOK /\ HangLeavesRoom
  BY RouterAssumption DEF RouterInv, RegistryType, CallInv, RouterTypeOK, HangLeavesRoom, CallType, Stages

LEMMA RouterStarts ==
    RouterInit => RouterInv
<1> SUFFICES ASSUME RouterInit PROVE RouterInv
  OBVIOUS
<1>1. NoCall \in CallType /\ CallInv(NoCall, clock)
  <2>1. "none" \in Errors /\ "idle" \in Stages /\ 0 \in Nat
    BY ListFacts
  <2>2. NoCall \in CallType
    BY <2>1, ListFacts DEF NoCall, CallType
  <2>3. CallInv(NoCall, clock)
    BY DEF NoCall, CallInv
  <2> QED
    BY <2>2, <2>3
<1>2. call \in [Calls -> CallType] /\ \A c \in Calls : CallInv(call[c], clock)
  BY <1>1 DEF RouterInit
<1>3. RegistryType
  BY RouterAssumption DEF RouterInit, RegistryType, Never
<1>4. circuit \in [Models -> [failures : Nat, until : 0..(MaxClock + OpenTicks)]]
  BY RouterAssumption DEF RouterInit
<1> QED
  BY <1>2, <1>3, <1>4, RouterAssumption DEF RouterInit, RouterInv

(* The protocols of a model are some of the preference.                    *)
LEMMA WiresAreWires ==
    ASSUME NEW m
    PROVE  WiresFor(m) \in WireLists
<1>1. Preference \in Seq(Wires)
  BY RouterAssumption
<1> QED
  BY <1>1, AmongFacts DEF WiresFor, WireLists

LEMMA CallFacts ==
    ASSUME RouterInv, NEW c \in Calls
    PROVE  /\ call[c] \in CallType /\ CallInv(call[c], clock) /\ clock \in Nat
           /\ call[c].stage \in {"wait", "trip"} => Head(call[c].models) \in Models
<1>1. call[c] \in CallType /\ CallInv(call[c], clock) /\ clock \in Nat
  BY RouterAssumption DEF RouterInv
<1>2. call[c].stage \in {"wait", "trip"} => call[c].models # <<>>
  BY <1>1 DEF CallInv
<1>3. call[c].models \in ModelLists
  BY <1>1 DEF CallType
<1> QED
  BY <1>1, <1>2, <1>3, ListFacts

(* What the other models see of a call that goes on or ends.               *)
LEMMA OverFacts ==
    ASSUME RouterInv, NEW c \in Calls, NEW error \in Errors, error # "deadline"
    PROVE  Over(c, error) \in CallType /\ CallInv(Over(c, error), clock)
<1>1. PICK o : o = Over(c, error)
  OBVIOUS
<1>2. o \in CallType /\ o.stage = "over" /\ o.last = error
  BY <1>1, CallFacts, ListFacts DEF Over, CallType
<1> QED
  BY <1>1, <1>2 DEF CallInv

LEMMA DeadlineFacts ==
    ASSUME RouterInv, NEW c \in Calls, clock >= call[c].ends, call[c].stage \in {"walk", "wait"}
    PROVE  Over(c, "deadline") \in CallType /\ CallInv(Over(c, "deadline"), clock)
<1>1. PICK o : o = Over(c, "deadline")
  OBVIOUS
<1>2. o \in CallType /\ o.stage = "over" /\ o.tried = call[c].tried
  <2>1. call[c] \in CallType /\ "deadline" \in Errors /\ "over" \in Stages
    BY CallFacts, ListFacts
  <2>2. o.stage = "over" /\ o.tried = call[c].tried
    BY <1>1, <2>1 DEF Over, CallType
  <2> QED
    BY <1>1, <2>1, <2>2, ListFacts DEF Over, CallType
<1>3. call[c].tried >= 2
  <2>1. /\ CallInv(call[c], clock) /\ clock \in Nat /\ RouteTicks \in Nat /\ RouteTicks >= 2
        /\ call[c].ends \in Nat /\ call[c].expires \in Nat /\ call[c].tried \in Nat
    BY CallFacts, RouterAssumption DEF CallType
  <2>2. call[c].tried # 0
    BY <2>1 DEF CallInv
  <2>3. call[c].tried # 1
    BY <2>1 DEF CallInv
  <2> QED
    BY <2>1, <2>2, <2>3
<1> QED
  BY <1>1, <1>2, <1>3 DEF CallInv

(* An attempt that begins in time: the first one leaves half of it.        *)
LEMMA AttemptFacts ==
    ASSUME RouterInv, NEW c \in Calls, NEW wires \in WireLists, wires # <<>>,
           call[c].models # <<>>,
           \/ call[c].stage = "walk"
           \/ call[c].stage = "wait"
    PROVE  Attempt(c, wires) \in CallType /\ CallInv(Attempt(c, wires), clock)
<1> DEFINE k == call[c]
<1>1. /\ k \in CallType /\ CallInv(k, clock) /\ clock \in Nat /\ k.ends \in Nat /\ k.tried \in Nat
      /\ RouteTicks \in Nat /\ RouteTicks >= 2
  BY CallFacts, RouterAssumption DEF CallType
<1>2. RouteTicks \div 2 \in Nat /\ 1 <= RouteTicks \div 2 /\ RouteTicks \div 2 < RouteTicks
  BY <1>1
<1>3. CASE clock >= k.ends
  <2>1. Attempt(c, wires) = Over(c, "deadline")
    BY <1>3 DEF Attempt
  <2> QED
    BY <1>3, <2>1, DeadlineFacts
<1>4. CASE clock < k.ends
  <2> DEFINE left == k.ends - clock
             expires == clock + AttemptTicks(left)
  <2>1. PICK a : a = [k EXCEPT !.stage = "wait", !.wires = wires, !.tried = @ + 1,
                              !.expires = expires]
    OBVIOUS
  <2>2. Attempt(c, wires) = a
    BY <1>1, <1>4, <2>1 DEF Attempt
  <2>3. AttemptTicks(left) \in Nat /\ AttemptTicks(left) <= RouteTicks \div 2
    BY <1>1, <1>2, <1>4 DEF AttemptTicks
  <2>4. expires \in Nat /\ clock <= expires
    BY <1>1, <2>3
  <2> HIDE DEF expires
  <2>5. /\ a \in CallType /\ a.stage = "wait" /\ a.wires = wires /\ a.tried = k.tried + 1
        /\ a.expires = expires /\ a.models = k.models /\ a.ends = k.ends /\ a.last = k.last
    <3>1. k.tried + 1 \in Nat
      BY <1>1
    <3>3. "wait" \in Stages
      BY ListFacts
    <3>2. a \in CallType
      BY <1>1, <2>1, <2>4, <3>1, <3>3 DEF CallType
    <3> QED
      BY <1>1, <2>1, <3>2 DEF CallType
  <2>6. a.tried = 1 => a.expires < a.ends
    <3> SUFFICES ASSUME k.tried = 0 PROVE expires < k.ends
      BY <1>1, <2>5
    <3>1. k.stage = "walk" /\ k.ends = clock + RouteTicks
      BY <1>1 DEF CallInv
    <3> QED
      BY <3>1, <2>3, <1>1, <1>2 DEF expires
  <2>7. k.last # "deadline"
    BY <1>1 DEF CallInv
  <2> QED
    BY <1>1, <2>2, <2>4, <2>5, <2>6, <2>7 DEF CallInv
<1> QED
  BY <1>1, <1>3, <1>4

LEMMA NextModelFacts ==
    ASSUME RouterInv, NEW c \in Calls, NEW error \in Errors, error # "deadline",
           call[c].stage \in {"walk", "wait", "trip"}, call[c].models # <<>>,
           call[c].tried = 0 => call[c].stage = "walk",
           call[c].tried = 1 => clock < call[c].ends
    PROVE  /\ [NextModel(c) EXCEPT !.last = error] \in CallType
           /\ CallInv([NextModel(c) EXCEPT !.last = error], clock)
           /\ NextModel(c) \in CallType /\ CallInv(NextModel(c), clock)
<1>1. PICK n : n = NextModel(c)
  OBVIOUS
<1>2. PICK m : m = [n EXCEPT !.last = error]
  OBVIOUS
<1>3. call[c] \in CallType /\ CallInv(call[c], clock)
  BY CallFacts
<1>4. /\ n \in CallType /\ n.stage = "walk" /\ n.ends = call[c].ends /\ n.tried = call[c].tried
      /\ n.last = call[c].last
  BY <1>1, <1>3, ListFacts DEF NextModel, CallType
<1>5. /\ m \in CallType /\ m.stage = "walk" /\ m.ends = call[c].ends /\ m.tried = call[c].tried
      /\ m.last = error
  BY <1>2, <1>4 DEF CallType
<1> QED
  BY <1>1, <1>2, <1>3, <1>4, <1>5 DEF CallInv

(* Only the call that moves is looked at again.                            *)
LEMMA OneCallMoves ==
    ASSUME RouterInv, NEW c \in Calls, NEW k \in CallType, CallInv(k, clock), Becomes(c, k),
           UNCHANGED clock,
           circuit' \in [Models -> [failures : Nat, until : 0..(MaxClock + OpenTicks)]],
           RegistryType'
    PROVE  RouterInv'
<1>1. call' = [call EXCEPT ![c] = k] /\ call \in [Calls -> CallType]
  BY DEF Becomes, RouterInv
<1>2. call' \in [Calls -> CallType]
  BY <1>1
<1>3. \A d \in Calls : CallInv(call[d], clock)
  BY DEF RouterInv
<1>4. \A d \in Calls : CallInv(call'[d], clock)
  BY <1>1, <1>3
<1>5. \A d \in Calls : CallInv(call'[d], clock')
  BY <1>4
<1> QED
  BY <1>2, <1>5 DEF RouterInv

LEMMA StartCallInv ==
    ASSUME RouterInv, NEW c \in Calls, NEW within \in BOOLEAN, StartCall(c, within)
    PROVE  RouterInv'
<1>1. PICK k : k = [NoCall EXCEPT !.stage = "walk", !.ends = clock + RouteTicks, !.models = Chain[c]]
  OBVIOUS
<1>2. k \in CallType /\ CallInv(k, clock)
  <2>1. Chain[c] \in ModelLists /\ clock + RouteTicks \in Nat
    BY RouterAssumption, CallFacts DEF ModelLists
  <2>2. /\ k.stage = "walk" /\ k.ends = clock + RouteTicks /\ k.tried = 0 /\ k.last = "none"
    BY <1>1 DEF NoCall
  <2>3. k \in CallType
    BY <1>1, <2>1, ListFacts DEF NoCall, CallType
  <2> QED
    BY <2>2, <2>3 DEF CallInv
<1>3. Over(c, "budget") \in CallType /\ CallInv(Over(c, "budget"), clock)
  BY OverFacts, ListFacts
<1>4. /\ Becomes(c, k) \/ Becomes(c, Over(c, "budget"))
      /\ UNCHANGED <<clock, circuit, registry>>
  BY <1>1 DEF StartCall
<1>5. /\ circuit' \in [Models -> [failures : Nat, until : 0..(MaxClock + OpenTicks)]]
      /\ RegistryType'
  BY <1>4 DEF RouterInv, RegistryType
<1> QED
  BY <1>2, <1>3, <1>4, <1>5, OneCallMoves

LEMMA ConsiderModelInv ==
    ASSUME RouterInv, NEW c \in Calls, ConsiderModel(c)
    PROVE  RouterInv'
<1> DEFINE m == Head(call[c].models)
<1>1. /\ call[c].stage = "walk" /\ UNCHANGED <<clock, circuit, registry>>
      /\ call[c] \in CallType /\ CallInv(call[c], clock) /\ clock \in Nat
  BY CallFacts DEF ConsiderModel
<1>2. /\ circuit' \in [Models -> [failures : Nat, until : 0..(MaxClock + OpenTicks)]]
      /\ RegistryType'
  BY <1>1 DEF RouterInv, RegistryType
<1>3. call[c].last \in Errors /\ call[c].last # "deadline"
  BY <1>1 DEF CallType, CallInv
<1>4. CASE call[c].models = <<>> /\ Becomes(c, Over(c, call[c].last))
  BY <1>1, <1>2, <1>3, <1>4, OverFacts, OneCallMoves
<1>5. CASE clock >= call[c].ends /\ Becomes(c, Over(c, "deadline"))
  BY <1>1, <1>2, <1>5, DeadlineFacts, OneCallMoves
<1>6. ASSUME call[c].models # <<>>, clock < call[c].ends, NEW error \in Errors, error # "deadline",
             \/ Becomes(c, NextModel(c)) \/ Becomes(c, [NextModel(c) EXCEPT !.last = error])
      PROVE  RouterInv'
  <2>1. /\ [NextModel(c) EXCEPT !.last = error] \in CallType
        /\ CallInv([NextModel(c) EXCEPT !.last = error], clock)
        /\ NextModel(c) \in CallType /\ CallInv(NextModel(c), clock)
    BY <1>1, <1>6, NextModelFacts
  <2>2. PICK p : p = [NextModel(c) EXCEPT !.last = error]
    OBVIOUS
  <2>3. PICK q : q = NextModel(c)
    OBVIOUS
  <2>4. p \in CallType /\ CallInv(p, clock) /\ q \in CallType /\ CallInv(q, clock)
    BY <2>1, <2>2, <2>3
  <2>5. Becomes(c, p) \/ Becomes(c, q)
    BY <1>6, <2>2, <2>3
  <2> QED
    BY <1>1, <1>2, <2>4, <2>5, OneCallMoves
<1>7. CASE /\ call[c].models # <<>> /\ WiresFor(m) # <<>>
           /\ Becomes(c, Attempt(c, WiresFor(m)))
  <2>1. /\ Attempt(c, WiresFor(m)) \in CallType /\ CallInv(Attempt(c, WiresFor(m)), clock)
    BY <1>1, <1>7, WiresAreWires, AttemptFacts
  <2> QED
    BY <1>1, <1>2, <1>7, <2>1, OneCallMoves
<1>8. ~(clock >= call[c].ends) => clock < call[c].ends
  BY <1>1 DEF CallType
<1> QED
  BY <1>4, <1>5, <1>6, <1>7, <1>8, ListFacts DEF ConsiderModel

LEMMA WithRowType ==
    ASSUME RouterInv, NEW m \in Models, NEW row, registry' = WithRow(m, row), UNCHANGED clock
    PROVE  RegistryType'
<1>1. /\ registry'.at = (IF registry.at = Never THEN clock ELSE registry.at)
      /\ registry'.rows = [x \in DOMAIN registry.rows \cup {m} |->
                            IF x = m THEN row ELSE registry.rows[x]]
  BY DEF WithRow
<1>2. registry.at \in Never..MaxClock /\ clock \in 0..MaxClock /\ DOMAIN registry.rows \subseteq Models
  BY DEF RouterInv, RegistryType
<1>3. registry'.at \in Never..MaxClock
  BY <1>1, <1>2, RouterAssumption DEF Never
<1> QED
  BY <1>1, <1>2, <1>3 DEF RegistryType

LEMMA SucceedInv ==
    ASSUME RouterInv, NEW c \in Calls, Succeed(c)
    PROVE  RouterInv'
<1> DEFINE m == Head(call[c].models)
<1>1. m \in Models /\ UNCHANGED clock
  BY CallFacts DEF Succeed
<1>2. RegistryType'
  BY <1>1, WithRowType DEF Succeed
<1>3. Over(c, "answered") \in CallType /\ CallInv(Over(c, "answered"), clock)
  BY OverFacts, ListFacts
<1>4. [failures |-> 0, until |-> 0] \in [failures : Nat, until : 0..(MaxClock + OpenTicks)]
  BY RouterAssumption
<1>5. circuit' \in [Models -> [failures : Nat, until : 0..(MaxClock + OpenTicks)]]
  BY <1>4 DEF Succeed, RouterInv
<1>6. Becomes(c, Over(c, "answered"))
  BY DEF Succeed
<1> QED
  BY <1>1, <1>2, <1>3, <1>5, <1>6, OneCallMoves

(* The circuit of a failed model: the count goes up, or the time is set.   *)
CircuitType == [Models -> [failures : Nat, until : 0..(MaxClock + OpenTicks)]]

(* While a first attempt waits there is time left.                         *)
LEMMA TimeLeft ==
    ASSUME RouterInv, NEW c \in Calls, call[c].stage \in {"wait", "trip"}
    PROVE  call[c].models # <<>> /\ call[c].tried # 0 /\ (call[c].tried = 1 => clock < call[c].ends)
<1>1. /\ CallInv(call[c], clock) /\ clock \in Nat
      /\ call[c].ends \in Nat /\ call[c].expires \in Nat /\ call[c].tried \in Nat
  BY CallFacts DEF CallType
<1> QED
  BY <1>1 DEF CallInv

(* A failed call is to trip the circuit or goes on along the chain.        *)
LEMMA FailedInv ==
    ASSUME RouterInv, NEW c \in Calls, call[c].stage = "wait", Failed(c, "failed"),
           UNCHANGED clock, RegistryType'
    PROVE  RouterInv'
<1> DEFINE m == Head(call[c].models)
<1>1. PICK k : k = [call[c] EXCEPT !.stage = "trip", !.last = "failed"]
  OBVIOUS
<1>2. PICK n : n = [NextModel(c) EXCEPT !.last = "failed"]
  OBVIOUS
<1>3. Becomes(c, k) \/ Becomes(c, n)
  BY <1>1, <1>2 DEF Failed
<1>4. m \in Models /\ call[c] \in CallType /\ CallInv(call[c], clock)
  BY CallFacts
<1>5. /\ call[c].models # <<>> /\ call[c].tried # 0
      /\ call[c].tried = 1 => clock < call[c].ends
  BY TimeLeft
<1>6. n \in CallType /\ CallInv(n, clock)
  BY <1>2, <1>5, NextModelFacts, ListFacts
<1>7. k \in CallType /\ CallInv(k, clock)
  <2>1. "trip" \in Stages /\ "failed" \in Errors
    BY ListFacts
  <2>2. k \in CallType
    BY <1>1, <1>4, <2>1 DEF CallType
  <2>3. k.stage = "trip" /\ k.last = "failed" /\ k.models = call[c].models /\ k.ends = call[c].ends
          /\ k.tried = call[c].tried
    BY <1>1, <1>4 DEF CallType
  <2>4. k.tried >= 1
    BY <1>4, <2>3 DEF CallInv
  <2> QED
    BY <1>5, <2>2, <2>3, <2>4 DEF CallInv
<1>8. circuit' \in CircuitType
  BY <1>4 DEF Failed, RouterInv, CircuitType
<1> QED
  BY <1>3, <1>6, <1>7, <1>8, OneCallMoves DEF CircuitType

LEMMA FailModelInv ==
    ASSUME RouterInv, NEW c \in Calls, NEW missing \in BOOLEAN, FailModel(c, missing)
    PROVE  RouterInv'
<1> DEFINE m == Head(call[c].models)
<1>1. /\ call[c].stage = "wait" /\ UNCHANGED clock /\ Failed(c, "failed")
      /\ \/ registry' = WithRow(m, [Row(m) EXCEPT !.available = FALSE]) \/ UNCHANGED registry
  BY DEF FailModel
<1>2. m \in Models
  BY <1>1, CallFacts
<1>3. RegistryType'
  <2>1. CASE UNCHANGED registry
    BY <1>1, <2>1 DEF RouterInv, RegistryType
  <2>2. CASE registry' = WithRow(m, [Row(m) EXCEPT !.available = FALSE])
    BY <1>1, <1>2, <2>2, WithRowType
  <2> QED
    BY <1>1, <2>1, <2>2
<1> QED
  BY <1>1, <1>3, FailedInv

LEMMA RestFacts ==
    ASSUME RouterInv, NEW c \in Calls, call[c].stage = "wait"
    PROVE  Tail(call[c].wires) \in WireLists
<1>1. call[c].wires \in WireLists /\ call[c].wires # <<>>
  BY CallFacts DEF CallType, CallInv
<1> QED
  BY <1>1, ListFacts

LEMMA RejectProtocolInv ==
    ASSUME RouterInv, NEW c \in Calls, RejectProtocol(c)
    PROVE  RouterInv'
<1> DEFINE rest == Tail(call[c].wires)
<1>1. call[c].stage = "wait" /\ UNCHANGED <<clock, registry>>
  BY DEF RejectProtocol
<1>2. RegistryType'
  BY <1>1 DEF RouterInv, RegistryType
<1>3. CASE Failed(c, "failed")
  BY <1>1, <1>2, <1>3, FailedInv
<1>4. CASE rest # <<>> /\ Becomes(c, Attempt(c, rest)) /\ UNCHANGED circuit
  <2>1. rest \in WireLists /\ call[c].models # <<>>
    BY <1>1, RestFacts, TimeLeft
  <2>2. Attempt(c, rest) \in CallType /\ CallInv(Attempt(c, rest), clock)
    BY <1>1, <1>4, <2>1, AttemptFacts
  <2>3. circuit' \in CircuitType
    BY <1>4 DEF RouterInv, CircuitType
  <2> QED
    BY <1>1, <1>2, <1>4, <2>2, <2>3, OneCallMoves DEF CircuitType
<1> QED
  BY <1>3, <1>4 DEF RejectProtocol

LEMMA ExpireAttemptInv ==
    ASSUME RouterInv, NEW c \in Calls, ExpireAttempt(c)
    PROVE  RouterInv'
<1> DEFINE rest == Tail(call[c].wires)
<1>1. call[c].stage = "wait" /\ UNCHANGED <<clock, circuit, registry>>
  BY DEF ExpireAttempt
<1>2. circuit' \in CircuitType /\ RegistryType'
  BY <1>1 DEF RouterInv, RegistryType, CircuitType
<1>3. rest \in WireLists /\ call[c].models # <<>> /\ call[c].tried # 0
        /\ (call[c].tried = 1 => clock < call[c].ends)
  BY <1>1, RestFacts, TimeLeft
<1>4. CASE clock >= call[c].ends /\ Becomes(c, Over(c, "deadline"))
  BY <1>1, <1>2, <1>4, DeadlineFacts, OneCallMoves DEF CircuitType
<1>5. CASE Becomes(c, [NextModel(c) EXCEPT !.last = "timeout"])
  <2>1. PICK n : n = [NextModel(c) EXCEPT !.last = "timeout"]
    OBVIOUS
  <2>2. n \in CallType /\ CallInv(n, clock)
    BY <1>1, <1>3, <2>1, NextModelFacts, ListFacts
  <2> QED
    BY <1>1, <1>2, <1>5, <2>1, <2>2, OneCallMoves DEF CircuitType
<1>6. CASE rest # <<>> /\ Becomes(c, [Attempt(c, rest) EXCEPT !.last = "timeout"])
  <2>1. PICK a : a = Attempt(c, rest)
    OBVIOUS
  <2>2. a \in CallType /\ CallInv(a, clock)
    BY <1>1, <1>3, <1>6, <2>1, AttemptFacts
  <2>3. PICK b : b = [a EXCEPT !.last = "timeout"]
    OBVIOUS
  <2>4. /\ b.stage = a.stage /\ b.models = a.models /\ b.tried = a.tried /\ b.ends = a.ends
        /\ b.expires = a.expires /\ b.wires = a.wires /\ b.last = "timeout"
    BY <2>2, <2>3 DEF CallType
  <2>5. b \in CallType
    BY <2>2, <2>3, ListFacts DEF CallType
  <2>6. CallInv(b, clock)
    BY <2>2, <2>4 DEF CallInv
  <2> QED
    BY <1>1, <1>2, <1>6, <2>1, <2>3, <2>5, <2>6, OneCallMoves DEF CircuitType
<1> QED
  BY <1>4, <1>5, <1>6 DEF ExpireAttempt

LEMMA TripCircuitInv ==
    ASSUME RouterInv, NEW c \in Calls, TripCircuit(c)
    PROVE  RouterInv'
<1> DEFINE m == Head(call[c].models)
<1>1. /\ call[c].stage = "trip" /\ UNCHANGED <<clock, registry>> /\ Becomes(c, NextModel(c))
      /\ circuit' = [circuit EXCEPT ![m].until = clock + OpenTicks]
  BY DEF TripCircuit
<1>2. m \in Models
  BY <1>1, CallFacts
<1>3. circuit' \in CircuitType
  <2>1. clock + OpenTicks \in 0..(MaxClock + OpenTicks)
    BY RouterAssumption DEF RouterInv
  <2> QED
    BY <1>1, <1>2, <2>1 DEF RouterInv, CircuitType
<1>4. RegistryType'
  BY <1>1 DEF RouterInv, RegistryType
<1>5. NextModel(c) \in CallType /\ CallInv(NextModel(c), clock)
  BY <1>1, TimeLeft, NextModelFacts, ListFacts
<1> QED
  BY <1>1, <1>3, <1>4, <1>5, OneCallMoves DEF CircuitType

LEMMA RouterTickInv ==
    ASSUME RouterInv, RouterTick
    PROVE  RouterInv'
<1>1. /\ clock < MaxClock /\ clock' = clock + 1 /\ UNCHANGED <<circuit, registry, call>>
  BY DEF RouterTick
<1>2. clock' \in 0..MaxClock
  BY <1>1, RouterAssumption DEF RouterInv
<1>3. ASSUME NEW c \in Calls PROVE CallInv(call[c], clock')
  <2>1. /\ CallInv(call[c], clock) /\ clock \in Nat /\ call[c].expires \in Nat
        /\ \/ call[c].stage \in {"idle", "over"}
           \/ call[c].stage = "wait" /\ clock < call[c].expires
    BY CallFacts DEF RouterTick, CallType
  <2>2. CASE call[c].stage \in {"idle", "over"}
    BY <2>1, <2>2 DEF CallInv
  <2>3. CASE call[c].stage = "wait" /\ clock < call[c].expires
    BY <2>1, <2>3, <1>1 DEF CallInv
  <2> QED
    BY <2>1, <2>2, <2>3
<1>4. RegistryType'
  BY <1>1 DEF RouterInv, RegistryType
<1> QED
  BY <1>1, <1>2, <1>3, <1>4 DEF RouterInv

LEMMA RouterNextInv ==
    RouterInv /\ [RouterNext]_routerVars => RouterInv'
<1> SUFFICES ASSUME RouterInv, [RouterNext]_routerVars PROVE RouterInv'
  OBVIOUS
<1>1. CASE UNCHANGED routerVars
  BY <1>1 DEF routerVars, RouterInv, RegistryType
<1>2. CASE RouterTick
  BY <1>2, RouterTickInv
<1>3. ASSUME NEW c \in Calls, NEW flag \in BOOLEAN, StartCall(c, flag) \/ FailModel(c, flag)
      PROVE  RouterInv'
  BY <1>3, StartCallInv, FailModelInv
<1>4. ASSUME NEW c \in Calls,
             \/ ConsiderModel(c) \/ Succeed(c) \/ RejectProtocol(c) \/ ExpireAttempt(c)
             \/ TripCircuit(c)
      PROVE  RouterInv'
  BY <1>4, ConsiderModelInv, SucceedInv, RejectProtocolInv, ExpireAttemptInv, TripCircuitInv
<1> QED
  BY <1>1, <1>2, <1>3, <1>4 DEF RouterNext

LEMMA RouterInvariant == RouterSpec => []RouterInv
  BY RouterStarts, RouterNextInv, PTL DEF RouterSpec

(* No single hanging provider uses up the time of a chain: a call that     *)
(* answers Deadline has asked at least twice, whatever the chain, the      *)
(* timeout, the thresholds and the calls around it.                        *)
THEOREM HangingLeavesRoom == RouterSpec => []HangLeavesRoom
  BY RouterInvariant, RouterTypes, PTL

(* The clock, the circuits, the registry and the calls have their types.   *)
THEOREM RouterTypesHold == RouterSpec => []RouterTypeOK
  BY RouterInvariant, RouterTypes, PTL

-----------------------------------------------------------------------------
(* Rankings                                                                *)

GameLists == Seq(Games)
Scopes == {<<>>, <<"progressive">>} \cup ((Users \cup {Visitor}) \X BOOLEAN)
TaskStages == {"idle", "resolve", "publish", "lookup", "admit", "charge", "call", "wait", "done"}
Outcomes == {"none", "pending", "used", "cached", "fallback"}
TaskType ==
    [stage : TaskStages, who : Users \cup {Visitor}, own : BOOLEAN, async : BOOLEAN, scope : Scopes,
     base : GameLists, items : GameLists, permit : BOOLEAN, charged : BOOLEAN, status : Outcomes]

(* One task: its list is its base in another order, only an account is     *)
(* charged, and a permit is held exactly from the admission to the answer. *)
TaskInv(k) ==
    /\ \A x : x \in ToSet(k.items) <=> x \in ToSet(k.base)
    /\ IsInjective(k.items) /\ IsInjective(k.base)
    /\ k.charged => k.who \in Users
    /\ k.stage = "charge" => k.charged
    /\ k.permit <=> k.charged /\ k.stage \in {"charge", "call", "wait"}

HoldsFor(k, u) == k.who = u /\ k.permit
DueFor(k, u) == k.who = u /\ k.charged /\ k.stage = "call"

(* The permits of an account under way, and its charged calls to be made.  *)
Holding(f, u) == {t \in Tasks : HoldsFor(f[t], u)}
Overdue(f, u) == {t \in Tasks : DueFor(f[t], u)}

RankInv ==
    /\ mode \in [Users -> Modes] /\ analysis \in [Tasks -> Outcomes]
    /\ usage \in [Users -> Nat] /\ permits \in [Users -> Nat] /\ called \in [Users -> Nat]
    /\ \A e \in kept : e.ids \in SeqOf(Games, MaxRanked)
    /\ task \in [Tasks -> TaskType] /\ \A t \in Tasks : TaskInv(task[t])
    /\ \A u \in Users : /\ permits[u] = Cardinality(Holding(task, u)) /\ permits[u] <= MaxPermits
                        /\ called[u] + Cardinality(Overdue(task, u)) <= usage[u]
                        /\ usage[u] <= DailyQuota

LEMMA TaskWords ==
    /\ "idle" \in TaskStages /\ "resolve" \in TaskStages /\ "publish" \in TaskStages
    /\ "lookup" \in TaskStages /\ "admit" \in TaskStages /\ "charge" \in TaskStages
    /\ "call" \in TaskStages /\ "wait" \in TaskStages /\ "done" \in TaskStages
  BY DEF TaskStages

LEMMA OutcomeWords ==
    /\ "none" \in Outcomes /\ "pending" \in Outcomes /\ "used" \in Outcomes
    /\ "cached" \in Outcomes /\ "fallback" \in Outcomes
  BY DEF Outcomes

LEMMA NoTaskFacts == NoTask \in TaskType /\ TaskInv(NoTask)
<1>1. <<>> \in GameLists /\ <<>> \in Scopes /\ Visitor \in Users \cup {Visitor}
  BY DEF GameLists, Scopes
<1>2. NoTask \in TaskType
  BY <1>1, TaskWords, OutcomeWords DEF NoTask, TaskType
<1>3. TaskInv(NoTask)
  BY DEF NoTask, TaskInv, IsInjective
<1> QED
  BY <1>2, <1>3

LEMMA SetFacts ==
    ASSUME NEW f, NEW u
    PROVE  /\ Holding(f, u) \subseteq Tasks /\ Overdue(f, u) \subseteq Tasks
           /\ IsFiniteSet(Holding(f, u)) /\ IsFiniteSet(Overdue(f, u))
           /\ Cardinality(Holding(f, u)) \in Nat /\ Cardinality(Overdue(f, u)) \in Nat
<1>1. Holding(f, u) \subseteq Tasks /\ Overdue(f, u) \subseteq Tasks
  BY DEF Holding, Overdue
<1>2. IsFiniteSet(Holding(f, u)) /\ IsFiniteSet(Overdue(f, u))
  BY <1>1, RankAssumption, FS_Subset
<1> QED
  BY <1>1, <1>2, FS_CardinalityType

(* Reordering keeps the games of a list, each once.                        *)
LEMMA MergedFacts ==
    ASSUME NEW items \in GameLists, IsInjective(items), NEW S, NEW first \in Seq(S),
           IsInjective(first), NEW merged,
           merged = Among(first, ToSet(items)) \o Among(items, ToSet(items) \ ToSet(first))
    PROVE  /\ merged \in GameLists /\ IsInjective(merged)
           /\ \A x : x \in ToSet(merged) <=> x \in ToSet(items)
<1> DEFINE U == S \cup Games
           a == Among(first, ToSet(items))
           b == Among(items, ToSet(items) \ ToSet(first))
<1>1. first \in Seq(U) /\ items \in Seq(U)
  <2>1. first \in Seq(U)
    BY SeqMonotonic
  <2>2. items \in Seq(U)
    BY SeqMonotonic DEF GameLists
  <2> QED
    BY <2>1, <2>2
<1>2. /\ a \in Seq(U) /\ IsInjective(a)
      /\ \A x : x \in ToSet(a) <=> x \in ToSet(first) /\ x \in ToSet(items)
  BY <1>1, AmongFacts
<1>3. /\ b \in Seq(U) /\ IsInjective(b)
      /\ \A x : x \in ToSet(b) <=> x \in ToSet(items) /\ x \in ToSet(items) \ ToSet(first)
  BY <1>1, AmongFacts
<1> HIDE DEF a, b
<1>4. merged = a \o b
  BY DEF a, b
<1>5. ToSet(a) \cap ToSet(b) = {}
  BY <1>2, <1>3
<1>6. /\ merged \in Seq(U) /\ IsInjective(merged)
      /\ \A x : x \in ToSet(merged) <=> x \in ToSet(a) \/ x \in ToSet(b)
  <2>1. PICK p \in Seq(U) : p = a
    BY <1>2
  <2>2. PICK q \in Seq(U) : q = b
    BY <1>3
  <2>3. /\ p \o q \in Seq(U)
        /\ \A x : x \in ToSet(p \o q) <=> x \in ToSet(p) \/ x \in ToSet(q)
        /\ (IsInjective(p) /\ IsInjective(q) /\ ToSet(p) \cap ToSet(q) = {}) => IsInjective(p \o q)
    BY ConcatFacts
  <2> QED
    BY <1>2, <1>3, <1>4, <1>5, <2>1, <2>2, <2>3
<1>7. \A x : x \in ToSet(merged) <=> x \in ToSet(items)
  BY <1>2, <1>3, <1>6
<1>8. \A x \in ToSet(items) : x \in Games
  BY DEF GameLists, ToSet
<1>9. merged \in Seq(Games)
  BY <1>6, <1>7, <1>8, Narrowed
<1> QED
  BY <1>6, <1>7, <1>9 DEF GameLists

LEMMA RankKept ==
    RankInv => RankTypeOK /\ CallsWithinQuota /\ RankingKeepsList
<1> SUFFICES ASSUME RankInv PROVE RankTypeOK /\ CallsWithinQuota /\ RankingKeepsList
  OBVIOUS
<1>1. RankTypeOK
  <2>1. \A u \in Users : permits[u] \in 0..MaxPermits
    BY RankAssumption DEF RankInv
  <2>2. permits \in [Users -> 0..MaxPermits]
    BY <2>1 DEF RankInv
  <2> QED
    BY <2>2 DEF RankInv, RankTypeOK, Outcomes
<1>2. CallsWithinQuota
  <2> SUFFICES ASSUME NEW u \in Users
               PROVE  /\ called[u] <= usage[u] /\ usage[u] <= DailyQuota
                      /\ permits[u] = Quantify({t \in Tasks : task[t].who = u},
                                              LAMBDA t : task[t].permit)
    BY DEF CallsWithinQuota
  <2>1. Cardinality(Overdue(task, u)) \in Nat /\ called[u] \in Nat /\ usage[u] \in Nat
    BY SetFacts DEF RankInv
  <2>2. /\ called[u] + Cardinality(Overdue(task, u)) <= usage[u] /\ usage[u] <= DailyQuota
        /\ permits[u] = Cardinality(Holding(task, u))
    BY DEF RankInv
  <2>3. {t \in {t \in Tasks : task[t].who = u} : task[t].permit} = Holding(task, u)
    BY DEF Holding, HoldsFor
  <2>4. Quantify({t \in Tasks : task[t].who = u}, LAMBDA t : task[t].permit)
          = Cardinality(Holding(task, u))
    BY <2>3 DEF Quantify
  <2> QED
    BY <2>1, <2>2, <2>4
<1>3. RankingKeepsList
  <2> SUFFICES ASSUME NEW t \in Tasks
               PROVE  /\ ToSet(task[t].items) = ToSet(task[t].base)
                      /\ Len(task[t].items) = Len(task[t].base)
    BY DEF RankingKeepsList
  <2>1. task[t] \in TaskType /\ TaskInv(task[t])
    BY DEF RankInv
  <2>2. PICK p \in Seq(Games) : p = task[t].items
    BY <2>1 DEF TaskType, GameLists
  <2>3. PICK q \in Seq(Games) : q = task[t].base
    BY <2>1 DEF TaskType, GameLists
  <2>4. IsInjective(p) /\ IsInjective(q)
    BY <2>1, <2>2, <2>3 DEF TaskInv
  <2>7. \A x : x \in ToSet(p) <=> x \in ToSet(q)
    BY <2>1, <2>2, <2>3 DEF TaskInv
  <2>5. ToSet(p) = ToSet(q)
    BY <2>7
  <2>6. Cardinality(ToSet(p)) = Len(p) /\ Cardinality(ToSet(q)) = Len(q)
    BY <2>4, InjectiveLen
  <2> QED
    BY <2>2, <2>3, <2>5, <2>6
<1> QED
  BY <1>1, <1>2, <1>3

LEMMA RankStarts == RankInit => RankInv
<1> SUFFICES ASSUME RankInit PROVE RankInv
  OBVIOUS
<1>1. task = [t \in Tasks |-> NoTask] /\ analysis = [t \in Tasks |-> "none"]
        /\ usage = [u \in Users |-> 0] /\ permits = [u \in Users |-> 0]
        /\ called = [u \in Users |-> 0] /\ kept = {} /\ mode \in [Users -> Modes]
  BY DEF RankInit
<1>2. task \in [Tasks -> TaskType] /\ \A t \in Tasks : TaskInv(task[t])
  BY <1>1, NoTaskFacts
<1>3. \A u \in Users : Holding(task, u) = {} /\ Overdue(task, u) = {}
  BY <1>1 DEF Holding, Overdue, HoldsFor, DueFor, NoTask
<1>4. analysis \in [Tasks -> Outcomes]
  BY <1>1, OutcomeWords
<1>5. \A u \in Users : /\ permits[u] = Cardinality(Holding(task, u)) /\ permits[u] <= MaxPermits
                       /\ called[u] + Cardinality(Overdue(task, u)) <= usage[u]
                       /\ usage[u] <= DailyQuota
  <2> TAKE u \in Users
  <2>1. permits[u] = 0 /\ called[u] = 0 /\ usage[u] = 0
    BY <1>1
  <2>2. Cardinality(Holding(task, u)) = 0 /\ Cardinality(Overdue(task, u)) = 0
    BY <1>3, FS_EmptySet
  <2>3. 0 <= MaxPermits /\ 0 <= DailyQuota
    BY RankAssumption
  <2> QED
    BY <2>1, <2>2, <2>3
<1> QED
  BY <1>1, <1>2, <1>4, <1>5 DEF RankInv

(* One task moves: what becomes of the counts.                             *)
LEMMA TaskMoves ==
    ASSUME RankInv, NEW t \in Tasks, NEW k \in TaskType, TaskInv(k), Turns(t, k), NEW u
    PROVE  /\ task' \in [Tasks -> TaskType] /\ \A x \in Tasks : TaskInv(task'[x])
           /\ (HoldsFor(task[t], u) <=> HoldsFor(k, u))
                 => Cardinality(Holding(task', u)) = Cardinality(Holding(task, u))
           /\ (~HoldsFor(task[t], u) /\ HoldsFor(k, u))
                 => Cardinality(Holding(task', u)) = Cardinality(Holding(task, u)) + 1
           /\ (HoldsFor(task[t], u) /\ ~HoldsFor(k, u))
                 => Cardinality(Holding(task', u)) = Cardinality(Holding(task, u)) - 1
           /\ (DueFor(task[t], u) <=> DueFor(k, u))
                 => Cardinality(Overdue(task', u)) = Cardinality(Overdue(task, u))
           /\ (~DueFor(task[t], u) /\ DueFor(k, u))
                 => Cardinality(Overdue(task', u)) = Cardinality(Overdue(task, u)) + 1
           /\ (DueFor(task[t], u) /\ ~DueFor(k, u))
                 => Cardinality(Overdue(task', u)) = Cardinality(Overdue(task, u)) - 1
<1>1. task' = [task EXCEPT ![t] = k] /\ task \in [Tasks -> TaskType]
        /\ \A x \in Tasks : TaskInv(task[x])
  BY DEF Turns, RankInv
<1>2. task' \in [Tasks -> TaskType] /\ task'[t] = k /\ \A x \in Tasks : x # t => task'[x] = task[x]
  BY <1>1
<1>3. \A x \in Tasks : TaskInv(task'[x])
  BY <1>1, <1>2
<1> DEFINE A == Holding(task, u)
           B == Holding(task', u)
           C == Overdue(task, u)
           D == Overdue(task', u)
<1>4. \A x \in Tasks : x # t => (x \in A <=> x \in B)
  BY <1>2 DEF Holding
<1>5. \A x \in Tasks : x # t => (x \in C <=> x \in D)
  BY <1>2 DEF Overdue
<1>6. /\ t \in A <=> HoldsFor(task[t], u)
      /\ t \in B <=> HoldsFor(k, u)
      /\ t \in C <=> DueFor(task[t], u)
      /\ t \in D <=> DueFor(k, u)
  BY <1>2 DEF Holding, Overdue
<1>7. A \subseteq Tasks /\ B \subseteq Tasks /\ C \subseteq Tasks /\ D \subseteq Tasks
  BY DEF Holding, Overdue
<1> HIDE DEF A, B, C, D
<1>8. /\ (t \in A <=> t \in B) => Cardinality(B) = Cardinality(A)
      /\ t \notin A /\ t \in B => Cardinality(B) = Cardinality(A) + 1
      /\ t \in A /\ t \notin B => Cardinality(B) = Cardinality(A) - 1
  BY <1>4, <1>7, RankAssumption, OneDiffers
<1>9. /\ (t \in C <=> t \in D) => Cardinality(D) = Cardinality(C)
      /\ t \notin C /\ t \in D => Cardinality(D) = Cardinality(C) + 1
      /\ t \in C /\ t \notin D => Cardinality(D) = Cardinality(C) - 1
  BY <1>5, <1>7, RankAssumption, OneDiffers
<1> QED
  BY <1>2, <1>3, <1>6, <1>8, <1>9 DEF A, B, C, D

(* The other variables: their types, and what the cache keeps.             *)
RestOK ==
    /\ mode \in [Users -> Modes] /\ analysis \in [Tasks -> Outcomes]
    /\ \A e \in kept : e.ids \in SeqOf(Games, MaxRanked)

(* From the task old to k no permit changes hands and no call becomes due. *)
Calm(old, k) ==
    \A u \in Users : /\ HoldsFor(old, u) <=> HoldsFor(k, u)
                     /\ DueFor(k, u) => DueFor(old, u)

(* A step after which the task holds what it held, and no call is due that *)
(* was not.                                                                *)
LEMMA QuietStep ==
    ASSUME RankInv, NEW t \in Tasks, NEW k \in TaskType, TaskInv(k), Turns(t, k),
           Calm(task[t], k), UNCHANGED <<usage, permits, called>>, RestOK'
    PROVE  RankInv'
<1>1. task' \in [Tasks -> TaskType] /\ \A x \in Tasks : TaskInv(task'[x])
  BY TaskMoves
<1>2. ASSUME NEW u \in Users
      PROVE  /\ permits[u] = Cardinality(Holding(task', u)) /\ permits[u] <= MaxPermits
             /\ called[u] + Cardinality(Overdue(task', u)) <= usage[u]
             /\ usage[u] <= DailyQuota
  <2>5. (HoldsFor(task[t], u) <=> HoldsFor(k, u)) /\ (DueFor(k, u) => DueFor(task[t], u))
    BY DEF Calm
  <2>1. Cardinality(Holding(task', u)) = Cardinality(Holding(task, u))
    BY <2>5, TaskMoves
  <2>2. \/ Cardinality(Overdue(task', u)) = Cardinality(Overdue(task, u))
        \/ Cardinality(Overdue(task', u)) = Cardinality(Overdue(task, u)) - 1
    BY <2>5, TaskMoves
  <2>3. Cardinality(Overdue(task, u)) \in Nat /\ called[u] \in Nat /\ usage[u] \in Nat
    BY SetFacts DEF RankInv
  <2>4. /\ permits[u] = Cardinality(Holding(task, u)) /\ permits[u] <= MaxPermits
        /\ called[u] + Cardinality(Overdue(task, u)) <= usage[u] /\ usage[u] <= DailyQuota
    BY DEF RankInv
  <2> QED
    BY <2>1, <2>2, <2>3, <2>4
<1> QED
  BY <1>1, <1>2 DEF RankInv, RestOK

(* A step that gives a permit back, if the task held one, and after which  *)
(* it has no call to make.                                                 *)
LEMMA FreeingStep ==
    ASSUME RankInv, NEW t \in Tasks, NEW k \in TaskType, TaskInv(k), Turns(t, k), Frees(t),
           ~k.permit, k.stage # "call",
           UNCHANGED <<usage, called>>, RestOK'
    PROVE  RankInv'
<1> DEFINE w == task[t].who
<1>1. task' \in [Tasks -> TaskType] /\ \A x \in Tasks : TaskInv(task'[x])
  BY TaskMoves
<1>2. /\ permits \in [Users -> Nat]
      /\ task[t].permit => permits' = [permits EXCEPT ![w] = permits[w] - 1]
      /\ ~task[t].permit => permits' = permits
  BY DEF RankInv, TaskInv, Frees
<1>3. ASSUME NEW u \in Users
      PROVE  /\ permits'[u] \in Nat
             /\ permits'[u] = Cardinality(Holding(task', u)) /\ permits'[u] <= MaxPermits
             /\ called[u] + Cardinality(Overdue(task', u)) <= usage[u]
             /\ usage[u] <= DailyQuota
  <2>1. ~HoldsFor(k, u) /\ ~DueFor(k, u)
    BY DEF HoldsFor, DueFor
  <2>2. \/ Cardinality(Overdue(task', u)) = Cardinality(Overdue(task, u))
        \/ Cardinality(Overdue(task', u)) = Cardinality(Overdue(task, u)) - 1
    BY <2>1, TaskMoves
  <2>3. /\ Cardinality(Overdue(task, u)) \in Nat /\ called[u] \in Nat /\ usage[u] \in Nat
        /\ permits[u] \in Nat /\ Cardinality(Holding(task', u)) \in Nat /\ MaxPermits \in Nat
    BY SetFacts, RankAssumption DEF RankInv
  <2>4. /\ permits[u] = Cardinality(Holding(task, u)) /\ permits[u] <= MaxPermits
        /\ called[u] + Cardinality(Overdue(task, u)) <= usage[u] /\ usage[u] <= DailyQuota
    BY DEF RankInv
  <2>5. CASE HoldsFor(task[t], u)
    <3>1. task[t].permit /\ w = u
      BY <2>5 DEF HoldsFor
    <3>2. permits'[u] = permits[u] - 1
      BY <3>1, <1>2
    <3>3. Cardinality(Holding(task', u)) = Cardinality(Holding(task, u)) - 1
      BY <2>1, <2>5, TaskMoves
    <3> QED
      BY <2>2, <2>3, <2>4, <3>2, <3>3
  <2>6. CASE ~HoldsFor(task[t], u)
    <3>1. ~task[t].permit \/ w # u
      BY <2>6 DEF HoldsFor
    <3>2. permits'[u] = permits[u]
      BY <3>1, <1>2
    <3>3. Cardinality(Holding(task', u)) = Cardinality(Holding(task, u))
      BY <2>1, <2>6, TaskMoves
    <3> QED
      BY <2>2, <2>3, <2>4, <3>2, <3>3
  <2> QED
    BY <2>5, <2>6
<1>4. permits' \in [Users -> Nat]
  <2>1. permits' = [u \in Users |-> permits'[u]]
    BY <1>2
  <2> QED
    BY <2>1, <1>3
<1> QED
  BY <1>1, <1>3, <1>4 DEF RankInv, RestOK

LEMMA BoundedLists ==
    ASSUME NEW S, NEW n \in Nat
    PROVE  /\ \A s \in SeqOf(S, n) : s \in Seq(S)
           /\ \A s \in Seq(S) : Len(s) <= n => s \in SeqOf(S, n)
<1>1. ASSUME NEW s \in SeqOf(S, n) PROVE s \in Seq(S)
  <2>1. PICK m \in 0..n : s \in [1..m -> S]
    BY DEF SeqOf
  <2> QED
    BY <2>1
<1>2. ASSUME NEW s \in Seq(S), Len(s) <= n PROVE s \in SeqOf(S, n)
  <2>1. Len(s) \in 0..n /\ s \in [1..Len(s) -> S]
    BY <1>2
  <2> QED
    BY <2>1 DEF SeqOf
<1> QED
  BY <1>1, <1>2

(* What is accepted of an answer names games of the list, each once, and   *)
(* no more than asked for.                                                 *)
LEMMA AcceptedFacts ==
    ASSUME NEW output \in Outputs, NEW items \in GameLists, Acceptable(output, items)
    PROVE  /\ Accepted(output, items) \in Seq(Games) /\ IsInjective(Accepted(output, items))
           /\ Accepted(output, items) \in SeqOf(Games, MaxRanked)
<1> DEFINE S == Games \cup {Foreign}
           ids == Accepted(output, items)
<1>1. output.ids \in Seq(S) /\ output = [ids |-> output.ids, clean |-> output.clean]
  <2>1. output.ids \in SeqOf(S, MaxRanked + 1) /\ MaxRanked + 1 \in Nat
          /\ output = [ids |-> output.ids, clean |-> output.clean]
    BY RankAssumption DEF Outputs
  <2> HIDE DEF S
  <2> QED
    BY <2>1, BoundedLists
<1>2. ASSUME NEW q \in Seq(S), NEW o, Valid(o, items), q = o.ids
      PROVE  Len(q) <= MaxRanked /\ (\A x \in ToSet(q) : x \in ToSet(items)) /\ IsInjective(q)
  BY <1>2 DEF Valid
<1>3. PICK q \in Seq(S) : q = ids /\ Len(q) <= MaxRanked
                             /\ (\A x \in ToSet(q) : x \in ToSet(items)) /\ IsInjective(q)
  <2>1. CASE Valid(output, items)
    <3>1. ids = output.ids
      BY <2>1 DEF Accepted
    <3> HIDE DEF S, ids
    <3> QED
      BY <1>1, <1>2, <2>1, <3>1
  <2>2. CASE ~Valid(output, items) /\ Sanitizable(output, items)
    <3>1. ids = Sanitized(output, items).ids /\ Valid(Sanitized(output, items), items)
      BY <2>2 DEF Accepted, Sanitizable
    <3>2. Sanitized(output, items).ids = Among(output.ids, ToSet(items))
      BY DEF Sanitized
    <3>3. Among(output.ids, ToSet(items)) \in Seq(S)
      BY <1>1, AmongFacts
    <3>4. PICK o : o = Sanitized(output, items)
      OBVIOUS
    <3> HIDE DEF S, ids
    <3> QED
      BY <1>2, <3>1, <3>2, <3>3, <3>4
  <2>3. CASE ~Valid(output, items) /\ ~Sanitizable(output, items)
    <3>1. ids = output.ids /\ Valid(RankingOnly(output), items)
      BY <2>3 DEF Accepted, Acceptable
    <3>2. RankingOnly(output).ids = output.ids
      BY <1>1 DEF RankingOnly
    <3> HIDE DEF S, ids
    <3> QED
      BY <1>1, <1>2, <3>1, <3>2
  <2> QED
    BY <2>1, <2>2, <2>3
<1>4. \A x \in ToSet(items) : x \in Games
  BY DEF GameLists, ToSet
<1>5. q \in Seq(Games)
  BY <1>3, <1>4, Narrowed
<1>6. q \in SeqOf(Games, MaxRanked)
  BY <1>3, <1>5, BoundedLists, RankAssumption
<1> QED
  BY <1>3, <1>5, <1>6

LEMMA TaskFacts ==
    ASSUME RankInv, NEW t \in Tasks
    PROVE  /\ task[t] \in TaskType /\ TaskInv(task[t])
           /\ mode \in [Users -> Modes] /\ analysis \in [Tasks -> Outcomes]
           /\ \A e \in kept : e.ids \in SeqOf(Games, MaxRanked)
           /\ IsInjective(task[t].items) /\ task[t].items \in GameLists
<1>1. task[t] \in TaskType /\ TaskInv(task[t])
  BY DEF RankInv
<1>2. IsInjective(task[t].items) /\ task[t].items \in GameLists
  BY <1>1 DEF TaskInv, TaskType
<1> QED
  BY <1>1, <1>2 DEF RankInv

(* A task that ends, with its list reordered or as it was.                 *)
LEMMA FinishFacts ==
    ASSUME RankInv, NEW t \in Tasks, NEW status \in Outcomes, NEW items \in GameLists,
           IsInjective(items), \A x : x \in ToSet(items) <=> x \in ToSet(task[t].items),
           Finish(t, status, items)
    PROVE  \E k \in TaskType : TaskInv(k) /\ Turns(t, k) /\ ~k.permit /\ k.stage = "done"
<1>1. PICK k : k = [task[t] EXCEPT !.stage = "done", !.status = status, !.items = items,
                                   !.permit = FALSE]
  OBVIOUS
<1>2. task[t] \in TaskType /\ TaskInv(task[t]) /\ "done" \in TaskStages
  BY TaskFacts, TaskWords
<1>3. k \in TaskType
  BY <1>1, <1>2 DEF TaskType
<1>4. /\ k.items = items /\ k.base = task[t].base /\ k.who = task[t].who /\ k.charged = task[t].charged
      /\ k.permit = FALSE /\ k.stage = "done"
  BY <1>1, <1>2 DEF TaskType
<1>5. TaskInv(k)
  BY <1>2, <1>4 DEF TaskInv
<1>6. Turns(t, k)
  BY <1>1 DEF Finish
<1> QED
  BY <1>3, <1>4, <1>5, <1>6

LEMMA SameFinish ==
    ASSUME RankInv, NEW t \in Tasks, NEW status \in Outcomes, Finish(t, status, task[t].items)
    PROVE  \E k \in TaskType : TaskInv(k) /\ Turns(t, k) /\ ~k.permit /\ k.stage = "done"
<1>1. task[t].items \in GameLists /\ IsInjective(task[t].items)
  BY TaskFacts
<1> QED
  BY <1>1, FinishFacts

(* A task ends that held no permit.                                        *)
LEMMA QuietEnd ==
    ASSUME RankInv, NEW t \in Tasks, ~task[t].permit,
           NEW k \in TaskType, TaskInv(k), Turns(t, k), ~k.permit, k.stage # "call",
           UNCHANGED <<usage, permits, called>>, RestOK'
    PROVE  RankInv'
<1>1. Calm(task[t], k)
  BY DEF Calm, HoldsFor, DueFor
<1> QED
  BY <1>1, QuietStep

LEMMA BeginRankingInv ==
    ASSUME RankInv, NEW t \in Tasks, NEW ask \in Asks, NEW base \in Bases, NEW hits \in Retrieved,
           BeginRanking(t, ask, base, hits)
    PROVE  RankInv'
<1> DEFINE items == Reordered(base, hits)
<1>1. PICK k : k = [NoTask EXCEPT !.stage = "resolve", !.who = ask.who, !.own = ask.own,
                                  !.async = ask.async, !.scope = <<ask.who, ask.own>>,
                                  !.base = base, !.items = items]
  OBVIOUS
<1>2. base \in Bases \cup Retrieved /\ hits \in Bases \cup Retrieved
  OBVIOUS
<1>11. /\ base \in Seq(ToSet(base)) /\ IsInjective(base)
       /\ hits \in Seq(ToSet(hits)) /\ IsInjective(hits)
  BY <1>2, RankAssumption
<1>12. ask.who \in Users \cup {Visitor} /\ {ask.own, ask.async} \subseteq BOOLEAN
  BY RankAssumption
<1>13. ask.own \in BOOLEAN /\ ask.async \in BOOLEAN
  BY <1>12
<1>3. base \in GameLists
  <2>1. \A x \in ToSet(base) : x \in Games
    BY DEF Games
  <2>2. base \in Seq(Games)
    BY <1>11, <2>1, Narrowed
  <2> QED
    BY <2>2 DEF GameLists
<1>4. items \in GameLists /\ IsInjective(items) /\ \A x : x \in ToSet(items) <=> x \in ToSet(base)
  <2>1. items = Among(hits, ToSet(base)) \o Among(base, ToSet(base) \ ToSet(hits))
    BY DEF Reordered
  <2>2. PICK S : S = ToSet(hits)
    OBVIOUS
  <2>3. PICK first : first = hits
    OBVIOUS
  <2>4. first \in Seq(S) /\ IsInjective(first)
    BY <1>11, <2>2, <2>3
  <2>5. items = Among(first, ToSet(base)) \o Among(base, ToSet(base) \ ToSet(first))
    BY <2>1, <2>3
  <2> HIDE DEF items
  <2> QED
    BY <1>11, <1>3, <2>4, <2>5, MergedFacts, ZenonT(90)
<1>5. <<ask.who, ask.own>> \in Scopes
  BY <1>12, <1>13 DEF Scopes
<1>6. k \in TaskType
  <2> HIDE DEF items
  <2> QED
    BY <1>1, <1>12, <1>13, <1>3, <1>4, <1>5, NoTaskFacts, TaskWords DEF NoTask, TaskType
<1>7. k.items = items /\ k.base = base /\ ~k.charged /\ ~k.permit /\ k.stage = "resolve"
  BY <1>1 DEF NoTask
<1>8. TaskInv(k)
  BY <1>11, <1>4, <1>7 DEF TaskInv
<1>9. /\ task[t].stage = "idle" /\ Turns(t, k) /\ UNCHANGED <<mode, usage, permits, kept, analysis, called>>
  BY <1>1 DEF BeginRanking
<1>10. ~task[t].permit /\ RestOK'
  BY <1>9, TaskFacts DEF TaskInv, RestOK
<1> QED
  BY <1>6, <1>7, <1>8, <1>9, <1>10, QuietEnd

LEMMA RefuseModelInv ==
    ASSUME RankInv, NEW t \in Tasks, RefuseModel(t)
    PROVE  RankInv'
<1>1. /\ task[t].stage = "resolve" /\ Turns(t, NoTask)
      /\ UNCHANGED <<mode, usage, permits, kept, analysis, called>>
  BY DEF RefuseModel
<1>2. ~task[t].permit /\ RestOK'
  BY <1>1, TaskFacts DEF TaskInv, RestOK
<1>3. ~NoTask.permit /\ NoTask.stage # "call"
  BY DEF NoTask
<1> QED
  BY <1>1, <1>2, <1>3, NoTaskFacts, QuietEnd

LEMMA ResolveGatewayInv ==
    ASSUME RankInv, NEW t \in Tasks, ResolveGateway(t)
    PROVE  RankInv'
<1> DEFINE gateway == Gateway(t)
<1>1. task[t].stage = "resolve" /\ UNCHANGED <<mode, usage, permits, kept, analysis, called>>
  BY DEF ResolveGateway
<1>2. /\ ~task[t].permit /\ RestOK' /\ task[t] \in TaskType /\ TaskInv(task[t])
      /\ UNCHANGED <<usage, permits, called>>
  BY <1>1, TaskFacts DEF TaskInv, RestOK
<1>3. CASE Finish(t, "fallback", task[t].items)
  BY <1>2, <1>3, OutcomeWords, SameFinish, QuietEnd
<1>4. CASE task[t].items = <<>> /\ Finish(t, "used", <<>>)
  BY <1>2, <1>4, OutcomeWords, SameFinish, QuietEnd
<1>5. CASE Turns(t, [task[t] EXCEPT !.stage = "publish",
                       !.status = IF gateway = "none" THEN "fallback" ELSE "pending"])
  <2>1. PICK status \in Outcomes : status = IF gateway = "none" THEN "fallback" ELSE "pending"
    BY OutcomeWords
  <2>2. PICK k : k = [task[t] EXCEPT !.stage = "publish", !.status = status]
    OBVIOUS
  <2>3. k \in TaskType
    BY <1>2, <2>1, <2>2, TaskWords DEF TaskType
  <2>4. /\ k.items = task[t].items /\ k.base = task[t].base /\ k.charged = task[t].charged
        /\ k.who = task[t].who /\ k.permit = task[t].permit /\ k.stage = "publish"
    BY <1>2, <2>2 DEF TaskType
  <2>5. TaskInv(k)
    BY <1>2, <2>4 DEF TaskInv
  <2> QED
    BY <1>2, <1>5, <2>1, <2>2, <2>3, <2>4, <2>5, QuietEnd
<1>6. CASE Turns(t, [task[t] EXCEPT !.stage = "lookup", !.charged = (gateway = "builtin")])
  <2>1. PICK charged \in BOOLEAN : charged = (gateway = "builtin")
    OBVIOUS
  <2>2. PICK k : k = [task[t] EXCEPT !.stage = "lookup", !.charged = charged]
    OBVIOUS
  <2>3. k \in TaskType
    BY <1>2, <2>1, <2>2, TaskWords DEF TaskType
  <2>4. /\ k.items = task[t].items /\ k.base = task[t].base /\ k.charged = charged
        /\ k.who = task[t].who /\ k.permit = task[t].permit /\ k.stage = "lookup"
    BY <1>2, <2>2 DEF TaskType
  <2>5. charged => k.who \in Users
    <3>1. task[t].who \in Users \cup {Visitor}
      BY <1>2 DEF TaskType
    <3> QED
      BY <2>1, <2>4, <3>1 DEF Gateway
  <2>6. TaskInv(k)
    BY <1>2, <2>4, <2>5 DEF TaskInv
  <2> QED
    BY <1>2, <1>6, <2>1, <2>2, <2>3, <2>4, <2>6, QuietEnd
<1> QED
  BY <1>3, <1>4, <1>5, <1>6 DEF ResolveGateway

LEMMA PublishAnalysisInv ==
    ASSUME RankInv, NEW t \in Tasks, PublishAnalysis(t)
    PROVE  RankInv'
<1>1. /\ task[t].stage = "publish" /\ analysis' = [analysis EXCEPT ![t] = task[t].status]
      /\ UNCHANGED <<mode, usage, permits, kept, called>>
  BY DEF PublishAnalysis
<1>2. /\ task[t] \in TaskType /\ TaskInv(task[t]) /\ mode \in [Users -> Modes]
      /\ analysis \in [Tasks -> Outcomes] /\ \A e \in kept : e.ids \in SeqOf(Games, MaxRanked)
  BY TaskFacts
<1>3. task[t].status \in Outcomes
  BY <1>2 DEF TaskType
<1>4. /\ ~task[t].permit /\ RestOK' /\ UNCHANGED <<usage, permits, called>>
  BY <1>1, <1>2, <1>3 DEF TaskInv, RestOK
<1>5. CASE Turns(t, [task[t] EXCEPT !.stage = "lookup", !.scope = <<"progressive">>])
  <2>1. PICK scope \in Scopes : scope = <<"progressive">>
    BY DEF Scopes
  <2>2. PICK k : k = [task[t] EXCEPT !.stage = "lookup", !.scope = scope]
    OBVIOUS
  <2>3. k \in TaskType
    BY <1>2, <2>1, <2>2, TaskWords DEF TaskType
  <2>4. /\ k.items = task[t].items /\ k.base = task[t].base /\ k.charged = task[t].charged
        /\ k.who = task[t].who /\ k.permit = task[t].permit /\ k.stage = "lookup"
    BY <1>2, <2>2 DEF TaskType
  <2>5. TaskInv(k)
    BY <1>1, <1>2, <2>4 DEF TaskInv
  <2> QED
    BY <1>4, <1>5, <2>1, <2>2, <2>3, <2>4, <2>5, QuietEnd
<1>6. ASSUME NEW status \in Outcomes, Finish(t, status, task[t].items) PROVE RankInv'
  BY <1>4, <1>6, SameFinish, QuietEnd
<1>7. CASE Finish(t, IF task[t].status = "pending" THEN "used" ELSE "fallback", task[t].items)
  <2>1. PICK status \in Outcomes :
          status = IF task[t].status = "pending" THEN "used" ELSE "fallback"
    BY OutcomeWords
  <2> QED
    BY <1>6, <1>7, <2>1
<1> QED
  BY <1>5, <1>7 DEF PublishAnalysis

LEMMA LookUpInv ==
    ASSUME RankInv, NEW t \in Tasks, LookUp(t)
    PROVE  RankInv'
<1>1. /\ task[t].stage = "lookup"
      /\ UNCHANGED <<mode, usage, permits, kept, analysis, called>>
  BY DEF LookUp
<1>2. /\ task[t] \in TaskType /\ TaskInv(task[t])
      /\ IsInjective(task[t].items) /\ task[t].items \in GameLists
  BY TaskFacts
<1>3. ~task[t].permit /\ RestOK' /\ UNCHANGED <<usage, permits, called>>
  BY <1>1, TaskFacts DEF TaskInv, RestOK
<1>4. ASSUME NEW e \in Hits(t), Finish(t, "cached", Applied(task[t].items, e.ids))
      PROVE  RankInv'
  <2>1. /\ e \in kept /\ Valid([ids |-> e.ids, clean |-> TRUE], task[t].items)
    BY DEF Hits
  <2>2. IsInjective(e.ids)
    BY <2>1 DEF Valid
  <2>3. e.ids \in Seq(Games)
    <3>1. e.ids \in SeqOf(Games, MaxRanked) /\ MaxRanked \in Nat
      BY <2>1, TaskFacts, RankAssumption
    <3> QED
      BY <3>1, BoundedLists
  <2>4. PICK first \in Seq(Games) : first = e.ids
    BY <2>3
  <2>5. PICK items : items = Applied(task[t].items, e.ids)
    OBVIOUS
  <2>8. PICK base \in GameLists : base = task[t].items
    BY <1>2
  <2>6. items = Among(first, ToSet(base)) \o Among(base, ToSet(base) \ ToSet(first))
    BY <2>4, <2>5, <2>8 DEF Applied
  <2>9. IsInjective(first) /\ IsInjective(base)
    BY <1>2, <2>2, <2>4, <2>8
  <2>10. /\ items \in GameLists /\ IsInjective(items)
         /\ \A x : x \in ToSet(items) <=> x \in ToSet(base)
    BY <2>6, <2>9, MergedFacts, ZenonT(90)
  <2>7. /\ items \in GameLists /\ IsInjective(items)
        /\ \A x : x \in ToSet(items) <=> x \in ToSet(task[t].items)
    BY <2>8, <2>10
  <2> QED
    BY <1>3, <1>4, <2>5, <2>7, OutcomeWords, FinishFacts, QuietEnd
<1>5. CASE Turns(t, [task[t] EXCEPT !.stage = "admit"])
  <2>2. PICK k : k = [task[t] EXCEPT !.stage = "admit"]
    OBVIOUS
  <2>3. k \in TaskType
    BY <1>2, <2>2, TaskWords DEF TaskType
  <2>4. /\ k.items = task[t].items /\ k.base = task[t].base /\ k.charged = task[t].charged
        /\ k.who = task[t].who /\ k.permit = task[t].permit /\ k.stage = "admit"
    BY <1>2, <2>2 DEF TaskType
  <2>5. TaskInv(k)
    BY <1>1, <1>2, <2>4 DEF TaskInv
  <2> QED
    BY <1>3, <1>5, <2>2, <2>3, <2>4, <2>5, QuietEnd
<1> QED
  BY <1>4, <1>5 DEF LookUp

(* A task goes to the stage s with the permit p, everything else as it was. *)
LEMMA Staged ==
    ASSUME RankInv, NEW t \in Tasks, NEW s \in TaskStages, NEW p \in BOOLEAN,
           s = "charge" => task[t].charged,
           p <=> task[t].charged /\ s \in {"charge", "call", "wait"}
    PROVE  \E k \in TaskType :
              /\ k = [task[t] EXCEPT !.stage = s, !.permit = p] /\ TaskInv(k)
              /\ k.who = task[t].who /\ k.charged = task[t].charged
              /\ k.permit = p /\ k.stage = s
<1>2. task[t] \in TaskType /\ TaskInv(task[t])
  BY TaskFacts
<1>1. PICK k : k = [task[t] EXCEPT !.stage = s, !.permit = p]
  OBVIOUS
<1>3. k \in TaskType
  BY <1>1, <1>2 DEF TaskType
<1>4. /\ k.items = task[t].items /\ k.base = task[t].base /\ k.charged = task[t].charged
      /\ k.who = task[t].who /\ k.permit = p /\ k.stage = s
  BY <1>1, <1>2 DEF TaskType
<1>5. TaskInv(k)
  BY <1>2, <1>4 DEF TaskInv
<1> QED
  BY <1>1, <1>3, <1>4, <1>5

(* The same without a word about the permit.                               *)
LEMMA SamePermit ==
    ASSUME RankInv, NEW t \in Tasks, NEW s
    PROVE  [task[t] EXCEPT !.stage = s] = [task[t] EXCEPT !.stage = s, !.permit = task[t].permit]
  BY TaskFacts DEF TaskType

LEMMA AdmitInv ==
    ASSUME RankInv, NEW t \in Tasks, Admit(t)
    PROVE  RankInv'
<1> DEFINE w == task[t].who
<1>1. /\ task[t].stage = "admit" /\ UNCHANGED <<mode, usage, kept, analysis, called>>
  BY DEF Admit
<1>2. /\ ~task[t].permit /\ RestOK' /\ task[t] \in TaskType /\ TaskInv(task[t])
      /\ UNCHANGED <<usage, called>>
  BY <1>1, TaskFacts DEF TaskInv, RestOK
<1>3. CASE ~task[t].charged /\ Turns(t, [task[t] EXCEPT !.stage = "call"]) /\ UNCHANGED permits
  <2>1. PICK k \in TaskType :
              /\ k = [task[t] EXCEPT !.stage = "call", !.permit = FALSE] /\ TaskInv(k)
              /\ k.who = task[t].who /\ k.charged = task[t].charged
              /\ k.permit = FALSE /\ k.stage = "call"
    BY <1>3, TaskWords, Staged
  <2>2. Turns(t, k)
    <3>1. task[t].permit = FALSE
      BY <1>2 DEF TaskType
    <3> QED
      BY <1>3, <2>1, <3>1, SamePermit
  <2>3. Calm(task[t], k)
    BY <1>2, <1>3, <2>1 DEF Calm, HoldsFor, DueFor
  <2> QED
    BY <1>2, <1>3, <2>1, <2>2, <2>3, QuietStep
<1>4. CASE /\ task[t].charged /\ permits[w] < MaxPermits
           /\ Turns(t, [task[t] EXCEPT !.stage = "charge", !.permit = TRUE])
           /\ permits' = [permits EXCEPT ![w] = @ + 1]
  <2>1. PICK k \in TaskType :
              /\ k = [task[t] EXCEPT !.stage = "charge", !.permit = TRUE] /\ TaskInv(k)
              /\ k.who = task[t].who /\ k.charged = task[t].charged
              /\ k.permit = TRUE /\ k.stage = "charge"
    BY <1>4, TaskWords, Staged
  <2>2. Turns(t, k)
    BY <1>4, <2>1
  <2>3. task' \in [Tasks -> TaskType] /\ \A x \in Tasks : TaskInv(task'[x])
    BY <2>1, <2>2, TaskMoves
  <2>4. permits \in [Users -> Nat] /\ permits' \in [Users -> Nat] /\ w \in Users
    BY <1>2, <1>4 DEF RankInv, TaskInv
  <2>5. ASSUME NEW u \in Users
        PROVE  /\ permits'[u] = Cardinality(Holding(task', u)) /\ permits'[u] <= MaxPermits
               /\ called[u] + Cardinality(Overdue(task', u)) <= usage[u]
               /\ usage[u] <= DailyQuota
    <3>1. /\ Cardinality(Overdue(task, u)) \in Nat /\ called[u] \in Nat /\ usage[u] \in Nat
          /\ permits[u] \in Nat /\ MaxPermits \in Nat
      BY SetFacts, RankAssumption DEF RankInv
    <3>2. /\ permits[u] = Cardinality(Holding(task, u)) /\ permits[u] <= MaxPermits
          /\ called[u] + Cardinality(Overdue(task, u)) <= usage[u] /\ usage[u] <= DailyQuota
      BY DEF RankInv
    <3>3. ~DueFor(task[t], u) /\ ~DueFor(k, u) /\ ~HoldsFor(task[t], u)
      BY <1>1, <1>2, <2>1 DEF DueFor, HoldsFor
    <3>4. Cardinality(Overdue(task', u)) = Cardinality(Overdue(task, u))
      BY <2>1, <2>2, <3>3, TaskMoves
    <3>5. CASE u = w
      <4>1. HoldsFor(k, u)
        BY <2>1, <3>5 DEF HoldsFor
      <4>2. Cardinality(Holding(task', u)) = Cardinality(Holding(task, u)) + 1
        BY <2>1, <2>2, <3>3, <4>1, TaskMoves
      <4>3. permits'[u] = permits[u] + 1 /\ permits[u] < MaxPermits
        BY <1>4, <2>4, <3>5
      <4> QED
        BY <3>1, <3>2, <3>4, <4>2, <4>3
    <3>6. CASE u # w
      <4>1. ~HoldsFor(k, u)
        BY <2>1, <3>6 DEF HoldsFor
      <4>2. Cardinality(Holding(task', u)) = Cardinality(Holding(task, u))
        BY <2>1, <2>2, <3>3, <4>1, TaskMoves
      <4>3. permits'[u] = permits[u]
        BY <1>4, <2>4, <3>6
      <4> QED
        BY <3>1, <3>2, <3>4, <4>2, <4>3
    <3> QED
      BY <3>5, <3>6
  <2> QED
    BY <1>2, <2>3, <2>4, <2>5 DEF RankInv, RestOK
<1>5. CASE Finish(t, "fallback", task[t].items) /\ UNCHANGED permits
  BY <1>2, <1>5, OutcomeWords, SameFinish, QuietEnd
<1> QED
  BY <1>3, <1>4, <1>5 DEF Admit

LEMMA ChargeInv ==
    ASSUME RankInv, NEW t \in Tasks, NEW fails \in BOOLEAN, Charge(t, fails)
    PROVE  RankInv'
<1> DEFINE w == task[t].who
<1>1. /\ task[t].stage = "charge" /\ UNCHANGED <<mode, kept, analysis, called>>
  BY DEF Charge
<1>2. /\ task[t].charged /\ task[t].permit /\ RestOK' /\ task[t] \in TaskType /\ TaskInv(task[t])
      /\ w \in Users
  BY <1>1, TaskFacts DEF TaskInv, RestOK
<1>3. CASE /\ QuotaLeft(w) /\ usage' = [usage EXCEPT ![w] = @ + 1]
           /\ Turns(t, [task[t] EXCEPT !.stage = "call"]) /\ UNCHANGED permits
  <2>1. PICK k \in TaskType :
              /\ k = [task[t] EXCEPT !.stage = "call", !.permit = TRUE] /\ TaskInv(k)
              /\ k.who = task[t].who /\ k.charged = task[t].charged
              /\ k.permit = TRUE /\ k.stage = "call"
    BY <1>2, TaskWords, Staged, ZenonT(60)
  <2>2. Turns(t, k)
    <3>1. task[t].permit = TRUE
      BY <1>2 DEF TaskType
    <3> QED
      BY <1>3, <2>1, <3>1, SamePermit
  <2>3. task' \in [Tasks -> TaskType] /\ \A x \in Tasks : TaskInv(task'[x])
    BY <2>1, <2>2, TaskMoves
  <2>4. usage \in [Users -> Nat] /\ usage' \in [Users -> Nat]
    BY <1>2, <1>3 DEF RankInv
  <2>5. ASSUME NEW u \in Users
        PROVE  /\ permits[u] = Cardinality(Holding(task', u)) /\ permits[u] <= MaxPermits
               /\ called[u] + Cardinality(Overdue(task', u)) <= usage'[u]
               /\ usage'[u] <= DailyQuota
    <3>1. /\ Cardinality(Overdue(task, u)) \in Nat /\ called[u] \in Nat /\ usage[u] \in Nat
          /\ DailyQuota \in Nat
      BY SetFacts, RankAssumption DEF RankInv
    <3>2. /\ permits[u] = Cardinality(Holding(task, u)) /\ permits[u] <= MaxPermits
          /\ called[u] + Cardinality(Overdue(task, u)) <= usage[u] /\ usage[u] <= DailyQuota
      BY DEF RankInv
    <3>3. ~DueFor(task[t], u) /\ (HoldsFor(task[t], u) <=> HoldsFor(k, u))
      BY <1>1, <1>2, <2>1 DEF DueFor, HoldsFor
    <3>4. Cardinality(Holding(task', u)) = Cardinality(Holding(task, u))
      BY <2>1, <2>2, <3>3, TaskMoves
    <3>5. CASE u = w
      <4>1. DueFor(k, u)
        BY <1>2, <2>1, <3>5 DEF DueFor
      <4>2. Cardinality(Overdue(task', u)) = Cardinality(Overdue(task, u)) + 1
        BY <2>1, <2>2, <3>3, <4>1, TaskMoves
      <4>3. usage'[u] = usage[u] + 1 /\ usage[u] < DailyQuota
        BY <1>3, <2>4, <3>5 DEF QuotaLeft
      <4> QED
        BY <3>1, <3>2, <3>4, <4>2, <4>3
    <3>6. CASE u # w
      <4>1. ~DueFor(k, u)
        BY <2>1, <3>6 DEF DueFor
      <4>2. Cardinality(Overdue(task', u)) = Cardinality(Overdue(task, u))
        BY <2>1, <2>2, <3>3, <4>1, TaskMoves
      <4>3. usage'[u] = usage[u]
        BY <1>3, <2>4, <3>6
      <4> QED
        BY <3>1, <3>2, <3>4, <4>2, <4>3
    <3> QED
      BY <3>5, <3>6
  <2> QED
    BY <1>1, <1>2, <1>3, <2>3, <2>4, <2>5 DEF RankInv, RestOK
<1>4. CASE Finish(t, "fallback", task[t].items) /\ Frees(t) /\ UNCHANGED usage
  <2>1. PICK k \in TaskType : TaskInv(k) /\ Turns(t, k) /\ ~k.permit /\ k.stage = "done"
    BY <1>4, OutcomeWords, SameFinish
  <2> QED
    BY <1>1, <1>2, <1>4, <2>1, FreeingStep
<1> QED
  BY <1>3, <1>4 DEF Charge

LEMMA CallModelInv ==
    ASSUME RankInv, NEW t \in Tasks, CallModel(t)
    PROVE  RankInv'
<1> DEFINE w == task[t].who
<1>1. /\ task[t].stage = "call" /\ Turns(t, [task[t] EXCEPT !.stage = "wait"])
      /\ called' = (IF task[t].charged THEN [called EXCEPT ![w] = @ + 1] ELSE called)
      /\ UNCHANGED <<mode, usage, permits, kept, analysis>>
  BY DEF CallModel
<1>2. /\ task[t].permit = task[t].charged /\ RestOK' /\ task[t] \in TaskType /\ TaskInv(task[t])
      /\ task[t].charged => w \in Users
  BY <1>1, TaskFacts DEF TaskInv, RestOK, TaskType
<1>3. PICK k \in TaskType :
              /\ k = [task[t] EXCEPT !.stage = "wait", !.permit = task[t].permit] /\ TaskInv(k)
              /\ k.who = task[t].who /\ k.charged = task[t].charged
              /\ k.permit = task[t].permit /\ k.stage = "wait"
  <2>1. PICK p \in BOOLEAN : p = task[t].permit
    BY <1>2 DEF TaskType
  <2>2. p <=> task[t].charged /\ "wait" \in {"charge", "call", "wait"}
    BY <1>1, <1>2, <2>1 DEF TaskInv
  <2>3. "wait" \in TaskStages /\ "wait" # "charge"
    BY TaskWords
  <2>4. PICK k \in TaskType :
              /\ k = [task[t] EXCEPT !.stage = "wait", !.permit = p] /\ TaskInv(k)
              /\ k.who = task[t].who /\ k.charged = task[t].charged
              /\ k.permit = p /\ k.stage = "wait"
    <3>1. CASE p = TRUE
      BY <2>2, <2>3, <3>1, Staged, ZenonT(90)
    <3>2. CASE p = FALSE
      BY <2>2, <2>3, <3>2, Staged, ZenonT(90)
    <3> QED
      BY <3>1, <3>2
  <2> QED
    BY <2>1, <2>4
<1>4. Turns(t, k)
  BY <1>1, <1>3, SamePermit
<1>5. task' \in [Tasks -> TaskType] /\ \A x \in Tasks : TaskInv(task'[x])
  BY <1>3, <1>4, TaskMoves
<1>6. called \in [Users -> Nat] /\ called' \in [Users -> Nat]
  BY <1>1, <1>2 DEF RankInv
<1>7. ASSUME NEW u \in Users
      PROVE  /\ permits[u] = Cardinality(Holding(task', u)) /\ permits[u] <= MaxPermits
             /\ called'[u] + Cardinality(Overdue(task', u)) <= usage[u]
             /\ usage[u] <= DailyQuota
  <2>1. Cardinality(Overdue(task, u)) \in Nat /\ called[u] \in Nat /\ usage[u] \in Nat
    BY SetFacts DEF RankInv
  <2>2. /\ permits[u] = Cardinality(Holding(task, u)) /\ permits[u] <= MaxPermits
        /\ called[u] + Cardinality(Overdue(task, u)) <= usage[u] /\ usage[u] <= DailyQuota
    BY DEF RankInv
  <2>3. ~DueFor(k, u) /\ (HoldsFor(task[t], u) <=> HoldsFor(k, u))
    BY <1>3 DEF DueFor, HoldsFor
  <2>4. Cardinality(Holding(task', u)) = Cardinality(Holding(task, u))
    BY <1>3, <1>4, <2>3, TaskMoves
  <2>5. CASE u = w /\ task[t].charged
    <3>1. DueFor(task[t], u)
      BY <1>1, <2>5 DEF DueFor
    <3>2. Cardinality(Overdue(task', u)) = Cardinality(Overdue(task, u)) - 1
      BY <1>3, <1>4, <2>3, <3>1, TaskMoves
    <3>3. called'[u] = called[u] + 1
      BY <1>1, <1>6, <2>5
    <3> QED
      BY <2>1, <2>2, <2>4, <3>2, <3>3
  <2>6. CASE ~(u = w /\ task[t].charged)
    <3>1. ~DueFor(task[t], u)
      BY <2>6 DEF DueFor
    <3>2. Cardinality(Overdue(task', u)) = Cardinality(Overdue(task, u))
      BY <1>3, <1>4, <2>3, <3>1, TaskMoves
    <3>3. called'[u] = called[u]
      BY <1>1, <1>6, <2>6
    <3> QED
      BY <2>1, <2>2, <2>4, <3>2, <3>3
  <2> QED
    BY <2>5, <2>6
<1> QED
  BY <1>1, <1>2, <1>5, <1>6, <1>7 DEF RankInv, RestOK

LEMMA ModelFailsInv ==
    ASSUME RankInv, NEW t \in Tasks, ModelFails(t)
    PROVE  RankInv'
<1>1. /\ Finish(t, "fallback", task[t].items) /\ Frees(t)
      /\ UNCHANGED <<mode, usage, kept, analysis, called>>
  BY DEF ModelFails
<1>2. RestOK' /\ UNCHANGED <<usage, called>>
  BY <1>1, TaskFacts DEF RestOK
<1> QED
  BY <1>1, <1>2, OutcomeWords, SameFinish, FreeingStep

LEMMA ModelAnswersInv ==
    ASSUME RankInv, NEW t \in Tasks, NEW output \in Outputs, ModelAnswers(t, output)
    PROVE  RankInv'
<1>1. PICK base \in GameLists : base = task[t].items /\ IsInjective(base)
  BY TaskFacts
<1>2. PICK ranking : ranking = Accepted(output, base)
  OBVIOUS
<1>3. /\ Acceptable(output, base) /\ Frees(t) /\ UNCHANGED <<mode, usage, analysis, called>>
      /\ kept' = {e \in kept : e.key # Key(t)} \cup {[key |-> Key(t), ids |-> ranking]}
      /\ Finish(t, "used", Applied(base, ranking))
  BY <1>1, <1>2 DEF ModelAnswers
<1>4. ranking \in Seq(Games) /\ IsInjective(ranking) /\ ranking \in SeqOf(Games, MaxRanked)
  BY <1>2, <1>3, AcceptedFacts
<1>5. RestOK' /\ UNCHANGED <<usage, called>>
  <2>1. \A e \in kept' : e.ids \in SeqOf(Games, MaxRanked)
    BY <1>3, <1>4, TaskFacts
  <2> QED
    BY <1>3, <2>1, TaskFacts DEF RestOK
<1>6. PICK items : items = Applied(base, ranking)
  OBVIOUS
<1>7. items = Among(ranking, ToSet(base)) \o Among(base, ToSet(base) \ ToSet(ranking))
  BY <1>6 DEF Applied
<1>8. /\ items \in GameLists /\ IsInjective(items)
      /\ \A x : x \in ToSet(items) <=> x \in ToSet(base)
  <2>1. PICK first \in Seq(Games) : first = ranking
    BY <1>4
  <2>2. IsInjective(first) /\ IsInjective(base)
    BY <1>1, <1>4, <2>1
  <2>3. items = Among(first, ToSet(base)) \o Among(base, ToSet(base) \ ToSet(first))
    BY <1>7, <2>1, Zenon
  <2> QED
    BY <2>2, <2>3, MergedFacts, ZenonT(90)
<1>9. \A x : x \in ToSet(items) <=> x \in ToSet(task[t].items)
  BY <1>1, <1>8
<1>10. PICK k \in TaskType : TaskInv(k) /\ Turns(t, k) /\ ~k.permit /\ k.stage = "done"
  <2>1. Finish(t, "used", items)
    BY <1>3, <1>6
  <2> QED
    BY <2>1, <1>8, <1>9, OutcomeWords, FinishFacts
<1> QED
  BY <1>3, <1>5, <1>10, FreeingStep

LEMMA CompleteInv ==
    ASSUME RankInv, NEW t \in Tasks, Complete(t)
    PROVE  RankInv'
<1>1. /\ task[t].stage = "done" /\ Turns(t, NoTask)
      /\ analysis' = [analysis EXCEPT ![t] = IF @ = "pending" THEN task[t].status ELSE @]
      /\ UNCHANGED <<mode, usage, permits, kept, called>>
  BY DEF Complete
<1>2. task[t].status \in Outcomes
  BY TaskFacts DEF TaskType
<1>3. analysis' \in [Tasks -> Outcomes]
  BY <1>1, <1>2, TaskFacts
<1>4. ~task[t].permit /\ RestOK' /\ UNCHANGED <<usage, permits, called>>
  BY <1>1, <1>3, TaskFacts DEF TaskInv, RestOK
<1>5. ~NoTask.permit /\ NoTask.stage # "call"
  BY DEF NoTask
<1> QED
  BY <1>1, <1>4, <1>5, NoTaskFacts, QuietEnd

LEMMA ClientLeavesInv ==
    ASSUME RankInv, NEW t \in Tasks, ClientLeaves(t)
    PROVE  RankInv'
<1>1. Turns(t, NoTask) /\ Frees(t) /\ UNCHANGED <<mode, usage, kept, analysis, called>>
  BY DEF ClientLeaves
<1>2. RestOK' /\ UNCHANGED <<usage, called>>
  BY <1>1, TaskFacts DEF RestOK
<1>3. ~NoTask.permit /\ NoTask.stage # "call"
  BY DEF NoTask
<1> QED
  BY <1>1, <1>2, <1>3, NoTaskFacts, FreeingStep

LEMMA NextDayInv == RankInv /\ NextDay => RankInv'
<1> SUFFICES ASSUME RankInv, NextDay PROVE RankInv'
  OBVIOUS
<1>1. /\ usage' = [u \in Users |-> 0] /\ called' = [u \in Users |-> 0]
      /\ UNCHANGED <<mode, permits, kept, task, analysis>>
      /\ \A t \in Tasks : task[t].stage \notin {"charge", "call"}
  BY DEF NextDay
<1>2. ASSUME NEW u \in Users
      PROVE  /\ permits'[u] = Cardinality(Holding(task, u)) /\ permits'[u] <= MaxPermits
             /\ called'[u] + Cardinality(Overdue(task, u)) <= usage'[u] /\ usage'[u] <= DailyQuota
  <2>1. Overdue(task, u) = {}
    BY <1>1 DEF Overdue, DueFor
  <2>2. Cardinality(Overdue(task, u)) = 0
    BY <2>1, FS_EmptySet
  <2>3. usage'[u] = 0 /\ called'[u] = 0 /\ 0 <= DailyQuota
    BY <1>1, RankAssumption
  <2> QED
    BY <1>1, <2>2, <2>3 DEF RankInv
<1>3. usage' \in [Users -> Nat] /\ called' \in [Users -> Nat]
  BY <1>1
<1>4. task' = task
  BY <1>1
<1> QED
  BY <1>1, <1>2, <1>3, <1>4 DEF RankInv

LEMMA RestartServerInv == RankInv /\ RestartServer => RankInv'
<1> SUFFICES ASSUME RankInv, RestartServer PROVE RankInv'
  OBVIOUS
<1>1. /\ task' = [t \in Tasks |-> NoTask] /\ permits' = [u \in Users |-> 0]
      /\ UNCHANGED <<mode, usage, kept, analysis, called>>
  BY DEF RestartServer
<1>2. task' \in [Tasks -> TaskType] /\ \A t \in Tasks : TaskInv(task'[t])
  BY <1>1, NoTaskFacts
<1>3. ASSUME NEW u \in Users
      PROVE  /\ permits'[u] = Cardinality(Holding(task', u)) /\ permits'[u] <= MaxPermits
             /\ called[u] + Cardinality(Overdue(task', u)) <= usage[u] /\ usage[u] <= DailyQuota
  <2>1. Holding(task', u) = {} /\ Overdue(task', u) = {}
    BY <1>1 DEF Holding, Overdue, HoldsFor, DueFor, NoTask
  <2>2. Cardinality(Holding(task', u)) = 0 /\ Cardinality(Overdue(task', u)) = 0
    BY <2>1, FS_EmptySet
  <2>3. /\ Cardinality(Overdue(task, u)) \in Nat /\ called[u] \in Nat /\ usage[u] \in Nat
        /\ called[u] + Cardinality(Overdue(task, u)) <= usage[u] /\ usage[u] <= DailyQuota
    BY SetFacts DEF RankInv
  <2>4. permits'[u] = 0 /\ 0 <= MaxPermits
    BY <1>1, RankAssumption
  <2> QED
    BY <2>2, <2>3, <2>4
<1>4. permits' \in [Users -> Nat]
  BY <1>1
<1> QED
  BY <1>1, <1>2, <1>3, <1>4 DEF RankInv

(* The tasks, the permits and the charges stay as they are.                *)
LEMMA CountsStay ==
    ASSUME RankInv, UNCHANGED <<usage, permits, task, called>>, RestOK'
    PROVE  RankInv'
<1>1. task' = task
  OBVIOUS
<1> QED
  BY <1>1 DEF RankInv, RestOK

LEMMA RankNextInv == RankInv /\ [RankNext]_rankVars => RankInv'
<1> SUFFICES ASSUME RankInv, [RankNext]_rankVars PROVE RankInv'
  OBVIOUS
<1>0. RestOK
  BY DEF RankInv, RestOK
<1>1. ASSUME NEW t \in Tasks, NEW ask \in Asks, NEW base \in Bases, NEW hits \in Retrieved,
             BeginRanking(t, ask, base, hits)
      PROVE  RankInv'
  BY <1>1, BeginRankingInv
<1>2. ASSUME NEW t \in Tasks,
             \/ RefuseModel(t) \/ ResolveGateway(t) \/ PublishAnalysis(t) \/ LookUp(t)
             \/ Admit(t) \/ CallModel(t) \/ ModelFails(t)
      PROVE  RankInv'
  BY <1>2, RefuseModelInv, ResolveGatewayInv, PublishAnalysisInv, LookUpInv, AdmitInv,
     CallModelInv, ModelFailsInv
<1>3. ASSUME NEW t \in Tasks, NEW fails \in BOOLEAN, Charge(t, fails) PROVE RankInv'
  BY <1>3, ChargeInv
<1>4. ASSUME NEW t \in Tasks, NEW output \in Outputs, ModelAnswers(t, output) PROVE RankInv'
  BY <1>4, ModelAnswersInv
<1>5. ASSUME NEW t \in Tasks, Complete(t) \/ ClientLeaves(t) PROVE RankInv'
  BY <1>5, CompleteInv, ClientLeavesInv
<1>6. ASSUME NEW t \in Tasks, ForgetAnalysis(t) PROVE RankInv'
  <2>1. RestOK' /\ UNCHANGED <<usage, permits, task, called>>
    BY <1>0, <1>6, OutcomeWords DEF ForgetAnalysis, RestOK
  <2> QED
    BY <2>1, CountsStay
<1>7. ASSUME NEW u \in Users, NEW m \in Modes, Configured(u, m),
             UNCHANGED <<usage, permits, kept, task, analysis, called>>
      PROVE  RankInv'
  <2>1. RestOK'
    BY <1>0, <1>7 DEF Configured, RestOK
  <2> QED
    BY <1>7, <2>1, CountsStay
<1>8. ASSUME NEW u \in Users, DeleteKey(u) \/ \E m \in Modes : SetMode(u, m) PROVE RankInv'
  <2>1. "builtin" \in Modes
    BY DEF Modes
  <2> QED
    BY <1>7, <1>8, <2>1 DEF DeleteKey, SetMode
<1>9. ASSUME NEW e \in kept, Forget(e) PROVE RankInv'
  <2>1. RestOK' /\ UNCHANGED <<usage, permits, task, called>>
    BY <1>0, <1>9 DEF Forget, RestOK
  <2> QED
    BY <2>1, CountsStay
<1>10. CASE NextDay \/ RestartServer
  BY <1>10, NextDayInv, RestartServerInv
<1>11. CASE UNCHANGED rankVars
  <2>1. RestOK' /\ UNCHANGED <<usage, permits, task, called>>
    BY <1>0, <1>11 DEF rankVars, RestOK
  <2> QED
    BY <2>1, CountsStay
<1> QED
  BY <1>1, <1>2, <1>3, <1>4, <1>5, <1>6, <1>8, <1>9, <1>10, <1>11 DEF RankNext

LEMMA RankInvariant == RankSpec => []RankInv
  BY RankStarts, RankNextInv, PTL DEF RankSpec

(* A result of a ranking has the games of the base ranking, each once,     *)
(* whatever the model answered and whatever the cache kept.                *)
THEOREM RankingsKeepTheirList == RankSpec => []RankingKeepsList
  BY RankInvariant, RankKept, PTL

(* The calls made for an account's own rankings stay within its charges,   *)
(* the charges within the quota, and permits count the calls that hold     *)
(* one, whichever way requests end.                                        *)
THEOREM CallsAreCharged == RankSpec => []CallsWithinQuota
  BY RankInvariant, RankKept, PTL

(* The variables of the rankings keep their types.                         *)
THEOREM RankTypesHold == RankSpec => []RankTypeOK
  BY RankInvariant, RankKept, PTL

-----------------------------------------------------------------------------
(* Budgets                                                                 *)

BudgetStages == {"idle", "load", "window", "count", "add", "granted", "refused"}
CallerType == [stage : BudgetStages, at : 0..MaxWall, window : Windows]
InFlight == {c \in Callers : Counting(c)}

BudgetTypes ==
    /\ wall \in 0..MaxWall /\ racers \in Nat
    /\ budget \in [Windows -> [number : Int, count : Nat]]
    /\ \A w \in Windows : budget[w].number \in Unset..Number(w, MaxWall)
    /\ caller \in [Callers -> CallerType]
    /\ \A c \in Callers : caller[c].at <= wall
    /\ DOMAIN passed = Windows /\ passed = [w \in Windows |-> passed[w]]
    /\ \A w \in Windows : passed[w] \in [0..Number(w, MaxWall) -> Nat]
    /\ IsFiniteSet(InFlight)

(* The calls of window n of kind w that may still be let through.          *)
OfWindow(c, w, n) == Number(w, caller[c].at) = n
Owed(w, n) == {c \in InFlight : OfWindow(c, w, n) /\ (w = "minute" => caller[c].window = "minute")}
SpentCalls(w, n) == passed[w][n] + Cardinality(Owed(w, n))

(* Every call that is counting is of window n.                             *)
Pure(w, n) == \A c \in InFlight : OfWindow(c, w, n)

MeterAt(c, w, stages) == caller[c].window = w /\ caller[c].stage \in stages

(* How many more calls the count as it stands lets through.                *)
Room(w) == IF budget[w].count < Limit(w) THEN Limit(w) - budget[w].count ELSE 0

(***************************************************************************)
(* A call is paid for by the race it ran; what is left to account for is   *)
(* the first call of each batch of calls that overlap. Four situations     *)
(* follow each other: no such call was of this window; a batch of its own  *)
(* calls is the first, and some of them may clear the count; the window    *)
(* stands and the calls fill it; and the clock has moved on, so that no    *)
(* first call can be of this window again.                                 *)
(***************************************************************************)
Early(w, n) == SpentCalls(w, n) <= racers

Opening(w, n) ==
    /\ InFlight # {} /\ Pure(w, n) /\ SpentCalls(w, n) <= racers + 1
    /\ \/ budget[w].number = n
       \/ \E c \in Owed(w, n) : caller[c].window # w \/ caller[c].stage \in {"load", "window"}
    /\ \/ budget[w].number # n \/ budget[w].count >= 1
       \/ \E c \in Owed(w, n) : MeterAt(c, w, {"window", "count", "add"})

Filling(w, n) ==
    /\ budget[w].number = n /\ n <= Number(w, wall) /\ Pure(w, n)
    /\ \A c \in InFlight : ~MeterAt(c, w, {"window", "count"})
    /\ passed[w][n] + Room(w) <= racers + Limit(w)
    /\ SpentCalls(w, n) <= racers + Limit(w) + (IF InFlight = {} THEN 0 ELSE 1)

Finished(w, n) == n < Number(w, wall) /\ SpentCalls(w, n) <= racers + Limit(w)

Accounted(w, n) == Early(w, n) \/ Opening(w, n) \/ Filling(w, n) \/ Finished(w, n)

BudgetInv ==
    /\ BudgetTypes
    /\ \A w \in Windows : \A n \in 0..Number(w, MaxWall) : Accounted(w, n)

LEMMA NumberFacts ==
    ASSUME NEW w \in Windows, NEW s \in Nat, NEW t \in Nat, s <= t
    PROVE  /\ Number(w, s) \in Nat /\ Number(w, t) \in Nat /\ Number(w, s) <= Number(w, t)
           /\ Limit(w) \in Nat /\ Limit(w) >= 1
<1>1. PICK d \in Nat \ {0} : d = IF w = "minute" THEN MinuteTicks ELSE DayTicks
  BY BudgetAssumption
<1>2. s \div d \in Nat /\ t \div d \in Nat /\ s \div d <= t \div d
  OBVIOUS
<1>3. Number(w, s) = s \div d /\ Number(w, t) = t \div d
  BY <1>1 DEF Number
<1> QED
  BY <1>2, <1>3, BudgetAssumption DEF Limit

LEMMA SpentFacts ==
    ASSUME BudgetTypes, NEW w \in Windows, NEW n \in 0..Number(w, MaxWall)
    PROVE  /\ IsFiniteSet(Owed(w, n)) /\ Cardinality(Owed(w, n)) \in Nat
           /\ passed[w][n] \in Nat /\ SpentCalls(w, n) \in Nat /\ passed[w][n] <= SpentCalls(w, n)
           /\ InFlight = {} => SpentCalls(w, n) = passed[w][n]
           /\ Limit(w) \in Nat /\ Limit(w) >= 1 /\ Number(w, wall) \in Nat
           /\ Room(w) \in Nat /\ Room(w) <= Limit(w) /\ n \in Nat /\ racers \in Nat
           /\ budget[w].count \in Nat /\ budget[w].number \in Int
<1>1. Owed(w, n) \in SUBSET InFlight /\ IsFiniteSet(InFlight)
  BY DEF Owed, BudgetTypes
<1>2. IsFiniteSet(Owed(w, n)) /\ Cardinality(Owed(w, n)) \in Nat
  BY <1>1, FS_Subset, FS_CardinalityType
<1>3. passed[w][n] \in Nat
  BY DEF BudgetTypes
<1>4. Limit(w) \in Nat /\ Limit(w) >= 1 /\ Number(w, wall) \in Nat
  BY NumberFacts DEF BudgetTypes
<1>5. budget[w].count \in Nat /\ budget[w].number \in Int /\ racers \in Nat
  BY DEF BudgetTypes
<1>6. Room(w) \in Nat /\ Room(w) <= Limit(w)
  BY <1>4, <1>5 DEF Room
<1>7. n \in Nat
  OBVIOUS
<1>8. SpentCalls(w, n) \in Nat /\ passed[w][n] <= SpentCalls(w, n)
  BY <1>2, <1>3 DEF SpentCalls
<1>9. InFlight = {} => SpentCalls(w, n) = passed[w][n]
  <2> SUFFICES ASSUME InFlight = {} PROVE SpentCalls(w, n) = passed[w][n]
    OBVIOUS
  <2>1. Owed(w, n) = {}
    BY <1>1
  <2>2. Cardinality(Owed(w, n)) = 0
    BY <2>1, FS_EmptySet
  <2> QED
    BY <1>3, <2>2 DEF SpentCalls
<1> QED
  BY <1>2, <1>3, <1>4, <1>5, <1>6, <1>7, <1>8, <1>9

LEMMA BudgetKept == BudgetInv => BudgetTypeOK /\ BudgetHolds
<1> SUFFICES ASSUME BudgetInv PROVE BudgetTypeOK /\ BudgetHolds
  OBVIOUS
<1>1. BudgetTypeOK
  BY DEF BudgetInv, BudgetTypes, BudgetTypeOK, CallerType, BudgetStages
<1>2. ASSUME NEW w \in Windows, NEW n \in DOMAIN passed[w]
      PROVE  passed[w][n] <= Limit(w) + racers
  <2>1. n \in 0..Number(w, MaxWall)
    BY DEF BudgetInv, BudgetTypes
  <2>2. BudgetTypes /\ Accounted(w, n)
    BY <2>1 DEF BudgetInv
  <2>3. PICK k : k = SpentCalls(w, n)
    OBVIOUS
  <2>4. PICK l : l = Limit(w)
    OBVIOUS
  <2>5. /\ k \in Nat /\ l \in Nat /\ l >= 1 /\ passed[w][n] \in Nat /\ racers \in Nat
        /\ passed[w][n] <= k /\ Room(w) \in Nat
    BY <2>1, <2>2, <2>3, <2>4, SpentFacts
  <2>6. k <= racers + l \/ k <= racers + 1 \/ k <= racers \/ passed[w][n] + Room(w) <= racers + l
    BY <2>2, <2>3, <2>4 DEF Accounted, Early, Opening, Filling, Finished
  <2> QED
    BY <2>4, <2>5, <2>6
<1> QED
  BY <1>1, <1>2 DEF BudgetHolds

LEMMA BudgetStarts == BudgetInit => BudgetInv
<1> SUFFICES ASSUME BudgetInit PROVE BudgetInv
  OBVIOUS
<1>1. InFlight = {}
  BY DEF InFlight, Counting, BudgetInit
<1>2. \A w \in Windows : Number(w, MaxWall) \in Nat /\ Limit(w) \in Nat
  BY NumberFacts, BudgetAssumption
<1>3. BudgetTypes
  <2>1. wall \in 0..MaxWall /\ racers \in Nat
    BY BudgetAssumption DEF BudgetInit
  <2>2. budget \in [Windows -> [number : Int, count : Nat]]
    BY DEF BudgetInit, Unset
  <2>3. \A w \in Windows : budget[w].number \in Unset..Number(w, MaxWall)
    BY <1>2 DEF BudgetInit, Unset
  <2>4. caller \in [Callers -> CallerType] /\ \A c \in Callers : caller[c].at <= wall
    BY BudgetAssumption DEF BudgetInit, CallerType, BudgetStages, Windows
  <2>5. /\ DOMAIN passed = Windows /\ passed = [w \in Windows |-> passed[w]]
        /\ \A w \in Windows : passed[w] \in [0..Number(w, MaxWall) -> Nat]
    BY <1>2 DEF BudgetInit
  <2>6. IsFiniteSet(InFlight)
    BY <1>1, FS_EmptySet
  <2> QED
    BY <2>1, <2>2, <2>3, <2>4, <2>5, <2>6 DEF BudgetTypes
<1>4. ASSUME NEW w \in Windows, NEW n \in 0..Number(w, MaxWall) PROVE Accounted(w, n)
  <2>1. SpentCalls(w, n) = passed[w][n]
    BY <1>1, <1>3, SpentFacts
  <2>2. passed[w][n] = 0 /\ racers = 0
    BY DEF BudgetInit
  <2> QED
    BY <2>1, <2>2 DEF Accounted, Early
<1> QED
  BY <1>3, <1>4 DEF BudgetInv

LEMMA PassTimeInv ==
    ASSUME BudgetInv, PassTime
    PROVE  BudgetInv'
<1>1. wall' = wall + 1 /\ wall < MaxWall /\ UNCHANGED <<budget, caller, passed, racers>>
  BY DEF PassTime
<1>2. wall \in Nat /\ wall' \in 0..MaxWall /\ wall' \in Nat /\ wall <= wall'
  BY <1>1, BudgetAssumption DEF BudgetInv, BudgetTypes
<1>3. InFlight' = InFlight
  BY <1>1 DEF InFlight, Counting
<1>4. BudgetTypes'
  <2>1. \A c \in Callers : caller[c].at \in Nat /\ caller[c].at <= wall
    <3>1. \A c \in Callers : caller[c] \in CallerType /\ caller[c].at <= wall
      BY DEF BudgetInv, BudgetTypes
    <3>2. ASSUME NEW c \in Callers PROVE caller[c].at \in Nat
      <4>1. caller[c].at \in 0..MaxWall
        BY <3>1 DEF CallerType
      <4> QED
        BY <4>1
    <3> QED
      BY <3>1, <3>2
  <2>2. \A c \in Callers : caller'[c].at <= wall'
    BY <1>1, <1>2, <2>1
  <2> QED
    BY <1>1, <1>2, <1>3, <2>2 DEF BudgetInv, BudgetTypes
<1>5. ASSUME NEW w \in Windows, NEW n \in 0..Number(w, MaxWall) PROVE Accounted(w, n)'
  <2>1. /\ SpentCalls(w, n)' = SpentCalls(w, n) /\ Pure(w, n)' = Pure(w, n) /\ Owed(w, n)' = Owed(w, n)
        /\ Room(w)' = Room(w)
    BY <1>1, <1>3 DEF SpentCalls, Pure, Owed, Room, OfWindow
  <2>2. Number(w, wall) \in Nat /\ Number(w, wall') \in Nat /\ Number(w, wall) <= Number(w, wall')
    BY <1>2, NumberFacts
  <2>3. Accounted(w, n)
    BY DEF BudgetInv
  <2>4. CASE Early(w, n)
    BY <1>1, <2>1, <2>4 DEF Accounted, Early
  <2>5. CASE Opening(w, n)
    <3>1. Opening(w, n)'
      BY <1>1, <1>3, <2>1, <2>5 DEF Opening, MeterAt
    <3> QED
      BY <3>1 DEF Accounted
  <2>6. CASE Filling(w, n)
    <3>1. n <= Number(w, wall)'
      BY <2>2, <2>6 DEF Filling
    <3>2. Filling(w, n)'
      BY <1>1, <1>3, <2>1, <2>6, <3>1 DEF Filling, MeterAt
    <3> QED
      BY <3>2 DEF Accounted
  <2>7. CASE Finished(w, n)
    <3>1. Finished(w, n)'
      BY <1>1, <2>1, <2>2, <2>7 DEF Finished
    <3> QED
      BY <3>1 DEF Accounted
  <2> QED
    BY <2>3, <2>4, <2>5, <2>6, <2>7 DEF Accounted
<1> QED
  BY <1>1, <1>4, <1>5 DEF BudgetInv

LEMMA StartCountingInv ==
    ASSUME BudgetInv, NEW c \in Callers, StartCounting(c)
    PROVE  BudgetInv'
<1>1. /\ caller[c].stage = "idle" /\ UNCHANGED <<wall, budget, passed>>
      /\ caller' = [caller EXCEPT ![c] = [stage |-> "load", at |-> wall, window |-> "minute"]]
      /\ racers' = IF \E d \in Callers \ {c} : Counting(d) THEN racers + 1 ELSE racers
  BY DEF StartCounting
<1>2. BudgetTypes
  BY DEF BudgetInv
<1>3. /\ caller'[c].stage = "load" /\ caller'[c].at = wall /\ caller'[c].window = "minute"
      /\ \A d \in Callers : d # c => caller'[d] = caller[d]
  BY <1>1, <1>2 DEF BudgetTypes
<1>4. c \notin InFlight /\ InFlight' = InFlight \cup {c}
  BY <1>1, <1>3 DEF InFlight, Counting
<1>5. racers' = (IF InFlight # {} THEN racers + 1 ELSE racers) /\ racers \in Nat
  BY <1>1, <1>2, <1>4 DEF InFlight, BudgetTypes
<1>6. BudgetTypes'
  <2>1. caller' \in [Callers -> CallerType]
    BY <1>1, <1>2 DEF BudgetTypes, CallerType, BudgetStages, Windows
  <2>2. \A d \in Callers : caller'[d].at <= wall'
    BY <1>1, <1>2, <1>3 DEF BudgetTypes
  <2>3. IsFiniteSet(InFlight')
    BY <1>2, <1>4, FS_AddElement DEF BudgetTypes
  <2>4. racers' \in Nat
    BY <1>5
  <2> QED
    BY <1>1, <1>2, <2>1, <2>2, <2>3, <2>4 DEF BudgetTypes
<1>7. ASSUME NEW w \in Windows, NEW n \in 0..Number(w, MaxWall) PROVE Accounted(w, n)'
  <2>1. /\ \A d \in InFlight : OfWindow(d, w, n)' <=> OfWindow(d, w, n)
        /\ OfWindow(c, w, n)' <=> Number(w, wall) = n
    <3>1. \A d \in InFlight : d \in Callers /\ d # c
      BY <1>4 DEF InFlight
    <3>2. \A d \in InFlight : caller'[d].at = caller[d].at
      BY <1>3, <3>1
    <3> QED
      BY <1>3, <3>2 DEF OfWindow
  <2>2. Owed(w, n)' = IF Number(w, wall) = n THEN Owed(w, n) \cup {c} ELSE Owed(w, n)
    <3>1. \A d \in InFlight : d \in Owed(w, n)' <=> d \in Owed(w, n)
      BY <1>3, <1>4, <2>1 DEF Owed, InFlight
    <3>2. c \in Owed(w, n)' <=> Number(w, wall) = n
      BY <1>3, <1>4, <2>1 DEF Owed
    <3>3. Owed(w, n) \subseteq InFlight /\ Owed(w, n)' \subseteq InFlight'
      BY DEF Owed
    <3> QED
      BY <1>4, <3>1, <3>2, <3>3
  <2>3. /\ SpentCalls(w, n) \in Nat /\ Cardinality(Owed(w, n)) \in Nat /\ passed[w][n] \in Nat
        /\ IsFiniteSet(Owed(w, n)) /\ Limit(w) \in Nat /\ Limit(w) >= 1 /\ n \in Nat
        /\ Room(w) \in Nat /\ passed[w][n] <= SpentCalls(w, n)
        /\ InFlight = {} => SpentCalls(w, n) = passed[w][n]
    BY <1>2, SpentFacts
  <2>4. SpentCalls(w, n)' = IF Number(w, wall) = n THEN SpentCalls(w, n) + 1 ELSE SpentCalls(w, n)
    <3>1. Cardinality(Owed(w, n)') = IF Number(w, wall) = n THEN Cardinality(Owed(w, n)) + 1
                                    ELSE Cardinality(Owed(w, n))
      <4>1. c \notin Owed(w, n)
        BY <1>4 DEF Owed
      <4> QED
        BY <2>2, <2>3, <4>1, FS_AddElement
    <3> QED
      BY <1>1, <2>3, <3>1 DEF SpentCalls
  <2>5. Room(w)' = Room(w) /\ budget'[w] = budget[w] /\ passed'[w][n] = passed[w][n]
    BY <1>1 DEF Room
  <2>6. Number(w, wall) \in Nat /\ (Pure(w, n) /\ InFlight # {} => n <= Number(w, wall))
    <3>1. ASSUME NEW d \in InFlight, OfWindow(d, w, n) PROVE n <= Number(w, wall)
      <4>1. caller[d].at \in Nat /\ caller[d].at <= wall /\ wall \in Nat
        BY <1>2 DEF BudgetTypes, CallerType, InFlight
      <4> QED
        BY <3>1, <4>1, NumberFacts DEF OfWindow
    <3>2. Number(w, wall) \in Nat
      BY <1>2, SpentFacts
    <3> QED
      BY <3>1, <3>2 DEF Pure
  <2>7. \A d \in InFlight : caller'[d] = caller[d]
    BY <1>3, <1>4 DEF InFlight
  <2>8. CASE Early(w, n) /\ InFlight # {}
    BY <1>5, <2>3, <2>4, <2>8 DEF Early, Accounted
  <2>9. CASE Early(w, n) /\ InFlight = {}
    <3>1. racers' = racers /\ InFlight' = {c} /\ InFlight' # {}
      BY <1>4, <1>5, <2>9
    <3>2. CASE Number(w, wall) # n
      BY <2>4, <2>9, <3>1, <3>2 DEF Early, Accounted
    <3>3. CASE Number(w, wall) = n
      <4>1. Pure(w, n)' /\ c \in Owed(w, n)'
        BY <2>1, <2>2, <3>1, <3>3 DEF Pure
      <4>2. SpentCalls(w, n)' <= racers' + 1
        BY <1>5, <2>3, <2>4, <2>9, <3>1, <3>3 DEF Early
      <4>3. CASE budget[w].number # n
        <5>1. caller'[c].stage = "load"
          BY <1>3
        <5>2. Opening(w, n)'
          BY <2>5, <3>1, <4>1, <4>2, <4>3, <5>1 DEF Opening
        <5> QED
          BY <5>2 DEF Accounted
      <4>4. CASE budget[w].number = n
        <5>1. \A d \in InFlight' : ~MeterAt(d, w, {"window", "count"})'
          BY <1>3, <3>1 DEF MeterAt
        <5>2. passed'[w][n] + Room(w)' <= racers' + Limit(w)
          <6>1. Room(w) <= Limit(w)
            BY <1>2, SpentFacts
          <6>2. passed[w][n] <= racers
            BY <2>3, <2>9 DEF Early
          <6> QED
            BY <1>5, <2>3, <2>5, <3>1, <6>1, <6>2
        <5>3. SpentCalls(w, n)' <= racers' + Limit(w) + 1
          BY <1>5, <2>3, <2>4, <2>9, <3>1 DEF Early
        <5>4. Filling(w, n)'
          BY <1>1, <2>3, <2>5, <3>3, <3>1, <4>1, <4>4, <5>1, <5>2, <5>3 DEF Filling
        <5> QED
          BY <5>4 DEF Accounted
      <4> QED
        BY <4>3, <4>4
    <3> QED
      BY <3>2, <3>3
  <2>10. CASE Opening(w, n)
    <3>1. racers' = racers + 1 /\ InFlight' # {}
      BY <1>4, <1>5, <2>10 DEF Opening
    <3>2. CASE Number(w, wall) = n
      <4>1. Pure(w, n)'
        BY <1>4, <2>1, <2>10, <3>2 DEF Pure, Opening
      <4>2. SpentCalls(w, n)' <= racers' + 1
        BY <1>5, <2>3, <2>4, <2>10, <3>1, <3>2 DEF Opening
      <4>3. \A d \in Owed(w, n) : d \in Owed(w, n)' /\ caller'[d] = caller[d]
        BY <2>2, <2>7 DEF Owed
      <4>4. Opening(w, n)'
        BY <2>5, <2>10, <3>1, <4>1, <4>2, <4>3 DEF Opening, MeterAt
      <4> QED
        BY <4>4 DEF Accounted
    <3>3. CASE Number(w, wall) # n
      BY <1>5, <2>3, <2>4, <2>10, <3>1, <3>3 DEF Opening, Early, Accounted
    <3> QED
      BY <3>2, <3>3
  <2>11. CASE Filling(w, n)
    <3>1. InFlight' # {} /\ Limit(w)' = Limit(w)
      BY <1>4
    <3>2. CASE Number(w, wall) = n
      <4>1. Pure(w, n)'
        BY <1>4, <2>1, <2>11, <3>2 DEF Pure, Filling
      <4>2. \A d \in InFlight' : ~MeterAt(d, w, {"window", "count"})'
        BY <1>3, <1>4, <2>7, <2>11 DEF MeterAt, Filling
      <4>3. passed'[w][n] + Room(w)' <= racers' + Limit(w)
        BY <1>5, <2>3, <2>5, <2>11 DEF Filling
      <4>4. SpentCalls(w, n)' <= racers' + Limit(w) + 1
        BY <1>5, <2>3, <2>4, <2>11, <3>2 DEF Filling
      <4>5. Filling(w, n)'
        BY <1>1, <2>5, <2>11, <3>1, <4>1, <4>2, <4>3, <4>4 DEF Filling
      <4> QED
        BY <4>5 DEF Accounted
    <3>3. CASE Number(w, wall) # n /\ InFlight # {}
      <4>1. n < Number(w, wall)
        BY <2>3, <2>6, <2>11, <3>3 DEF Filling
      <4>2. SpentCalls(w, n)' <= racers' + Limit(w)
        BY <1>5, <2>3, <2>4, <2>11, <3>3 DEF Filling
      <4> QED
        BY <1>1, <3>1, <4>1, <4>2 DEF Finished, Accounted
    <3>4. CASE Number(w, wall) # n /\ InFlight = {}
      <4>1. n < Number(w, wall)
        BY <2>3, <2>6, <2>11, <3>4 DEF Filling
      <4>2. SpentCalls(w, n)' <= racers' + Limit(w)
        BY <1>5, <2>3, <2>4, <2>11, <3>4 DEF Filling
      <4> QED
        BY <1>1, <3>1, <4>1, <4>2 DEF Finished, Accounted
    <3> QED
      BY <3>2, <3>3, <3>4
  <2>12. CASE Finished(w, n)
    <3>1. racers' + Limit(w) >= racers + Limit(w) /\ Number(w, wall) # n
      BY <1>5, <2>3, <2>6, <2>12 DEF Finished
    <3>2. SpentCalls(w, n)' <= racers' + Limit(w)
      BY <1>5, <2>3, <2>4, <2>12, <3>1 DEF Finished
    <3> QED
      BY <1>1, <2>12, <3>2 DEF Finished, Accounted
  <2> QED
    BY <2>8, <2>9, <2>10, <2>11, <2>12 DEF BudgetInv, Accounted
<1> QED
  BY <1>1, <1>6, <1>7 DEF BudgetInv

(***************************************************************************)
(* The load and the stores: a call moves on and nobody is let through      *)
(***************************************************************************)

LEMMA CallerMoves ==
    ASSUME BudgetTypes, NEW c \in Callers, Counting(c),
           NEW st \in {"window", "count", "add"}, CallerAt(c, st),
           UNCHANGED <<wall, passed, racers>>
    PROVE  /\ c \in InFlight /\ InFlight' = InFlight /\ caller' \in [Callers -> CallerType]
           /\ \A d \in Callers : caller'[d].at = caller[d].at /\ caller'[d].window = caller[d].window
           /\ \A d \in Callers : d # c => caller'[d] = caller[d]
           /\ caller'[c].stage = st
<1>1. caller' = [caller EXCEPT ![c].stage = st] /\ caller \in [Callers -> CallerType]
  BY DEF CallerAt, BudgetTypes
<1>2. caller'[c] = [caller[c] EXCEPT !.stage = st] /\ caller[c] \in CallerType
  BY <1>1
<1>3. \A d \in Callers : d # c => caller'[d] = caller[d]
  BY <1>1
<1>4. /\ caller'[c].at = caller[c].at /\ caller'[c].window = caller[c].window
      /\ caller'[c].stage = st /\ caller'[c] \in CallerType
  BY <1>2 DEF CallerType, BudgetStages
<1>5. \A d \in Callers : Counting(d)' <=> Counting(d)
  BY <1>3, <1>4 DEF Counting
<1>6. InFlight' = InFlight /\ c \in InFlight
  BY <1>5 DEF InFlight
<1>7. caller' \in [Callers -> CallerType]
  BY <1>1, <1>2, <1>4
<1> QED
  BY <1>3, <1>4, <1>6, <1>7

LEMMA SameDues ==
    ASSUME NEW w \in Windows, NEW n, InFlight' = InFlight, UNCHANGED passed,
           \A d \in Callers : caller'[d].at = caller[d].at /\ caller'[d].window = caller[d].window
    PROVE  /\ Owed(w, n)' = Owed(w, n) /\ SpentCalls(w, n)' = SpentCalls(w, n)
           /\ Pure(w, n)' <=> Pure(w, n)
<1>1. \A d \in InFlight : OfWindow(d, w, n)' <=> OfWindow(d, w, n)
  BY DEF OfWindow, InFlight
<1>2. Owed(w, n)' = Owed(w, n)
  BY <1>1 DEF Owed, InFlight
<1> QED
  BY <1>1, <1>2 DEF SpentCalls, Pure

(* Each of the three keeps a window accounted for if it keeps what the two *)
(* situations of the window's own calls say.                               *)
LEMMA StillAccounted ==
    ASSUME NEW w \in Windows, NEW n, Accounted(w, n), UNCHANGED <<wall, racers>>,
           SpentCalls(w, n)' = SpentCalls(w, n),
           Opening(w, n) => Opening(w, n)', Filling(w, n) => Filling(w, n)'
    PROVE  Accounted(w, n)'
BY DEF Accounted, Early, Finished

LEMMA LoadWindowInv ==
    ASSUME BudgetInv, NEW c \in Callers, LoadWindow(c)
    PROVE  BudgetInv'
<1>1. BudgetTypes /\ caller[c].window \in Windows
  BY DEF BudgetInv, BudgetTypes, CallerType
<1>2. PICK st : st = IF budget[caller[c].window].number # OwnNumber(c) THEN "window" ELSE "add"
  OBVIOUS
<1>3. /\ caller[c].stage = "load" /\ CallerAt(c, st) /\ Counting(c) /\ st \in {"window", "count", "add"}
      /\ UNCHANGED <<wall, budget, passed, racers>>
  BY <1>2 DEF LoadWindow, Counting
<1>4. /\ c \in InFlight /\ InFlight' = InFlight /\ caller' \in [Callers -> CallerType]
      /\ \A d \in Callers : caller'[d].at = caller[d].at /\ caller'[d].window = caller[d].window
      /\ \A d \in Callers : d # c => caller'[d] = caller[d]
      /\ caller'[c].stage = st
  BY <1>1, <1>3, CallerMoves
<1>5. BudgetTypes'
  BY <1>1, <1>3, <1>4 DEF BudgetTypes
<1>6. ASSUME NEW w \in Windows, NEW n \in 0..Number(w, MaxWall) PROVE Accounted(w, n)'
  <2>1. /\ Owed(w, n)' = Owed(w, n) /\ SpentCalls(w, n)' = SpentCalls(w, n)
        /\ (Pure(w, n)' <=> Pure(w, n))
    BY <1>3, <1>4, SameDues
  <2>2. Room(w)' = Room(w)
    BY <1>3 DEF Room
  <2>3. \A d \in InFlight : d \in Callers
    BY DEF InFlight
  <2>4. Owed(w, n) \subseteq InFlight
    BY DEF Owed
  <2>5. Pure(w, n) /\ caller[c].window = w => OwnNumber(c) = n
    BY <1>4 DEF Pure, OfWindow, OwnNumber
  <2>6. ASSUME Opening(w, n) PROVE Opening(w, n)'
    <3>1. InFlight' # {} /\ Pure(w, n)' /\ SpentCalls(w, n)' <= racers' + 1
      BY <1>3, <1>4, <2>1, <2>6 DEF Opening
    <3>2. \/ budget[w].number = n
          \/ \E d \in Owed(w, n) : caller'[d].window # w \/ caller'[d].stage \in {"load", "window"}
      <4> SUFFICES ASSUME budget[w].number # n
                   PROVE  \E d \in Owed(w, n) : caller'[d].window # w \/ caller'[d].stage \in {"load", "window"}
        OBVIOUS
      <4>1. PICK d \in Owed(w, n) : caller[d].window # w \/ caller[d].stage \in {"load", "window"}
        BY <2>6 DEF Opening
      <4>2. CASE d # c
        BY <1>4, <2>3, <2>4, <4>1, <4>2
      <4>3. CASE d = c /\ caller[c].window # w
        BY <1>4, <4>1, <4>3
      <4>4. CASE d = c /\ caller[c].window = w
        BY <1>2, <1>4, <2>5, <2>6, <4>1, <4>4 DEF Opening
      <4> QED
        BY <4>2, <4>3, <4>4
    <3>3. \/ budget[w].number # n \/ budget[w].count >= 1
          \/ \E d \in Owed(w, n) : MeterAt(d, w, {"window", "count", "add"})'
      <4> SUFFICES ASSUME budget[w].number = n, ~(budget[w].count >= 1)
                   PROVE  \E d \in Owed(w, n) : MeterAt(d, w, {"window", "count", "add"})'
        OBVIOUS
      <4>1. PICK d \in Owed(w, n) : MeterAt(d, w, {"window", "count", "add"})
        BY <2>6 DEF Opening
      <4>2. d # c
        BY <1>3, <4>1 DEF MeterAt
      <4> QED
        BY <1>4, <2>3, <2>4, <4>1, <4>2 DEF MeterAt
    <3> QED
      BY <1>3, <2>1, <3>1, <3>2, <3>3 DEF Opening
  <2>7. ASSUME Filling(w, n) PROVE Filling(w, n)'
    <3>1. ASSUME NEW d \in InFlight PROVE ~MeterAt(d, w, {"window", "count"})'
      <4>1. CASE d # c
        BY <1>4, <2>3, <2>7, <4>1 DEF MeterAt, Filling
      <4>2. CASE d = c
        BY <1>2, <1>4, <2>5, <2>7, <4>2 DEF MeterAt, Filling
      <4> QED
        BY <4>1, <4>2
    <3> QED
      BY <1>3, <1>4, <2>1, <2>2, <2>7, <3>1 DEF Filling
  <2>10. Accounted(w, n) /\ wall' = wall /\ racers' = racers
    BY <1>3 DEF BudgetInv
  <2> QED
    BY <2>1, <2>6, <2>7, <2>10, StillAccounted
<1> QED
  BY <1>3, <1>5, <1>6 DEF BudgetInv

LEMMA StoreWindowInv ==
    ASSUME BudgetInv, NEW c \in Callers, StoreWindow(c)
    PROVE  BudgetInv'
<1>1. BudgetTypes
  BY DEF BudgetInv
<1>2. PICK own : own = OwnNumber(c)
  OBVIOUS
<1>3. PICK v : v = caller[c].window
  OBVIOUS
<1>4. /\ caller[c].stage = "window" /\ CallerAt(c, "count") /\ Counting(c) /\ v \in Windows
      /\ budget' = [budget EXCEPT ![v].number = own]
      /\ UNCHANGED <<wall, passed, racers>>
  BY <1>1, <1>2, <1>3 DEF StoreWindow, Counting, BudgetTypes, CallerType
<1>5. /\ c \in InFlight /\ InFlight' = InFlight /\ caller' \in [Callers -> CallerType]
      /\ \A d \in Callers : caller'[d].at = caller[d].at /\ caller'[d].window = caller[d].window
      /\ \A d \in Callers : d # c => caller'[d] = caller[d]
      /\ caller'[c].stage = "count"
  BY <1>1, <1>4, CallerMoves
<1>6. own \in Nat /\ own <= Number(v, MaxWall)
  <2>1. caller[c] \in CallerType /\ MaxWall \in Nat
    BY <1>1, BudgetAssumption DEF BudgetTypes
  <2>2. caller[c].at \in 0..MaxWall
    BY <2>1 DEF CallerType
  <2>3. caller[c].at \in Nat /\ caller[c].at <= MaxWall
    BY <2>1, <2>2
  <2> QED
    BY <1>2, <1>3, <1>4, <2>1, <2>3, NumberFacts DEF OwnNumber
<1>7. /\ \A w \in Windows : w # v => budget'[w] = budget[w]
      /\ \A w \in Windows : budget'[w].count = budget[w].count
      /\ budget'[v].number = own
      /\ budget' \in [Windows -> [number : Int, count : Nat]]
  BY <1>1, <1>4, <1>6 DEF BudgetTypes
<1>8. BudgetTypes'
  <2>1. Number(v, MaxWall) \in Nat
    BY <1>4, NumberFacts, BudgetAssumption
  <2>2. own \in Unset..Number(v, MaxWall)
    BY <1>6, <2>1 DEF Unset
  <2>3. \A w \in Windows : budget'[w].number \in Unset..Number(w, MaxWall)
    BY <1>1, <1>7, <2>2 DEF BudgetTypes
  <2> QED
    BY <1>1, <1>4, <1>5, <1>7, <2>3 DEF BudgetTypes
<1>9. ASSUME NEW w \in Windows, NEW n \in 0..Number(w, MaxWall) PROVE Accounted(w, n)'
  <2>1. /\ Owed(w, n)' = Owed(w, n) /\ SpentCalls(w, n)' = SpentCalls(w, n)
        /\ (Pure(w, n)' <=> Pure(w, n))
    BY <1>4, <1>5, SameDues
  <2>2. Room(w)' = Room(w)
    BY <1>7 DEF Room
  <2>3. Owed(w, n) \subseteq InFlight /\ InFlight \subseteq Callers
    BY DEF Owed, InFlight
  <2>4. Pure(w, n) /\ v = w => own = n /\ c \in Owed(w, n)
    BY <1>2, <1>3, <1>5 DEF Pure, OfWindow, OwnNumber, Owed
  <2>5. ASSUME Opening(w, n) PROVE Opening(w, n)'
    <3>1. InFlight' # {} /\ Pure(w, n)' /\ SpentCalls(w, n)' <= racers' + 1
      BY <1>4, <1>5, <2>1, <2>5 DEF Opening
    <3>2. CASE v = w
      <4>1. MeterAt(c, w, {"window", "count", "add"})' /\ budget'[w].number = n /\ c \in Owed(w, n)
        BY <1>3, <1>5, <1>7, <2>4, <2>5, <3>2 DEF Opening, MeterAt
      <4> QED
        BY <2>1, <3>1, <4>1 DEF Opening
    <3>3. CASE v # w
      <4>1. \A d \in Owed(w, n) : caller[d].window # w => caller'[d].window # w
        BY <1>5, <2>3
      <4>2. \A d \in Owed(w, n) : caller[d].window = w => caller'[d] = caller[d]
        BY <1>3, <1>5, <2>3, <3>3
      <4>3. \A d \in Owed(w, n) : MeterAt(d, w, {"window", "count", "add"}) => MeterAt(d, w, {"window", "count", "add"})'
        BY <4>2 DEF MeterAt
      <4> QED
        BY <1>7, <2>1, <2>5, <3>1, <3>3, <4>1, <4>2, <4>3 DEF Opening
    <3> QED
      BY <3>2, <3>3
  <2>6. ASSUME Filling(w, n) PROVE Filling(w, n)'
    <3>1. v # w
      BY <1>3, <1>4, <1>5, <2>6 DEF Filling, MeterAt
    <3>2. \A d \in InFlight : ~MeterAt(d, w, {"window", "count"})'
      BY <1>3, <1>5, <2>3, <2>6, <3>1 DEF Filling, MeterAt
    <3> QED
      BY <1>4, <1>5, <1>7, <2>1, <2>2, <2>6, <3>1, <3>2 DEF Filling
  <2>10. Accounted(w, n) /\ wall' = wall /\ racers' = racers
    BY <1>4 DEF BudgetInv
  <2> QED
    BY <2>1, <2>5, <2>6, <2>10, StillAccounted
<1> QED
  BY <1>8, <1>9, <1>4 DEF BudgetInv

LEMMA ClearCountInv ==
    ASSUME BudgetInv, NEW c \in Callers, ClearCount(c)
    PROVE  BudgetInv'
<1>1. BudgetTypes
  BY DEF BudgetInv
<1>2. PICK v : v = caller[c].window
  OBVIOUS
<1>3. /\ caller[c].stage = "count" /\ CallerAt(c, "add") /\ Counting(c) /\ v \in Windows
      /\ budget' = [budget EXCEPT ![v].count = 0]
      /\ UNCHANGED <<wall, passed, racers>>
  BY <1>1, <1>2 DEF ClearCount, Counting, BudgetTypes, CallerType
<1>4. /\ c \in InFlight /\ InFlight' = InFlight /\ caller' \in [Callers -> CallerType]
      /\ \A d \in Callers : caller'[d].at = caller[d].at /\ caller'[d].window = caller[d].window
      /\ \A d \in Callers : d # c => caller'[d] = caller[d]
      /\ caller'[c].stage = "add"
  BY <1>1, <1>3, CallerMoves
<1>5. /\ \A w \in Windows : w # v => budget'[w] = budget[w]
      /\ \A w \in Windows : budget'[w].number = budget[w].number
      /\ budget' \in [Windows -> [number : Int, count : Nat]]
  BY <1>1, <1>3 DEF BudgetTypes
<1>6. BudgetTypes'
  BY <1>1, <1>3, <1>4, <1>5 DEF BudgetTypes
<1>7. ASSUME NEW w \in Windows, NEW n \in 0..Number(w, MaxWall) PROVE Accounted(w, n)'
  <2>1. /\ Owed(w, n)' = Owed(w, n) /\ SpentCalls(w, n)' = SpentCalls(w, n)
        /\ (Pure(w, n)' <=> Pure(w, n))
    BY <1>3, <1>4, SameDues
  <2>2. Owed(w, n) \subseteq InFlight /\ InFlight \subseteq Callers
    BY DEF Owed, InFlight
  <2>3. Pure(w, n) /\ v = w => c \in Owed(w, n)
    BY <1>2, <1>4 DEF Pure, OfWindow, Owed
  <2>4. ASSUME Opening(w, n) PROVE Opening(w, n)'
    <3>1. InFlight' # {} /\ Pure(w, n)' /\ SpentCalls(w, n)' <= racers' + 1
      BY <1>3, <1>4, <2>1, <2>4 DEF Opening
    <3>2. \A d \in Owed(w, n) :
             \/ caller[d].window # w \/ caller[d].stage \in {"load", "window"}
             => caller'[d].window # w \/ caller'[d].stage \in {"load", "window"}
      BY <1>3, <1>4, <2>2
    <3>3. \A d \in Owed(w, n) : MeterAt(d, w, {"window", "count", "add"}) => MeterAt(d, w, {"window", "count", "add"})'
      BY <1>4, <2>2 DEF MeterAt
    <3>4. CASE v = w
      <4>1. MeterAt(c, w, {"window", "count", "add"})' /\ c \in Owed(w, n)
        BY <1>2, <1>4, <2>3, <2>4, <3>4 DEF Opening, MeterAt
      <4> QED
        BY <1>5, <2>1, <2>4, <3>1, <3>2, <4>1 DEF Opening
    <3>5. CASE v # w
      BY <1>5, <2>1, <2>4, <3>1, <3>2, <3>3, <3>5 DEF Opening
    <3> QED
      BY <3>4, <3>5
  <2>5. ASSUME Filling(w, n) PROVE Filling(w, n)'
    <3>1. v # w
      BY <1>2, <1>3, <1>4, <2>5 DEF Filling, MeterAt
    <3>2. \A d \in InFlight : ~MeterAt(d, w, {"window", "count"})'
      BY <1>2, <1>4, <2>2, <2>5, <3>1 DEF Filling, MeterAt
    <3>3. Room(w)' = Room(w)
      BY <1>5, <3>1 DEF Room
    <3> QED
      BY <1>3, <1>4, <1>5, <2>1, <2>5, <3>1, <3>2, <3>3 DEF Filling
  <2>10. Accounted(w, n) /\ wall' = wall /\ racers' = racers
    BY <1>3 DEF BudgetInv
  <2> QED
    BY <2>1, <2>4, <2>5, <2>10, StillAccounted
<1> QED
  BY <1>3, <1>6, <1>7 DEF BudgetInv

(***************************************************************************)
(* The add                                                                 *)
(***************************************************************************)

LEMMA AddOneInv ==
    ASSUME BudgetInv, NEW c \in Callers, AddOne(c)
    PROVE  BudgetInv'
<1>1. BudgetTypes /\ caller[c] \in CallerType
  BY DEF BudgetInv, BudgetTypes
<1>2. PICK v \in Windows : v = caller[c].window
  BY <1>1 DEF CallerType
<1>3. PICK own : own = OwnNumber(c)
  OBVIOUS
<1>4. PICK within \in BOOLEAN : within <=> budget[v].count + 1 <= Limit(v)
  OBVIOUS
<1>5. PICK st : st = IF ~within THEN "refused" ELSE IF v = "minute" THEN "load" ELSE "granted"
  OBVIOUS
<1>6. /\ caller[c].stage = "add" /\ UNCHANGED <<wall, racers>>
      /\ budget' = [budget EXCEPT ![v].count = budget[v].count + 1]
      /\ caller' = [caller EXCEPT ![c].window = "day", ![c].stage = st]
      /\ passed' = IF within THEN [passed EXCEPT ![v][own] = passed[v][own] + 1] ELSE passed
  BY <1>1, <1>2, <1>3, <1>4, <1>5 DEF AddOne, CountedWith, BudgetTypes
<1>7. PICK stays \in BOOLEAN : stays <=> within /\ v = "minute"
  OBVIOUS
<1>8. /\ caller'[c].stage = st /\ caller'[c].window = "day" /\ caller'[c].at = caller[c].at
      /\ caller' \in [Callers -> CallerType]
      /\ \A d \in Callers : d # c => caller'[d] = caller[d]
  <2>1. /\ caller'[c] = [caller[c] EXCEPT !.window = "day", !.stage = st]
        /\ \A d \in Callers : d # c => caller'[d] = caller[d]
        /\ caller \in [Callers -> CallerType] /\ DOMAIN caller' = Callers
        /\ caller' = [d \in Callers |-> caller'[d]]
    BY <1>1, <1>6 DEF BudgetTypes
  <2>2. /\ caller'[c].stage = st /\ caller'[c].window = "day" /\ caller'[c].at = caller[c].at
        /\ caller'[c] \in CallerType
    BY <1>1, <1>5, <2>1 DEF CallerType, BudgetStages, Windows
  <2>3. \A d \in Callers : caller'[d] \in CallerType
    BY <2>1, <2>2
  <2> QED
    BY <2>1, <2>2, <2>3
<1>9. /\ InFlight \subseteq Callers /\ c \in InFlight
      /\ InFlight' = IF stays THEN InFlight ELSE InFlight \ {c}
  <2>1. c \in InFlight /\ (c \in InFlight' <=> stays)
    BY <1>2, <1>5, <1>6, <1>7, <1>8 DEF InFlight, Counting, Windows
  <2>2. \A d \in Callers : d # c => (d \in InFlight' <=> d \in InFlight)
    BY <1>8 DEF InFlight, Counting
  <2>3. InFlight \subseteq Callers /\ InFlight' \subseteq Callers
    BY DEF InFlight
  <2> QED
    BY <2>1, <2>2, <2>3
<1>10. own \in Nat /\ own <= Number(v, MaxWall) /\ own <= Number(v, wall) /\ Number(v, MaxWall) \in Nat
  <2>1. caller[c].at \in 0..MaxWall /\ MaxWall \in Nat /\ wall \in 0..MaxWall /\ caller[c].at <= wall
    BY <1>1, BudgetAssumption DEF CallerType, BudgetTypes
  <2>2. caller[c].at \in Nat /\ caller[c].at <= MaxWall /\ wall \in Nat
    BY <2>1
  <2> QED
    BY <1>2, <1>3, <2>1, <2>2, NumberFacts DEF OwnNumber
<1>11. /\ \A w \in Windows : w # v => budget'[w] = budget[w]
       /\ \A w \in Windows : budget'[w].number = budget[w].number
       /\ budget'[v].count = budget[v].count + 1 /\ budget[v].count \in Nat
       /\ budget' \in [Windows -> [number : Int, count : Nat]]
  BY <1>1, <1>6 DEF BudgetTypes
<1>12. /\ DOMAIN passed' = Windows /\ passed' = [w \in Windows |-> passed'[w]]
       /\ \A w \in Windows : passed'[w] \in [0..Number(w, MaxWall) -> Nat]
       /\ \A w \in Windows : \A n \in 0..Number(w, MaxWall) :
             passed'[w][n] = IF within /\ w = v /\ n = own THEN passed[w][n] + 1 ELSE passed[w][n]
  <2>1. /\ DOMAIN passed = Windows /\ passed = [w \in Windows |-> passed[w]]
        /\ \A w \in Windows : passed[w] \in [0..Number(w, MaxWall) -> Nat]
    BY <1>1 DEF BudgetTypes
  <2>2. own \in 0..Number(v, MaxWall)
    BY <1>10
  <2>3. CASE ~within
    BY <1>6, <2>1, <2>3
  <2>4. CASE within
    <3>1. passed' = [passed EXCEPT ![v][own] = passed[v][own] + 1]
      BY <1>6, <2>4
    <3>2. /\ \A w \in Windows : w # v => passed'[w] = passed[w]
          /\ passed'[v] = [passed[v] EXCEPT ![own] = passed[v][own] + 1]
          /\ DOMAIN passed' = Windows /\ passed' = [w \in Windows |-> passed'[w]]
      BY <2>1, <3>1
    <3>3. /\ passed'[v] \in [0..Number(v, MaxWall) -> Nat]
          /\ \A n \in 0..Number(v, MaxWall) :
                passed'[v][n] = IF n = own THEN passed[v][n] + 1 ELSE passed[v][n]
      <4>1. PICK f : f = passed[v]
        OBVIOUS
      <4>2. PICK top : top = Number(v, MaxWall)
        OBVIOUS
      <4>3. f \in [0..top -> Nat] /\ own \in 0..top /\ passed'[v] = [f EXCEPT ![own] = f[own] + 1]
        BY <2>1, <2>2, <3>2, <4>1, <4>2
      <4>4. f[own] + 1 \in Nat
        BY <4>3
      <4>5. /\ [f EXCEPT ![own] = f[own] + 1] \in [0..top -> Nat]
            /\ \A n \in 0..top : [f EXCEPT ![own] = f[own] + 1][n] = IF n = own THEN f[n] + 1 ELSE f[n]
        BY <4>3, <4>4
      <4> QED
        BY <4>1, <4>2, <4>3, <4>5
    <3> QED
      BY <2>1, <2>4, <3>2, <3>3
  <2> QED
    BY <2>3, <2>4
<1>13. BudgetTypes'
  <2>1. \A d \in Callers : caller'[d].at <= wall'
    BY <1>1, <1>6, <1>8 DEF BudgetTypes
  <2>2. IsFiniteSet(InFlight')
    BY <1>1, <1>9, FS_RemoveElement DEF BudgetTypes
  <2>3. \A w \in Windows : budget'[w].number \in Unset..Number(w, MaxWall)
    BY <1>1, <1>11 DEF BudgetTypes
  <2>4. wall' \in 0..MaxWall /\ racers' \in Nat
    BY <1>1, <1>6 DEF BudgetTypes
  <2> QED
    BY <1>8, <1>11, <1>12, <2>1, <2>2, <2>3, <2>4 DEF BudgetTypes
<1>14. ASSUME NEW w \in Windows, NEW n \in 0..Number(w, MaxWall) PROVE Accounted(w, n)'
  <2>1. /\ OfWindow(c, w, n)' <=> OfWindow(c, w, n)
        /\ \A d \in InFlight : OfWindow(d, w, n)' <=> OfWindow(d, w, n)
        /\ v = w => (OfWindow(c, w, n) <=> own = n)
    BY <1>2, <1>3, <1>8, <1>9 DEF OfWindow, OwnNumber
  <2>2. /\ (c \in Owed(w, n) <=> OfWindow(c, w, n) /\ (w = "minute" => v = "minute"))
        /\ (c \in Owed(w, n)' <=> stays /\ OfWindow(c, w, n) /\ w # "minute")
        /\ \A d : d # c => (d \in Owed(w, n)' <=> d \in Owed(w, n))
        /\ Owed(w, n) \subseteq InFlight
    <3>1. c \in Owed(w, n) <=> OfWindow(c, w, n) /\ (w = "minute" => v = "minute")
      BY <1>2, <1>9 DEF Owed
    <3>2. c \in Owed(w, n)' <=> stays /\ OfWindow(c, w, n) /\ w # "minute"
      BY <1>8, <1>9, <2>1 DEF Owed
    <3>3. ASSUME NEW d, d # c PROVE d \in Owed(w, n)' <=> d \in Owed(w, n)
      BY <1>8, <1>9, <2>1, <3>3 DEF Owed
    <3> QED
      BY <3>1, <3>2, <3>3 DEF Owed
  <2>3. Windows = {"minute", "day"}
    BY DEF Windows
  <2>4. /\ SpentCalls(w, n) \in Nat /\ Cardinality(Owed(w, n)) \in Nat /\ passed[w][n] \in Nat
        /\ IsFiniteSet(Owed(w, n)) /\ Limit(w) \in Nat /\ Limit(w) >= 1 /\ n \in Nat
        /\ Room(w) \in Nat /\ Room(w) <= Limit(w) /\ passed[w][n] <= SpentCalls(w, n)
        /\ racers \in Nat /\ budget[w].count \in Nat
    BY <1>1, SpentFacts
  <2>5. PICK k : k = Cardinality(Owed(w, n))
    OBVIOUS
  <2>6. PICK gone \in BOOLEAN : gone <=> c \in Owed(w, n) /\ c \notin Owed(w, n)'
    OBVIOUS
  <2>7. Owed(w, n)' = IF gone THEN Owed(w, n) \ {c} ELSE Owed(w, n)
    <3>1. c \in Owed(w, n)' => c \in Owed(w, n)
      BY <1>7, <2>2, <2>3
    <3> QED
      BY <2>2, <2>6, <3>1
  <2>8. SpentCalls(w, n)' = passed'[w][n] + (IF gone THEN k - 1 ELSE k) /\ (gone => k >= 1)
    <3>1. Cardinality(Owed(w, n)') = IF gone THEN k - 1 ELSE k
      BY <2>4, <2>5, <2>6, <2>7, FS_RemoveElement
    <3>2. gone => k >= 1
      <4> SUFFICES ASSUME gone PROVE k # 0
        BY <2>4, <2>5
      <4>1. Owed(w, n) # {}
        BY <2>6
      <4> QED
        BY <2>4, <2>5, <4>1, FS_EmptySet
    <3> QED
      BY <3>1, <3>2 DEF SpentCalls
  <2>9. SpentCalls(w, n) = passed[w][n] + k
    BY <2>5 DEF SpentCalls
  <2>10. passed'[w][n] = IF within /\ w = v /\ n = own THEN passed[w][n] + 1 ELSE passed[w][n]
    BY <1>12
  <2>11. w = v /\ n = own => gone
    BY <1>7, <2>1, <2>2, <2>3, <2>6
  <2>12. SpentCalls(w, n)' <= SpentCalls(w, n) /\ k \in Nat
    BY <2>4, <2>5, <2>8, <2>9, <2>10, <2>11
  <2>13. w # v /\ ~stays /\ w = "day" /\ OfWindow(c, w, n) => SpentCalls(w, n)' + 1 <= SpentCalls(w, n)
    BY <2>2, <2>3, <2>4, <2>5, <2>6, <2>8, <2>9, <2>10
  <2>14. Accounted(w, n) /\ wall' = wall /\ racers' = racers
    BY <1>6 DEF BudgetInv
  <2>15. CASE Early(w, n)
    BY <2>4, <2>8, <2>9, <2>12, <2>10, <2>14, <2>15 DEF Early, Accounted
  <2>16. CASE Finished(w, n)
    <3>1. Finished(w, n)'
      BY <2>4, <2>8, <2>9, <2>10, <2>12, <2>14, <2>16 DEF Finished
    <3> QED
      BY <3>1 DEF Accounted
  <2>17. \A x \in InFlight' : x \in InFlight
    BY <1>9
  <2>18. ASSUME Pure(w, n)
         PROVE  /\ Pure(w, n)' /\ n <= Number(w, wall) /\ OfWindow(c, w, n)
                /\ w = v => n = own
    <3>1. Pure(w, n)' /\ OfWindow(c, w, n)
      BY <1>9, <2>1, <2>17, <2>18 DEF Pure
    <3>2. caller[c].at \in Nat /\ caller[c].at <= wall /\ wall \in Nat
      <4>1. MaxWall \in Nat /\ caller[c].at \in 0..MaxWall /\ wall \in 0..MaxWall
        BY <1>1, BudgetAssumption DEF CallerType, BudgetTypes
      <4>2. caller[c].at <= wall
        BY <1>1 DEF BudgetTypes
      <4> QED
        BY <4>1, <4>2
    <3>3. n <= Number(w, wall)
      BY <3>1, <3>2, NumberFacts DEF OfWindow
    <3> QED
      BY <2>1, <3>1, <3>3
  <2>19. CASE Opening(w, n)
    <3>1. Pure(w, n) /\ SpentCalls(w, n) <= racers + 1
      BY <2>19 DEF Opening
    <3>2. SpentCalls(w, n)' \in Nat /\ passed'[w][n] \in Nat /\ passed'[w][n] <= SpentCalls(w, n)'
      BY <2>4, <2>8, <2>10, <2>12
    <3>3. CASE w # v /\ ~stays /\ w = "day"
      <4>1. SpentCalls(w, n)' <= racers'
        BY <2>4, <2>13, <2>14, <2>18, <3>1, <3>2, <3>3
      <4> QED
        BY <4>1 DEF Early, Accounted
    <3>4. CASE InFlight' = {} /\ ~(w # v /\ ~stays /\ w = "day")
      <4>1. \A d \in Owed(w, n) : d = c
        BY <1>9, <2>2, <3>4
      <4>2. ~stays
        BY <1>9, <3>4
      <4>3. budget'[w].number = n /\ budget'[w].count >= 1 /\ budget'[w].count \in Nat
        <5>1. CASE w = v
          BY <1>2, <1>6, <1>11, <2>19, <4>1, <5>1 DEF Opening
        <5>2. CASE w # v
          <6>1. c \notin Owed(w, n)
            BY <2>2, <2>3, <3>4, <4>2, <5>2
          <6> QED
            BY <1>11, <2>4, <2>19, <4>1, <5>2, <6>1 DEF Opening
        <5> QED
          BY <5>1, <5>2
      <4>4. Room(w)' \in Nat /\ Room(w)' + 1 <= Limit(w)
        BY <2>4, <4>3 DEF Room
      <4>5. passed'[w][n] + Room(w)' <= racers' + Limit(w)
        BY <2>4, <2>12, <2>14, <3>1, <3>2, <4>4
      <4>6. SpentCalls(w, n)' <= racers' + Limit(w)
        BY <2>4, <2>12, <2>14, <3>1, <3>2
      <4>7. Filling(w, n)'
        <5>1. n <= Number(w, wall) /\ Pure(w, n)'
          BY <2>18, <3>1
        <5>2. \A d \in InFlight' : ~MeterAt(d, w, {"window", "count"})'
          BY <3>4
        <5>3. SpentCalls(w, n)' <= racers' + Limit(w) + 0
          BY <2>4, <2>14, <3>2, <4>6
        <5> QED
          BY <2>14, <3>4, <4>3, <4>5, <5>1, <5>2, <5>3 DEF Filling
      <4> QED
        BY <4>7 DEF Accounted
    <3>5. CASE InFlight' # {} /\ ~(w # v /\ ~stays /\ w = "day")
      <4>1. Pure(w, n)' /\ SpentCalls(w, n)' <= racers' + 1
        BY <2>4, <2>12, <2>14, <2>18, <3>1, <3>2
      <4>2. \/ budget'[w].number = n
            \/ \E d \in Owed(w, n)' : caller'[d].window # w \/ caller'[d].stage \in {"load", "window"}
        <5> SUFFICES ASSUME budget'[w].number # n
                     PROVE  \E d \in Owed(w, n)' : caller'[d].window # w \/ caller'[d].stage \in {"load", "window"}
          OBVIOUS
        <5>1. PICK d \in Owed(w, n) : caller[d].window # w \/ caller[d].stage \in {"load", "window"}
          BY <1>11, <2>19 DEF Opening
        <5>2. CASE d # c
          BY <1>8, <1>9, <2>2, <5>1, <5>2
        <5>3. CASE d = c
          <6>1. v # w
            BY <1>2, <1>6, <5>1, <5>3
          <6>2. stays /\ c \in Owed(w, n)'
            BY <2>2, <2>3, <3>5, <5>1, <5>3, <6>1
          <6>3. caller'[c].stage = "load"
            BY <1>5, <1>7, <1>8, <6>2
          <6> QED
            BY <6>2, <6>3
        <5> QED
          BY <5>2, <5>3
      <4>3. \/ budget'[w].number # n \/ budget'[w].count >= 1
            \/ \E d \in Owed(w, n)' : MeterAt(d, w, {"window", "count", "add"})'
        <5>1. CASE v = w
          BY <1>11, <5>1
        <5>2. CASE v # w
          <6> SUFFICES ASSUME budget[w].number = n, ~(budget[w].count >= 1)
                       PROVE  \E d \in Owed(w, n)' : MeterAt(d, w, {"window", "count", "add"})'
            BY <1>11, <5>2
          <6>1. PICK d \in Owed(w, n) : MeterAt(d, w, {"window", "count", "add"})
            BY <2>19 DEF Opening
          <6>2. d # c
            BY <1>2, <5>2, <6>1 DEF MeterAt
          <6> QED
            BY <1>8, <1>9, <2>2, <6>1, <6>2 DEF MeterAt
        <5> QED
          BY <5>1, <5>2
      <4>4. Opening(w, n)'
        BY <3>5, <4>1, <4>2, <4>3 DEF Opening
      <4> QED
        BY <4>4 DEF Accounted
    <3> QED
      BY <3>3, <3>4, <3>5
  <2>20. CASE Filling(w, n)
    <3>1. /\ budget'[w].number = n /\ n <= Number(w, wall) /\ Pure(w, n)'
          /\ w = v => n = own
      BY <1>11, <2>18, <2>20 DEF Filling
    <3>2. ASSUME NEW d \in InFlight' PROVE ~MeterAt(d, w, {"window", "count"})'
      <4>1. CASE d = c
        BY <1>5, <1>8, <4>1 DEF MeterAt
      <4>2. CASE d # c
        BY <1>8, <1>9, <2>17, <2>20, <4>2 DEF Filling, MeterAt
      <4> QED
        BY <4>1, <4>2
    <3>3. passed'[w][n] + Room(w)' <= racers' + Limit(w) /\ Room(w)' \in Nat
      <4>1. passed[w][n] + Room(w) <= racers + Limit(w)
        BY <2>20 DEF Filling
      <4>2. CASE w # v
        <5>1. Room(w)' = Room(w)
          BY <1>11, <4>2 DEF Room
        <5> QED
          BY <2>4, <2>10, <2>14, <4>1, <4>2, <5>1
      <4>3. CASE w = v /\ within
        <5>1. Room(w) = Room(w)' + 1 /\ Room(w)' \in Nat
          BY <1>4, <1>11, <2>4, <4>3 DEF Room
        <5> QED
          BY <2>4, <2>10, <2>14, <3>1, <4>1, <4>3, <5>1
      <4>4. CASE w = v /\ ~within
        <5>1. Room(w) = 0 /\ Room(w)' = 0
          BY <1>4, <1>11, <2>4, <4>4 DEF Room
        <5> QED
          BY <2>4, <2>10, <2>14, <4>1, <4>4, <5>1
      <4> QED
        BY <4>2, <4>3, <4>4
    <3>4. SpentCalls(w, n)' <= racers' + Limit(w) + (IF InFlight' = {} THEN 0 ELSE 1)
      <4>1. CASE InFlight' = {}
        <5>1. Cardinality(Owed(w, n)') = 0
          <6>1. Owed(w, n)' = {}
            BY <4>1 DEF Owed
          <6> QED
            BY <6>1, FS_EmptySet
        <5>2. SpentCalls(w, n)' = passed'[w][n] + Cardinality(Owed(w, n)')
          BY DEF SpentCalls
        <5> QED
          BY <2>4, <2>10, <2>14, <3>3, <4>1, <5>1, <5>2
      <4>2. CASE InFlight' # {}
        <5>1. SpentCalls(w, n) <= racers + Limit(w) + 1
          BY <1>9, <2>20 DEF Filling
        <5> QED
          BY <2>4, <2>8, <2>9, <2>10, <2>12, <2>14, <4>2, <5>1
      <4> QED
        BY <4>1, <4>2
    <3>5. Filling(w, n)'
      BY <2>14, <3>1, <3>2, <3>3, <3>4 DEF Filling
    <3> QED
      BY <3>5 DEF Accounted
  <2> QED
    BY <2>14, <2>15, <2>16, <2>19, <2>20 DEF Accounted
<1> QED
  BY <1>6, <1>13, <1>14 DEF BudgetInv

LEMMA BudgetNextInv == BudgetInv /\ [BudgetNext]_budgetVars => BudgetInv'
<1> SUFFICES ASSUME BudgetInv, [BudgetNext]_budgetVars PROVE BudgetInv'
  OBVIOUS
<1>1. CASE PassTime
  BY <1>1, PassTimeInv
<1>2. ASSUME NEW c \in Callers,
             StartCounting(c) \/ LoadWindow(c) \/ StoreWindow(c) \/ ClearCount(c) \/ AddOne(c)
      PROVE  BudgetInv'
  BY <1>2, StartCountingInv, LoadWindowInv, StoreWindowInv, ClearCountInv, AddOneInv
<1>3. CASE UNCHANGED budgetVars
  <2>1. UNCHANGED <<wall, budget, caller, passed, racers>> /\ InFlight' = InFlight
    BY <1>3 DEF budgetVars, InFlight, Counting
  <2>2. BudgetTypes'
    BY <2>1 DEF BudgetInv, BudgetTypes
  <2>3. ASSUME NEW w \in Windows, NEW n \in 0..Number(w, MaxWall) PROVE Accounted(w, n)'
    <3>1. /\ Owed(w, n)' = Owed(w, n) /\ SpentCalls(w, n)' = SpentCalls(w, n)
          /\ (Pure(w, n)' <=> Pure(w, n))
      BY <2>1, SameDues
    <3>2. Accounted(w, n) /\ Room(w)' = Room(w)
      BY <2>1 DEF BudgetInv, Room
    <3>3. Opening(w, n) => Opening(w, n)'
      BY <2>1, <3>1 DEF Opening, MeterAt
    <3>4. Filling(w, n) => Filling(w, n)'
      BY <2>1, <3>1, <3>2 DEF Filling, MeterAt
    <3> QED
      BY <2>1, <3>1, <3>2, <3>3, <3>4, StillAccounted
  <2> QED
    BY <2>2, <2>3 DEF BudgetInv
<1> QED
  BY <1>1, <1>2, <1>3 DEF BudgetNext

(* A minute and a day let through no more calls than their budget, and one *)
(* more for every call that met another while counting (consume_budget).   *)
THEOREM BudgetIsKept == BudgetSpec => []BudgetHolds
<1>1. BudgetSpec => []BudgetInv
  BY BudgetStarts, BudgetNextInv, PTL DEF BudgetSpec
<1> QED
  BY <1>1, BudgetKept, PTL

(* The counters and the calls stay in range.                               *)
THEOREM BudgetTypesHold == BudgetSpec => []BudgetTypeOK
<1>1. BudgetSpec => []BudgetInv
  BY BudgetStarts, BudgetNextInv, PTL DEF BudgetSpec
<1> QED
  BY <1>1, BudgetKept, PTL

-----------------------------------------------------------------------------
(* Release dates: the row and the log together name exactly the days the   *)
(* game was ever dated.                                                    *)

Rows == [known : BOOLEAN, state : States, date : Dated]

(* A game without a row was never dated, so nothing of it can be missing   *)
(* from the log, which only starts with the first change of a row.         *)
ReleaseInv ==
    /\ release \in Rows /\ told \in States /\ relisted \in BOOLEAN
    /\ logged \subseteq Dated \ {NoDate}
    /\ shown = (logged \cup {release.date}) \cap Days
    /\ ~release.known => release.date = NoDate /\ relisted = FALSE
    /\ release.known => release.state = (IF relisted THEN "unknown" ELSE told)

LEMMA ReleaseInitInv == ReleaseInit => ReleaseInv
<1> SUFFICES ASSUME ReleaseInit PROVE ReleaseInv
  OBVIOUS
<1>1. CASE release = [known |-> FALSE, state |-> "unknown", date |-> NoDate] /\ shown = {}
  BY <1>1, ReleaseAssumption DEF ReleaseInit, ReleaseInv, Rows, States, Dated
<1>2. ASSUME NEW day \in Days, shown = {day},
             release = [known |-> TRUE, state |-> "released", date |-> day]
      PROVE  ReleaseInv
  BY <1>2, ReleaseAssumption DEF ReleaseInit, ReleaseInv, Rows, States, Dated
<1> QED
  BY <1>1, <1>2 DEF ReleaseInit

LEMMA ListAppKeeps ==
    ASSUME ReleaseInv, ListApp
    PROVE  ReleaseInv'
<1>1. /\ release' = [release EXCEPT !.known = TRUE, !.state = "unknown"]
      /\ relisted' = TRUE /\ UNCHANGED <<logged, shown, told>>
  BY DEF ListApp
<1>2. release \in Rows /\ "unknown" \in States
  BY DEF ReleaseInv, States
<1>3. release' \in Rows /\ release'.known = TRUE /\ release'.state = "unknown"
        /\ release'.date = release.date
  BY <1>1, <1>2 DEF Rows
<1> QED
  BY <1>1, <1>3 DEF ReleaseInv

LEMMA StoreStatesKeeps ==
    ASSUME ReleaseInv, NEW observed \in BOOLEAN, NEW state \in States, NEW date \in Dated,
           StoreStates(observed, state, date)
    PROVE  ReleaseInv'
<1> DEFINE stands == IF observed \/ ~release.known THEN state ELSE release.state
           day == IF observed THEN date ELSE release.date
<1>1. /\ release' = [known |-> TRUE, state |-> stands, date |-> day]
      /\ logged' = IF observed /\ IsChange(state, date)
                   THEN logged \cup ({release.date, date} \ {NoDate}) ELSE logged
      /\ shown' = shown \cup ({release'.date} \cap Days)
      /\ told' = (IF observed \/ ~release.known THEN state ELSE told)
      /\ relisted' = (relisted /\ ~observed)
  BY DEF StoreStates
<1>2. /\ release \in Rows /\ release.date \in Dated /\ release.state \in States
      /\ release.known \in BOOLEAN /\ stands \in States /\ day \in Dated
  BY DEF ReleaseInv, Rows
<1> HIDE DEF stands, day
<1>3. release' \in Rows /\ release'.known = TRUE /\ release'.state = stands
        /\ release'.date = day
  BY <1>1, <1>2 DEF Rows
<1>4. shown' = (logged' \cup {day}) \cap Days
  <2>1. CASE observed /\ IsChange(state, date)
    BY <2>1, <1>1, <1>3, ReleaseAssumption DEF ReleaseInv, day
  <2>2. CASE ~observed
    BY <2>2, <1>1, <1>3 DEF ReleaseInv, day
  <2>3. CASE observed /\ ~IsChange(state, date)
    <3>1. release.known => release.date = date
      BY <2>3 DEF IsChange
    <3>2. ~release.known => release.date \notin Days
      BY ReleaseAssumption DEF ReleaseInv
    <3> QED
      BY <2>3, <3>1, <3>2, <1>1, <1>3 DEF ReleaseInv, day
  <2> QED BY <2>1, <2>2, <2>3
<1>5. logged' \subseteq Dated \ {NoDate}
  BY <1>1, <1>2 DEF ReleaseInv
<1>6. told' \in States /\ relisted' \in BOOLEAN
  BY <1>1 DEF ReleaseInv
<1>7. stands = (IF relisted' THEN "unknown" ELSE told')
  <2>1. CASE observed \/ ~release.known
    <3>1. relisted' = FALSE
      BY <2>1, <1>1 DEF ReleaseInv
    <3> QED
      BY <2>1, <3>1, <1>1 DEF stands
  <2>2. CASE ~observed /\ release.known
    <3>1. relisted' = relisted
      BY <2>2, <1>1 DEF ReleaseInv
    <3> QED
      BY <2>2, <3>1, <1>1 DEF ReleaseInv, stands
  <2> QED BY <2>1, <2>2
<1> QED
  BY <1>3, <1>4, <1>5, <1>6, <1>7 DEF ReleaseInv

LEMMA ReleaseStep == ReleaseInv /\ [ReleaseNext]_releaseVars => ReleaseInv'
<1> SUFFICES ASSUME ReleaseInv, [ReleaseNext]_releaseVars PROVE ReleaseInv'
  OBVIOUS
<1>1. CASE UNCHANGED releaseVars
  BY <1>1 DEF releaseVars, ReleaseInv
<1>2. CASE ListApp
  BY <1>2, ListAppKeeps
<1>3. CASE \E observed \in BOOLEAN, state \in States, date \in Dated :
             StoreStates(observed, state, date)
  BY <1>3, StoreStatesKeeps
<1> QED
  BY <1>1, <1>2, <1>3 DEF ReleaseNext

(* Whatever Steam states and however often it is listed again, the feed's  *)
(* date is the first the game ever had (classification_dates, query.rs),   *)
(* and its state the last Steam gave with a date, or unknown after a page. *)
THEOREM ReleaseIsRemembered == ReleaseSpec => []ReleaseRemembered
<1>1. ReleaseSpec => []ReleaseInv
  BY ReleaseInitInv, ReleaseStep, PTL DEF ReleaseSpec
<1>2. ReleaseInv => ReleaseRemembered
  BY DEF ReleaseInv, ReleaseRemembered, FirstDate
<1> QED
  BY <1>1, <1>2, PTL

(* The row, the log and what was shown have their types.                   *)
THEOREM ReleaseTypesHold == ReleaseSpec => []ReleaseTypeOK
<1>1. ReleaseSpec => []ReleaseInv
  BY ReleaseInitInv, ReleaseStep, PTL DEF ReleaseSpec
<1>2. ReleaseInv => ReleaseTypeOK
  BY DEF ReleaseInv, ReleaseTypeOK, Rows
<1> QED
  BY <1>1, <1>2, PTL

-----------------------------------------------------------------------------
(* Curation                                                                *)

(* A log of evidence is a list of whatever it holds.                       *)
IsLog(log) == log \in Seq(ToSet(log))

Explained(f) == \E i \in DOMAIN evidence[f] : evidence[f][i].value = column[f]

CurationInv ==
    /\ DOMAIN column = Features /\ DOMAIN evidence = Features /\ DOMAIN ruling = Features
    /\ trust \in {0, 30, 65, 85}
    /\ \A f \in Features : /\ IsLog(evidence[f]) /\ ruling[f] \in Rulings[f] \cup {Unknown}
                           /\ ruling[f] # Unknown => column[f] = ruling[f]
                           /\ (ruling[f] = Unknown /\ column[f] # Unknown /\ trust <= StoreTrust)
                                => Explained(f)

LEMMA CurationKept == CurationInv => CurationTypeOK /\ ProfileExplained
  BY DEF CurationInv, CurationTypeOK, ProfileExplained, Explained

(* What a source says replaces what it said before, and is the newest.     *)
LEMMA ObservedFacts ==
    ASSUME NEW log, IsLog(log), NEW e
    PROVE  /\ IsLog(Observed(log, e)) /\ Last(Observed(log, e)) = e /\ Observed(log, e) # <<>>
           /\ \E i \in DOMAIN Observed(log, e) : Observed(log, e)[i] = e
<1>1. PICK q : q = Among(log, {old \in ToSet(log) : old.source # e.source})
  OBVIOUS
<1>2. q \in Seq(ToSet(log))
  <2>1. PICK S : S = ToSet(log)
    OBVIOUS
  <2>2. log \in Seq(S)
    BY <2>1 DEF IsLog
  <2>3. PICK T : T = {old \in ToSet(log) : old.source # e.source}
    OBVIOUS
  <2>4. Among(log, T) \in Seq(S)
    BY <2>2, AmongFacts
  <2> QED
    BY <1>1, <2>1, <2>3, <2>4
<1>3. PICK r : r = Append(q, e)
  OBVIOUS
<1>4. r = Observed(log, e)
  BY <1>1, <1>3 DEF Observed
<1>5. PICK U : U = ToSet(log) \cup {e}
  OBVIOUS
<1>6. q \in Seq(U) /\ e \in U
  <2>1. ToSet(log) \subseteq U
    BY <1>5
  <2> QED
    BY <1>2, <1>5, <2>1, SeqMonotonic
<1>7. r \in Seq(U) /\ Len(r) = Len(q) + 1 /\ Len(q) \in Nat /\ r[Len(r)] = e
  BY <1>3, <1>6
<1>8. DOMAIN r = 1..Len(r) /\ Len(r) \in DOMAIN r
  BY <1>7
<1>9. r \in Seq(ToSet(r))
  <2>1. \A x \in ToSet(r) : x \in ToSet(r)
    OBVIOUS
  <2> QED
    BY <1>7, <2>1, Narrowed
<1>10. Last(r) = e /\ r # <<>>
  BY <1>7 DEF Last
<1> QED
  BY <1>4, <1>7, <1>8, <1>9, <1>10 DEF IsLog

(* The newest evidence of a feature explains the value it gives.           *)
LEMMA NewestFacts ==
    ASSUME NEW log, IsLog(log), log # <<>>
    PROVE  \E i \in DOMAIN log : log[i].value = Newest(log)
<1>1. PICK S : S = ToSet(log)
  OBVIOUS
<1>2. log \in Seq(S)
  BY <1>1 DEF IsLog
<1>3. Len(log) \in DOMAIN log
  BY <1>2
<1> QED
  BY <1>3 DEF Newest, Last

LEMMA CurationStarts == CurationInit => CurationInv
<1> SUFFICES ASSUME CurationInit PROVE CurationInv
  OBVIOUS
<1>1. /\ seeded \in BOOLEAN
      /\ column = [f \in Features |-> IF seeded /\ f # "platforms"
                                    THEN CHOOSE v \in Rulings[f] : TRUE ELSE Unknown]
      /\ trust = IF seeded THEN 85 ELSE 0
      /\ ruling = [f \in Features |-> Unknown]
  BY DEF CurationInit
<1>2. PICK stated \in {<<>>} \cup {<<Evidence("steam_store", p, "details")>> : p \in Platforms} :
         evidence = [f \in Features |-> IF ~seeded /\ f = "platforms" THEN stated ELSE <<>>]
  BY DEF CurationInit
<1>3. IsLog(<<>>)
  BY DEF IsLog
<1>4. IsLog(stated)
  <2>1. CASE stated = <<>>
    BY <1>3, <2>1
  <2>2. ASSUME NEW p \in Platforms, stated = <<Evidence("steam_store", p, "details")>>
        PROVE  IsLog(stated)
    <3>1. PICK e : e = Evidence("steam_store", p, "details")
      OBVIOUS
    <3>2. stated = <<e>>
      BY <2>2, <3>1
    <3>3. ToSet(stated) = {e}
      BY <3>2 DEF ToSet
    <3> QED
      BY <3>2, <3>3 DEF IsLog
  <2> QED
    BY <2>1, <2>2
<1>5. \A f \in Features : IsLog(evidence[f]) /\ ruling[f] = Unknown
  BY <1>1, <1>2, <1>3, <1>4
<1>6. \A f \in Features : trust <= StoreTrust => column[f] = Unknown
  BY <1>1 DEF StoreTrust
<1>7. trust \in {0, 30, 65, 85}
  BY <1>1
<1> QED
  BY <1>1, <1>2, <1>5, <1>6, <1>7 DEF CurationInv

(* Trust only grows.                                                       *)
LEMMA TrustGrows ==
    ASSUME trust \in {0, 30, 65, 85}, NEW level \in {30, 65, 85}
    PROVE  Trusted(level) \in {0, 30, 65, 85} /\ Trusted(level) >= trust /\ Trusted(level) >= level
  BY DEF Trusted

(* What is derived from labels keeps each feature explained.               *)
LEMMA DerivedFacts ==
    ASSUME CurationInv, NEW said, NEW f \in Features, NEW c, c = DerivedColumn(said)[f],
           NEW log, log = DerivedEvidence(said)[f]
    PROVE  /\ IsLog(log)
           /\ ruling[f] # Unknown => c = ruling[f]
           /\ (ruling[f] = Unknown /\ c # Unknown /\ trust <= StoreTrust)
                => \E i \in DOMAIN log : log[i].value = c
<1>1. PICK value : value = DerivedValue(f, said)
  OBVIOUS
<1>2. /\ IsLog(evidence[f])
      /\ ruling[f] # Unknown => column[f] = ruling[f]
      /\ (ruling[f] = Unknown /\ column[f] # Unknown /\ trust <= StoreTrust)
            => \E i \in DOMAIN evidence[f] : evidence[f][i].value = column[f]
  BY DEF CurationInv, Explained
<1>3. c = IF value # Unknown /\ MayDerive(f, value) THEN value ELSE column[f]
  BY <1>1 DEF DerivedColumn
<1>4. CASE value = Unknown
  <2>1. log = evidence[f] /\ c = column[f]
    BY <1>1, <1>3, <1>4 DEF DerivedEvidence
  <2> QED
    BY <1>2, <2>1
<1>5. CASE value # Unknown
  <2>1. PICK e : e = Evidence("store_derived", value, "labels")
    OBVIOUS
  <2>2. log = Observed(evidence[f], e) /\ e.value = value
    BY <1>1, <1>5, <2>1 DEF DerivedEvidence, Evidence
  <2>3. IsLog(log) /\ \E i \in DOMAIN log : log[i] = e
    BY <1>2, <2>2, ObservedFacts
  <2>4. \E i \in DOMAIN log : log[i].value = value
    BY <2>2, <2>3
  <2>5. ruling[f] # Unknown => c = ruling[f]
    BY <1>2, <1>3 DEF MayDerive
  <2>6. (ruling[f] = Unknown /\ c # Unknown /\ trust <= StoreTrust) => c = value
    BY <1>3, <1>5 DEF MayDerive
  <2> QED
    BY <2>3, <2>4, <2>5, <2>6
<1> QED
  BY <1>4, <1>5

LEMMA StoreDetailsInv ==
    ASSUME CurationInv, NEW said, NEW platforms, StoreDetails(said, platforms)
    PROVE  CurationInv'
<1>1. /\ evidence' = IF platforms = Unknown THEN DerivedEvidence(said)
                     ELSE [DerivedEvidence(said) EXCEPT !["platforms"] =
                               Observed(@, Evidence("steam_store", platforms, "details"))]
      /\ column' = [DerivedColumn(said) EXCEPT !["platforms"] =
                        IF platforms = Unknown \/ ruling["platforms"] # Unknown
                        THEN @ ELSE platforms]
      /\ trust' = IF said = {} THEN trust ELSE Trusted(StoreTrust)
      /\ ruling' = ruling
  BY DEF StoreDetails
<1>2. DOMAIN DerivedEvidence(said) = Features /\ DOMAIN DerivedColumn(said) = Features
  BY DEF DerivedEvidence, DerivedColumn
<1>3. trust' \in {0, 30, 65, 85} /\ trust' >= trust
  BY <1>1, TrustGrows DEF CurationInv, StoreTrust
<1>4. DOMAIN column' = Features /\ DOMAIN evidence' = Features /\ DOMAIN ruling' = Features
  BY <1>1, <1>2 DEF CurationInv
<1>5. ASSUME NEW f \in Features
      PROVE  /\ IsLog(evidence'[f])
             /\ ruling'[f] # Unknown => column'[f] = ruling'[f]
             /\ (ruling'[f] = Unknown /\ column'[f] # Unknown /\ trust' <= StoreTrust)
                   => \E i \in DOMAIN evidence'[f] : evidence'[f][i].value = column'[f]
  <2>1. PICK c : c = DerivedColumn(said)[f]
    OBVIOUS
  <2>2. PICK log : log = DerivedEvidence(said)[f]
    OBVIOUS
  <2>3. /\ IsLog(log)
        /\ ruling[f] # Unknown => c = ruling[f]
        /\ (ruling[f] = Unknown /\ c # Unknown /\ trust <= StoreTrust)
                => \E i \in DOMAIN log : log[i].value = c
    BY <2>1, <2>2, DerivedFacts
  <2>4. trust' <= StoreTrust => trust <= StoreTrust
    BY <1>3 DEF CurationInv, StoreTrust
  <2>5. CASE f # "platforms" \/ platforms = Unknown
    <3>1. evidence'[f] = log /\ column'[f] = c
      BY <1>1, <1>2, <2>1, <2>2, <2>5
    <3> QED
      BY <1>1, <2>3, <2>4, <3>1
  <2>6. CASE f = "platforms" /\ platforms # Unknown
    <3>1. PICK e : e = Evidence("steam_store", platforms, "details")
      OBVIOUS
    <3>2. evidence'[f] = Observed(log, e) /\ e.value = platforms
      BY <1>1, <1>2, <2>2, <2>6, <3>1 DEF Evidence
    <3>3. IsLog(evidence'[f]) /\ \E i \in DOMAIN evidence'[f] : evidence'[f][i].value = platforms
      BY <2>3, <3>2, ObservedFacts
    <3>4. column'[f] = IF ruling[f] # Unknown THEN c ELSE platforms
      BY <1>1, <1>2, <2>1, <2>6
    <3> QED
      BY <1>1, <2>3, <3>3, <3>4
  <2> QED
    BY <2>5, <2>6
<1> QED
  BY <1>1, <1>3, <1>4, <1>5 DEF CurationInv, Explained

LEMMA MaterializeAllInv == CurationInv /\ MaterializeAll => CurationInv'
<1> SUFFICES ASSUME CurationInv, MaterializeAll PROVE CurationInv'
  OBVIOUS
<1>1. PICK said : /\ column' = DerivedColumn(said) /\ evidence' = DerivedEvidence(said)
                  /\ trust' = Trusted(StoreTrust) /\ ruling' = ruling
  BY DEF MaterializeAll
<1>2. DOMAIN column' = Features /\ DOMAIN evidence' = Features /\ DOMAIN ruling' = Features
  BY <1>1 DEF CurationInv, DerivedEvidence, DerivedColumn
<1>3. trust' \in {0, 30, 65, 85} /\ trust' >= trust
  BY <1>1, TrustGrows DEF CurationInv, StoreTrust
<1>4. trust' <= StoreTrust => trust <= StoreTrust
  BY <1>3 DEF CurationInv, StoreTrust
<1>5. ASSUME NEW f \in Features
      PROVE  /\ IsLog(evidence'[f])
             /\ ruling'[f] # Unknown => column'[f] = ruling'[f]
             /\ (ruling'[f] = Unknown /\ column'[f] # Unknown /\ trust' <= StoreTrust)
                   => \E i \in DOMAIN evidence'[f] : evidence'[f][i].value = column'[f]
  <2>1. PICK c : c = DerivedColumn(said)[f]
    OBVIOUS
  <2>2. PICK log : log = DerivedEvidence(said)[f]
    OBVIOUS
  <2>3. /\ IsLog(log)
        /\ ruling[f] # Unknown => c = ruling[f]
        /\ (ruling[f] = Unknown /\ c # Unknown /\ trust <= StoreTrust)
                => \E i \in DOMAIN log : log[i].value = c
    BY <2>1, <2>2, DerivedFacts
  <2> QED
    BY <1>1, <1>4, <2>1, <2>2, <2>3
<1> QED
  BY <1>1, <1>2, <1>3, <1>5 DEF CurationInv, Explained

LEMMA RestoreAvailabilityInv == CurationInv /\ RestoreAvailability => CurationInv'
<1> SUFFICES ASSUME CurationInv, RestoreAvailability PROVE CurationInv'
  OBVIOUS
<1>1. /\ column["platforms"] = Unknown /\ evidence["platforms"] # <<>>
      /\ column' = [column EXCEPT !["platforms"] = Newest(evidence["platforms"])]
      /\ UNCHANGED <<trust, evidence, ruling>>
  BY DEF RestoreAvailability
<1>2. "platforms" \in Features
  BY DEF Features
<1>3. ruling["platforms"] = Unknown
  BY <1>1, <1>2 DEF CurationInv
<1>4. \E i \in DOMAIN evidence["platforms"] :
         evidence["platforms"][i].value = Newest(evidence["platforms"])
  BY <1>1, <1>2, NewestFacts DEF CurationInv
<1>5. /\ DOMAIN column' = Features /\ column'["platforms"] = Newest(evidence["platforms"])
      /\ \A f \in Features : f # "platforms" => column'[f] = column[f]
  BY <1>1, <1>2 DEF CurationInv
<1>6. ASSUME NEW f \in Features
      PROVE  /\ ruling[f] # Unknown => column'[f] = ruling[f]
             /\ (ruling[f] = Unknown /\ column'[f] # Unknown /\ trust <= StoreTrust)
                   => \E i \in DOMAIN evidence[f] : evidence[f][i].value = column'[f]
  <2>1. CASE f = "platforms"
    BY <1>3, <1>4, <1>5, <2>1
  <2>2. CASE f # "platforms"
    BY <1>5, <2>2 DEF CurationInv, Explained
  <2> QED
    BY <2>1, <2>2
<1> QED
  BY <1>1, <1>5, <1>6 DEF CurationInv, Explained

LEMMA ImportGoldenInv ==
    ASSUME CurationInv, NEW game, ImportGolden(game)
    PROVE  CurationInv'
<1>1. /\ evidence' = [f \in Features |->
            IF IsNews(game, f)
            THEN Observed(evidence[f], Evidence("human_golden", GoldenValue(game, f), game))
            ELSE evidence[f]]
      /\ column' = [f \in Features |->
            IF IsNews(game, f) /\ ruling[f] = Unknown THEN GoldenValue(game, f) ELSE column[f]]
      /\ trust' = Trusted(IF game.dual THEN 85 ELSE 65)
      /\ ruling' = ruling
  BY DEF ImportGolden
<1>2. PICK level \in {65, 85} : level = IF game.dual THEN 85 ELSE 65
  OBVIOUS
<1>3. trust' \in {0, 30, 65, 85} /\ trust' >= level
  BY <1>1, <1>2, TrustGrows DEF CurationInv
<1>4. ~(trust' <= StoreTrust)
  BY <1>3 DEF StoreTrust
<1>5. ASSUME NEW f \in Features
      PROVE  IsLog(evidence'[f]) /\ (ruling'[f] # Unknown => column'[f] = ruling'[f])
  <2>1. IsLog(evidence[f])
    BY DEF CurationInv
  <2>2. IsLog(evidence'[f])
    <3>1. CASE IsNews(game, f)
      BY <1>1, <2>1, <3>1, ObservedFacts
    <3>2. CASE ~IsNews(game, f)
      BY <1>1, <2>1, <3>2
    <3> QED
      BY <3>1, <3>2
  <2> QED
    BY <1>1, <2>2 DEF CurationInv
<1> QED
  BY <1>1, <1>3, <1>4, <1>5 DEF CurationInv

LEMMA CreateOverrideInv ==
    ASSUME CurationInv, NEW f \in Features, NEW value \in Rulings[f], CreateOverride(f, value)
    PROVE  CurationInv'
<1>1. /\ ruling' = [ruling EXCEPT ![f] = value] /\ column' = [column EXCEPT ![f] = value]
      /\ UNCHANGED <<trust, evidence>>
  BY DEF CreateOverride, Ruled
<1>2. value # Unknown
  BY CurationAssumption
<1> QED
  BY <1>1, <1>2 DEF CurationInv, Explained

LEMMA RevokeOverrideInv ==
    ASSUME CurationInv, NEW f \in Features, RevokeOverride(f)
    PROVE  CurationInv'
<1>1. /\ ruling' = [ruling EXCEPT ![f] = Unknown]
      /\ column' = [column EXCEPT ![f] = Newest(evidence[f])]
      /\ UNCHANGED <<trust, evidence>>
  BY DEF RevokeOverride, Recomputed, Ruled
<1>2. Newest(evidence[f]) # Unknown
        => \E i \in DOMAIN evidence[f] : evidence[f][i].value = Newest(evidence[f])
  <2>1. CASE evidence[f] = <<>>
    BY <2>1 DEF Newest
  <2>2. CASE evidence[f] # <<>>
    BY <2>2, NewestFacts DEF CurationInv
  <2> QED
    BY <2>1, <2>2
<1>3. ASSUME NEW g \in Features
      PROVE  /\ ruling'[g] \in Rulings[g] \cup {Unknown}
             /\ ruling'[g] # Unknown => column'[g] = ruling'[g]
             /\ (ruling'[g] = Unknown /\ column'[g] # Unknown /\ trust <= StoreTrust)
                   => \E i \in DOMAIN evidence[g] : evidence[g][i].value = column'[g]
  <2>1. CASE g = f
    BY <1>1, <1>2, <2>1 DEF CurationInv
  <2>2. CASE g # f
    BY <1>1, <2>2 DEF CurationInv, Explained
  <2> QED
    BY <2>1, <2>2
<1> QED
  BY <1>1, <1>3 DEF CurationInv, Explained

LEMMA CurationNextInv == CurationInv /\ [CurationNext]_curationVars => CurationInv'
<1> SUFFICES ASSUME CurationInv, [CurationNext]_curationVars PROVE CurationInv'
  OBVIOUS
<1>1. ASSUME NEW said \in Hints \cup {{}}, NEW platforms \in Platforms \cup {Unknown},
             StoreDetails(said, platforms)
      PROVE  CurationInv'
  BY <1>1, StoreDetailsInv
<1>2. CASE MaterializeAll \/ RestoreAvailability
  BY <1>2, MaterializeAllInv, RestoreAvailabilityInv
<1>3. ASSUME NEW game \in GoldenGames, ImportGolden(game) PROVE CurationInv'
  BY <1>3, ImportGoldenInv
<1>4. ASSUME NEW f \in Features, NEW value \in Rulings[f], CreateOverride(f, value) PROVE CurationInv'
  BY <1>4, CreateOverrideInv
<1>5. ASSUME NEW f \in Features, RevokeOverride(f) PROVE CurationInv'
  BY <1>5, RevokeOverrideInv
<1>6. CASE SearchPage \/ UNCHANGED curationVars
  BY <1>6 DEF SearchPage, curationVars, CurationInv, Explained
<1> QED
  BY <1>1, <1>2, <1>3, <1>4, <1>5, <1>6 DEF CurationNext

LEMMA CurationInvariant == CurationSpec => []CurationInv
  BY CurationStarts, CurationNextInv, PTL DEF CurationSpec

(* A curator's ruling is what the profile shows, and without one a profile *)
(* trusted no further than the store shows what some active evidence says. *)
THEOREM ProfilesAreExplained == CurationSpec => []ProfileExplained
  BY CurationInvariant, CurationKept, PTL

(* The columns, the trust and the rulings keep their types.                *)
THEOREM CurationTypesHold == CurationSpec => []CurationTypeOK
  BY CurationInvariant, CurationKept, PTL

-----------------------------------------------------------------------------
(* Enrichment                                                              *)

Needful == SUBSET Kinds
Target == [app : Candidates, needs : Needful]
TargetLists == Seq(Target)
PassStages == {"idle", "target", "ask", "settle", "english", "snapshot", "end"}
LastApps == Candidates \cup {0}
Answers == {"none", "kept", "empty", "pictures", "unknown", "failed"}
PassType == [stage : PassStages, targets : TargetLists, last : LastApps, answer : Answers]
Statuses == {"pending", "failed", "complete", "none", "exhausted"}
GalleryType == [assets : BOOLEAN, attempts : Nat, status : Statuses, rested : BOOLEAN]

(* No game is picked twice by a pass, and a pass that works has a target.  *)
PassOK(p) ==
    /\ \A i, j \in DOMAIN p.targets : p.targets[i].app = p.targets[j].app => i = j
    /\ p.targets = <<>> <=> p.stage \in {"idle", "end"}

(* The pass will still ask for the gallery of a.                           *)
WillAsk(p, a) ==
    \E i \in DOMAIN p.targets :
        (i # 1 \/ p.stage = "target") /\ p.targets[i].app = a /\ "gallery" \in p.targets[i].needs

Askers(a) == {w \in Enrichers : WillAsk(pass[w], a)}

EnrichTypes ==
    /\ fresh \in [Candidates -> Needful] /\ gallery \in [Candidates -> GalleryType]
    /\ rotation \in LastApps /\ pass \in [Enrichers -> PassType]
    /\ \A w \in Enrichers : PassOK(pass[w])

AsksBounded ==
    \A a \in Candidates :
        gallery[a].attempts + Cardinality(Askers(a)) <= MaxAttempts + Cardinality(Enrichers) - 1

GivenUp == \A a \in Candidates : gallery[a].status = "exhausted" => gallery[a].attempts >= MaxAttempts

EnrichInv == EnrichTypes /\ AsksBounded /\ GivenUp

LEMMA AskersFacts ==
    ASSUME NEW a
    PROVE  /\ IsFiniteSet(Enrichers) /\ Cardinality(Enrichers) \in Nat /\ MaxAttempts \in Nat
           /\ MaxAttempts # 0
           /\ Askers(a) \subseteq Enrichers /\ Cardinality(Askers(a)) \in Nat
           /\ Cardinality(Askers(a)) <= Cardinality(Enrichers)
           /\ Askers(a)' \subseteq Enrichers /\ Cardinality(Askers(a)') \in Nat
           /\ Cardinality(Askers(a)') <= Cardinality(Enrichers)
<1>1. IsFiniteSet(Enrichers) /\ MaxAttempts \in Nat /\ MaxAttempts # 0
  BY EnrichmentAssumption
<1>2. Askers(a) \subseteq Enrichers /\ Askers(a)' \subseteq Enrichers
  BY DEF Askers
<1> QED
  BY <1>1, <1>2, FS_Subset, FS_CardinalityType

LEMMA EnrichKept == EnrichInv => EnrichTypeOK /\ GalleryAsksEnd
<1> SUFFICES ASSUME EnrichInv PROVE EnrichTypeOK /\ GalleryAsksEnd
  OBVIOUS
<1>1. \A a \in Candidates : gallery[a].attempts \in Nat
  BY DEF EnrichInv, EnrichTypes, GalleryType
<1>2. EnrichTypeOK
  BY <1>1 DEF EnrichInv, EnrichTypes, EnrichTypeOK, Needful, LastApps
<1>3. ASSUME NEW a \in Candidates
      PROVE  gallery[a].attempts <= MaxAttempts + Cardinality(Enrichers) - 1
  <2>1. gallery[a].attempts + Cardinality(Askers(a)) <= MaxAttempts + Cardinality(Enrichers) - 1
    BY DEF EnrichInv, AsksBounded
  <2> QED
    BY <1>1, <2>1, AskersFacts
<1> QED
  BY <1>2, <1>3 DEF EnrichInv, GivenUp, GalleryAsksEnd

LEMMA NoTargetsFacts ==
    /\ NoTargets \in PassType /\ NoTargets.stage = "idle" /\ NoTargets.targets = <<>>
    /\ PassOK(NoTargets) /\ \A a : ~WillAsk(NoTargets, a)
<1>1. NoTargets.targets = <<>> /\ NoTargets.stage = "idle" /\ DOMAIN NoTargets.targets = {}
  BY DEF NoTargets
<1>2. NoTargets \in PassType
  BY DEF NoTargets, PassType, PassStages, TargetLists, LastApps, Answers
<1> QED
  BY <1>1, <1>2 DEF PassOK, WillAsk

LEMMA EnrichStarts == EnrichInit => EnrichInv
<1> SUFFICES ASSUME EnrichInit PROVE EnrichInv
  OBVIOUS
<1>1. EnrichTypes
  <2>1. fresh \in [Candidates -> Needful] /\ rotation \in LastApps
    BY DEF EnrichInit, Needful, LastApps
  <2>2. gallery \in [Candidates -> GalleryType]
    BY DEF EnrichInit, GalleryType, Statuses
  <2>3. pass \in [Enrichers -> PassType] /\ \A w \in Enrichers : PassOK(pass[w])
    BY NoTargetsFacts DEF EnrichInit
  <2> QED
    BY <2>1, <2>2, <2>3 DEF EnrichTypes
<1>2. AsksBounded
  <2>1. ASSUME NEW a \in Candidates
        PROVE gallery[a].attempts + Cardinality(Askers(a)) <= MaxAttempts + Cardinality(Enrichers) - 1
    <3>1. gallery[a].attempts = 0
      BY DEF EnrichInit
    <3>2. Askers(a) = {}
      BY NoTargetsFacts DEF EnrichInit, Askers
    <3>3. Cardinality(Askers(a)) = 0
      BY <3>2, FS_EmptySet
    <3> QED
      BY <3>1, <3>3, AskersFacts
  <2> QED
    BY <2>1 DEF AsksBounded
<1>3. GivenUp
  BY DEF EnrichInit, GivenUp
<1> QED
  BY <1>1, <1>2, <1>3 DEF EnrichInv

(***************************************************************************)
(* What a pass picks                                                       *)
(***************************************************************************)

LEMMA ScoreType ==
    ASSUME NEW a
    PROVE  Score(Needs(a)) \in Nat /\ Rotated(a) \in Nat
<1>1. /\ Weight("gallery", Needs(a), 5) \in Nat /\ Weight("english", Needs(a), 4) \in Nat
      /\ Weight("store", Needs(a), 3) \in Nat /\ Weight("snapshot", Needs(a), 4) \in Nat
  BY DEF Weight
<1>2. Score(Needs(a)) \in Nat
  BY <1>1 DEF Score
<1> QED
  BY <1>2 DEF Rotated

LEMMA TargetsFacts ==
    /\ Targets \in Seq(Candidates)
    /\ \A i, j \in DOMAIN Targets : Targets[i] = Targets[j] => i = j
<1>1. PICK S : S = Due
  OBVIOUS
<1>2. PICK R : R = {p \in Due \X Due : Precedes(p[1], p[2])}
  OBVIOUS
<1>3. S \subseteq Candidates /\ Candidates \subseteq Nat /\ IsFiniteSet(S)
  BY <1>1, EnrichmentAssumption, FS_Subset DEF Due
<1>4. \A x, y \in S : <<x, y>> \in R <=> Precedes(x, y)
  BY <1>1, <1>2
<1>5. StrictOrder(S, R)
  <2>1. \A x \in S : x \in Nat /\ Score(Needs(x)) \in Nat /\ Rotated(x) \in Nat
    BY <1>3, ScoreType
  <2>2. \A x \in S : <<x, x>> \notin R
    BY <1>4, <2>1 DEF Precedes
  <2>3. \A x, y \in S : x # y => <<x, y>> \in R \/ <<y, x>> \in R
    BY <1>4, <2>1 DEF Precedes
  <2>4. \A x, y, z \in S : <<x, y>> \in R /\ <<y, z>> \in R => <<x, z>> \in R
    BY <1>4, <2>1 DEF Precedes
  <2> QED
    BY <2>2, <2>3, <2>4 DEF StrictOrder
<1>6. PICK order : order = InOrder(S, R)
  OBVIOUS
<1>7. order \in Seq(S) /\ IsInjective(order)
  BY <1>3, <1>5, <1>6, OrderFacts
<1>8. Len(order) \in Nat /\ DOMAIN order = 1..Len(order) /\ \A i \in 1..Len(order) : order[i] \in S
  BY <1>7
<1>9. PICK n : n = IF Len(order) < BatchLimit THEN Len(order) ELSE BatchLimit
  OBVIOUS
<1>10. n \in Nat /\ n <= Len(order)
  BY <1>8, <1>9, EnrichmentAssumption
<1>11. n \in Int /\ 1 \in Int /\ \A i \in 1..n : order[i] \in S
  BY <1>8, <1>10
<1>12. PICK t : t = SubSeq(order, 1, n)
  OBVIOUS
<1>13. /\ t \in Seq(S) /\ Len(t) = IF 1 <= n THEN n - 1 + 1 ELSE 0
       /\ \A i \in 1..(n - 1 + 1) : t[i] = order[1 + i - 1]
  BY <1>11, <1>12, SubSeqProperties
<1>14. Len(t) = n /\ DOMAIN t = 1..n /\ \A i \in 1..n : t[i] = order[i]
  BY <1>10, <1>13
<1>15. \A i, j \in DOMAIN t : t[i] = t[j] => i = j
  BY <1>7, <1>8, <1>10, <1>14 DEF IsInjective
<1>16. t = Targets
  BY <1>1, <1>2, <1>6, <1>9, <1>12 DEF Targets
<1>17. t \in Seq(Candidates)
  <2>1. \A x \in ToSet(t) : x \in Candidates
    <3>1. \A i \in DOMAIN t : t[i] \in S
      BY <1>11, <1>14
    <3> QED
      BY <1>3, <3>1 DEF ToSet
  <2> QED
    BY <1>13, <2>1, Narrowed
<1> QED
  BY <1>15, <1>16, <1>17

(***************************************************************************)
(* The steps of a pass                                                     *)
(***************************************************************************)

(* The process w goes to p. It takes on a gallery only while attempts are  *)
(* left, and gives one up when it counts an attempt.                       *)
LEMMA PassStep ==
    ASSUME EnrichInv, NEW w \in Enrichers, NEW p \in PassType, PassOK(p), Goes(w, p),
           fresh' \in [Candidates -> Needful], gallery' \in [Candidates -> GalleryType],
           rotation' \in LastApps, GivenUp',
           \A a \in Candidates :
              WillAsk(p, a) => WillAsk(pass[w], a) \/ gallery'[a].attempts < MaxAttempts,
           \A a \in Candidates :
              \/ gallery'[a].attempts = gallery[a].attempts
              \/ /\ gallery'[a].attempts = gallery[a].attempts + 1
                 /\ WillAsk(pass[w], a) /\ ~WillAsk(p, a)
    PROVE  EnrichInv'
<1>1. pass' = [pass EXCEPT ![w] = p] /\ pass \in [Enrichers -> PassType]
  BY DEF Goes, EnrichInv, EnrichTypes
<1>2. pass'[w] = p /\ \A v \in Enrichers : v # w => pass'[v] = pass[v]
  BY <1>1
<1>3. EnrichTypes'
  <2>1. pass' \in [Enrichers -> PassType]
    BY <1>1
  <2>2. \A v \in Enrichers : PassOK(pass'[v])
    BY <1>2 DEF EnrichInv, EnrichTypes
  <2> QED
    BY <2>1, <2>2 DEF EnrichTypes, PassOK
<1>4. ASSUME NEW a \in Candidates
      PROVE  gallery'[a].attempts + Cardinality(Askers(a)') <= MaxAttempts + Cardinality(Enrichers) - 1
  <2>1. PICK before : before = gallery[a].attempts
    OBVIOUS
  <2>2. PICK after : after = gallery'[a].attempts
    OBVIOUS
  <2>3. before \in Nat /\ after \in Nat
    BY <2>1, <2>2 DEF EnrichInv, EnrichTypes, GalleryType
  <2>4. PICK A : A = Askers(a)
    OBVIOUS
  <2>5. PICK B : B = Askers(a)'
    OBVIOUS
  <2>6. /\ IsFiniteSet(Enrichers) /\ Cardinality(Enrichers) \in Nat /\ MaxAttempts \in Nat
        /\ A \subseteq Enrichers /\ Cardinality(A) \in Nat
        /\ B \subseteq Enrichers /\ Cardinality(B) \in Nat
        /\ Cardinality(B) <= Cardinality(Enrichers)
    BY <2>4, <2>5, AskersFacts
  <2>7. /\ w \in A <=> WillAsk(pass[w], a)
        /\ w \in B <=> WillAsk(p, a)
    BY <1>2, <2>4, <2>5 DEF Askers
  <2>8. \A v \in Enrichers : v # w => (v \in A <=> v \in B)
    BY <1>2, <2>4, <2>5 DEF Askers
  <2>9. /\ (w \in A <=> w \in B) => Cardinality(B) = Cardinality(A)
        /\ (w \in A /\ w \notin B) => Cardinality(B) = Cardinality(A) - 1
    BY <2>6, <2>8, OneDiffers
  <2>10. before + Cardinality(A) <= MaxAttempts + Cardinality(Enrichers) - 1
    BY <2>1, <2>4 DEF EnrichInv, AsksBounded
  <2>11. w \in B => w \in A \/ after < MaxAttempts
    BY <2>2, <2>7
  <2>12. after = before \/ (after = before + 1 /\ w \in A /\ w \notin B)
    BY <2>1, <2>2, <2>7
  <2>13. after + Cardinality(B) <= MaxAttempts + Cardinality(Enrichers) - 1
    BY <2>3, <2>6, <2>9, <2>10, <2>11, <2>12
  <2> QED
    BY <2>2, <2>5, <2>13
<1> QED
  BY <1>3, <1>4 DEF EnrichInv, AsksBounded

PassStaged(p, s, answer) == [p EXCEPT !.stage = s, !.answer = answer]

(* From p to q the gallery of the first target is asked for.               *)
Begins(p, q) ==
    p.stage = "target" /\ "gallery" \in p.targets[1].needs =>
        WillAsk(p, p.targets[1].app) /\ ~WillAsk(q, p.targets[1].app)

(* Only the stage and the answer of a pass at work change, and it does not *)
(* come back to the start of its target.                                   *)
LEMMA StageFacts ==
    ASSUME NEW p \in PassType, PassOK(p), NEW s \in PassStages, NEW answer \in Answers,
           p.stage \notin {"idle", "end"}, s \notin {"idle", "end", "target"},
           NEW q, q = PassStaged(p, s, answer)
    PROVE  /\ q \in PassType /\ PassOK(q) /\ p.targets # <<>>
           /\ \A a : WillAsk(q, a) => WillAsk(p, a)
           /\ Begins(p, q)
<1>1. /\ q \in PassType /\ q.stage = s /\ q.targets = p.targets
  BY DEF PassType, PassStaged
<1>2. p.targets # <<>> /\ p.targets \in TargetLists
  BY DEF PassOK, PassType
<1>3. Len(p.targets) \in Nat /\ Len(p.targets) # 0 /\ DOMAIN p.targets = 1..Len(p.targets)
  BY <1>2 DEF TargetLists
<1>4. 1 \in DOMAIN p.targets /\ p.targets[1] \in Target
  BY <1>2, <1>3 DEF TargetLists
<1>5. PassOK(q)
  BY <1>1, <1>2 DEF PassOK
<1>6. \A a : WillAsk(q, a) => WillAsk(p, a)
  BY <1>1 DEF WillAsk
<1>7. ASSUME NEW a, p.stage = "target", a = p.targets[1].app, "gallery" \in p.targets[1].needs
      PROVE  WillAsk(p, a) /\ ~WillAsk(q, a)
  <2>1. WillAsk(p, a)
    BY <1>4, <1>7 DEF WillAsk
  <2>2. ~WillAsk(q, a)
    BY <1>1, <1>4, <1>7 DEF WillAsk, PassOK
  <2> QED
    BY <2>1, <2>2
<1>8. Begins(p, q)
  BY <1>7 DEF Begins
<1> QED
  BY <1>1, <1>2, <1>5, <1>6, <1>8

LEMMA ThisFacts ==
    ASSUME EnrichInv, NEW w \in Enrichers, ~At(w, "idle"), ~At(w, "end")
    PROVE  /\ pass[w] \in PassType /\ PassOK(pass[w]) /\ pass[w].targets # <<>>
           /\ pass[w].stage \notin {"idle", "end"}
           /\ This(w) = pass[w].targets[1] /\ This(w) \in Target
           /\ This(w).app \in Candidates /\ This(w).needs \in Needful
<1>1. /\ pass[w] \in PassType /\ PassOK(pass[w]) /\ pass[w].targets # <<>>
      /\ pass[w].stage \notin {"idle", "end"}
  BY DEF EnrichInv, EnrichTypes, PassOK, At
<1>2. pass[w].targets \in Seq(Target)
  BY <1>1 DEF PassType, TargetLists
<1>3. This(w) = pass[w].targets[1] /\ This(w) \in Target
  BY <1>1, <1>2 DEF This
<1> QED
  BY <1>1, <1>3 DEF Target

LEMMA RefreshedType ==
    ASSUME EnrichInv, NEW a \in Candidates, NEW kind
    PROVE  Refreshed(a, kind) \in [Candidates -> Needful]
  BY DEF EnrichInv, EnrichTypes, Refreshed, Needful

LEMMA AttemptedFacts ==
    ASSUME NEW g \in GalleryType
    PROVE  /\ Attempted(g) \in GalleryType /\ Attempted(g).attempts = g.attempts + 1
           /\ Attempted(g).status = "exhausted" => g.status = "exhausted"
<1>1. /\ g.attempts \in Nat /\ g.status \in Statuses /\ g.assets \in BOOLEAN
      /\ g = [assets |-> g.assets, attempts |-> g.attempts, status |-> g.status, rested |-> g.rested]
  BY DEF GalleryType
<1>2. PICK status : status = IF g.status \in Terminal THEN g.status ELSE "pending"
  OBVIOUS
<1>3. status \in Statuses /\ (status = "exhausted" => g.status = "exhausted")
  BY <1>1, <1>2 DEF Statuses
<1>4. PICK n : n = g.attempts + 1
  OBVIOUS
<1>5. n \in Nat
  BY <1>1, <1>4
<1>6. PICK r : r = Attempted(g)
  OBVIOUS
<1>7. r = [g EXCEPT !.attempts = n, !.rested = FALSE, !.status = status]
  BY <1>2, <1>4, <1>6 DEF Attempted
<1>8. /\ r = [assets |-> g.assets, attempts |-> n, status |-> status, rested |-> FALSE]
      /\ r.attempts = n /\ r.status = status
  BY <1>1, <1>7
<1>9. r \in GalleryType
  BY <1>1, <1>3, <1>5, <1>8 DEF GalleryType
<1> QED
  BY <1>3, <1>4, <1>6, <1>8, <1>9

LEMMA BeginTargetInv ==
    ASSUME EnrichInv, NEW w \in Enrichers, BeginTarget(w)
    PROVE  EnrichInv'
<1>1. PICK t : t = This(w)
  OBVIOUS
<1>2. PICK s : s = IF t.needs \cap {"gallery", "store"} # {} THEN "ask" ELSE "english"
  OBVIOUS
<1>3. PICK p : p = pass[w]
  OBVIOUS
<1>4. PICK q : q = [p EXCEPT !.stage = s]
  OBVIOUS
<1>5. /\ p.stage = "target" /\ Goes(w, q) /\ UNCHANGED <<fresh, rotation>>
      /\ gallery' = IF "gallery" \in t.needs
                    THEN [gallery EXCEPT ![t.app] = Attempted(@)] ELSE gallery
  BY <1>1, <1>2, <1>3, <1>4 DEF BeginTarget, At
<1>6. /\ p \in PassType /\ PassOK(p) /\ t = p.targets[1] /\ t.app \in Candidates
  BY <1>1, <1>3, <1>5, ThisFacts DEF At
<1>7. s \in PassStages /\ s \notin {"idle", "end", "target"} /\ p.answer \in Answers
  BY <1>2, <1>6 DEF PassStages, PassType
<1>8. q = [p EXCEPT !.stage = s, !.answer = p.answer]
  BY <1>4, <1>6 DEF PassType
<1>9. /\ q \in PassType /\ PassOK(q)
      /\ \A a : WillAsk(q, a) => WillAsk(p, a)
      /\ "gallery" \in t.needs => WillAsk(p, t.app) /\ ~WillAsk(q, t.app)
  <2>1. /\ q \in PassType /\ PassOK(q)
        /\ \A a : WillAsk(q, a) => WillAsk(p, a)
        /\ Begins(p, q)
    <3>1. PICK answer : answer = p.answer
      OBVIOUS
    <3>2. answer \in Answers /\ q = PassStaged(p, s, answer)
      BY <1>7, <1>8, <3>1 DEF PassStaged
    <3>3. p.stage \notin {"idle", "end"} /\ s \in PassStages /\ s \notin {"idle", "end", "target"}
      BY <1>5, <1>7
    <3> QED
      BY <1>6, <3>2, <3>3, StageFacts
  <2>2. "gallery" \in t.needs => WillAsk(p, t.app) /\ ~WillAsk(q, t.app)
    BY <1>5, <1>6, <2>1 DEF Begins
  <2> QED
    BY <2>1, <2>2
<1>10. \A a \in Candidates : gallery[a] \in GalleryType
  BY DEF EnrichInv, EnrichTypes
<1>11. ASSUME NEW g \in GalleryType
       PROVE  /\ Attempted(g) \in GalleryType /\ Attempted(g).attempts = g.attempts + 1
              /\ Attempted(g).status = "exhausted" => g.status = "exhausted"
  BY AttemptedFacts
<1>12. \A a \in Candidates :
          \/ gallery'[a] = gallery[a]
          \/ gallery'[a] = Attempted(gallery[a]) /\ a = t.app /\ "gallery" \in t.needs
  BY <1>5, <1>6 DEF EnrichInv, EnrichTypes
<1>13. gallery' \in [Candidates -> GalleryType]
  BY <1>5, <1>6, <1>10, <1>11 DEF EnrichInv, EnrichTypes
<1>14. GivenUp'
  <2>1. ASSUME NEW a \in Candidates, gallery'[a].status = "exhausted"
        PROVE  gallery'[a].attempts >= MaxAttempts
    <3>1. gallery[a].status = "exhausted" /\ gallery[a].attempts >= MaxAttempts
      BY <1>10, <1>11, <1>12, <2>1 DEF EnrichInv, GivenUp
    <3>2. gallery[a].attempts \in Nat /\ MaxAttempts \in Nat
      BY <1>10, AskersFacts DEF GalleryType
    <3>3. gallery'[a].attempts = gallery[a].attempts \/ gallery'[a].attempts = gallery[a].attempts + 1
      BY <1>10, <1>11, <1>12
    <3> QED
      BY <3>1, <3>2, <3>3
  <2> QED
    BY <2>1 DEF GivenUp
<1>15. \A a \in Candidates :
          \/ gallery'[a].attempts = gallery[a].attempts
          \/ /\ gallery'[a].attempts = gallery[a].attempts + 1
             /\ WillAsk(p, a) /\ ~WillAsk(q, a)
  BY <1>9, <1>10, <1>11, <1>12
<1>16. fresh' \in [Candidates -> Needful] /\ rotation' \in LastApps
  BY <1>5 DEF EnrichInv, EnrichTypes
<1> QED
  BY <1>3, <1>5, <1>9, <1>13, <1>14, <1>15, <1>16, PassStep

(* A step within a target, which counts no attempt.                        *)
LEMMA WorkStep ==
    ASSUME EnrichInv, NEW w \in Enrichers, NEW s \in PassStages, NEW answer \in Answers,
           ~At(w, "idle"), ~At(w, "end"), s \notin {"idle", "end", "target"},
           pass' = [pass EXCEPT ![w] = PassStaged(pass[w], s, answer)],
           fresh' \in [Candidates -> Needful], gallery' \in [Candidates -> GalleryType],
           rotation' \in LastApps, GivenUp',
           \A a \in Candidates : gallery'[a].attempts = gallery[a].attempts
    PROVE  EnrichInv'
<1>1. PICK p : p = pass[w]
  OBVIOUS
<1>2. PICK q : q = PassStaged(p, s, answer)
  OBVIOUS
<1>3. p \in PassType /\ PassOK(p) /\ p.stage \notin {"idle", "end"}
  BY <1>1, ThisFacts
<1>4. q \in PassType /\ PassOK(q) /\ \A a : WillAsk(q, a) => WillAsk(p, a)
  BY <1>2, <1>3, StageFacts
<1>5. Goes(w, q)
  BY <1>1, <1>2 DEF Goes
<1> QED
  BY <1>1, <1>4, <1>5, PassStep

LEMMA StoreAnswersInv ==
    ASSUME EnrichInv, NEW w \in Enrichers, NEW response \in Responses, StoreAnswers(w, response)
    PROVE  EnrichInv'
<1>1. PICK a : a = This(w).app
  OBVIOUS
<1>2. PICK answer : answer = Understood(response)
  OBVIOUS
<1>3. answer \in Answers
  BY <1>2 DEF Understood, GalleryOf, Answers
<1>4. ~At(w, "idle") /\ ~At(w, "end")
  BY DEF StoreAnswers, At
<1>5. a \in Candidates /\ pass[w] \in PassType
  BY <1>1, <1>4, ThisFacts
<1>6. PICK s : s = IF "gallery" \in This(w).needs THEN "settle" ELSE "english"
  OBVIOUS
<1>7. PICK hears : hears = IF "gallery" \in This(w).needs THEN answer ELSE "none"
  OBVIOUS
<1>8. /\ gallery' = [gallery EXCEPT ![a] = Replaced(gallery[a], answer)]
      /\ fresh' = IF answer = "failed" THEN fresh ELSE Refreshed(a, "store")
      /\ rotation' = rotation
      /\ pass' = [pass EXCEPT ![w] = PassStaged(pass[w], s, hears)]
  BY <1>1, <1>2, <1>6, <1>7 DEF StoreAnswers, Goes, PassStaged
<1>9. s \in PassStages /\ s \notin {"idle", "end", "target"} /\ hears \in Answers
  BY <1>3, <1>6, <1>7 DEF PassStages, Answers
<1>10. fresh' \in [Candidates -> Needful] /\ rotation' \in LastApps
  BY <1>5, <1>8, RefreshedType DEF EnrichInv, EnrichTypes
<1>11. gallery[a] \in GalleryType /\ gallery \in [Candidates -> GalleryType]
  BY <1>5 DEF EnrichInv, EnrichTypes
<1>12. /\ Replaced(gallery[a], answer) \in GalleryType
       /\ Replaced(gallery[a], answer).attempts = gallery[a].attempts
       /\ Replaced(gallery[a], answer).status = gallery[a].status
  BY <1>11 DEF Replaced, GalleryType
<1>13. gallery' \in [Candidates -> GalleryType]
  BY <1>8, <1>11, <1>12
<1>14. \A b \in Candidates : /\ gallery'[b].attempts = gallery[b].attempts
                             /\ gallery'[b].status = gallery[b].status
  BY <1>5, <1>8, <1>11, <1>12
<1>15. GivenUp'
  BY <1>14 DEF EnrichInv, GivenUp
<1> QED
  BY <1>4, <1>8, <1>9, <1>10, <1>13, <1>14, <1>15, WorkStep

LEMMA SettleGalleryInv ==
    ASSUME EnrichInv, NEW w \in Enrichers, SettleGallery(w)
    PROVE  EnrichInv'
<1>1. PICK a : a = This(w).app
  OBVIOUS
<1>2. PICK status : status = Outcome(gallery[a], pass[w].answer)
  OBVIOUS
<1>3. ~At(w, "idle") /\ ~At(w, "end")
  BY DEF SettleGallery, At
<1>4. a \in Candidates /\ pass[w] \in PassType
  BY <1>1, <1>3, ThisFacts
<1>5. gallery[a] \in GalleryType /\ gallery \in [Candidates -> GalleryType]
  BY <1>4 DEF EnrichInv, EnrichTypes
<1>6. PICK n : n = gallery[a].attempts
  OBVIOUS
<1>7. n \in Nat /\ gallery[a].assets \in BOOLEAN
  BY <1>5, <1>6 DEF GalleryType
<1>8. status \in Statuses /\ (status = "exhausted" => n >= MaxAttempts)
  BY <1>2, <1>6 DEF Outcome, Statuses
<1>9. PICK g : g = [gallery[a] EXCEPT !.status = status, !.rested = FALSE]
  OBVIOUS
<1>10. g \in GalleryType /\ g.attempts = n /\ g.status = status
  BY <1>5, <1>6, <1>8, <1>9 DEF GalleryType
<1>11. /\ gallery' = [gallery EXCEPT ![a] = g]
       /\ fresh' = fresh /\ rotation' = rotation
       /\ pass' = [pass EXCEPT ![w] = PassStaged(pass[w], "english", "none")]
  BY <1>1, <1>2, <1>4, <1>5, <1>9 DEF SettleGallery, Goes, PassStaged
<1>12. gallery' \in [Candidates -> GalleryType]
  BY <1>5, <1>10, <1>11
<1>13. \A b \in Candidates :
          /\ gallery'[b].attempts = gallery[b].attempts
          /\ gallery'[b].status = gallery[b].status \/ (b = a /\ gallery'[b].status = status)
  BY <1>4, <1>5, <1>6, <1>10, <1>11
<1>14. GivenUp'
  BY <1>6, <1>8, <1>13 DEF EnrichInv, GivenUp
<1>15. fresh' \in [Candidates -> Needful] /\ rotation' \in LastApps
  BY <1>11 DEF EnrichInv, EnrichTypes
<1>16. "english" \in PassStages /\ "none" \in Answers
  BY DEF PassStages, Answers
<1> QED
  BY <1>3, <1>11, <1>12, <1>13, <1>14, <1>15, <1>16, WorkStep

LEMMA EnglishNameInv ==
    ASSUME EnrichInv, NEW w \in Enrichers, NEW answered \in BOOLEAN, EnglishName(w, answered)
    PROVE  EnrichInv'
<1>1. ~At(w, "idle") /\ ~At(w, "end")
  BY DEF EnglishName, At
<1>2. PICK a : a = This(w).app
  OBVIOUS
<1>3. a \in Candidates /\ pass[w] \in PassType
  BY <1>1, <1>2, ThisFacts
<1>4. PICK answer : answer = pass[w].answer
  OBVIOUS
<1>5. /\ fresh' = IF answered THEN Refreshed(a, "english") ELSE fresh
      /\ gallery' = gallery /\ rotation' = rotation
      /\ pass' = [pass EXCEPT ![w] = [pass[w] EXCEPT !.stage = "snapshot"]]
  BY <1>2 DEF EnglishName, Goes
<1>6. [pass[w] EXCEPT !.stage = "snapshot"] = PassStaged(pass[w], "snapshot", answer)
  BY <1>3, <1>4 DEF PassStaged, PassType
<1>7. answer \in Answers /\ "snapshot" \in PassStages
  BY <1>3, <1>4 DEF PassType, PassStages
<1>8. fresh' \in [Candidates -> Needful] /\ rotation' \in LastApps
  BY <1>3, <1>5, RefreshedType DEF EnrichInv, EnrichTypes
<1>9. gallery' \in [Candidates -> GalleryType] /\ GivenUp'
  BY <1>5 DEF EnrichInv, EnrichTypes, GivenUp
<1>10. pass' = [pass EXCEPT ![w] = PassStaged(pass[w], "snapshot", answer)]
  BY <1>5, <1>6
<1> QED
  BY <1>1, <1>5, <1>7, <1>8, <1>9, <1>10, WorkStep

LEMMA BeginPickingInv ==
    ASSUME EnrichInv, NEW w \in Enrichers, BeginPicking(w)
    PROVE  EnrichInv'
<1>1. PICK ts : ts = Targets
  OBVIOUS
<1>2. ts \in Seq(Candidates) /\ ts # <<>> /\ \A i, j \in DOMAIN ts : ts[i] = ts[j] => i = j
  BY <1>1, TargetsFacts DEF BeginPicking
<1>3. /\ Len(ts) \in Nat /\ Len(ts) # 0 /\ DOMAIN ts = 1..Len(ts)
      /\ \A i \in 1..Len(ts) : ts[i] \in Candidates
  BY <1>2
<1>4. PICK picked : picked = [i \in DOMAIN ts |-> [app |-> ts[i], needs |-> Needs(ts[i])]]
  OBVIOUS
<1>5. /\ DOMAIN picked = DOMAIN ts
      /\ \A i \in DOMAIN ts : picked[i].app = ts[i] /\ picked[i].needs = Needs(ts[i])
  BY <1>4
<1>6. \A i \in DOMAIN ts : picked[i] \in Target
  BY <1>3, <1>4 DEF Target, Needful, Needs
<1>7. picked \in TargetLists /\ picked # <<>>
  BY <1>3, <1>4, <1>5, <1>6 DEF TargetLists
<1>8. PICK last : last = Last(ts)
  OBVIOUS
<1>9. last \in LastApps
  BY <1>3, <1>8 DEF Last, LastApps
<1>10. PICK p : p = [NoTargets EXCEPT !.stage = "target", !.targets = picked, !.last = last]
  OBVIOUS
<1>11. /\ Goes(w, p) /\ UNCHANGED <<fresh, gallery, rotation>>
  BY <1>1, <1>4, <1>8, <1>10 DEF BeginPicking
<1>12. p.stage = "target" /\ p.targets = picked /\ p \in PassType
  BY <1>7, <1>9, <1>10, NoTargetsFacts DEF PassType, PassStages
<1>13. PassOK(p)
  BY <1>2, <1>5, <1>7, <1>12 DEF PassOK
<1>14. ASSUME NEW a \in Candidates, WillAsk(p, a) PROVE gallery[a].attempts < MaxAttempts
  <2>1. PICK i \in DOMAIN ts : ts[i] = a /\ "gallery" \in Needs(ts[i])
    BY <1>5, <1>12, <1>14 DEF WillAsk
  <2> QED
    BY <2>1 DEF Needs, NeedsGallery
<1>15. /\ fresh' \in [Candidates -> Needful] /\ gallery' \in [Candidates -> GalleryType]
       /\ rotation' \in LastApps /\ GivenUp'
  BY <1>11 DEF EnrichInv, EnrichTypes, GivenUp
<1> QED
  BY <1>11, <1>12, <1>13, <1>14, <1>15, PassStep

LEMMA SnapshotsInv ==
    ASSUME EnrichInv, NEW w \in Enrichers, NEW said, Snapshots(w, said)
    PROVE  EnrichInv'
<1>1. At(w, "snapshot") /\ ~At(w, "idle") /\ ~At(w, "end")
  BY DEF Snapshots, At
<1>2. PICK p : p = pass[w]
  OBVIOUS
<1>3. /\ p \in PassType /\ PassOK(p) /\ p.targets # <<>> /\ p.targets \in Seq(Target)
      /\ This(w).app \in Candidates /\ p.stage = "snapshot"
  BY <1>1, <1>2, ThisFacts DEF PassType, TargetLists, At
<1>4. PICK rest : rest = Tail(p.targets)
  OBVIOUS
<1>5. /\ rest \in Seq(Target) /\ Len(rest) = Len(p.targets) - 1 /\ Len(p.targets) \in Nat
      /\ Len(p.targets) # 0
      /\ DOMAIN rest = 1..(Len(p.targets) - 1) /\ DOMAIN p.targets = 1..Len(p.targets)
  BY <1>3, <1>4
<1>6. \A i \in DOMAIN rest : i + 1 \in DOMAIN p.targets /\ rest[i] = p.targets[i + 1] /\ i + 1 # 1
  BY <1>3, <1>4, <1>5
<1>7. PICK s : s = IF rest = <<>> THEN "end" ELSE "target"
  OBVIOUS
<1>8. PICK q : q = [p EXCEPT !.stage = s, !.targets = rest]
  OBVIOUS
<1>9. q \in PassType /\ q.stage = s /\ q.targets = rest
  BY <1>3, <1>5, <1>7, <1>8 DEF PassType, TargetLists, PassStages
<1>10. PassOK(q)
  <2>1. ASSUME NEW i \in DOMAIN rest, NEW j \in DOMAIN rest, rest[i].app = rest[j].app
        PROVE  i = j
    <3>1. i + 1 = j + 1
      BY <1>3, <1>6, <2>1 DEF PassOK
    <3> QED
      BY <1>5, <3>1
  <2> QED
    BY <1>7, <1>9, <2>1 DEF PassOK
<1>11. \A a : WillAsk(q, a) => WillAsk(p, a)
  BY <1>6, <1>9 DEF WillAsk
<1>12. /\ Goes(w, q) /\ gallery' = gallery /\ rotation' = rotation
       /\ fresh' = fresh \/ fresh' = Refreshed(This(w).app, "snapshot")
  BY <1>2, <1>4, <1>7, <1>8 DEF Snapshots, Snapshotted
<1>13. /\ fresh' \in [Candidates -> Needful] /\ gallery' \in [Candidates -> GalleryType]
       /\ rotation' \in LastApps /\ GivenUp'
  BY <1>3, <1>12, RefreshedType DEF EnrichInv, EnrichTypes, GivenUp
<1> QED
  BY <1>2, <1>9, <1>10, <1>11, <1>12, <1>13, PassStep

(* The end of a pass, or of its process.                                   *)
LEMMA StopsInv ==
    ASSUME EnrichInv, NEW w \in Enrichers, EndPass(w) \/ DieInPass(w)
    PROVE  EnrichInv'
<1>1. Goes(w, NoTargets) /\ fresh' = fresh /\ gallery' = gallery
  BY DEF EndPass, DieInPass
<1>2. rotation' \in LastApps
  BY DEF EndPass, DieInPass, EnrichInv, EnrichTypes, PassType
<1>3. /\ fresh' \in [Candidates -> Needful] /\ gallery' \in [Candidates -> GalleryType] /\ GivenUp'
  BY <1>1 DEF EnrichInv, EnrichTypes, GivenUp
<1> QED
  BY <1>1, <1>2, <1>3, NoTargetsFacts, PassStep

(* Time takes away what is fresh, and lets a gallery be asked for again.   *)
LEMMA TimeInv ==
    ASSUME EnrichInv, NEW a \in Candidates,
           RestGallery(a) \/ \E kind \in {"store", "snapshot"} : ComesDueAgain(a, kind)
    PROVE  EnrichInv'
<1>1. /\ pass' = pass /\ rotation' = rotation
      /\ \/ fresh' = fresh /\ gallery' = [gallery EXCEPT ![a].rested = TRUE]
         \/ gallery' = gallery /\ \E kind : fresh' = [fresh EXCEPT ![a] = @ \ {kind}]
  BY DEF RestGallery, ComesDueAgain
<1>2. fresh' \in [Candidates -> Needful]
  BY <1>1 DEF EnrichInv, EnrichTypes, Needful
<1>3. /\ gallery' \in [Candidates -> GalleryType]
      /\ \A b \in Candidates : /\ gallery'[b].attempts = gallery[b].attempts
                               /\ gallery'[b].status = gallery[b].status
  <2>1. \A b \in Candidates : gallery[b] \in GalleryType
    BY DEF EnrichInv, EnrichTypes
  <2>2. CASE gallery' = gallery
    BY <2>2 DEF EnrichInv, EnrichTypes
  <2>3. CASE gallery' = [gallery EXCEPT ![a].rested = TRUE]
    BY <2>1, <2>3 DEF EnrichInv, EnrichTypes, GalleryType
  <2> QED
    BY <1>1, <2>2, <2>3
<1>4. \A b : Askers(b)' = Askers(b)
  BY <1>1 DEF Askers
<1>5. EnrichTypes'
  BY <1>1, <1>2, <1>3 DEF EnrichInv, EnrichTypes, PassOK
<1> QED
  BY <1>3, <1>4, <1>5 DEF EnrichInv, AsksBounded, GivenUp

LEMMA EnrichNextInv ==
    ASSUME EnrichInv, [EnrichNext]_enrichVars
    PROVE  EnrichInv'
<1>1. CASE \E w \in Enrichers :
              BeginPicking(w) \/ BeginTarget(w) \/ SettleGallery(w) \/ EndPass(w) \/ DieInPass(w)
  BY <1>1, BeginPickingInv, BeginTargetInv, SettleGalleryInv, StopsInv
<1>2. CASE \E w \in Enrichers :
             \/ \E response \in Responses : StoreAnswers(w, response)
             \/ \E answered \in BOOLEAN : EnglishName(w, answered)
             \/ \E said : Snapshots(w, said)
  BY <1>2, StoreAnswersInv, EnglishNameInv, SnapshotsInv
<1>3. CASE \E a \in Candidates :
              RestGallery(a) \/ \E kind \in {"store", "snapshot"} : ComesDueAgain(a, kind)
  BY <1>3, TimeInv
<1>4. CASE UNCHANGED enrichVars
  BY <1>4 DEF enrichVars, EnrichInv, EnrichTypes, PassOK, AsksBounded, Askers, GivenUp
<1> QED
  BY <1>1, <1>2, <1>3, <1>4 DEF EnrichNext

(* What GalleryAsksEnd says holds for every number of processes: the       *)
(* attempts at a gallery, and the processes that have yet to make one,     *)
(* stay below the policy's number and one for each other process.          *)
THEOREM GalleryAsksAreBounded == EnrichSpec => []GalleryAsksEnd
<1>1. EnrichInit => EnrichInv
  BY EnrichStarts
<1>2. EnrichInv /\ [EnrichNext]_enrichVars => EnrichInv'
  BY EnrichNextInv
<1>3. EnrichInv => GalleryAsksEnd
  BY EnrichKept
<1> QED
  BY <1>1, <1>2, <1>3, PTL DEF EnrichSpec

(* The facts, the galleries and the cursor have their types.               *)
THEOREM EnrichTypesHold == EnrichSpec => []EnrichTypeOK
<1>1. EnrichInit => EnrichInv
  BY EnrichStarts
<1>2. EnrichInv /\ [EnrichNext]_enrichVars => EnrichInv'
  BY EnrichNextInv
<1>3. EnrichInv => EnrichTypeOK
  BY EnrichKept
<1> QED
  BY <1>1, <1>2, <1>3, PTL DEF EnrichSpec

=============================================================================
