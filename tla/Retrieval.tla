----------------------------- MODULE Retrieval ------------------------------
(***************************************************************************)
(* The retrieval index: documents built from the catalog, and vectors      *)
(* computed from the documents. The scheduler, a request that finds no     *)
(* documents and the operator's command synchronise it, each reading the   *)
(* catalog once and then writing document by document; embed-documents     *)
(* sends what lacks a vector of a model to the provider and stores what    *)
(* comes back, while the documents may be rewritten. Any of them may die.  *)
(*                                                                         *)
(* A game has a profile document, always, and a summary, while the store   *)
(* has a description. A text stands for a document's content hash. The     *)
(* full-text rows change with the documents in one transaction.            *)
(***************************************************************************)
EXTENDS Integers, Sequences, FiniteSets, SequencesExt, Selection

CONSTANTS Entries,      \* app ids
          Texts,        \* contents
          NoText,       \* no description
          Syncers,      \* processes that synchronise
          SyncLimit,    \* games read by a synchronisation
          After,        \* after_app_id arguments in use
          MaxEdits      \* bound on catalog changes

ASSUME RetrievalAssumption ==
    /\ Entries \subseteq Nat \ {0} /\ IsFiniteSet(Entries)
    /\ Texts # {} /\ NoText \notin Texts
    /\ SyncLimit \in Nat \ {0} /\ After \subseteq Nat /\ MaxEdits \in Nat

VARIABLES source,     \* the catalog: by game, the text of each document
          edits,      \* changes so far
          docs,       \* game_documents: by document, its text
          vectors,    \* game_embeddings: [doc, model, text], text: by its hash
          sync,       \* by process: [todo, embeds, fresh, scanned]
          embedder,   \* embed-documents: [stage, todo]
          current     \* history: games synchronised since they last changed

retrievalVars == <<source, edits, docs, vectors, sync, embedder, current>>

DocKinds == {"profile", "summary"}
Docs == Entries \X DocKinds
NoSync == [todo |-> <<>>, embeds |-> FALSE, fresh |-> FALSE, scanned |-> {}]
NoBatch == [stage |-> "idle", todo |-> <<>>]
Local == "hash"
Provider == "provider"

RetrievalInit ==
    /\ source \in [Entries -> [profile : {CHOOSE t \in Texts : TRUE}, summary : {NoText}]]
    /\ edits = 0 /\ docs = [d \in {} |-> NoText] /\ vectors = {}
    /\ sync = [w \in Syncers |-> NoSync] /\ embedder = NoBatch /\ current = {}

Running(w) == sync[w].todo # <<>>

(* Collection changes a game. What is being synchronised is out of date.   *)
EditSource(a, kind, text) ==
    /\ edits < MaxEdits /\ source[a][kind] # text /\ (kind = "profile" => text # NoText)
    /\ source' = [source EXCEPT ![a][kind] = text] /\ edits' = edits + 1
    /\ sync' = [w \in Syncers |-> [sync[w] EXCEPT !.fresh = FALSE]]
    /\ current' = current \ {a}
    /\ UNCHANGED <<docs, vectors, embedder>>

(* The steps of one game: drop the summary it no longer has, then each     *)
(* document, and its vector.                                               *)
Step(deed, doc, text) == [do |-> deed, doc |-> doc, text |-> text]

Write(a, kind, embeds) ==
    LET text == source[a][kind]
    IN  IF embeds THEN <<Step("write", <<a, kind>>, text), Step("embed", <<a, kind>>, text)>>
        ELSE <<Step("write", <<a, kind>>, text)>>

StepsFor(a, embeds) ==
    LET summary == source[a].summary
    IN  <<Step("prune", <<a, "summary">>, summary)>> \o Write(a, "profile", embeds)
          \o (IF summary = NoText THEN <<>> ELSE Write(a, "summary", embeds))

(* sync_retrieval_from_catalog reads the first games after an id.          *)
Scanned(after) ==
    {a \in Entries : a > after
        /\ Cardinality({b \in Entries : b > after /\ b < a}) < SyncLimit}

BeginSync(w, after, embeds) ==
    LET games == InOrder(Scanned(after), {p \in Entries \X Entries : p[1] < p[2]})
    IN  /\ ~Running(w) /\ games # <<>>
        /\ sync' = [sync EXCEPT ![w] =
                     [todo |-> FlattenSeq([i \in DOMAIN games |-> StepsFor(games[i], embeds)]),
                      embeds |-> embeds, scanned |-> ToSet(games),
                      fresh |-> \A v \in Syncers : Running(v) => sync[v].fresh]]
        /\ UNCHANGED <<source, edits, docs, vectors, embedder, current>>

Vector(doc, model, text) == [doc |-> doc, model |-> model, text |-> text]
Has(doc, text) == doc \in DOMAIN docs /\ docs[doc] = text

(* prune_managed_documents: the vectors go with the document.              *)
Pruned(step) ==
    IF step.text # NoText THEN <<docs, vectors>>
    ELSE <<[d \in DOMAIN docs \ {step.doc} |-> docs[d]], {v \in vectors : v.doc # step.doc}>>

(* upsert_game_document: a new text drops the vectors of any other.        *)
Written(step) ==
    IF Has(step.doc, step.text) THEN <<docs, vectors>>
    ELSE <<[d \in DOMAIN docs \cup {step.doc} |-> IF d = step.doc THEN step.text ELSE docs[d]],
           {v \in vectors : v.doc = step.doc => v.text = step.text}>>

\* Mutant: the row looked for is that of the text, whatever made its vector.
EmbeddedUnlessAny(step) ==
    <<docs, IF \E v \in vectors : v.doc = step.doc /\ v.text = step.text
            THEN vectors ELSE vectors \cup {Vector(step.doc, Local, step.text)}>>

(* put_embedding: one row per document, model and text, also for a text    *)
(* the document no longer has. It needs the document.                      *)
Embedded(step) == <<docs, vectors \cup {Vector(step.doc, Local, step.text)}>>

DocOutcome(step) ==
    CASE step.do = "prune" -> Pruned(step)
      [] step.do = "write" -> Written(step)
      [] step.do = "embed" -> Embedded(step)

(* One transaction of a synchronisation. Writing a vector for a document   *)
(* that another one pruned fails, and ends it.                             *)
SyncStep(w) ==
    LET step == Head(sync[w].todo)
        rest == Tail(sync[w].todo)
        fails == step.do = "embed" /\ step.doc \notin DOMAIN docs
    IN  /\ Running(w)
        /\ IF fails THEN UNCHANGED <<docs, vectors>>
           ELSE docs' = DocOutcome(step)[1] /\ vectors' = DocOutcome(step)[2]
        /\ sync' = [sync EXCEPT ![w] = IF fails THEN NoSync ELSE [sync[w] EXCEPT !.todo = rest]]
        /\ current' = IF rest = <<>> /\ ~fails /\ sync[w].fresh /\ sync[w].embeds
                      THEN current \cup sync[w].scanned ELSE current
        /\ UNCHANGED <<source, edits, embedder>>

StopSync(w) ==
    /\ Running(w) /\ sync' = [sync EXCEPT ![w] = NoSync]
    /\ UNCHANGED <<source, edits, docs, vectors, embedder, current>>

(* embed_documents_batch: list_documents_missing_embedding.                *)
Missing == {d \in DOMAIN docs : Vector(d, Provider, docs[d]) \notin vectors}

BeginEmbedding ==
    /\ embedder.stage = "idle" /\ Missing # {}
    /\ embedder' = [stage |-> "asked",
                    todo |-> SetToSeq({[doc |-> d, text |-> docs[d]] : d \in Missing})]
    /\ UNCHANGED <<source, edits, docs, vectors, sync, current>>

(* The provider answered; vectors are stored one by one, under the hash    *)
(* that was read before.                                                   *)
StoreVector ==
    LET one == Head(embedder.todo)
    IN  /\ embedder.stage = "asked" /\ one.doc \in DOMAIN docs
        /\ vectors' = vectors \cup {Vector(one.doc, Provider, one.text)}
        /\ embedder' = IF Len(embedder.todo) = 1 THEN NoBatch ELSE [embedder EXCEPT !.todo = Tail(@)]
        /\ UNCHANGED <<source, edits, docs, sync, current>>

(* The provider fails, a document is gone, or the process dies.            *)
StopEmbedding ==
    /\ embedder.stage = "asked" /\ embedder' = NoBatch
    /\ UNCHANGED <<source, edits, docs, vectors, sync, current>>

(* list_embeddings_for_provider serves only rows of the document's text.   *)
Served == {v \in vectors : Has(v.doc, v.text)}

(* search_game_fts, for a query that matches one text.                     *)
FullTextHits(text) == {d[1] : d \in {e \in DOMAIN docs : docs[e] = text}}

(* hybrid_search_with_vector: the games of both lists, below their limits. *)
(* A game counts for the nearest of its vectors.                           *)
HybridHits(text, model) ==
    FullTextHits(text) \cup {v.doc[1] : v \in {u \in Served : u.model = model}}

RetrievalNext ==
    \/ \E a \in Entries, kind \in DocKinds, text \in Texts \cup {NoText} : EditSource(a, kind, text)
    \/ \E w \in Syncers, after \in After, embeds \in BOOLEAN : BeginSync(w, after, embeds)
    \/ \E w \in Syncers : SyncStep(w) \/ StopSync(w)
    \/ BeginEmbedding \/ StoreVector \/ StopEmbedding

RetrievalSpec == RetrievalInit /\ [][RetrievalNext]_retrievalVars

(***************************************************************************)
(* Properties                                                              *)
(***************************************************************************)

RetrievalTypeOK ==
    /\ DOMAIN docs \subseteq Docs /\ current \subseteq Entries
    /\ \A d \in DOMAIN docs : docs[d] \in Texts
    /\ \A v \in vectors : v.doc \in DOMAIN docs

(* After a synchronisation that nothing overtook, neither a change nor     *)
(* another one begun before it, the index says of the games it scanned     *)
(* what the catalog says: each document and a local vector of its text, no *)
(* summary the store no longer has. A search finds the game by the texts   *)
(* it has and by no text it had. Until the next change nothing, late       *)
(* vectors, crashes or other synchronisations, takes that away.            *)
IndexFollowsCatalog ==
    \A a \in current :
        /\ \A kind \in DocKinds :
             IF source[a][kind] = NoText
             THEN <<a, kind>> \notin DOMAIN docs
             ELSE \E v \in Served :
                     v = Vector(<<a, kind>>, Local, source[a][kind])
        /\ \A text \in Texts :
             /\ a \in FullTextHits(text) <=> \E kind \in DocKinds : source[a][kind] = text
             /\ a \in HybridHits(text, Local)
=============================================================================
