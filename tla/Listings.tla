------------------------------ MODULE Listings ------------------------------
(***************************************************************************)
(* The two lists a client pages through: a recommendation feed (get_feed)  *)
(* and the community list (get_community_play_intents), while people vote, *)
(* accounts are deleted and the catalog is refreshed. A handler reads what *)
(* it needs in several transactions; cursors and ETags name the versions   *)
(* that it read, so that pages of different snapshots are not mixed and a  *)
(* cached page is used only while it is current.                           *)
(*                                                                         *)
(* A list is ordered by votes: the score behind a feed has many more       *)
(* terms, all functions of the catalog.                                    *)
(***************************************************************************)
EXTENDS Integers, FiniteSets, FiniteSetsExt, Sequences, SequencesExt, Selection

CONSTANTS Apps,          \* a set of numbers, the app ids
          Voters,        \* accounts that may vote, the reader's own among them
          Lists,         \* the lists read, of {"feed", "community"}
          PageSize,      \* limit of a request
          MaxNow,        \* bound on the clock
          MaxRevision    \* bound on vote changes

ASSUME ListingAssumption ==
    /\ Apps \subseteq Nat /\ IsFiniteSet(Apps) /\ PageSize \in Nat \ {0}
    /\ Lists \subseteq {"feed", "community"}
    /\ MaxNow \in Nat /\ MaxRevision \in Nat

VARIABLES now,         \* the clock
          shelf,       \* the apps the list's filters select from the catalog
          dataAt,      \* data_updated_at_ms: the largest time stamp in the catalog
          stamp,       \* when the collection that is under way read the clock, or NoStamp
          voters,      \* accounts that are active
          votes,       \* play_intent_votes
          revision,    \* play_intent_state
          list,        \* which list this reader pages through
          request,     \* the handler at work on the reader's request
          pages,       \* the pages of the walk so far
          cursor,      \* next_cursor of the last page, or NoCursor
          cache,       \* by offset: what the client keeps of a page, with its ETag
          verdict,     \* how the last request ended
          unseen,      \* history: the catalog changed and the list's tag did not
          shifted      \* history: the catalog changed since the walk began

listVars == <<now, shelf, dataAt, stamp, voters, votes, revision, list, request,
              pages, cursor, cache, verdict, unseen, shifted>>

NoStamp == -1
NoCursor == [offset |-> 0, dataAt |-> -1, revision |-> -1]
NoPage == [items |-> <<>>, tag |-> NoCursor]
Idle0 == [stage |-> "idle", tag |-> NoCursor, votes |-> {}]
Offsets == {n * PageSize : n \in 0..Cardinality(Apps)}

(***************************************************************************)
(* What a list shows                                                       *)
(***************************************************************************)

Count(v, a) == Cardinality({x \in v : x[2] = a})

Ranked(s, v) ==
    InOrder(s, {p \in s \X s : \/ Count(v, p[1]) > Count(v, p[2])
                               \/ Count(v, p[1]) = Count(v, p[2]) /\ p[1] < p[2]})

(* The community list holds only games with votes, a feed every candidate. *)
Listed(s, v) ==
    Ranked(IF list = "feed" THEN s ELSE {a \in s : Count(v, a) > 0}, v)

PageAt(s, v, offset) ==
    LET all == Listed(s, v)
        page == SubSeq(all, offset + 1, Min({offset + PageSize, Len(all)}))
    IN  [i \in DOMAIN page |-> [app |-> page[i], count |-> Count(v, page[i])]]

(***************************************************************************)
(* The server's writers                                                    *)
(***************************************************************************)

ListInit ==
    /\ now = 0 /\ dataAt = 0 /\ stamp = NoStamp /\ shelf = Apps
    /\ voters = Voters /\ votes = {} /\ revision = 0
    /\ list \in Lists /\ request = Idle0
    /\ pages = <<>> /\ cursor = NoCursor
    /\ cache = [o \in Offsets |-> NoPage]
    /\ verdict = "none" /\ unseen = FALSE /\ shifted = FALSE

readerVars == <<list, request, pages, cursor, cache, verdict>>

Pass ==
    /\ now < MaxNow /\ now' = now + 1
    /\ UNCHANGED <<shelf, dataAt, stamp, voters, votes, revision, readerVars, unseen, shifted>>

(* A collection reads the clock for its rows when it begins ...            *)
StartWrite ==
    /\ stamp = NoStamp /\ stamp' = now
    /\ UNCHANGED <<now, shelf, dataAt, voters, votes, revision, readerVars, unseen, shifted>>

(* ... and commits them later: data_updated_at_ms is the maximum of all    *)
(* stamps, so a late commit need not move it.                              *)
CommitWrite(s, at) ==
    /\ \/ stamp # NoStamp /\ at = stamp /\ stamp' = NoStamp
       \/ at = now /\ stamp' = stamp
    /\ s # shelf /\ shelf' = s
    /\ dataAt' = Max({dataAt, at})
    /\ unseen' = (unseen \/ at <= dataAt \/ list = "community")
    /\ shifted' = TRUE
    /\ UNCHANGED <<now, voters, votes, revision, readerVars>>

(* set_play_intent: the account and the game must exist when the vote is   *)
(* written; only a row that comes or goes raises the revision.             *)
Voted(u, a, intent) == IF intent THEN votes \cup {<<u, a>>} ELSE votes \ {<<u, a>>}

SetPlayIntent(u, a, intent) ==
    LET wanted == Voted(u, a, intent)
    IN  /\ u \in voters /\ revision < MaxRevision
        /\ votes' = wanted
        /\ revision' = IF wanted # votes THEN revision + 1 ELSE revision
        /\ UNCHANGED <<now, shelf, dataAt, stamp, voters, readerVars, unseen, shifted>>

(* delete_account: every vote and the change of status raise it.           *)
DeleteVoter(u) ==
    LET own == {x \in votes : x[1] = u}
    IN  /\ u \in voters /\ revision < MaxRevision
        /\ voters' = voters \ {u} /\ votes' = votes \ own
        /\ revision' = revision + Cardinality(own) + 1
        /\ UNCHANGED <<now, shelf, dataAt, stamp, readerVars, unseen, shifted>>

(***************************************************************************)
(* The handlers                                                            *)
(***************************************************************************)

serverVars == <<now, shelf, dataAt, stamp, voters, votes, revision, unseen>>

\* Mutant: the vote revision of a cursor is not compared.
StaleByDataOnly(c) == c # NoCursor /\ list = "feed" /\ c.dataAt # dataAt

(* decode_cursor, decode_community_cursor: the versions named must be the  *)
(* present ones; no cursor means the first page.                           *)
Stale(c) ==
    c # NoCursor /\ (c.revision # revision \/ (list = "feed" /\ c.dataAt # dataAt))

\* Mutant: the ETag leaves the vote revision out.
TagWithoutVotes(offset, data, rev) ==
    [offset |-> offset, dataAt |-> IF list = "feed" THEN data ELSE 0, revision |-> 0]

(* What the ETag and the next cursor name.                                 *)
Tag(offset, data, rev) ==
    [offset |-> offset, dataAt |-> IF list = "feed" THEN data ELSE 0, revision |-> rev]

(* What the client does with a page: keep it, and ask for the next one if  *)
(* there is a cursor. The first page begins a new walk.                    *)
Answer(how, items, tag, more) ==
    /\ verdict' = how
    /\ cache' = [cache EXCEPT ![tag.offset] = [items |-> items, tag |-> tag]]
    /\ pages' = IF tag.offset = 0 THEN <<items>> ELSE Append(pages, items)
    /\ cursor' = IF more THEN [tag EXCEPT !.offset = @ + PageSize] ELSE NoCursor
    /\ request' = Idle0 /\ UNCHANGED list

(* 409 cursor_stale: the client begins again.                              *)
Restart ==
    /\ verdict' = "stale" /\ pages' = <<>> /\ cursor' = NoCursor
    /\ request' = Idle0 /\ UNCHANGED <<list, cache>>

More(s, v, offset) == offset + PageSize < Len(Listed(s, v))

(* The client asks for the page its cursor names, else for the first one.  *)
Ask ==
    /\ request = Idle0 /\ request' = [Idle0 EXCEPT !.stage = "ask"]
    /\ verdict' = "none" /\ shifted' = (shifted /\ cursor # NoCursor)
    /\ UNCHANGED <<serverVars, list, pages, cursor, cache>>

(* The first transactions of a request: the feed takes the catalog's time, *)
(* the revision and the votes, and answers 304 at once when the client has *)
(* the page; the community handler takes the revision.                     *)
BeginRequest ==
    LET tag == Tag(cursor.offset, dataAt, revision)
    IN  /\ request.stage = "ask"
        /\ IF Stale(cursor)
           THEN Restart
           ELSE IF list = "feed" /\ cache[tag.offset].tag = tag
           THEN Answer("not modified", cache[tag.offset].items, tag,
                       More(shelf, votes, tag.offset))
           ELSE /\ request' = [stage |-> "read", tag |-> tag, votes |-> votes]
                /\ UNCHANGED <<list, pages, cursor, cache, verdict>>
        /\ UNCHANGED <<serverVars, shifted>>

(* The feed's last transaction: list_candidates, ranked with the votes     *)
(* that were read before.                                                  *)
ReadFeed ==
    LET r == request
    IN  /\ list = "feed" /\ r.stage = "read"
        /\ Answer("page", PageAt(shelf, r.votes, r.tag.offset), r.tag,
                  More(shelf, r.votes, r.tag.offset))
        /\ UNCHANGED <<serverVars, shifted>>

(* The community's: the page, the previews and the revision once more. The *)
(* tag is compared only now.                                               *)
ReadCommunity ==
    LET tag == request.tag
        kept == cache[tag.offset]
    IN  /\ list = "community" /\ request.stage = "read"
        /\ IF tag.revision # revision
           THEN Restart
           ELSE IF kept.tag = tag
           THEN Answer("not modified", kept.items, tag, More(shelf, votes, tag.offset))
           ELSE Answer("page", PageAt(shelf, votes, tag.offset), tag,
                       More(shelf, votes, tag.offset))
        /\ UNCHANGED <<serverVars, shifted>>

ListNext ==
    \/ Pass \/ StartWrite
    \/ \E s \in SUBSET Apps, at \in 0..MaxNow : CommitWrite(s, at)
    \/ \E u \in Voters : DeleteVoter(u)
    \/ \E u \in Voters, a \in Apps, intent \in BOOLEAN : SetPlayIntent(u, a, intent)
    \/ Ask \/ BeginRequest \/ ReadFeed \/ ReadCommunity

ListSpec == ListInit /\ [][ListNext]_listVars

(***************************************************************************)
(* Properties                                                              *)
(***************************************************************************)

ListTypeOK ==
    /\ now \in 0..MaxNow /\ dataAt \in 0..MaxNow /\ stamp \in {NoStamp} \cup 0..MaxNow
    /\ shelf \subseteq Apps /\ voters \subseteq Voters /\ votes \subseteq Voters \X Apps
    /\ request.stage \in {"idle", "ask", "read"} /\ cursor.offset \in Offsets
    /\ verdict \in {"none", "page", "not modified", "stale"}

Answered(how) == request # Idle0 /\ request' = Idle0 /\ verdict' \in how

(* A page the client already holds is declared current (304) only if the   *)
(* server would send the same page again (API.md:485: a change of votes    *)
(* changes the ETag). The feed's tag follows the catalog unless rows were  *)
(* committed with a stamp that was not new; the community's tag knows      *)
(* nothing of the catalog.                                                 *)
NotModifiedIsTrue ==
    [][ (Answered({"not modified"}) /\ ~unseen)
          => Last(pages') = PageAt(shelf, votes, (Len(pages') - 1) * PageSize) ]_listVars

(* A walk from the first page to the end shows the whole list, every game  *)
(* once and in order (API.md:88): whatever votes and deletions happen on   *)
(* the way make the cursor stale. Only a catalog refreshed during the walk *)
(* can slip into its last page, and one refreshed behind the tag's back    *)
(* into a cached page.                                                     *)
WalkIsExact ==
    [][ (Answered({"page", "not modified"}) /\ cursor' = NoCursor /\ ~shifted /\ ~unseen)
          => LET v == IF request.stage = "read" THEN request.votes ELSE votes
                 whole == Listed(shelf, IF list = "feed" THEN v ELSE votes)
             IN  FlattenSeq(pages') = [i \in DOMAIN whole |->
                     [app |-> whole[i], count |-> Count(v, whole[i])]] ]_listVars
=============================================================================
