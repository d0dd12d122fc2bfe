---------------------------- MODULE Membership ----------------------------
(***************************************************************************)
(* What a person owns on the server apart from sessions: a preference row, *)
(* feedback events and votes, all under a user id. An anonymous subject    *)
(* becomes an account by registering, or its belongings are merged into an *)
(* account by signing in. Each call is one transaction behind the write    *)
(* lock (Database::with_conn_mut), so each is one action.                  *)
(*                                                                         *)
(* Only accounts may write today; anonymous subjects from before that rule *)
(* still have what they wrote, which is what the initial states hold.      *)
(***************************************************************************)
EXTENDS Integers, FiniteSets

CONSTANTS Subjects,      \* user ids
          Legacy,        \* anonymous subjects from before accounts
          Keys,          \* idempotency keys of clients, never that of an undo
          Titles,          \* games
          Values,        \* preference contents
          DefaultValue,  \* UserPreferences::default()
          Clients,       \* pages that edit preferences
          MaxPrefVersion,    \* bound on preference versions
          MaxEvents      \* bound on feedback ids

ASSUME MembershipAssumption ==
    /\ Legacy \subseteq Subjects /\ DefaultValue \in Values
    /\ Keys \cap ({"undo"} \X Nat) = {} /\ "nobody" \notin Subjects
    /\ MaxPrefVersion \in Nat \ {0, 1} /\ MaxEvents \in Nat \ {0, 1}

VARIABLES kind,     \* "none", "anonymous", "active", "deleted"
          prefs,    \* user_preferences: a row or NoPrefs
          events,   \* feedback_events
          nextId,   \* the next feedback_id (AUTOINCREMENT)
          intents,  \* play_intent_votes by user
          copy,     \* the preferences a client has read, with their owner
          given,    \* history: feedback acknowledged, as <<author, owner, key>>
          undone,   \* history: feedback taken back, likewise
          merges    \* history: a row of preferences was replaced by a merge

memberVars == <<kind, prefs, events, nextId, intents, copy, given, undone, merges>>

NoPrefs == [version |-> 0, value |-> DefaultValue]
Defaults == [version |-> 1, value |-> DefaultValue]
Nobody == "nobody"
NoCopy == [user |-> Nobody, row |-> NoPrefs]

Event(id, u, k, sort, undo) ==
    [id |-> id, user |-> u, key |-> k, sort |-> sort, undoneBy |-> undo]
UndoKey(id) == <<"undo", id>>
NoUndo == 0

EventsOf(u) == {e \in events : e.user = u}
KeysOf(u) == {e.key : e \in EventsOf(u)}

(* list_active_feedback, before the newest of a game is chosen.            *)
Live(u) == {e \in EventsOf(u) : e.sort # "undo" /\ e.undoneBy = NoUndo}

(* A legacy subject has an untouched or edited preference row, and no      *)
(* feedback, an event, or an event it took back.                           *)
LegacyEvents(u, k) ==
    {{}, {Event(1, u, k, "like", NoUndo)},
     {Event(1, u, k, "like", 2), Event(2, u, UndoKey(1), "undo", NoUndo)}}

MemberInit ==
    /\ kind = [u \in Subjects |-> IF u \in Legacy THEN "anonymous" ELSE "none"]
    /\ \E row \in {Defaults} \cup [version : {2}, value : Values] :
         prefs = [u \in Subjects |-> IF u \in Legacy THEN row ELSE NoPrefs]
    /\ \E u \in Legacy, k \in Keys : events \in LegacyEvents(u, k)
    /\ nextId = 3
    /\ \E s \in SUBSET Titles : intents = [u \in Subjects |-> IF u \in Legacy THEN s ELSE {}]
    /\ copy = [c \in Clients |-> NoCopy]
    /\ given = {<<e.user, e.user, e.key>> : e \in {e \in events : e.sort # "undo"}}
    /\ undone = {<<e.user, e.user, e.key>> : e \in {e \in events : e.undoneBy # NoUndo}}
    /\ merges = {}

(***************************************************************************)
(* Sessions and accounts                                                   *)
(***************************************************************************)

(* require_user: a token of an account that is active.                     *)
SignedIn(u) == kind[u] = "active"

(* create_anonymous_session *)
CreateSession(u) ==
    /\ kind[u] = "none"
    /\ kind' = [kind EXCEPT ![u] = "anonymous"]
    /\ prefs' = [prefs EXCEPT ![u] = Defaults]
    /\ UNCHANGED <<events, nextId, intents, copy, given, undone, merges>>

(* register_account: an anonymous subject keeps its id and what it has;    *)
(* without one a subject with default preferences is made.                 *)
Registrable(u) == kind[u] \in {"none", "anonymous"}
RegisteredPrefs(u) == IF kind[u] = "none" THEN Defaults ELSE prefs[u]

Register(u) ==
    /\ Registrable(u)
    /\ kind' = [kind EXCEPT ![u] = "active"]
    /\ prefs' = [prefs EXCEPT ![u] = RegisteredPrefs(u)]
    /\ UNCHANGED <<events, nextId, intents, copy, given, undone, merges>>

(* merge_preferences: which of two rows stays, by the choice made when     *)
(* both were edited; without one nothing of the sign-in happens.           *)
KeepsSource(s, a, choice) ==
    /\ prefs[s] # NoPrefs
    /\ \/ prefs[a] = NoPrefs
       \/ prefs[s] # Defaults /\ (prefs[a] = Defaults \/ choice = "anonymous")

MustChoose(s, a) == {prefs[s], prefs[a]} \cap {NoPrefs, Defaults} = {}

\* Mutant: copies are inserted without their undone_by.
MergedEventsAfresh(s, a, ids) ==
    LET moved == {e \in EventsOf(s) : e.key \notin KeysOf(a)}
    IN  (events \ EventsOf(s))
          \cup {[e EXCEPT !.user = a, !.id = ids[e], !.undoneBy = NoUndo] : e \in moved}

(* merge_anonymous_subject: events are copied under new ids, with their    *)
(* undone_by as it is, except under keys the account has; the source's     *)
(* rows go.                                                                *)
MergedEvents(s, a, ids) ==
    LET moved == {e \in EventsOf(s) : e.key \notin KeysOf(a)}
    IN  (events \ EventsOf(s)) \cup {[e EXCEPT !.user = a, !.id = ids[e]] : e \in moved}

(* Rows are copied in the order of their ids.                              *)
NewIds(s) == [e \in EventsOf(s) |-> nextId + Cardinality({f \in EventsOf(s) : f.id < e.id})]

Handed(history, s, a) == {IF x[2] = s THEN [x EXCEPT ![2] = a] ELSE x : x \in history}

(* login_account with an anonymous token: the merge and the session are    *)
(* one transaction.                                                        *)
Login(a, s, choice) ==
    /\ kind[a] = "active" /\ kind[s] = "anonymous"
    /\ MustChoose(s, a) => choice # "none"
    /\ nextId + Cardinality(EventsOf(s)) <= MaxEvents + 1
    /\ prefs' = [prefs EXCEPT ![s] = NoPrefs,
                              ![a] = IF KeepsSource(s, a, choice) THEN prefs[s] ELSE @]
    /\ events' = MergedEvents(s, a, NewIds(s))
    /\ nextId' = nextId + Cardinality(EventsOf(s))
    /\ intents' = [intents EXCEPT ![a] = @ \cup intents[s], ![s] = {}]
    /\ given' = Handed(given, s, a) /\ undone' = Handed(undone, s, a)
    /\ merges' = IF KeepsSource(s, a, choice) THEN merges \cup {a} ELSE merges
    /\ UNCHANGED <<kind, copy>>

(* delete_account keeps preferences and feedback, which nobody can reach.  *)
DeleteMember(u) ==
    /\ SignedIn(u)
    /\ kind' = [kind EXCEPT ![u] = "deleted"]
    /\ intents' = [intents EXCEPT ![u] = {}]
    /\ UNCHANGED <<prefs, events, nextId, copy, given, undone, merges>>

(***************************************************************************)
(* Preferences, feedback, votes                                            *)
(***************************************************************************)

(* get_preferences: 404 when there is no row.                              *)
ReadPrefs(c, u) ==
    /\ SignedIn(u) /\ prefs[u] # NoPrefs
    /\ copy' = [copy EXCEPT ![c] = [user |-> u, row |-> prefs[u]]]
    /\ UNCHANGED <<kind, prefs, events, nextId, intents, given, undone, merges>>

VersionMatches(mine, current) == mine.version = current.version

Saved(u, value) == [version |-> prefs[u].version + 1, value |-> value]

(* put_preferences: one version further, or 409. The answer is the         *)
(* client's new copy.                                                      *)
PutPrefs(c, value) ==
    LET u == copy[c].user
        next == Saved(u, value)
    IN  /\ u # Nobody /\ SignedIn(u) /\ prefs[u] # NoPrefs
        /\ VersionMatches(copy[c].row, prefs[u]) /\ prefs[u].version < MaxPrefVersion
        /\ prefs' = [prefs EXCEPT ![u] = next]
        /\ copy' = [copy EXCEPT ![c].row = next]
        /\ UNCHANGED <<kind, events, nextId, intents, given, undone, merges>>

(* create_feedback: a key used before answers with the row it made.        *)
CreateFeedback(u, k) ==
    IF k \in KeysOf(u)
    THEN UNCHANGED <<events, nextId>>
    ELSE /\ events' = events \cup {Event(nextId, u, k, "like", NoUndo)}
         /\ nextId' = nextId + 1

GiveFeedback(u, k) ==
    /\ SignedIn(u) /\ nextId <= MaxEvents
    /\ CreateFeedback(u, k)
    /\ given' = given \cup {<<u, u, k>>}
    /\ UNCHANGED <<kind, prefs, intents, copy, undone, merges>>

(* last_insert_rowid of the undo row.                                      *)
UndoLink == nextId

(* undo_feedback: for a row not yet undone an undo row is added; otherwise *)
(* nothing changes, and the answer is the undo row or 404 when that row    *)
(* was left behind by a merge.                                             *)
UndoFeedback(u, e) ==
    /\ events' = (events \ {e}) \cup {[e EXCEPT !.undoneBy = UndoLink],
                                      Event(nextId, u, UndoKey(e.id), "undo", NoUndo)}
    /\ nextId' = nextId + 1

TakeBack(u, e) ==
    /\ SignedIn(u) /\ e \in Live(u) /\ nextId <= MaxEvents
    /\ UndoFeedback(u, e)
    /\ undone' = undone \cup {<<u, u, e.key>>}
    /\ UNCHANGED <<kind, prefs, intents, copy, given, merges>>

MemberNext ==
    \/ \E u \in Subjects : CreateSession(u) \/ Register(u) \/ DeleteMember(u)
    \/ \E a, s \in Subjects, choice \in {"none", "anonymous", "account"} : Login(a, s, choice)
    \/ \E c \in Clients, u \in Subjects : ReadPrefs(c, u)
    \/ \E c \in Clients, value \in Values : PutPrefs(c, value)
    \/ \E u \in Subjects, k \in Keys : GiveFeedback(u, k)
    \/ \E u \in Subjects, e \in events : TakeBack(u, e)

MemberSpec == MemberInit /\ [][MemberNext]_memberVars

(***************************************************************************)
(* Properties                                                              *)
(***************************************************************************)

MemberTypeOK ==
    /\ kind \in [Subjects -> {"none", "anonymous", "active", "deleted"}]
    /\ prefs \in [Subjects -> [version : 0..MaxPrefVersion, value : Values]]
    /\ nextId \in 1..(MaxEvents + 1) /\ \A e, f \in events : e.id = f.id => e = f
    /\ intents \in [Subjects -> SUBSET Titles]

(* Acknowledged feedback follows its author through every merge: there is  *)
(* exactly one row for its key where the author's belongings are now; it   *)
(* counts if nobody took feedback with that key back, and never when       *)
(* everybody who gave it did. undone_by has no foreign key, and a merge    *)
(* leaves it pointing at a row that is gone (accounts.rs:1046): it never   *)
(* comes to mean another row than the undo of that very event.             *)
FeedbackFollows ==
    /\ \A g \in given :
         LET rows == {e \in EventsOf(g[2]) : e.key = g[3]}
             Same(history) == {x \in history : <<x[2], x[3]>> = <<g[2], g[3]>>}
         IN  /\ Cardinality(rows) = 1
             /\ Same(undone) = {} => rows \subseteq Live(g[2])
             /\ Same(given) \subseteq undone => rows \cap Live(g[2]) = {}
    /\ \A e, f \in events :
         e.undoneBy = f.id => f.sort = "undo" /\ f.key = UndoKey(e.id) /\ f.user = e.user
=============================================================================
