--------------------------- MODULE FeedbackQueue ---------------------------
(***************************************************************************)
(* The client's pending-feedback queue (web/src/api/feedbackQueue.ts), its *)
(* replay at start and on reconnect, and the feedback events of the server *)
(* (crates/storage/src/feedback.rs) that it must end up agreeing with.     *)
(*                                                                         *)
(* JavaScript runs to the next await, so a step is what happens between    *)
(* two awaits of the flush or of an undo() call.  A request once sent may  *)
(* reach the server at any later time, also after its caller has given it  *)
(* up or the page is gone; answers may be lost.  All entries are about one *)
(* game, where the order of the events matters.                            *)
(***************************************************************************)
EXTENDS Naturals, Sequences, FiniteSetsExt

CONSTANTS
    MaxEntries,  \* bound: entries ever submitted
    MaxFaults    \* bound: failed requests and reloads

ASSUME QueueAssumption == MaxEntries \in Nat \ {0} /\ MaxFaults \in Nat

\* An entry's number stands for its localId, its idempotency key and its age.
Ids == 1 .. MaxEntries

VARIABLES
    entries,   \* the queue in memory
    disk,      \* the queue in local storage
    flush,     \* runFlush: what it awaits and which entry it is at
    undoing,   \* entries whose undo() call awaits the server
    posts,     \* entries whose POST was sent
    undos,     \* feedback ids whose undo was sent
    events,    \* feedback_events, an event's id is its position
    aged,      \* entries created more than seven days ago
    faults,    \* faults so far
    asked,     \* history: entries the user undid
    rejected,  \* history: entries whose POST was permanently refused
    stuck      \* history: entries whose undo was permanently refused

client == <<entries, disk, flush, undoing>>
network == <<posts, undos>>
history == <<asked, rejected, stuck>>
vars == <<entries, disk, flush, undoing, posts, undos, events, aged, faults,
          asked, rejected, stuck>>

Entry ==
    [place : {"none", "queued", "dropped"}, feedbackId : Nat, attempted : BOOLEAN,
     cancelled : BOOLEAN, undone : BOOLEAN,
     syncError : {"null", "undo_pending", "failed"}]

NewEntry ==
    [place |-> "none", feedbackId |-> 0, attempted |-> FALSE, cancelled |-> FALSE,
     undone |-> FALSE, syncError |-> "null"]

NoFlush == [pc |-> "idle", at |-> 1]

TypeOK ==
    /\ entries \in [Ids -> Entry]
    /\ disk \in [Ids -> Entry]
    /\ flush \in [pc : {"idle", "post", "undo"}, at : Ids]
    /\ undoing \subseteq Ids
    /\ posts \subseteq Ids
    /\ undos \subseteq 1 .. Len(events)
    /\ events \in Seq([key : Ids, undone : BOOLEAN])
    /\ aged \subseteq Ids
    /\ faults \in 0 .. MaxFaults
    /\ asked \cup rejected \cup stuck \subseteq Ids

Init ==
    /\ entries = [i \in Ids |-> NewEntry]
    /\ disk = entries
    /\ flush = NoFlush
    /\ undoing = {}
    /\ posts = {}
    /\ undos = {}
    /\ events = <<>>
    /\ aged = {}
    /\ faults = 0
    /\ asked = {}
    /\ rejected = {}
    /\ stuck = {}

Fault == faults < MaxFaults /\ faults' = faults + 1

-----------------------------------------------------------------------------
(* The server                                                              *)

EventsOf(i) == {n \in 1 .. Len(events) : events[n].key = i}

\* Mutant: the idempotency key is not looked up.
CreatedAnew(i) == Append(events, [key |-> i, undone |-> FALSE])

\* create_feedback: a known key returns the event it named.
Created(i) ==
    IF EventsOf(i) # {} THEN events ELSE Append(events, [key |-> i, undone |-> FALSE])

CreateFeedback(i) ==
    /\ i \in posts
    /\ events' = Created(i)
    /\ UNCHANGED <<client, network, aged, faults, history>>

\* undo_feedback: undoing an undone event changes nothing.
UndoFeedback(n) ==
    /\ n \in undos
    /\ events' = [events EXCEPT ![n].undone = TRUE]
    /\ UNCHANGED <<client, network, aged, faults, history>>

-----------------------------------------------------------------------------
(* The flush: one pass over the queue, in order, up to its next await      *)

\* Mutant: a cancelled entry is passed over even if its POST was attempted.
MustPostUncancelled(e) ==
    e.place = "queued" /\ e.feedbackId = 0 /\ ~e.cancelled

\* A cancelled entry is passed over only if it was never attempted.
MustPost(e) ==
    e.place = "queued" /\ e.feedbackId = 0 /\ (e.cancelled => e.attempted)

MustUndo(e) ==
    e.place = "queued" /\ e.feedbackId # 0 /\ e.undone /\ e.syncError = "undo_pending"

\* The filter that bounds storage.
Expired(e) == e.cancelled \/ (e.feedbackId # 0 /\ e.syncError = "null")

Filtered(q) ==
    [i \in Ids |->
        IF q[i].place = "queued" /\ i \in aged /\ Expired(q[i])
        THEN [q[i] EXCEPT !.place = "dropped"]
        ELSE q[i]]

FinishFlush(q) ==
    /\ entries' = Filtered(q)
    /\ disk' = entries'
    /\ flush' = NoFlush

\* Runs on over queue q from an entry, to the next request or the end; an
\* undo leaves without another write over what storage holds.
Proceed(q, from, saved) ==
    LET due == {i \in from .. MaxEntries : MustPost(q[i]) \/ MustUndo(q[i])}
        i == Min(due)
    IN  \/ due = {} /\ FinishFlush(q) /\ UNCHANGED network
        \/ /\ due # {}
           /\ MustPost(q[i])
           /\ entries' = [q EXCEPT ![i].attempted = TRUE]
           /\ disk' = entries'
           /\ posts' = posts \cup {i}
           /\ flush' = [pc |-> "post", at |-> i]
           /\ UNCHANGED undos
        \/ /\ due # {}
           /\ MustUndo(q[i])
           /\ entries' = q
           /\ undos' = undos \cup {q[i].feedbackId}
           /\ disk' = saved
           /\ flush' = [pc |-> "undo", at |-> i]
           /\ UNCHANGED posts

\* Called on `online` and from the settings page.
BeginFlush ==
    /\ flush.pc = "idle"
    /\ Proceed(entries, 1, disk)
    /\ UNCHANGED <<undoing, events, aged, faults, history>>

\* Mutant: the cancellation that came during the POST is forgotten.
AcknowledgedAsActive(e, n) == [e EXCEPT !.feedbackId = n, !.syncError = "null"]

\* Mutant: every acknowledged entry is marked for undo.
AcknowledgedForUndo(e, n) ==
    [e EXCEPT !.feedbackId = n, !.undone = TRUE, !.syncError = "undo_pending"]

\* An entry cancelled while its POST was on its way must now be undone.
Acknowledged(e, n) ==
    [e EXCEPT !.feedbackId = n, !.undone = @ \/ e.cancelled,
              !.syncError = IF e.undone \/ e.cancelled THEN "undo_pending" ELSE "null"]

\* The entry is looked at again: now that it has its id it may need an undo.
PostAnswered ==
    LET i == flush.at IN
    /\ flush.pc = "post"
    /\ \E n \in EventsOf(i) : Proceed([entries EXCEPT ![i] = Acknowledged(@, n)], i, disk)
    /\ UNCHANGED <<undoing, events, aged, faults, history>>

FlushUndoAnswered ==
    LET i == flush.at IN
    /\ flush.pc = "undo"
    /\ events[entries[i].feedbackId].undone
    /\ Proceed([entries EXCEPT ![i].syncError = "null"], i + 1, disk)
    /\ UNCHANGED <<undoing, events, aged, faults, history>>

\* A permanent rejection keeps the record but stops retrying it.
Rejected(e) == [e EXCEPT !.syncError = "failed", !.cancelled = TRUE]

\* Any ApiError but those isRetryable names, and any other exception.
PostRefused ==
    LET i == flush.at IN
    /\ flush.pc = "post"
    /\ Fault
    /\ Proceed([entries EXCEPT ![i] = Rejected(@)], i + 1, disk)
    /\ rejected' = rejected \cup {i}
    /\ UNCHANGED <<undoing, events, aged, asked, stuck>>

FlushUndoRefused ==
    LET i == flush.at IN
    /\ flush.pc = "undo"
    /\ Fault
    /\ Proceed([entries EXCEPT ![i].syncError = "failed"], i + 1, disk)
    /\ stuck' = stuck \cup {i}
    /\ UNCHANGED <<undoing, events, aged, asked, rejected>>

\* A retryable failure breaks out of the loop.
FlushBreaks ==
    LET failure == IF flush.pc = "post" THEN "failed" ELSE "undo_pending" IN
    /\ flush.pc \in {"post", "undo"}
    /\ Fault
    /\ FinishFlush([entries EXCEPT ![flush.at].syncError = failure])
    /\ UNCHANGED <<undoing, network, events, aged, history>>

-----------------------------------------------------------------------------
(* The user                                                                *)

\* submit() ends in flush(), which joins a flush already running.
Submit(i) ==
    LET q == [entries EXCEPT ![i] = [NewEntry EXCEPT !.place = "queued"]] IN
    /\ entries[i].place = "none"
    /\ \A j \in 1 .. (i - 1) : entries[j].place # "none"
    /\ \/ /\ flush.pc = "idle"
          /\ Proceed(q, 1, q)
       \/ /\ flush.pc # "idle"
          /\ entries' = q
          /\ disk' = q
          /\ UNCHANGED <<flush, network>>
    /\ UNCHANGED <<undoing, events, aged, faults, history>>

Undo(i) ==
    LET e == entries[i] IN
    /\ e.place = "queued"
    /\ ~e.cancelled
    /\ ~e.undone
    /\ \/ /\ e.feedbackId = 0
          /\ entries' = [entries EXCEPT ![i].cancelled = TRUE]
          /\ UNCHANGED <<undoing, undos>>
       \/ /\ e.feedbackId # 0
          /\ entries' = [entries EXCEPT ![i] =
                             [@ EXCEPT !.undone = TRUE, !.syncError = "undo_pending"]]
          /\ undoing' = undoing \cup {i}
          /\ undos' = undos \cup {e.feedbackId}
    /\ disk' = entries'
    /\ asked' = asked \cup {i}
    /\ UNCHANGED <<flush, posts, events, aged, faults, rejected, stuck>>

UndoAnswered(i) ==
    /\ i \in undoing
    /\ events[entries[i].feedbackId].undone
    /\ entries' = [entries EXCEPT ![i].syncError = "null"]
    /\ disk' = entries'
    /\ undoing' = undoing \ {i}
    /\ UNCHANGED <<flush, network, events, aged, faults, history>>

\* A retryable failure leaves the undo to the flush, any other takes it back.
UndoFails(i) ==
    /\ i \in undoing
    /\ Fault
    /\ \/ UNCHANGED <<entries, stuck>>
       \/ /\ entries' = [entries EXCEPT ![i] =
                             [@ EXCEPT !.undone = FALSE, !.syncError = "failed"]]
          /\ stuck' = stuck \cup {i}
    /\ disk' = entries'
    /\ undoing' = undoing \ {i}
    /\ UNCHANGED <<flush, network, events, aged, asked, rejected>>

-----------------------------------------------------------------------------
\* The page is closed or dies and is opened again; the start flushes at once.
Reload ==
    /\ Fault
    /\ Proceed(disk, 1, disk)
    /\ undoing' = {}
    /\ UNCHANGED <<events, aged, history>>

SevenDaysPass(i) ==
    /\ entries[i].place = "queued"
    /\ aged' = aged \cup 1 .. i
    /\ UNCHANGED <<client, network, events, faults, history>>

Flushing == BeginFlush \/ PostAnswered \/ FlushUndoAnswered

Next ==
    \/ Flushing
    \/ PostRefused
    \/ FlushUndoRefused
    \/ FlushBreaks
    \/ Reload
    \/ \E i \in Ids :
           \/ Submit(i)
           \/ Undo(i)
           \/ UndoAnswered(i)
           \/ UndoFails(i)
           \/ CreateFeedback(i)
           \/ SevenDaysPass(i)
    \/ \E n \in 1 .. Len(events) : UndoFeedback(n)

Spec == Init /\ [][Next]_vars

\* The user comes back to the app and the server answers what reaches it.
Fairness ==
    /\ WF_vars(Flushing)
    /\ \A i \in Ids : WF_vars(CreateFeedback(i)) /\ WF_vars(UndoAnswered(i))
    /\ WF_vars(\E n \in 1 .. Len(events) : UndoFeedback(n))

FairSpec == Spec /\ Fairness

-----------------------------------------------------------------------------
(* Properties                                                              *)

\* What pendingCount counts.
Pending(e) ==
    \/ e.feedbackId = 0 /\ (e.cancelled => e.attempted)
    \/ e.syncError = "undo_pending"

Settled(i) == ~Pending(entries[i]) /\ entries[i].syncError = "null"

Shown(i) == entries[i].place = "queued" /\ ~entries[i].cancelled /\ ~entries[i].undone

Active == {n \in 1 .. Len(events) : ~events[n].undone}

\* An entry with nothing left to sync is active on the server exactly when
\* the client shows it, however requests, undos and reloads interleaved.
\* Only an undo the server refused for good escapes.
InSync ==
    \A i \in Ids \ stuck :
        entries[i].place = "queued" /\ Settled(i) =>
            (Shown(i) <=> EventsOf(i) \cap Active # {})

Largest(S) == IF S = {} THEN 0 ELSE Max(S)

\* Entries forgotten before they were in sync.
Lost == {i \in Ids : entries[i].place = "dropped" /\ Pending(entries[i])}

\* When all is settled, the newest feedback the client shows is the newest
\* active one of the server, the one its ranking uses.
LatestAgrees ==
    LET shown == Largest({i \in Ids : Shown(i)}) IN
    /\ \A i \in Ids : entries[i].place = "queued" => Settled(i)
    /\ stuck \cup Lost = {}
    /\ shown # 0
    => events[Largest(Active)].key = shown

\* Feedback is taken back on the server only if the user undid it or the
\* client was told that its submission had failed for good.
UndoneForCause ==
    \A n \in 1 .. Len(events) : events[n].undone => events[n].key \in asked \cup rejected

\* Once requests stop failing nothing stays pending.  A refused undo() may:
\* a flush that then fails writes undo_pending over an entry not undone.
Drains ==
    \A i \in Ids :
        <>[](entries[i].place = "queued" /\ i \notin stuck => ~Pending(entries[i]))

\* The filter drops fully settled entries only: one that the user took back
\* is not forgotten while its feedback is active on the server.
DropsOnlySettled ==
    [][\A i \in asked :
          entries'[i].place = "dropped" /\ entries[i].place # "dropped" =>
              EventsOf(i) \cap Active = {}]_vars
=============================================================================
