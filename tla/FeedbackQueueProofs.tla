------------------------- MODULE FeedbackQueueProofs -------------------------
(***************************************************************************)
(* What the client shows and what the server holds, for any number of      *)
(* entries and faults: an entry with nothing left to sync is in sync,      *)
(* nothing is taken back on the server without a cause, and the newest     *)
(* feedback shown is the newest one active there.                          *)
(***************************************************************************)
EXTENDS FeedbackQueue, CommonLemmas

Queues == [Ids -> Entry]
Flushes == [pc : {"idle", "post", "undo"}, at : Ids]

(* Why an entry may be taken back.                                         *)
Cause == asked \cup rejected

(* What holds of the record e of entry i, in memory and in storage.        *)
Sound(e, i, cause, exempt) ==
    /\ e.place = "none" => ~e.attempted /\ e.feedbackId = 0
    /\ e.feedbackId # 0 => e.feedbackId \in EventsOf(i)
    /\ e.undone \/ e.cancelled => i \in cause
    /\ i \notin exempt /\ e.feedbackId # 0 =>
          /\ e.undone /\ e.syncError = "null" => events[e.feedbackId].undone
          /\ e.cancelled => e.undone

TakenBack(e) == e.undone \/ e.cancelled

(* A queue in memory and one in storage that fit the server and the        *)
(* requests under way: both know what was sent, an undo that was sent has  *)
(* a cause that both know, and storage is behind only where it does no     *)
(* harm.                                                                   *)
Consistent(q, saved, cause, exempt) ==
    /\ \A i \in Ids : Sound(q[i], i, cause, exempt) /\ Sound(saved[i], i, cause, exempt)
    /\ \A i \in posts : q[i].attempted /\ saved[i].attempted
    /\ \A i \in Ids \ exempt : q[i].undone => TakenBack(saved[i])
    /\ \A n \in 1 .. Len(events) :
          events[n].undone \/ n \in undos =>
              /\ events[n].key \in cause
              /\ events[n].key \notin exempt =>
                    TakenBack(q[events[n].key]) /\ TakenBack(saved[events[n].key])

(* An event is the only one of its key, and answers a POST.                *)
Keyed ==
    /\ \A n, m \in 1 .. Len(events) : events[n].key = events[m].key => n = m
    /\ \A n \in 1 .. Len(events) : events[n].key \in posts

(* What awaits an answer still wants it.                                   *)
Awaited ==
    /\ flush.pc = "post" => disk = entries /\ entries[flush.at].feedbackId = 0
    /\ \A i \in undoing : entries[i].feedbackId # 0

(* A submission was dealt with: acknowledged, or given up.                 *)
Handled(e) == e.feedbackId # 0 \/ e.cancelled

(* What an entry may look like.  Only an undo refused for good leaves      *)
(* "failed" or a pending undo on an acknowledged entry the user has back.  *)
RowOK(e, i, exempt) ==
    /\ e.place = "dropped" => Handled(e)
    /\ i \notin exempt /\ e.feedbackId # 0 =>
          e.syncError # "failed" /\ (e.syncError = "undo_pending" => e.undone)

(* The queue keeps its order on the way to the server.  When the POST of   *)
(* an entry is sent the older ones are dealt with; an entry is forgotten   *)
(* only after the older ones were or if they are taken back; and an event  *)
(* that comes after the event of a younger entry is taken back.            *)
Ordered(q, saved, exempt) ==
    /\ \A i \in Ids : /\ RowOK(q[i], i, exempt)
                      /\ RowOK(saved[i], i, exempt)
                      /\ q[i].place = saved[i].place
    /\ \A j, k \in Ids : j < k /\ q[k].place # "none" => q[j].place # "none"
    /\ \A j \in Ids, k \in posts : j < k => Handled(q[j]) /\ Handled(saved[j])
    /\ \A j \in Ids, k \in posts : j < k /\ q[k].place = "dropped" =>
          \/ j \in exempt
          \/ q[j].place = "dropped"
          \/ TakenBack(q[j]) /\ TakenBack(saved[j])
    /\ \A m, n \in 1 .. Len(events) : m < n /\ events[n].key < events[m].key =>
          \/ events[n].key \in exempt
          \/ TakenBack(q[events[n].key]) /\ TakenBack(saved[events[n].key])

(* A pass that waits has dealt with the entries before the one it is at.   *)
PassOK ==
    /\ flush.pc # "idle" =>
          /\ entries[flush.at].place # "none"
          /\ \A j \in Ids : j < flush.at => Handled(entries[j])
    /\ flush.pc = "undo" =>
          /\ entries[flush.at].feedbackId # 0
          /\ entries[flush.at].undone \/ flush.at \in stuck

AgedOK == \A j, k \in Ids : j < k /\ k \in aged => j \in aged

OrderInv == Ordered(entries, disk, stuck) /\ PassOK /\ AgedOK

QueueInv == TypeOK /\ Consistent(entries, disk, Cause, stuck) /\ Keyed /\ Awaited

-----------------------------------------------------------------------------
(* Records and numbers                                                     *)

LEMMA NewEntryFacts ==
    /\ NewEntry \in Entry /\ NewEntry.place = "none" /\ NewEntry.feedbackId = 0
    /\ ~NewEntry.attempted /\ ~NewEntry.undone /\ ~NewEntry.cancelled
    /\ NoFlush \in Flushes /\ NoFlush.pc = "idle"
BY QueueAssumption DEF NewEntry, Entry, NoFlush, Flushes, Ids

LEMMA AcknowledgedFacts ==
    ASSUME NEW e \in Entry, NEW n \in Nat
    PROVE  LET a == Acknowledged(e, n) IN
           /\ a \in Entry /\ a.place = e.place /\ a.attempted = e.attempted
           /\ a.feedbackId = n /\ a.cancelled = e.cancelled
           /\ a.undone = TakenBack(e)
           /\ TakenBack(e) => a.syncError = "undo_pending"
           /\ ~TakenBack(e) => a.syncError = "null"
<1> DEFINE back == e.undone \/ e.cancelled
<1>1. back \in BOOLEAN
  BY DEF Entry
<1>2. CASE e.undone \/ e.cancelled
  BY <1>2 DEF Acknowledged, Entry, TakenBack
<1>3. CASE ~(e.undone \/ e.cancelled)
  BY <1>3 DEF Acknowledged, Entry, TakenBack
<1> QED
  BY <1>2, <1>3

LEMMA RejectedFacts ==
    ASSUME NEW e \in Entry
    PROVE  LET r == Rejected(e) IN
           /\ r \in Entry /\ r.place = e.place /\ r.attempted = e.attempted
           /\ r.feedbackId = e.feedbackId /\ r.cancelled /\ r.undone = e.undone
           /\ r.syncError = "failed"
BY DEF Rejected, Entry

LEMMA EventFacts ==
    ASSUME TypeOK, NEW n \in 1 .. Len(events)
    PROVE  events[n].key \in Ids /\ events[n].undone \in BOOLEAN
<1> DEFINE E == [key : Ids, undone : BOOLEAN]
<1>1. events \in Seq(E)
  BY DEF TypeOK
<1> HIDE DEF E
<1>2. events[n] \in E
  BY <1>1
<1> QED
  BY <1>2 DEF E

-----------------------------------------------------------------------------
(* The flush                                                               *)

(* What a pass over queue q does to an entry.                              *)
Kept(e, f) ==
    /\ f.feedbackId = e.feedbackId /\ f.undone = e.undone /\ f.cancelled = e.cancelled
    /\ f.syncError = e.syncError
    /\ e.attempted => f.attempted
    /\ f.place = "none" => f = e

(* What it does to the client and the network, up to the next await.       *)
Moved(q, saved) ==
    /\ entries' \in Queues /\ disk' \in Queues /\ flush' \in Flushes
    /\ \A i \in Ids : Kept(q[i], entries'[i])
    /\ disk' = entries' \/ (disk' = saved /\ entries' = q /\ flush'.pc = "undo")
    /\ flush'.pc = "post" => disk' = entries' /\ entries'[flush'.at].feedbackId = 0
    /\ \A i \in posts' : i \in Ids /\ (i \in posts \/ (entries'[i].attempted /\ disk' = entries'))
    /\ posts \subseteq posts'
    /\ \A n \in undos' : n \in undos \/ \E i \in Ids :
                             n = q[i].feedbackId /\ q[i].feedbackId # 0 /\ q[i].undone

LEMMA FinishMoves ==
    ASSUME TypeOK, NEW q \in Queues, NEW saved \in Queues,
           FinishFlush(q), UNCHANGED network
    PROVE  Moved(q, saved)
<1>1. entries' = Filtered(q) /\ disk' = entries' /\ flush' = NoFlush
      /\ posts' = posts /\ undos' = undos
  BY DEF FinishFlush, network
<1>2. ASSUME NEW i \in Ids PROVE entries'[i] \in Entry /\ Kept(q[i], entries'[i])
  <2>1. q[i] \in Entry
    BY DEF Queues
  <2>2. entries'[i] = q[i] \/ entries'[i] = [q[i] EXCEPT !.place = "dropped"]
    BY <1>1 DEF Filtered
  <2> QED
    BY <2>1, <2>2 DEF Kept, Entry
<1>3. entries' \in Queues
  BY <1>1, <1>2 DEF Filtered, Queues
<1>4. flush' \in Flushes /\ flush'.pc = "idle"
  BY <1>1, NewEntryFacts
<1>5. posts \subseteq Ids
  BY DEF TypeOK
<1> QED
  BY <1>1, <1>2, <1>3, <1>4, <1>5 DEF Moved

LEMMA ProceedMoves ==
    ASSUME TypeOK, NEW q \in Queues, NEW saved \in Queues, NEW from \in Nat \ {0},
           Proceed(q, from, saved)
    PROVE  Moved(q, saved)
<1> DEFINE due == {i \in from .. MaxEntries : MustPost(q[i]) \/ MustUndo(q[i])}
           m == Min(due)
<1>1. CASE due = {}
  BY <1>1, FinishMoves DEF Proceed
<1>2. due # {} => m \in Ids
  <2>1. due \in SUBSET Nat /\ due \subseteq Ids
    BY QueueAssumption DEF Ids
  <2> HIDE DEF due
  <2> QED
    BY <2>1, MinOf
<1>3. posts \subseteq Ids
  BY DEF TypeOK
<1>4. CASE /\ due # {}
           /\ MustPost(q[m])
           /\ entries' = [q EXCEPT ![m].attempted = TRUE]
           /\ disk' = entries'
           /\ posts' = posts \cup {m}
           /\ flush' = [pc |-> "post", at |-> m]
           /\ UNCHANGED undos
  <2> HIDE DEF m
  <2>1. m \in Ids /\ q[m] \in Entry
    BY <1>2, <1>4 DEF Queues
  <2>2. q[m].place = "queued" /\ q[m].feedbackId = 0
    BY <1>4 DEF MustPost
  <2>3. PICK e \in Entry : e = [q[m] EXCEPT !.attempted = TRUE]
    BY <2>1 DEF Entry
  <2>4. e.place = "queued" /\ e.attempted /\ Kept(q[m], e)
    BY <2>1, <2>2, <2>3 DEF Kept, Entry
  <2>5. entries' = [q EXCEPT ![m] = e]
    BY <1>4, <2>1, <2>3 DEF Queues
  <2>6. entries' \in Queues /\ entries'[m] = e /\ \A i \in Ids \ {m} : entries'[i] = q[i]
    BY <2>1, <2>5 DEF Queues
  <2>7. \A i \in Ids : Kept(q[i], entries'[i])
    BY <2>4, <2>6 DEF Kept
  <2>8. flush' \in Flushes /\ flush'.pc = "post" /\ flush'.at = m
    BY <1>4, <2>1 DEF Flushes
  <2>9. e.feedbackId = 0
    BY <2>2, <2>4 DEF Kept
  <2> QED
    BY <1>3, <1>4, <2>1, <2>4, <2>6, <2>7, <2>8, <2>9 DEF Moved
<1>5. CASE /\ due # {}
           /\ MustUndo(q[m])
           /\ entries' = q
           /\ undos' = undos \cup {q[m].feedbackId}
           /\ disk' = saved
           /\ flush' = [pc |-> "undo", at |-> m]
           /\ UNCHANGED posts
  <2> HIDE DEF m
  <2>1. m \in Ids /\ q[m].feedbackId # 0 /\ q[m].undone
    BY <1>2, <1>5 DEF MustUndo
  <2>2. flush' \in Flushes /\ flush'.pc = "undo"
    BY <1>5, <2>1 DEF Flushes
  <2>3. \A i \in Ids : Kept(q[i], entries'[i])
    BY <1>5 DEF Kept
  <2> QED
    BY <1>3, <1>5, <2>1, <2>2, <2>3 DEF Moved
<1> QED
  BY <1>1, <1>4, <1>5 DEF Proceed

(* Whatever a pass over a consistent queue does leaves a consistent state. *)
LEMMA MovedInv ==
    ASSUME QueueInv, NEW q \in Queues, NEW saved \in Queues, Moved(q, saved),
           Consistent(q, saved, Cause', stuck'),
           events' = events, aged' \subseteq Ids, faults' \in 0 .. MaxFaults,
           undoing' \subseteq Ids, \A i \in undoing' : q[i].feedbackId # 0,
           asked' \cup rejected' \cup stuck' \subseteq Ids
    PROVE  QueueInv'
<1>1. \A i \in Ids : Kept(q[i], entries'[i])
  BY DEF Moved
<1>2. \A i \in Ids : Sound(q[i], i, Cause', stuck') /\ Sound(saved[i], i, Cause', stuck')
  BY DEF Consistent
<1>3. ASSUME NEW i \in Ids PROVE Sound(entries'[i], i, Cause', stuck')
  BY <1>1, <1>2 DEF Kept, Sound
<1>4. \A i \in Ids : Sound(disk'[i], i, Cause', stuck')
  BY <1>2, <1>3 DEF Moved
<1>5. \A i \in Ids : TakenBack(entries'[i]) <=> TakenBack(q[i])
  BY <1>1 DEF Kept, TakenBack
<1>6. \A i \in Ids \ stuck' : entries'[i].undone => TakenBack(disk'[i])
  BY <1>1, <1>5 DEF Moved, Consistent, TakenBack
<1>7. \A i \in posts' : entries'[i].attempted /\ disk'[i].attempted
  <2> SUFFICES ASSUME NEW i \in posts' PROVE entries'[i].attempted /\ disk'[i].attempted
    OBVIOUS
  <2>1. i \in Ids /\ (i \in posts \/ (entries'[i].attempted /\ disk' = entries'))
    BY DEF Moved
  <2>2. i \in posts => q[i].attempted /\ saved[i].attempted
    BY DEF Consistent
  <2>3. i \in posts => entries'[i].attempted
    BY <1>1, <2>1, <2>2 DEF Kept
  <2> QED
    BY <2>1, <2>2, <2>3 DEF Moved
<1>8. ASSUME NEW n \in 1 .. Len(events), events[n].undone \/ n \in undos'
      PROVE  /\ events[n].key \in Cause'
             /\ events[n].key \notin stuck' =>
                   TakenBack(entries'[events[n].key]) /\ TakenBack(disk'[events[n].key])
  <2> DEFINE k == events[n].key
  <2>1. k \in Ids
    BY EventFacts DEF QueueInv
  <2>2. /\ k \in Cause'
        /\ k \notin stuck' => TakenBack(q[k]) /\ TakenBack(saved[k])
    <3>1. CASE events[n].undone \/ n \in undos
      BY <3>1 DEF Consistent
    <3>2. CASE n \notin undos /\ n \in undos'
      <4>1. PICK i \in Ids : n = q[i].feedbackId /\ q[i].feedbackId # 0 /\ q[i].undone
        BY <3>2 DEF Moved
      <4>2. n \in EventsOf(i) /\ i \in Cause'
        BY <1>2, <4>1 DEF Sound
      <4>3. i = k
        BY <4>2 DEF EventsOf
      <4> QED
        BY <4>1, <4>2, <4>3 DEF Consistent, TakenBack
    <3> QED
      BY <1>8, <3>1, <3>2
  <2>3. k \notin stuck' => TakenBack(entries'[k])
    BY <1>5, <2>1, <2>2
  <2> QED
    BY <2>2, <2>3 DEF Moved
<1>9. Consistent(entries, disk, Cause, stuck)'
  BY <1>3, <1>4, <1>6, <1>7, <1>8 DEF Consistent, Sound, EventsOf
<1>10. Keyed'
  BY DEF QueueInv, Keyed, Moved
<1>11. Awaited'
  <2>1. \A i \in undoing' : entries'[i].feedbackId # 0
    BY <1>1 DEF Kept
  <2> QED
    BY <2>1 DEF Awaited, Moved
<1>12. undos' \subseteq 1 .. Len(events)
  <2> SUFFICES ASSUME NEW n \in undos' PROVE n \in 1 .. Len(events)
    OBVIOUS
  <2>1. CASE n \in undos
    BY <2>1 DEF QueueInv, TypeOK
  <2>2. CASE n \notin undos
    BY <1>2, <2>2 DEF Moved, Sound, EventsOf
  <2> QED
    BY <2>1, <2>2
<1>13. TypeOK'
  BY <1>12 DEF QueueInv, TypeOK, Moved, Queues, Flushes
<1> QED
  BY <1>9, <1>10, <1>11, <1>13 DEF QueueInv
-----------------------------------------------------------------------------
(* The actions that run the flush                                          *)

LEMMA Consistency == QueueInv => Consistent(entries, disk, Cause, stuck)
BY DEF QueueInv

LEMMA QueueTypes ==
    ASSUME QueueInv
    PROVE  /\ entries \in Queues /\ disk \in Queues /\ flush \in Flushes
           /\ aged \subseteq Ids /\ faults \in 0 .. MaxFaults /\ undoing \subseteq Ids
           /\ asked \subseteq Ids /\ rejected \subseteq Ids /\ stuck \subseteq Ids
           /\ posts \subseteq Ids /\ undos \subseteq 1 .. Len(events)
BY DEF QueueInv, TypeOK, Queues, Flushes

LEMMA FaultFacts == QueueInv /\ Fault => faults' \in 0 .. MaxFaults
BY QueueTypes, QueueAssumption DEF Fault

(* A change to one entry that is as sound and as well known as the old one; *)
(* it may be saved at once, and later if storage knows enough of it.        *)
LEMMA OneChanged ==
    ASSUME QueueInv, NEW i \in Ids, NEW e \in Entry, NEW cause, NEW exempt,
           Cause \subseteq cause, stuck \subseteq exempt,
           Sound(e, i, cause, exempt),
           entries[i].attempted => e.attempted,
           i \in posts /\ i \notin exempt /\ TakenBack(entries[i]) => TakenBack(e),
           e.feedbackId # 0 \/ entries[i].feedbackId = 0
    PROVE  LET q == [entries EXCEPT ![i] = e] IN
           /\ q \in Queues /\ Consistent(q, q, cause, exempt)
           /\ (i \notin exempt /\ e.undone => TakenBack(disk[i])) =>
                 Consistent(q, disk, cause, exempt)
           /\ \A j \in undoing : q[j].feedbackId # 0
<1> DEFINE q == [entries EXCEPT ![i] = e]
<1>1. q \in Queues /\ q[i] = e /\ \A j \in Ids \ {i} : q[j] = entries[j]
  BY QueueTypes DEF Queues
<1> HIDE DEF q
<1>2. \A j \in Ids : Sound(entries[j], j, Cause, stuck) /\ Sound(disk[j], j, Cause, stuck)
  BY Consistency DEF Consistent
<1>3. \A j \in Ids : Sound(entries[j], j, cause, exempt) /\ Sound(disk[j], j, cause, exempt)
  BY <1>2 DEF Sound
<1>4. \A j \in Ids : Sound(q[j], j, cause, exempt)
  BY <1>1, <1>3
<1>5. \A j \in posts : q[j].attempted /\ disk[j].attempted
  BY <1>1, Consistency, QueueTypes DEF Consistent
<1>6. (i \notin exempt /\ e.undone => TakenBack(disk[i])) =>
         \A j \in Ids \ exempt : q[j].undone => TakenBack(disk[j])
  BY <1>1, Consistency DEF Consistent
<1>7. ASSUME NEW n \in 1 .. Len(events), events[n].undone \/ n \in undos
      PROVE  /\ events[n].key \in cause
             /\ events[n].key \notin exempt =>
                   TakenBack(q[events[n].key]) /\ TakenBack(disk[events[n].key])
  <2>1. events[n].key \in Ids /\ events[n].key \in posts
    BY EventFacts DEF QueueInv, Keyed
  <2>2. /\ events[n].key \in Cause
        /\ events[n].key \notin stuck =>
              TakenBack(entries[events[n].key]) /\ TakenBack(disk[events[n].key])
    BY <1>7, Consistency DEF Consistent
  <2> QED
    BY <1>1, <2>1, <2>2
<1>8. \A j \in undoing : q[j].feedbackId # 0
  BY <1>1, QueueTypes DEF QueueInv, Awaited
<1>9. Consistent(q, q, cause, exempt)
  BY <1>4, <1>5, <1>7 DEF Consistent, TakenBack
<1>10. (i \notin exempt /\ e.undone => TakenBack(disk[i])) => Consistent(q, disk, cause, exempt)
  BY <1>3, <1>4, <1>5, <1>6, <1>7 DEF Consistent
<1> QED
  BY <1>1, <1>8, <1>9, <1>10 DEF q

(* Another value of entry i that a request changed only the state of.      *)
LEMMA StateFacts ==
    ASSUME NEW e \in Entry, NEW state \in {"null", "undo_pending", "failed"}
    PROVE  LET f == [e EXCEPT !.syncError = state] IN
           /\ f \in Entry /\ f.place = e.place /\ f.attempted = e.attempted
           /\ f.feedbackId = e.feedbackId /\ f.cancelled = e.cancelled
           /\ f.undone = e.undone /\ f.syncError = state
BY DEF Entry

LEMMA BeginFlushInv == QueueInv /\ BeginFlush => QueueInv'
<1> SUFFICES ASSUME QueueInv, BeginFlush PROVE QueueInv'
  OBVIOUS
<1>1. Moved(entries, disk)
  BY QueueTypes, ProceedMoves DEF BeginFlush, QueueInv
<1>2. UNCHANGED <<undoing, events, aged, faults, asked, rejected, stuck>>
  BY DEF BeginFlush, history
<1>3. Cause' = Cause
  BY <1>2 DEF Cause
<1>4. \A i \in undoing : entries[i].feedbackId # 0
  BY DEF QueueInv, Awaited
<1> QED
  BY <1>1, <1>2, <1>3, <1>4, QueueTypes, Consistency, MovedInv

LEMMA PostAnsweredInv == QueueInv /\ PostAnswered => QueueInv'
<1> SUFFICES ASSUME QueueInv, PostAnswered PROVE QueueInv'
  OBVIOUS
<1> DEFINE i == flush.at
<1>0. i \in Ids /\ entries[i] \in Entry
  BY QueueTypes DEF Flushes, Queues
<1>1. PICK n \in EventsOf(i) : Proceed([entries EXCEPT ![i] = Acknowledged(@, n)], i, disk)
  BY DEF PostAnswered
<1>2. n \in Nat /\ n # 0 /\ n \in 1 .. Len(events) /\ events[n].key = i
  BY QueueTypes DEF EventsOf, QueueInv, TypeOK
<1>3. PICK e : e = Acknowledged(entries[i], n)
  OBVIOUS
<1>4. /\ e \in Entry /\ e.place = entries[i].place /\ e.attempted = entries[i].attempted
      /\ e.feedbackId = n /\ e.cancelled = entries[i].cancelled
      /\ e.undone = TakenBack(entries[i])
      /\ TakenBack(entries[i]) => e.syncError = "undo_pending"
  BY <1>0, <1>2, <1>3, AcknowledgedFacts
<1>5. disk = entries
  BY DEF PostAnswered, QueueInv, Awaited
<1>6. entries[i].place # "none"
  <2>1. i \in posts
    BY <1>2 DEF QueueInv, Keyed
  <2> QED
    BY <1>0, <2>1, Consistency DEF Consistent, Sound
<1>7. Sound(e, i, Cause, stuck)
  <2>1. Sound(entries[i], i, Cause, stuck)
    BY <1>0, Consistency DEF Consistent
  <2> QED
    BY <1>1, <1>4, <1>6, <2>1 DEF Sound, TakenBack
<1> DEFINE q == [entries EXCEPT ![i] = e]
<1>8. q \in Queues /\ Consistent(q, disk, Cause, stuck) /\ \A j \in undoing : q[j].feedbackId # 0
  BY <1>0, <1>2, <1>4, <1>5, <1>7, OneChanged DEF TakenBack
<1>9. Proceed(q, i, disk)
  BY <1>1, <1>3
<1> HIDE DEF q
<1>10. Moved(q, disk)
  <2>1. i \in Nat \ {0}
    BY <1>0, QueueAssumption DEF Ids
  <2> QED
    BY <1>8, <1>9, <2>1, QueueTypes, ProceedMoves DEF QueueInv
<1>11. UNCHANGED <<undoing, events, aged, faults, asked, rejected, stuck>>
  BY DEF PostAnswered, history
<1>12. Cause' = Cause
  BY <1>11 DEF Cause
<1> QED
  BY <1>8, <1>10, <1>11, <1>12, QueueTypes, MovedInv

(* The flush goes on after its entry got another state.                    *)
LEMMA FlushGoesOn ==
    ASSUME QueueInv, NEW e \in Entry,
           Sound(e, flush.at, Cause', stuck'),
           Cause \subseteq Cause', stuck \subseteq stuck',
           e.attempted = entries[flush.at].attempted,
           e.undone = entries[flush.at].undone,
           TakenBack(entries[flush.at]) => TakenBack(e),
           e.feedbackId = entries[flush.at].feedbackId,
           \/ Proceed([entries EXCEPT ![flush.at] = e], flush.at + 1, disk)
           \/ (FinishFlush([entries EXCEPT ![flush.at] = e]) /\ UNCHANGED network),
           events' = events, aged' = aged, undoing' = undoing, faults' \in 0 .. MaxFaults,
           asked' \cup rejected' \cup stuck' \subseteq Ids
    PROVE  QueueInv'
<1> DEFINE i == flush.at
           q == [entries EXCEPT ![i] = e]
<1>0. i \in Ids /\ i + 1 \in Nat \ {0}
  BY QueueTypes, QueueAssumption DEF Flushes, Ids
<1>1. i \notin stuck /\ entries[i].undone => TakenBack(disk[i])
  BY <1>0, Consistency DEF Consistent
<1>2. q \in Queues /\ Consistent(q, disk, Cause', stuck')
      /\ \A j \in undoing : q[j].feedbackId # 0
  BY <1>0, <1>1, OneChanged
<1>4. Proceed(q, i + 1, disk) \/ (FinishFlush(q) /\ UNCHANGED network)
  OBVIOUS
<1> HIDE DEF q
<1>5. Moved(q, disk)
  BY <1>0, <1>2, <1>4, QueueTypes, ProceedMoves, FinishMoves DEF QueueInv
<1> QED
  BY <1>2, <1>5, QueueTypes, MovedInv

LEMMA AtFacts ==
    ASSUME QueueInv
    PROVE  /\ flush.at \in Ids /\ entries[flush.at] \in Entry
           /\ Sound(entries[flush.at], flush.at, Cause, stuck)
BY QueueTypes, Consistency DEF Flushes, Queues, Consistent

LEMMA FlushUndoAnsweredInv == QueueInv /\ FlushUndoAnswered => QueueInv'
<1> SUFFICES ASSUME QueueInv, FlushUndoAnswered PROVE QueueInv'
  OBVIOUS
<1> DEFINE i == flush.at
<1>1. PICK e : e = [entries[i] EXCEPT !.syncError = "null"]
  OBVIOUS
<1>2. /\ e \in Entry /\ e.place = entries[i].place /\ e.attempted = entries[i].attempted
      /\ e.feedbackId = entries[i].feedbackId /\ e.cancelled = entries[i].cancelled
      /\ e.undone = entries[i].undone
  BY <1>1, AtFacts, StateFacts
<1>3. /\ events[entries[i].feedbackId].undone
      /\ Proceed([entries EXCEPT ![i] = e], i + 1, disk)
      /\ UNCHANGED <<undoing, events, aged, faults, asked, rejected, stuck>>
  BY <1>1 DEF FlushUndoAnswered, history
<1>4. Cause' = Cause
  BY <1>3 DEF Cause
<1>5. Sound(e, i, Cause', stuck')
  BY <1>2, <1>3, <1>4, AtFacts DEF Sound
<1> QED
  BY <1>2, <1>3, <1>4, <1>5, QueueTypes, FlushGoesOn DEF TakenBack

LEMMA PostRefusedInv == QueueInv /\ PostRefused => QueueInv'
<1> SUFFICES ASSUME QueueInv, PostRefused PROVE QueueInv'
  OBVIOUS
<1> DEFINE i == flush.at
<1>1. PICK e : e = Rejected(entries[i])
  OBVIOUS
<1>2. /\ e \in Entry /\ e.place = entries[i].place /\ e.attempted = entries[i].attempted
      /\ e.feedbackId = entries[i].feedbackId /\ e.cancelled
      /\ e.undone = entries[i].undone
  BY <1>1, AtFacts, RejectedFacts
<1>3. /\ Proceed([entries EXCEPT ![i] = e], i + 1, disk)
      /\ rejected' = rejected \cup {i}
      /\ UNCHANGED <<undoing, events, aged, asked, stuck>>
  BY <1>1 DEF PostRefused
<1>4. Cause' = Cause \cup {i}
  BY <1>3 DEF Cause
<1>5. entries[i].feedbackId = 0
  BY DEF PostRefused, QueueInv, Awaited
<1>6. Sound(e, i, Cause', stuck')
  BY <1>2, <1>3, <1>4, <1>5, AtFacts DEF Sound
<1>7. faults' \in 0 .. MaxFaults
  BY FaultFacts DEF PostRefused
<1>8. asked' \cup rejected' \cup stuck' \subseteq Ids
  BY <1>3, AtFacts, QueueTypes
<1> QED
  BY <1>2, <1>3, <1>4, <1>6, <1>7, <1>8, FlushGoesOn DEF TakenBack

LEMMA FlushUndoRefusedInv == QueueInv /\ FlushUndoRefused => QueueInv'
<1> SUFFICES ASSUME QueueInv, FlushUndoRefused PROVE QueueInv'
  OBVIOUS
<1> DEFINE i == flush.at
<1>1. PICK e : e = [entries[i] EXCEPT !.syncError = "failed"]
  OBVIOUS
<1>2. /\ e \in Entry /\ e.place = entries[i].place /\ e.attempted = entries[i].attempted
      /\ e.feedbackId = entries[i].feedbackId /\ e.cancelled = entries[i].cancelled
      /\ e.undone = entries[i].undone
  BY <1>1, AtFacts, StateFacts
<1>3. /\ Proceed([entries EXCEPT ![i] = e], i + 1, disk)
      /\ stuck' = stuck \cup {i}
      /\ UNCHANGED <<undoing, events, aged, asked, rejected>>
  BY <1>1 DEF FlushUndoRefused
<1>4. Cause' = Cause
  BY <1>3 DEF Cause
<1>5. Sound(e, i, Cause', stuck')
  BY <1>2, <1>3, <1>4, AtFacts DEF Sound
<1>6. faults' \in 0 .. MaxFaults
  BY FaultFacts DEF FlushUndoRefused
<1>7. asked' \cup rejected' \cup stuck' \subseteq Ids
  BY <1>3, AtFacts, QueueTypes
<1> QED
  BY <1>2, <1>3, <1>4, <1>5, <1>6, <1>7, FlushGoesOn DEF TakenBack

LEMMA FlushBreaksInv == QueueInv /\ FlushBreaks => QueueInv'
<1> SUFFICES ASSUME QueueInv, FlushBreaks PROVE QueueInv'
  OBVIOUS
<1> DEFINE i == flush.at
<1>0. PICK failure \in {"undo_pending", "failed"} :
         failure = (IF flush.pc = "post" THEN "failed" ELSE "undo_pending")
  OBVIOUS
<1>1. PICK e : e = [entries[i] EXCEPT !.syncError = failure]
  OBVIOUS
<1>3. /\ FinishFlush([entries EXCEPT ![i] = e]) /\ UNCHANGED network
      /\ UNCHANGED <<undoing, events, aged, asked, rejected, stuck>>
  BY <1>0, <1>1 DEF FlushBreaks, history
<1>2. /\ e \in Entry /\ e.place = entries[i].place /\ e.attempted = entries[i].attempted
      /\ e.feedbackId = entries[i].feedbackId /\ e.cancelled = entries[i].cancelled
      /\ e.undone = entries[i].undone /\ e.syncError # "null"
  <2>1. failure \in {"null", "undo_pending", "failed"} /\ failure # "null"
    OBVIOUS
  <2> QED
    BY <1>1, <2>1, AtFacts, StateFacts
<1>4. Cause' = Cause
  BY <1>3 DEF Cause
<1>5. Sound(e, i, Cause', stuck')
  BY <1>2, <1>3, <1>4, AtFacts DEF Sound
<1>6. faults' \in 0 .. MaxFaults
  BY FaultFacts DEF FlushBreaks
<1> QED
  BY <1>2, <1>3, <1>4, <1>5, <1>6, QueueTypes, FlushGoesOn DEF TakenBack

LEMMA ReloadInv == QueueInv /\ Reload => QueueInv'
<1> SUFFICES ASSUME QueueInv, Reload PROVE QueueInv'
  OBVIOUS
<1>1. Moved(disk, disk)
  BY QueueTypes, ProceedMoves DEF Reload, QueueInv
<1>2. undoing' = {} /\ UNCHANGED <<events, aged, asked, rejected, stuck>>
  BY DEF Reload, history
<1>3. Cause' = Cause
  BY <1>2 DEF Cause
<1>4. Consistent(disk, disk, Cause, stuck)
  BY Consistency DEF Consistent, TakenBack
<1>5. faults' \in 0 .. MaxFaults
  BY FaultFacts DEF Reload
<1> QED
  BY <1>1, <1>2, <1>3, <1>4, <1>5, QueueTypes, MovedInv

-----------------------------------------------------------------------------
(* The user                                                                *)

(* An entry changes and is saved; the flush, if any, waits on.             *)
LEMMA SavedMoves ==
    ASSUME QueueInv, NEW q \in Queues, entries' = q, disk' = q, flush' = flush,
           posts' = posts, \A i \in Ids : q[i].feedbackId = entries[i].feedbackId,
           \A n \in undos' : n \in undos \/ \E i \in Ids :
               n = q[i].feedbackId /\ q[i].feedbackId # 0 /\ q[i].undone
    PROVE  Moved(q, q)
<1>1. \A i \in Ids : Kept(q[i], q[i])
  BY DEF Kept
<1>2. flush.pc = "post" => q[flush.at].feedbackId = 0
  BY QueueTypes DEF QueueInv, Awaited, Flushes
<1> QED
  BY <1>1, <1>2, QueueTypes DEF Moved

LEMMA SubmitInv ==
    ASSUME QueueInv, NEW i \in Ids, Submit(i)
    PROVE  QueueInv'
<1>1. PICK e : e = [NewEntry EXCEPT !.place = "queued"]
  OBVIOUS
<1>2. /\ e \in Entry /\ e.place = "queued" /\ e.feedbackId = 0
      /\ ~e.attempted /\ ~e.undone /\ ~e.cancelled
  BY <1>1, NewEntryFacts DEF Entry
<1> DEFINE q == [entries EXCEPT ![i] = e]
<1>3. /\ entries[i].place = "none"
      /\ \/ flush.pc = "idle" /\ Proceed(q, 1, q)
         \/ entries' = q /\ disk' = q /\ UNCHANGED <<flush, network>>
      /\ UNCHANGED <<undoing, events, aged, faults, asked, rejected, stuck>>
  BY <1>1 DEF Submit, history
<1>4. Cause' = Cause
  BY <1>3 DEF Cause
<1>5. ~entries[i].attempted /\ entries[i].feedbackId = 0 /\ i \notin posts
  BY <1>3, Consistency DEF Consistent, Sound
<1>6. Sound(e, i, Cause, stuck)
  BY <1>2 DEF Sound
<1>7. q \in Queues /\ Consistent(q, q, Cause, stuck) /\ \A j \in undoing : q[j].feedbackId # 0
  BY <1>2, <1>5, <1>6, OneChanged
<1>8. \A j \in Ids : q[j].feedbackId = entries[j].feedbackId
  BY <1>2, <1>5, QueueTypes DEF Queues
<1> HIDE DEF q
<1>9. Moved(q, q)
  <2>1. CASE Proceed(q, 1, q)
    BY <1>7, <2>1, ProceedMoves DEF QueueInv
  <2>2. CASE entries' = q /\ disk' = q /\ UNCHANGED <<flush, network>>
    BY <1>7, <1>8, <2>2, SavedMoves DEF network
  <2> QED
    BY <1>3, <2>1, <2>2
<1> QED
  BY <1>3, <1>4, <1>7, <1>9, QueueTypes, MovedInv

LEMMA UndoInv ==
    ASSUME QueueInv, NEW i \in Ids, Undo(i)
    PROVE  QueueInv'
<1> DEFINE old == entries[i]
<1>0. old \in Entry /\ Sound(old, i, Cause, stuck) /\ ~old.cancelled /\ ~old.undone
      /\ old.place = "queued"
  BY QueueTypes, Consistency DEF Queues, Consistent, Undo
<1>1. /\ asked' = asked \cup {i} /\ disk' = entries'
      /\ UNCHANGED <<flush, posts, events, aged, faults, rejected, stuck>>
  BY DEF Undo
<1>2. Cause' = Cause \cup {i} /\ asked' \cup rejected' \cup stuck' \subseteq Ids
  BY <1>1, QueueTypes DEF Cause
<1>3. PICK e \in Entry :
         /\ entries' = [entries EXCEPT ![i] = e]
         /\ e.place = "queued" /\ e.attempted = old.attempted /\ e.feedbackId = old.feedbackId
         /\ TakenBack(e)
         /\ \/ e.feedbackId = 0 /\ ~e.undone /\ UNCHANGED <<undoing, undos>>
            \/ /\ e.feedbackId # 0 /\ e.undone /\ ~e.cancelled /\ e.syncError = "undo_pending"
               /\ undoing' = undoing \cup {i} /\ undos' = undos \cup {e.feedbackId}
  <2>1. CASE old.feedbackId = 0
    <3>1. PICK e : e = [old EXCEPT !.cancelled = TRUE]
      OBVIOUS
    <3>2. e \in Entry /\ e.place = old.place /\ e.attempted = old.attempted
          /\ e.feedbackId = old.feedbackId /\ e.cancelled /\ e.undone = old.undone
      BY <1>0, <3>1 DEF Entry
    <3>3. entries' = [entries EXCEPT ![i] = e] /\ UNCHANGED <<undoing, undos>>
      BY <2>1, <3>1 DEF Undo
    <3> QED
      BY <1>0, <2>1, <3>2, <3>3 DEF TakenBack
  <2>2. CASE old.feedbackId # 0
    <3>1. PICK e : e = [old EXCEPT !.undone = TRUE, !.syncError = "undo_pending"]
      OBVIOUS
    <3>2. e \in Entry /\ e.place = old.place /\ e.attempted = old.attempted
          /\ e.feedbackId = old.feedbackId /\ e.cancelled = old.cancelled /\ e.undone
          /\ e.syncError = "undo_pending"
      BY <1>0, <3>1 DEF Entry
    <3>3. entries' = [entries EXCEPT ![i] = e] /\ undoing' = undoing \cup {i}
          /\ undos' = undos \cup {e.feedbackId}
      BY <2>2, <3>1, <3>2 DEF Undo
    <3> QED
      BY <1>0, <2>2, <3>2, <3>3 DEF TakenBack
  <2> QED
    BY <2>1, <2>2
<1> HIDE DEF old
<1>4. Sound(e, i, Cause', stuck')
  BY <1>0, <1>1, <1>2, <1>3 DEF Sound
<1> DEFINE q == [entries EXCEPT ![i] = e]
<1>5. q \in Queues /\ Consistent(q, q, Cause', stuck') /\ \A j \in undoing : q[j].feedbackId # 0
  <2>1. Cause \subseteq Cause' /\ stuck \subseteq stuck'
    BY <1>1, <1>2
  <2>2. /\ e \in Entry /\ TakenBack(e) /\ (entries[i].attempted => e.attempted)
        /\ (e.feedbackId # 0 \/ entries[i].feedbackId = 0)
    BY <1>3 DEF old
  <2> QED
    BY <1>4, <2>1, <2>2, OneChanged
<1>6. q[i] = e /\ \A j \in Ids : q[j].feedbackId = entries[j].feedbackId
  BY <1>3, QueueTypes DEF Queues, old
<1> HIDE DEF q
<1>7. Moved(q, q)
  <2>1. entries' = q /\ disk' = q /\ flush' = flush /\ posts' = posts
    BY <1>1, <1>3 DEF q
  <2>2. \A n \in undos' : n \in undos \/ \E j \in Ids :
           n = q[j].feedbackId /\ q[j].feedbackId # 0 /\ q[j].undone
    BY <1>3, <1>6
  <2> QED
    BY <1>5, <1>6, <2>1, <2>2, SavedMoves
<1>8. undoing' \subseteq Ids /\ \A j \in undoing' : q[j].feedbackId # 0
  BY <1>3, <1>5, <1>6, QueueTypes
<1> QED
  BY <1>1, <1>2, <1>5, <1>7, <1>8, QueueTypes, MovedInv

LEMMA UndoAnsweredInv ==
    ASSUME QueueInv, NEW i \in Ids, UndoAnswered(i)
    PROVE  QueueInv'
<1>0. entries[i] \in Entry /\ Sound(entries[i], i, Cause, stuck)
  BY QueueTypes, Consistency DEF Queues, Consistent
<1>1. PICK e : e = [entries[i] EXCEPT !.syncError = "null"]
  OBVIOUS
<1>2. /\ e \in Entry /\ e.place = entries[i].place /\ e.attempted = entries[i].attempted
      /\ e.feedbackId = entries[i].feedbackId /\ e.cancelled = entries[i].cancelled
      /\ e.undone = entries[i].undone
  BY <1>0, <1>1, StateFacts
<1> DEFINE q == [entries EXCEPT ![i] = e]
<1>3. /\ events[entries[i].feedbackId].undone
      /\ entries' = q /\ disk' = q /\ undoing' = undoing \ {i}
      /\ UNCHANGED <<flush, posts, undos, events, aged, faults, asked, rejected, stuck>>
  BY <1>1 DEF UndoAnswered, history, network
<1>4. Cause' = Cause
  BY <1>3 DEF Cause
<1>5. Sound(e, i, Cause, stuck)
  BY <1>0, <1>2, <1>3 DEF Sound
<1>6. q \in Queues /\ Consistent(q, q, Cause, stuck) /\ \A j \in undoing : q[j].feedbackId # 0
  BY <1>2, <1>5, OneChanged DEF TakenBack
<1>7. \A j \in Ids : q[j].feedbackId = entries[j].feedbackId
  BY <1>2, QueueTypes DEF Queues
<1> HIDE DEF q
<1>8. Moved(q, q)
  BY <1>3, <1>6, <1>7, SavedMoves
<1> QED
  BY <1>3, <1>4, <1>6, <1>8, QueueTypes, MovedInv

LEMMA UndoFailsInv ==
    ASSUME QueueInv, NEW i \in Ids, UndoFails(i)
    PROVE  QueueInv'
<1>0. entries[i] \in Entry /\ Sound(entries[i], i, Cause, stuck)
  BY QueueTypes, Consistency DEF Queues, Consistent
<1>1. PICK e : e = [entries[i] EXCEPT !.undone = FALSE, !.syncError = "failed"]
  OBVIOUS
<1>2. /\ e \in Entry /\ e.place = entries[i].place /\ e.attempted = entries[i].attempted
      /\ e.feedbackId = entries[i].feedbackId /\ e.cancelled = entries[i].cancelled
      /\ ~e.undone
  BY <1>0, <1>1 DEF Entry
<1>3. /\ disk' = entries' /\ undoing' = undoing \ {i}
      /\ UNCHANGED <<flush, posts, undos, events, aged, asked, rejected>>
  BY DEF UndoFails, network
<1>4. Cause' = Cause /\ faults' \in 0 .. MaxFaults
  BY <1>3, FaultFacts DEF Cause, UndoFails
<1>5. CASE UNCHANGED <<entries, stuck>>
  <2>1. Consistent(entries, entries, Cause, stuck)
    BY Consistency DEF Consistent, TakenBack
  <2>2. Moved(entries, entries)
    BY <1>3, <1>5, QueueTypes, SavedMoves
  <2>3. \A j \in undoing' : entries[j].feedbackId # 0
    BY <1>3 DEF QueueInv, Awaited
  <2> QED
    BY <1>3, <1>4, <1>5, <2>1, <2>2, <2>3, QueueTypes, MovedInv
<1>6. CASE entries' = [entries EXCEPT ![i] = e] /\ stuck' = stuck \cup {i}
  <2> DEFINE q == [entries EXCEPT ![i] = e]
  <2>1. Sound(e, i, Cause', stuck')
    BY <1>0, <1>2, <1>4, <1>6 DEF Sound
  <2>2. q \in Queues /\ Consistent(q, q, Cause', stuck')
        /\ \A j \in undoing : q[j].feedbackId # 0
    <3>1. Cause \subseteq Cause' /\ stuck \subseteq stuck' /\ i \in stuck'
      BY <1>4, <1>6
    <3>2. /\ e \in Entry /\ (entries[i].attempted => e.attempted)
          /\ (e.feedbackId # 0 \/ entries[i].feedbackId = 0)
      BY <1>2
    <3> QED
      BY <2>1, <3>1, <3>2, OneChanged
  <2>3. \A j \in Ids : q[j].feedbackId = entries[j].feedbackId
    BY <1>2, QueueTypes DEF Queues
  <2>4. entries' = q
    BY <1>6
  <2> HIDE DEF q
  <2>5. Moved(q, q)
    BY <1>3, <2>2, <2>3, <2>4, SavedMoves
  <2>6. asked' \cup rejected' \cup stuck' \subseteq Ids
    BY <1>3, <1>6, QueueTypes
  <2> QED
    BY <1>3, <1>4, <2>2, <2>5, <2>6, QueueTypes, MovedInv
<1> QED
  BY <1>1, <1>5, <1>6 DEF UndoFails

-----------------------------------------------------------------------------
(* The server                                                              *)

(* Events are added for requests and become undone on request.             *)
LEMMA ServedInv ==
    ASSUME QueueInv, UNCHANGED <<client, network, aged, faults, history>>,
           events' \in Seq([key : Ids, undone : BOOLEAN]),
           1 .. Len(events) \subseteq 1 .. Len(events'),
           \A n \in 1 .. Len(events) :
               events'[n].key = events[n].key /\ (events[n].undone => events'[n].undone),
           \A n \in 1 .. Len(events') :
               /\ events'[n].key \in posts
               /\ events'[n].undone \/ n \in undos =>
                     n \in 1 .. Len(events) /\ (events[n].undone \/ n \in undos),
           \A n, m \in 1 .. Len(events') : events'[n].key = events'[m].key => n = m
    PROVE  QueueInv'
<1>1. UNCHANGED <<entries, disk, flush, undoing, posts, undos, aged, faults,
                  asked, rejected, stuck>>
  BY DEF client, network, history
<1>2. Cause' = Cause
  BY <1>1 DEF Cause
<1>3. \A i \in Ids : EventsOf(i) \subseteq EventsOf(i)'
  BY DEF EventsOf
<1>4. ASSUME NEW i \in Ids, NEW e, Sound(e, i, Cause, stuck)
      PROVE  /\ e.place = "none" => ~e.attempted /\ e.feedbackId = 0
             /\ e.feedbackId # 0 => e.feedbackId \in EventsOf(i)'
             /\ e.undone \/ e.cancelled => i \in Cause
             /\ i \notin stuck /\ e.feedbackId # 0 =>
                   /\ e.undone /\ e.syncError = "null" => events'[e.feedbackId].undone
                   /\ e.cancelled => e.undone
  <2>1. e.feedbackId # 0 => e.feedbackId \in EventsOf(i) /\ e.feedbackId \in 1 .. Len(events)
    BY <1>4 DEF Sound, EventsOf
  <2> QED
    BY <1>3, <1>4, <2>1 DEF Sound
<1>5. Consistent(entries, disk, Cause, stuck)'
  <2>1. \A i \in Ids : Sound(entries[i], i, Cause, stuck)' /\ Sound(disk[i], i, Cause, stuck)'
    BY <1>1, <1>2, <1>4, Consistency DEF Consistent, Sound
  <2>2. ASSUME NEW n \in 1 .. Len(events'), events'[n].undone \/ n \in undos
        PROVE  /\ events'[n].key \in Cause
               /\ events'[n].key \notin stuck =>
                     TakenBack(entries[events'[n].key]) /\ TakenBack(disk[events'[n].key])
    BY <2>2, Consistency DEF Consistent
  <2>3. /\ \A i \in posts : entries[i].attempted /\ disk[i].attempted
        /\ \A i \in Ids \ stuck : entries[i].undone => TakenBack(disk[i])
    BY Consistency DEF Consistent
  <2> QED
    BY <1>1, <1>2, <2>1, <2>2, <2>3 DEF Consistent, TakenBack
<1>6. Keyed' /\ Awaited'
  BY <1>1 DEF QueueInv, Keyed, Awaited
<1>7. TypeOK'
  BY <1>1 DEF QueueInv, TypeOK
<1> QED
  BY <1>5, <1>6, <1>7 DEF QueueInv

LEMMA CreateFeedbackInv ==
    ASSUME QueueInv, NEW i \in Ids, CreateFeedback(i)
    PROVE  QueueInv'
<1> DEFINE E == [key : Ids, undone : BOOLEAN]
           new == [key |-> i, undone |-> FALSE]
<1>0. UNCHANGED <<client, network, aged, faults, history>> /\ i \in posts
  BY DEF CreateFeedback
<1>1. events \in Seq(E) /\ undos \subseteq 1 .. Len(events)
  BY DEF QueueInv, TypeOK
<1>2. new \in E /\ new.key = i /\ new.undone = FALSE
  OBVIOUS
<1> HIDE DEF E, new
<1>3. CASE EventsOf(i) # {}
  <2>1. events' = events
    BY <1>3 DEF CreateFeedback, Created
  <2> QED
    BY <1>0, <1>1, <2>1, ServedInv DEF QueueInv, Keyed, E
<1>4. CASE EventsOf(i) = {}
  <2>1. events' = Append(events, new)
    BY <1>4 DEF CreateFeedback, Created, new
  <2>2. events' \in Seq(E) /\ Len(events') = Len(events) + 1 /\ Len(events) \in Nat
    BY <1>1, <1>2, <2>1
  <2>3. events'[Len(events) + 1] = new
    BY <1>1, <2>1
  <2>4. \A n \in 1 .. Len(events) : events'[n] = events[n]
    BY <1>1, <2>1
  <2>5. \A n \in 1 .. Len(events') : n \in 1 .. Len(events) \/ n = Len(events) + 1
    BY <2>2
  <2>6. \A n \in 1 .. Len(events) : events[n].key # i
    BY <1>4 DEF EventsOf
  <2>7. \A n, m \in 1 .. Len(events') : events'[n].key = events'[m].key => n = m
    BY <1>2, <2>3, <2>4, <2>5, <2>6 DEF QueueInv, Keyed
  <2>8. \A n \in 1 .. Len(events') :
           /\ events'[n].key \in posts
           /\ events'[n].undone \/ n \in undos =>
                 n \in 1 .. Len(events) /\ (events[n].undone \/ n \in undos)
    <3> SUFFICES ASSUME NEW n \in 1 .. Len(events')
                 PROVE  /\ events'[n].key \in posts
                        /\ events'[n].undone \/ n \in undos =>
                              n \in 1 .. Len(events) /\ (events[n].undone \/ n \in undos)
      OBVIOUS
    <3>1. CASE n \in 1 .. Len(events)
      BY <2>4, <3>1 DEF QueueInv, Keyed
    <3>2. CASE n = Len(events) + 1
      <4>1. n \notin undos
        BY <1>1, <2>2, <3>2
      <4> QED
        BY <1>0, <1>2, <2>3, <3>2, <4>1
    <3> QED
      BY <2>5, <3>1, <3>2
  <2>9. 1 .. Len(events) \subseteq 1 .. Len(events')
    BY <2>2
  <2> QED
    BY <1>0, <2>2, <2>4, <2>7, <2>8, <2>9, ServedInv DEF E
<1> QED
  BY <1>3, <1>4

LEMMA UndoFeedbackInv ==
    ASSUME QueueInv, NEW n \in 1 .. Len(events), UndoFeedback(n)
    PROVE  QueueInv'
<1> DEFINE E == [key : Ids, undone : BOOLEAN]
<1>0. UNCHANGED <<client, network, aged, faults, history>> /\ n \in undos
  BY DEF UndoFeedback
<1>1. events \in Seq(E)
  BY DEF QueueInv, TypeOK
<1>2. PICK x \in E : x = [events[n] EXCEPT !.undone = TRUE]
  <2> HIDE DEF E
  <2>1. events[n] \in E
    BY <1>1
  <2> QED
    BY <2>1 DEF E
<1>3. x.key = events[n].key /\ x.undone
  <2>1. events[n] \in E
    <3> HIDE DEF E
    <3> QED
      BY <1>1
  <2> QED
    BY <1>2, <2>1
<1> HIDE DEF E
<1>4. events' = [events EXCEPT ![n] = x]
  BY <1>2 DEF UndoFeedback
<1>5. events' \in Seq(E) /\ Len(events') = Len(events) /\ events'[n] = x
      /\ \A m \in 1 .. Len(events) : m # n => events'[m] = events[m]
  BY <1>1, <1>4
<1>6. \A m \in 1 .. Len(events) :
         events'[m].key = events[m].key /\ (events[m].undone => events'[m].undone)
         /\ (events'[m].undone => events[m].undone \/ m \in undos)
  BY <1>0, <1>3, <1>5
<1> QED
  BY <1>0, <1>5, <1>6, ServedInv DEF QueueInv, Keyed, E
-----------------------------------------------------------------------------
(* The invariant and what follows from it                                  *)

LEMMA SevenDaysPassInv ==
    ASSUME QueueInv, NEW i \in Ids, SevenDaysPass(i)
    PROVE  QueueInv'
<1>1. aged' \subseteq Ids
  <2>1. 1 .. i \subseteq Ids
    BY QueueAssumption DEF Ids
  <2> QED
    BY <2>1, QueueTypes DEF SevenDaysPass
<1>2. UNCHANGED <<entries, disk, flush, undoing, posts, undos, events, faults,
                  asked, rejected, stuck>>
  BY DEF SevenDaysPass, client, network, history
<1> QED
  BY <1>1, <1>2 DEF QueueInv, TypeOK, Consistent, Sound, EventsOf, Cause, Keyed, Awaited

LEMMA StutterInv == QueueInv /\ UNCHANGED vars => QueueInv'
BY DEF QueueInv, TypeOK, Consistent, Sound, EventsOf, Cause, Keyed, Awaited, vars

LEMMA QueueInitInv == Init => QueueInv
<1> SUFFICES ASSUME Init PROVE QueueInv
  OBVIOUS
<1> DEFINE E == [key : Ids, undone : BOOLEAN]
<1>1. events \in Seq(E) /\ Len(events) = 0 /\ 1 .. Len(events) = {}
  BY DEF Init
<1>2. /\ \A i \in Ids : entries[i] = NewEntry /\ disk[i] = NewEntry
      /\ entries \in Queues /\ disk \in Queues
  BY NewEntryFacts DEF Init, Queues
<1>3. flush \in Flushes /\ flush.pc = "idle"
  BY NewEntryFacts DEF Init
<1>4. TypeOK
  BY <1>1, <1>2, <1>3, QueueAssumption DEF Init, TypeOK, Queues, Flushes
<1>5. Consistent(entries, disk, Cause, stuck)
  BY <1>1, <1>2, NewEntryFacts DEF Consistent, Sound, Init
<1>6. Keyed /\ Awaited
  BY <1>1, <1>3 DEF Keyed, Awaited, Init
<1> QED
  BY <1>4, <1>5, <1>6 DEF QueueInv

LEMMA QueueNextInv == QueueInv /\ [Next]_vars => QueueInv'
<1> SUFFICES ASSUME QueueInv, [Next]_vars PROVE QueueInv'
  OBVIOUS
<1>1. CASE Flushing
  BY <1>1, BeginFlushInv, PostAnsweredInv, FlushUndoAnsweredInv DEF Flushing
<1>2. CASE PostRefused \/ FlushUndoRefused \/ FlushBreaks \/ Reload
  BY <1>2, PostRefusedInv, FlushUndoRefusedInv, FlushBreaksInv, ReloadInv
<1>3. CASE \E i \in Ids : Submit(i) \/ Undo(i) \/ UndoAnswered(i) \/ UndoFails(i)
  BY <1>3, SubmitInv, UndoInv, UndoAnsweredInv, UndoFailsInv
<1>4. CASE \E i \in Ids : CreateFeedback(i) \/ SevenDaysPass(i)
  BY <1>4, CreateFeedbackInv, SevenDaysPassInv
<1>5. CASE \E n \in 1 .. Len(events) : UndoFeedback(n)
  BY <1>5, UndoFeedbackInv
<1>6. CASE UNCHANGED vars
  BY <1>6, StutterInv
<1> QED
  BY <1>1, <1>2, <1>3, <1>4, <1>5, <1>6 DEF Next

\* Memory, storage, the requests under way and the server stay consistent:
\* what a reload would start from is behind what is in memory only where
\* starting again from it does no harm.
THEOREM QueueInvariant == Spec => []QueueInv
BY QueueInitInv, QueueNextInv, PTL DEF Spec

LEMMA QueueInvCause == QueueInv => UndoneForCause
BY EventFacts DEF QueueInv, Consistent, UndoneForCause, Cause

LEMMA QueueInvInSync == QueueInv => InSync
<1> SUFFICES ASSUME QueueInv, NEW i \in Ids \ stuck, Settled(i)
             PROVE  entries[i].place = "queued" =>
                        (Shown(i) <=> EventsOf(i) \cap Active # {})
  BY DEF InSync
<1> DEFINE e == entries[i]
<1>1. Sound(e, i, Cause, stuck) /\ i \in Ids
  BY Consistency DEF Consistent
<1>2. e.syncError = "null" /\ ~Pending(e)
  BY DEF Settled
<1>3. CASE e.feedbackId = 0
  <2>1. e.cancelled /\ ~e.attempted
    BY <1>2, <1>3 DEF Pending
  <2>2. i \notin posts
    BY <2>1, Consistency DEF Consistent
  <2>3. EventsOf(i) = {}
    BY <2>2 DEF EventsOf, QueueInv, Keyed
  <2> QED
    BY <2>1, <2>3 DEF Shown
<1>4. CASE e.feedbackId # 0
  <2> DEFINE n == e.feedbackId
  <2>1. n \in 1 .. Len(events) /\ events[n].key = i /\ EventsOf(i) = {n}
    BY <1>1, <1>4 DEF Sound, EventsOf, QueueInv, Keyed
  <2>2. EventsOf(i) \cap Active # {} <=> ~events[n].undone
    BY <2>1 DEF Active
  <2>3. TakenBack(e) => events[n].undone
    BY <1>1, <1>2, <1>4 DEF Sound, TakenBack
  <2>4. events[n].undone => TakenBack(e)
    BY <2>1, Consistency DEF Consistent
  <2> QED
    BY <2>2, <2>3, <2>4 DEF Shown, TakenBack
<1> QED
  BY <1>3, <1>4

\* Feedback is taken back on the server only for a cause, whatever requests
\* arrive late or twice.
THEOREM NothingUndoneWithoutCause == Spec => []UndoneForCause
BY QueueInvariant, QueueInvCause, PTL

\* An entry with nothing left to sync is active on the server exactly when
\* the client shows it, through reloads, lost answers and late requests.
THEOREM SettledMeansInSync == Spec => []InSync
BY QueueInvariant, QueueInvInSync, PTL

-----------------------------------------------------------------------------
(* The order of the queue                                                  *)

LEMMA FinishOrdered ==
    ASSUME QueueInv, NEW q \in Queues, NEW saved \in Queues, NEW exempt,
           Ordered(q, saved, exempt), AgedOK, FinishFlush(q), UNCHANGED network,
           aged' = aged, events' = events, stuck' = exempt
    PROVE  OrderInv'
<1> DEFINE f == Filtered(q)
<1>1. entries' = f /\ disk' = f /\ flush' = NoFlush /\ posts' = posts
  BY DEF FinishFlush, network
<1>2. ASSUME NEW i \in Ids
      PROVE  /\ q[i].place \in {"none", "queued", "dropped"}
             /\ f[i].feedbackId = q[i].feedbackId /\ f[i].cancelled = q[i].cancelled
             /\ f[i].undone = q[i].undone /\ f[i].syncError = q[i].syncError
             /\ f[i].place = IF q[i].place = "queued" /\ i \in aged /\ Expired(q[i])
                             THEN "dropped" ELSE q[i].place
  <2>1. q[i] \in Entry
    BY DEF Queues
  <2>2. f[i] = IF q[i].place = "queued" /\ i \in aged /\ Expired(q[i])
               THEN [q[i] EXCEPT !.place = "dropped"] ELSE q[i]
    BY DEF Filtered
  <2> HIDE DEF f
  <2>3. CASE q[i].place = "queued" /\ i \in aged /\ Expired(q[i])
    BY <2>1, <2>2, <2>3 DEF Entry
  <2>4. CASE ~(q[i].place = "queued" /\ i \in aged /\ Expired(q[i]))
    BY <2>1, <2>2, <2>4 DEF Entry
  <2> QED
    BY <2>3, <2>4
<1> HIDE DEF f
<1>3. \A i \in Ids : RowOK(q[i], i, exempt)
  BY DEF Ordered
<1>4. \A i \in Ids : RowOK(f[i], i, exempt)
  BY <1>2, <1>3 DEF RowOK, Handled, Expired
<1>5. \A i \in Ids : /\ Handled(q[i]) => Handled(f[i])
                     /\ TakenBack(q[i]) => TakenBack(f[i])
  BY <1>2 DEF Handled, TakenBack
<1>6. \A j, k \in Ids : j < k /\ f[k].place # "none" => f[j].place # "none"
  <2>1. \A i \in Ids : f[i].place = "none" <=> q[i].place = "none"
    BY <1>2
  <2> QED
    BY <2>1 DEF Ordered
<1>7. \A j \in Ids, k \in posts : j < k => Handled(f[j])
  BY <1>5 DEF Ordered
<1>8. ASSUME NEW j \in Ids, NEW k \in posts, j < k, f[k].place = "dropped"
      PROVE  j \in exempt \/ f[j].place = "dropped" \/ TakenBack(f[j])
  <2>0. k \in Ids
    BY QueueTypes
  <2>1. CASE q[k].place = "dropped"
    BY <1>2, <1>5, <1>8, <2>1 DEF Ordered
  <2>2. CASE q[k].place # "dropped"
    <3>1. k \in aged /\ q[k].place = "queued"
      BY <1>2, <1>8, <2>0, <2>2
    <3>2. j \in aged /\ q[j].place # "none"
      BY <1>8, <2>0, <3>1 DEF AgedOK, Ordered
    <3>3. Handled(q[j])
      BY <1>8 DEF Ordered
    <3>4. CASE f[j].place # "dropped" /\ j \notin exempt
      <4>1. q[j].place = "queued" /\ ~Expired(q[j])
        BY <1>2, <3>2, <3>4
      <4>2. q[j].feedbackId # 0 /\ q[j].syncError # "null"
        BY <3>3, <4>1 DEF Expired, Handled
      <4>3. q[j].syncError \in {"null", "undo_pending", "failed"}
        BY DEF Queues, Entry
      <4>4. q[j].undone
        BY <1>3, <3>4, <4>2, <4>3 DEF RowOK
      <4> QED
        BY <1>5, <4>4 DEF TakenBack
    <3> QED
      BY <3>4
  <2> QED
    BY <2>1, <2>2
<1>9. ASSUME NEW m \in 1 .. Len(events), NEW n \in 1 .. Len(events),
             m < n, events[n].key < events[m].key
      PROVE  events[n].key \in exempt \/ TakenBack(f[events[n].key])
  <2>1. events[n].key \in Ids
    BY EventFacts DEF QueueInv
  <2> QED
    BY <1>5, <1>9, <2>1 DEF Ordered
<1> QED
  BY <1>1, <1>4, <1>6, <1>7, <1>8, <1>9 DEF OrderInv, Ordered, PassOK, AgedOK, NoFlush, RowOK

(* A pass posts or undoes the first entry it has to, so that the entries   *)
(* before it are dealt with.                                               *)
LEMMA ProceedOrdered ==
    ASSUME QueueInv, NEW q \in Queues, NEW saved \in Queues, NEW exempt,
           NEW from \in Nat \ {0},
           Ordered(q, saved, exempt), AgedOK, Proceed(q, from, saved),
           \A j \in Ids : j < from => Handled(q[j]),
           aged' = aged, events' = events, stuck' = exempt
    PROVE  OrderInv'
<1> DEFINE due == {i \in from .. MaxEntries : MustPost(q[i]) \/ MustUndo(q[i])}
           m == Min(due)
<1>1. CASE due = {}
  BY <1>1, FinishOrdered DEF Proceed
<1>2. due # {} => m \in due /\ \A i \in due : m <= i
  <2>1. due \in SUBSET Nat
    BY QueueAssumption
  <2> HIDE DEF due
  <2> QED
    BY <2>1, MinOf
<1>3. ASSUME due # {}
      PROVE  /\ m \in Ids /\ q[m].place = "queued"
             /\ \A j \in Ids : j < m => Handled(q[j])
  <2>1. m \in Ids /\ (MustPost(q[m]) \/ MustUndo(q[m]))
    BY <1>2, <1>3, QueueAssumption DEF Ids
  <2>2. q[m].place = "queued"
    BY <2>1 DEF MustPost, MustUndo
  <2>3. ASSUME NEW j \in Ids, j < m PROVE Handled(q[j])
    <3>1. CASE j < from
      BY <3>1
    <3>2. CASE ~(j < from)
      <4>1. j \in from .. MaxEntries /\ j \notin due
        BY <1>2, <1>3, <2>1, <2>3, <3>2, QueueAssumption DEF Ids
      <4>2. ~MustPost(q[j])
        BY <4>1
      <4> HIDE DEF m, due
      <4>3. q[j].place # "none"
        BY <2>1, <2>2, <2>3 DEF Ordered
      <4>4. q[j].place \in {"none", "queued", "dropped"}
        BY DEF Queues, Entry
      <4> QED
        BY <4>2, <4>3, <4>4 DEF MustPost, Handled, Ordered, RowOK
    <3> QED
      BY <3>1, <3>2
  <2> QED
    BY <2>1, <2>2, <2>3
<1>4. AgedOK'
  BY DEF AgedOK
<1> HIDE DEF m
<1>5. CASE /\ due # {}
           /\ MustPost(q[m])
           /\ entries' = [q EXCEPT ![m].attempted = TRUE]
           /\ disk' = entries'
           /\ posts' = posts \cup {m}
           /\ flush' = [pc |-> "post", at |-> m]
           /\ UNCHANGED undos
  <2> HIDE DEF due
  <2>1. PICK f : f = entries'
    OBVIOUS
  <2>2. ASSUME NEW i \in Ids
        PROVE  /\ f[i].place = q[i].place
               /\ f[i].feedbackId = q[i].feedbackId /\ f[i].cancelled = q[i].cancelled
               /\ f[i].undone = q[i].undone /\ f[i].syncError = q[i].syncError
    <3>1. q[i] \in Entry
      BY DEF Queues
    <3>2. f[i] = IF i = m THEN [q[i] EXCEPT !.attempted = TRUE] ELSE q[i]
      BY <1>5, <2>1 DEF Queues
    <3> QED
      BY <3>1, <3>2 DEF Entry
  <2>3. \A i \in Ids : /\ RowOK(q[i], i, exempt) => RowOK(f[i], i, exempt)
                       /\ Handled(q[i]) => Handled(f[i])
                       /\ TakenBack(q[i]) => TakenBack(f[i])
    BY <2>2 DEF RowOK, Handled, TakenBack
  <2>4. \A i \in Ids : RowOK(f[i], i, exempt)
    BY <2>3 DEF Ordered
  <2>5. \A j, k \in Ids : j < k /\ f[k].place # "none" => f[j].place # "none"
    BY <2>2 DEF Ordered
  <2>6. \A j \in Ids, k \in posts' : j < k => Handled(f[j])
    BY <1>3, <1>5, <2>3 DEF Ordered
  <2>7. ASSUME NEW j \in Ids, NEW k \in posts', j < k, f[k].place = "dropped"
        PROVE  j \in exempt \/ f[j].place = "dropped" \/ TakenBack(f[j])
    <3>1. k \in Ids /\ k # m /\ k \in posts /\ q[k].place = "dropped"
      <4>1. k \in Ids
        BY <1>3, <1>5, QueueTypes
      <4> QED
        BY <1>3, <1>5, <2>2, <2>7, <4>1
    <3> QED
      BY <2>2, <2>3, <2>7, <3>1 DEF Ordered
  <2>8. ASSUME NEW x \in 1 .. Len(events), NEW n \in 1 .. Len(events),
               x < n, events[n].key < events[x].key
        PROVE  events[n].key \in exempt \/ TakenBack(f[events[n].key])
    <3>1. events[n].key \in Ids
      BY EventFacts DEF QueueInv
    <3> QED
      BY <2>3, <2>8, <3>1 DEF Ordered
  <2>9. Ordered(entries, disk, stuck)'
    BY <1>5, <2>1, <2>4, <2>5, <2>6, <2>7, <2>8 DEF Ordered, RowOK
  <2>10. flush'.pc = "post" /\ flush'.at = m /\ f[m].place # "none"
    BY <1>3, <1>5, <2>2
  <2>11. PassOK'
    BY <1>3, <1>5, <2>1, <2>3, <2>10 DEF PassOK
  <2> QED
    BY <1>4, <2>9, <2>11 DEF OrderInv
<1>6. CASE /\ due # {}
           /\ MustUndo(q[m])
           /\ entries' = q
           /\ undos' = undos \cup {q[m].feedbackId}
           /\ disk' = saved
           /\ flush' = [pc |-> "undo", at |-> m]
           /\ UNCHANGED posts
  <2> HIDE DEF due
  <2>1. Ordered(entries, disk, stuck)'
    BY <1>6 DEF Ordered, RowOK
  <2>2. q[m].feedbackId # 0 /\ q[m].undone /\ flush'.pc = "undo" /\ flush'.at = m
    BY <1>6 DEF MustUndo
  <2>3. PassOK'
    BY <1>3, <1>6, <2>2 DEF PassOK
  <2> QED
    BY <1>4, <2>1, <2>3 DEF OrderInv
<1> QED
  BY <1>1, <1>5, <1>6 DEF Proceed, m

(* A change to one entry that keeps its place and what was settled of it.  *)
LEMMA OneReordered ==
    ASSUME QueueInv, OrderInv, NEW i \in Ids, NEW e \in Entry, NEW exempt,
           stuck \subseteq exempt, e.place = entries[i].place,
           RowOK(e, i, exempt), Handled(entries[i]) => Handled(e),
           i \in exempt \/ (TakenBack(entries[i]) => TakenBack(e))
    PROVE  LET q == [entries EXCEPT ![i] = e] IN
           /\ q \in Queues /\ q[i] = e
           /\ Ordered(q, q, exempt) /\ Ordered(q, disk, exempt)
<1> DEFINE q == [entries EXCEPT ![i] = e]
<1>1. q \in Queues /\ q[i] = e /\ \A j \in Ids \ {i} : q[j] = entries[j]
  BY QueueTypes DEF Queues
<1> HIDE DEF q
<1>2. Ordered(entries, disk, stuck)
  BY DEF OrderInv
<1>3. \A j \in Ids : RowOK(q[j], j, exempt) /\ RowOK(disk[j], j, exempt)
  BY <1>1, <1>2 DEF Ordered, RowOK
<1>4. \A j \in Ids : /\ q[j].place = entries[j].place
                     /\ Handled(entries[j]) => Handled(q[j])
                     /\ j \in exempt \/ (TakenBack(entries[j]) => TakenBack(q[j]))
  BY <1>1
<1>5. \A j \in Ids : q[j].place = disk[j].place
  BY <1>2, <1>4 DEF Ordered
<1>6. \A j, k \in Ids : j < k /\ q[k].place # "none" => q[j].place # "none"
  BY <1>2, <1>4 DEF Ordered
<1>7. \A j \in Ids, k \in posts : j < k => Handled(q[j]) /\ Handled(disk[j])
  BY <1>2, <1>4 DEF Ordered
<1>8. \A j \in Ids, k \in posts : j < k /\ q[k].place = "dropped" =>
         j \in exempt \/ q[j].place = "dropped" \/ (TakenBack(q[j]) /\ TakenBack(disk[j]))
  BY <1>2, <1>4, QueueTypes DEF Ordered
<1>9. ASSUME NEW m \in 1 .. Len(events), NEW n \in 1 .. Len(events),
             m < n, events[n].key < events[m].key
      PROVE  \/ events[n].key \in exempt
             \/ TakenBack(q[events[n].key]) /\ TakenBack(disk[events[n].key])
  <2>1. events[n].key \in Ids
    BY EventFacts DEF QueueInv
  <2> QED
    BY <1>2, <1>4, <1>9, <2>1 DEF Ordered
<1>10. Ordered(q, disk, exempt)
  BY <1>3, <1>5, <1>6, <1>7, <1>8, <1>9 DEF Ordered
<1>11. Ordered(q, q, exempt)
  BY <1>3, <1>6, <1>7, <1>8, <1>9 DEF Ordered
<1> QED
  BY <1>1, <1>10, <1>11 DEF q

LEMMA OrderedFacts ==
    ASSUME QueueInv, OrderInv
    PROVE  /\ Ordered(entries, disk, stuck) /\ AgedOK
           /\ RowOK(entries[flush.at], flush.at, stuck)
           /\ \A j \in Ids : flush.pc # "idle" /\ j < flush.at => Handled(entries[j])
BY AtFacts DEF OrderInv, Ordered, PassOK

LEMMA BeginFlushOrdered == QueueInv /\ OrderInv /\ BeginFlush => OrderInv'
<1> SUFFICES ASSUME QueueInv, OrderInv, BeginFlush PROVE OrderInv'
  OBVIOUS
<1>1. Proceed(entries, 1, disk) /\ aged' = aged /\ events' = events /\ stuck' = stuck
  BY DEF BeginFlush, history
<1>2. \A j \in Ids : j < 1 => Handled(entries[j])
  BY QueueAssumption DEF Ids
<1> QED
  BY <1>1, <1>2, QueueTypes, OrderedFacts, ProceedOrdered

LEMMA ReloadOrdered == QueueInv /\ OrderInv /\ Reload => OrderInv'
<1> SUFFICES ASSUME QueueInv, OrderInv, Reload PROVE OrderInv'
  OBVIOUS
<1>1. Proceed(disk, 1, disk) /\ aged' = aged /\ events' = events /\ stuck' = stuck
  BY DEF Reload, history
<1>2. \A j \in Ids : j < 1 => Handled(disk[j])
  BY QueueAssumption DEF Ids
<1>3. Ordered(disk, disk, stuck)
  <2>1. posts \subseteq Ids /\ Ordered(entries, disk, stuck)
    BY QueueTypes, OrderedFacts
  <2> QED
    BY <2>1 DEF Ordered
<1> QED
  BY <1>1, <1>2, <1>3, QueueTypes, OrderedFacts, ProceedOrdered

(* The flush has dealt with the entry it is at and goes on.                *)
LEMMA FlushGoesOnOrdered ==
    ASSUME QueueInv, OrderInv, NEW e \in Entry, NEW from \in {flush.at, flush.at + 1},
           stuck \subseteq stuck',
           e.place = entries[flush.at].place, RowOK(e, flush.at, stuck'), Handled(e),
           TakenBack(entries[flush.at]) => TakenBack(e),
           flush.pc # "idle",
           Proceed([entries EXCEPT ![flush.at] = e], from, disk),
           events' = events, aged' = aged
    PROVE  OrderInv'
<1> DEFINE i == flush.at
           q == [entries EXCEPT ![i] = e]
<1>1. i \in Ids /\ i \in Nat /\ from \in Nat \ {0}
  BY AtFacts, QueueAssumption DEF Ids
<1>2. q \in Queues /\ Ordered(q, disk, stuck')
  BY <1>1, OneReordered
<1>3. ASSUME NEW j \in Ids, j < from PROVE Handled(q[j])
  <2>1. j < i \/ j = i
    BY <1>1, <1>3 DEF Ids
  <2>2. q[j] = IF j = i THEN e ELSE entries[j]
    BY QueueTypes DEF Queues
  <2> QED
    BY <2>1, <2>2, OrderedFacts
<1>4. Proceed(q, from, disk)
  OBVIOUS
<1> HIDE DEF q
<1> QED
  BY <1>1, <1>2, <1>3, <1>4, QueueTypes, OrderedFacts, ProceedOrdered

LEMMA PostAnsweredOrdered == QueueInv /\ OrderInv /\ PostAnswered => OrderInv'
<1> SUFFICES ASSUME QueueInv, OrderInv, PostAnswered PROVE OrderInv'
  OBVIOUS
<1> DEFINE i == flush.at
<1>1. PICK n \in EventsOf(i) : Proceed([entries EXCEPT ![i] = Acknowledged(@, n)], i, disk)
  BY DEF PostAnswered
<1>2. n \in Nat /\ n # 0
  BY <1>1, QueueTypes DEF EventsOf, QueueInv, TypeOK
<1>3. PICK e : e = Acknowledged(entries[i], n)
  OBVIOUS
<1>4. /\ e \in Entry /\ e.place = entries[i].place /\ e.feedbackId = n
      /\ e.cancelled = entries[i].cancelled /\ e.undone = TakenBack(entries[i])
      /\ e.syncError = "null" \/ (e.syncError = "undo_pending" /\ e.undone)
  BY <1>2, <1>3, AtFacts, AcknowledgedFacts
<1>5. Handled(e) /\ RowOK(e, i, stuck) /\ (TakenBack(entries[i]) => TakenBack(e))
  BY <1>2, <1>4 DEF Handled, RowOK, TakenBack
<1>6. Proceed([entries EXCEPT ![i] = e], i, disk)
  BY <1>1, <1>3
<1>7. UNCHANGED <<events, aged, stuck>> /\ flush.pc # "idle"
  BY DEF PostAnswered, history
<1> QED
  BY <1>4, <1>5, <1>6, <1>7, FlushGoesOnOrdered

LEMMA FlushUndoAnsweredOrdered == QueueInv /\ OrderInv /\ FlushUndoAnswered => OrderInv'
<1> SUFFICES ASSUME QueueInv, OrderInv, FlushUndoAnswered PROVE OrderInv'
  OBVIOUS
<1> DEFINE i == flush.at
<1>1. PICK e : e = [entries[i] EXCEPT !.syncError = "null"]
  OBVIOUS
<1>2. /\ e \in Entry /\ e.place = entries[i].place /\ e.feedbackId = entries[i].feedbackId
      /\ e.cancelled = entries[i].cancelled /\ e.undone = entries[i].undone
      /\ e.syncError = "null"
  BY <1>1, AtFacts, StateFacts
<1>3. Proceed([entries EXCEPT ![i] = e], i + 1, disk) /\ UNCHANGED <<events, aged, stuck>>
  BY <1>1 DEF FlushUndoAnswered, history
<1>4. flush.pc # "idle" /\ entries[i].feedbackId # 0
  BY DEF FlushUndoAnswered, OrderInv, PassOK
<1>5. Handled(e) /\ RowOK(e, i, stuck) /\ (TakenBack(entries[i]) => TakenBack(e))
  BY <1>2, <1>4 DEF Handled, RowOK, TakenBack
<1> QED
  BY <1>2, <1>3, <1>4, <1>5, FlushGoesOnOrdered

LEMMA PostRefusedOrdered == QueueInv /\ OrderInv /\ PostRefused => OrderInv'
<1> SUFFICES ASSUME QueueInv, OrderInv, PostRefused PROVE OrderInv'
  OBVIOUS
<1> DEFINE i == flush.at
<1>1. PICK e : e = Rejected(entries[i])
  OBVIOUS
<1>2. /\ e \in Entry /\ e.place = entries[i].place /\ e.cancelled
      /\ e.feedbackId = entries[i].feedbackId
  BY <1>1, AtFacts, RejectedFacts
<1>3. Proceed([entries EXCEPT ![i] = e], i + 1, disk) /\ UNCHANGED <<events, aged, stuck>>
  BY <1>1 DEF PostRefused
<1>4. flush.pc # "idle" /\ entries[i].feedbackId = 0
  BY DEF PostRefused, QueueInv, Awaited
<1>5. Handled(e) /\ RowOK(e, i, stuck) /\ TakenBack(e)
  BY <1>2, <1>4 DEF Handled, RowOK, TakenBack
<1> QED
  BY <1>2, <1>3, <1>4, <1>5, FlushGoesOnOrdered

LEMMA FlushUndoRefusedOrdered == QueueInv /\ OrderInv /\ FlushUndoRefused => OrderInv'
<1> SUFFICES ASSUME QueueInv, OrderInv, FlushUndoRefused PROVE OrderInv'
  OBVIOUS
<1> DEFINE i == flush.at
<1>1. PICK e : e = [entries[i] EXCEPT !.syncError = "failed"]
  OBVIOUS
<1>2. /\ e \in Entry /\ e.place = entries[i].place /\ e.feedbackId = entries[i].feedbackId
      /\ e.cancelled = entries[i].cancelled /\ e.undone = entries[i].undone
  BY <1>1, AtFacts, StateFacts
<1>3. /\ Proceed([entries EXCEPT ![i] = e], i + 1, disk)
      /\ UNCHANGED <<events, aged>> /\ stuck' = stuck \cup {i}
  BY <1>1 DEF FlushUndoRefused
<1>4. flush.pc # "idle" /\ entries[i].feedbackId # 0
  BY DEF FlushUndoRefused, OrderInv, PassOK
<1>5. Handled(e) /\ RowOK(e, i, stuck') /\ (TakenBack(entries[i]) => TakenBack(e))
  BY <1>2, <1>3, <1>4 DEF Handled, RowOK, TakenBack
<1> QED
  BY <1>2, <1>3, <1>4, <1>5, FlushGoesOnOrdered

LEMMA FlushBreaksOrdered == QueueInv /\ OrderInv /\ FlushBreaks => OrderInv'
<1> SUFFICES ASSUME QueueInv, OrderInv, FlushBreaks PROVE OrderInv'
  OBVIOUS
<1> DEFINE i == flush.at
<1>0. PICK failure \in {"undo_pending", "failed"} :
         failure = (IF flush.pc = "post" THEN "failed" ELSE "undo_pending")
  OBVIOUS
<1>1. PICK e : e = [entries[i] EXCEPT !.syncError = failure]
  OBVIOUS
<1>2. /\ e \in Entry /\ e.place = entries[i].place /\ e.feedbackId = entries[i].feedbackId
      /\ e.cancelled = entries[i].cancelled /\ e.undone = entries[i].undone
      /\ e.syncError = failure
  <2>1. failure \in {"null", "undo_pending", "failed"}
    OBVIOUS
  <2> QED
    BY <1>1, <2>1, AtFacts, StateFacts
<1>3. /\ FinishFlush([entries EXCEPT ![i] = e]) /\ UNCHANGED network
      /\ UNCHANGED <<events, aged, stuck>>
  BY <1>0, <1>1 DEF FlushBreaks, history
<1>4. \/ entries[i].feedbackId = 0
      \/ failure = "undo_pending" /\ (entries[i].undone \/ i \in stuck)
  BY <1>0 DEF FlushBreaks, QueueInv, Awaited, OrderInv, PassOK
<1>5. RowOK(e, i, stuck) /\ (TakenBack(entries[i]) => TakenBack(e))
      /\ (Handled(entries[i]) => Handled(e))
  BY <1>2, <1>4, OrderedFacts DEF Handled, RowOK, TakenBack
<1> DEFINE q == [entries EXCEPT ![i] = e]
<1>6. q \in Queues /\ Ordered(q, disk, stuck)
  BY <1>2, <1>5, AtFacts, OneReordered
<1>7. FinishFlush(q)
  BY <1>3
<1> HIDE DEF q
<1> QED
  BY <1>3, <1>6, <1>7, QueueTypes, OrderedFacts, FinishOrdered

(* A change to one entry that is saved while the flush, if any, waits.     *)
LEMMA SavedOrdered ==
    ASSUME QueueInv, OrderInv, NEW i \in Ids, NEW e \in Entry,
           stuck \subseteq stuck', e.place = entries[i].place, RowOK(e, i, stuck'),
           e.feedbackId = entries[i].feedbackId, entries[i].cancelled => e.cancelled,
           i \in stuck' \/ (entries[i].undone => e.undone),
           entries' = [entries EXCEPT ![i] = e], disk' = entries',
           UNCHANGED <<flush, posts, events, aged>>
    PROVE  OrderInv'
<1> DEFINE q == [entries EXCEPT ![i] = e]
<1>1. Handled(entries[i]) => Handled(e)
  BY DEF Handled
<1>2. i \in stuck' \/ (TakenBack(entries[i]) => TakenBack(e))
  BY DEF TakenBack
<1>3. q \in Queues /\ q[i] = e /\ Ordered(q, q, stuck')
  BY <1>1, <1>2, OneReordered
<1>4. \A j \in Ids : /\ q[j].place = entries[j].place
                     /\ q[j].feedbackId = entries[j].feedbackId
                     /\ Handled(entries[j]) => Handled(q[j])
                     /\ j \in stuck' \/ (entries[j].undone => q[j].undone)
  BY <1>1, QueueTypes DEF Queues
<1>5. entries' = q /\ disk' = q
  OBVIOUS
<1> HIDE DEF q
<1>6. Ordered(entries, disk, stuck)'
  BY <1>3, <1>5 DEF Ordered, RowOK
<1>7. PassOK'
  BY <1>4, <1>5, AtFacts DEF OrderInv, PassOK
<1>8. AgedOK'
  BY DEF OrderInv, AgedOK
<1> QED
  BY <1>6, <1>7, <1>8 DEF OrderInv

LEMMA UndoOrdered ==
    ASSUME QueueInv, OrderInv, NEW i \in Ids, Undo(i)
    PROVE  OrderInv'
<1> DEFINE old == entries[i]
<1>1. /\ disk' = entries' /\ UNCHANGED <<flush, posts, events, aged, stuck>>
      /\ old.place = "queued"
  BY DEF Undo
<1>2. old \in Entry
  BY QueueTypes DEF Queues
<1>3. CASE old.feedbackId = 0
  <2>1. PICK e : e = [old EXCEPT !.cancelled = TRUE]
    OBVIOUS
  <2>2. e \in Entry /\ e.place = old.place /\ e.feedbackId = old.feedbackId /\ e.cancelled
        /\ e.undone = old.undone
    BY <1>2, <2>1 DEF Entry
  <2>3. entries' = [entries EXCEPT ![i] = e]
    BY <1>3, <2>1 DEF Undo
  <2>4. RowOK(e, i, stuck)
    BY <1>3, <2>2 DEF RowOK, Handled
  <2> QED
    BY <1>1, <2>2, <2>3, <2>4, SavedOrdered
<1>4. CASE old.feedbackId # 0
  <2>1. PICK e : e = [old EXCEPT !.undone = TRUE, !.syncError = "undo_pending"]
    OBVIOUS
  <2>2. e \in Entry /\ e.place = old.place /\ e.feedbackId = old.feedbackId
        /\ e.cancelled = old.cancelled /\ e.undone /\ e.syncError = "undo_pending"
    BY <1>2, <2>1 DEF Entry
  <2>3. entries' = [entries EXCEPT ![i] = e]
    BY <1>4, <2>1 DEF Undo
  <2>4. RowOK(e, i, stuck)
    BY <1>4, <2>2 DEF RowOK, Handled
  <2> QED
    BY <1>1, <2>2, <2>3, <2>4, SavedOrdered
<1> QED
  BY <1>3, <1>4

LEMMA UndoAnsweredOrdered ==
    ASSUME QueueInv, OrderInv, NEW i \in Ids, UndoAnswered(i)
    PROVE  OrderInv'
<1>1. PICK e : e = [entries[i] EXCEPT !.syncError = "null"]
  OBVIOUS
<1>2. /\ e \in Entry /\ e.place = entries[i].place /\ e.feedbackId = entries[i].feedbackId
      /\ e.cancelled = entries[i].cancelled /\ e.undone = entries[i].undone
      /\ e.syncError = "null"
  BY <1>1, QueueTypes, StateFacts DEF Queues
<1>3. /\ entries' = [entries EXCEPT ![i] = e] /\ disk' = entries'
      /\ UNCHANGED <<flush, posts, events, aged, stuck>>
  BY <1>1 DEF UndoAnswered, network, history
<1>4. RowOK(entries[i], i, stuck)
  BY OrderedFacts DEF Ordered
<1>5. RowOK(e, i, stuck)
  BY <1>2, <1>4 DEF RowOK, Handled
<1> QED
  BY <1>2, <1>3, <1>5, SavedOrdered

LEMMA UndoFailsOrdered ==
    ASSUME QueueInv, OrderInv, NEW i \in Ids, UndoFails(i)
    PROVE  OrderInv'
<1>1. disk' = entries' /\ UNCHANGED <<flush, posts, events, aged>>
  BY DEF UndoFails, network
<1>2. entries[i] \in Entry /\ RowOK(entries[i], i, stuck)
  BY QueueTypes, OrderedFacts DEF Queues, Ordered
<1>3. CASE UNCHANGED <<entries, stuck>>
  <2>1. entries' = [entries EXCEPT ![i] = entries[i]]
    BY <1>3, QueueTypes DEF Queues
  <2> QED
    BY <1>1, <1>2, <1>3, <2>1, SavedOrdered
<1>4. CASE /\ entries' = [entries EXCEPT ![i] = [@ EXCEPT !.undone = FALSE, !.syncError = "failed"]]
           /\ stuck' = stuck \cup {i}
  <2>1. PICK e : e = [entries[i] EXCEPT !.undone = FALSE, !.syncError = "failed"]
    OBVIOUS
  <2>2. e \in Entry /\ e.place = entries[i].place /\ e.feedbackId = entries[i].feedbackId
        /\ e.cancelled = entries[i].cancelled
    BY <1>2, <2>1 DEF Entry
  <2>3. entries' = [entries EXCEPT ![i] = e] /\ stuck \subseteq stuck' /\ i \in stuck'
    BY <1>4, <2>1
  <2>4. RowOK(e, i, stuck')
    BY <1>2, <2>2, <2>3 DEF RowOK, Handled
  <2> QED
    BY <1>1, <2>2, <2>3, <2>4, SavedOrdered
<1> QED
  BY <1>3, <1>4 DEF UndoFails

(* The queue with a new entry at its end is in order.                      *)
LEMMA SubmitQueueOrdered ==
    ASSUME QueueInv, OrderInv, NEW i \in Ids, NEW e \in Entry,
           e.place = "queued", e.feedbackId = 0, entries[i].place = "none",
           \A j \in 1 .. (i - 1) : entries[j].place # "none"
    PROVE  LET q == [entries EXCEPT ![i] = e] IN
           /\ q \in Queues /\ q[i] = e /\ \A j \in Ids \ {i} : q[j] = entries[j]
           /\ Ordered(q, q, stuck)
           /\ flush.pc # "idle" => flush.at # i /\ ~(i < flush.at)
<1> DEFINE q == [entries EXCEPT ![i] = e]
<1>2. /\ e.place = "queued" /\ e.feedbackId = 0
  OBVIOUS
<1>3. /\ entries[i].place = "none" /\ \A j \in 1 .. (i - 1) : entries[j].place # "none"
  OBVIOUS
<1>4. q \in Queues /\ q[i] = e /\ \A j \in Ids \ {i} : q[j] = entries[j]
  BY QueueTypes DEF Queues
<1> HIDE DEF q
<1>5. ASSUME NEW k \in Ids, entries[k].place # "none" PROVE ~(i < k) /\ i # k
  BY <1>3, <1>5, OrderedFacts DEF Ordered
<1>6. \A k \in posts : k \in Ids /\ entries[k].place # "none"
  BY QueueTypes, Consistency DEF Consistent, Sound
<1>7. Ordered(q, q, stuck)
  <2>1. \A j \in Ids : RowOK(q[j], j, stuck)
    BY <1>2, <1>4, OrderedFacts DEF Ordered, RowOK
  <2>2. ASSUME NEW j \in Ids, NEW k \in Ids, j < k, q[k].place # "none"
        PROVE  q[j].place # "none"
    <3>1. CASE j = i
      BY <1>2, <1>4, <3>1
    <3>2. CASE j # i /\ k = i
      <4>1. j \in 1 .. (i - 1)
        BY <2>2, <3>2 DEF Ids
      <4> QED
        BY <1>3, <1>4, <3>2, <4>1
    <3>3. CASE j # i /\ k # i
      BY <1>4, <2>2, <3>3, OrderedFacts DEF Ordered
    <3> QED
      BY <3>1, <3>2, <3>3
  <2>3. ASSUME NEW j \in Ids, NEW k \in posts, j < k
        PROVE  /\ Handled(q[j])
               /\ q[k].place = "dropped" =>
                     j \in stuck \/ q[j].place = "dropped" \/ TakenBack(q[j])
    <3>1. k \in Ids /\ k # i /\ j # i
      BY <1>5, <1>6, <2>3
    <3>2. q[j] = entries[j] /\ q[k] = entries[k]
      BY <1>4, <3>1
    <3> QED
      BY <2>3, <3>1, <3>2, OrderedFacts DEF Ordered
  <2>4. ASSUME NEW m \in 1 .. Len(events), NEW n \in 1 .. Len(events),
               m < n, events[n].key < events[m].key
        PROVE  events[n].key \in stuck \/ TakenBack(q[events[n].key])
    <3>1. events[n].key \in Ids /\ events[n].key \in posts
      BY EventFacts DEF QueueInv, Keyed
    <3>2. q[events[n].key] = entries[events[n].key]
      BY <1>4, <1>5, <1>6, <3>1
    <3> QED
      BY <2>4, <3>1, <3>2, OrderedFacts DEF Ordered
  <2> QED
    BY <2>1, <2>2, <2>3, <2>4 DEF Ordered
<1>8. flush.pc # "idle" => flush.at # i /\ ~(i < flush.at)
  BY <1>5, AtFacts DEF OrderInv, PassOK
<1> QED
  BY <1>4, <1>7, <1>8 DEF q

LEMMA SubmitOrdered ==
    ASSUME QueueInv, OrderInv, NEW i \in Ids, Submit(i)
    PROVE  OrderInv'
<1>1. PICK e : e = [NewEntry EXCEPT !.place = "queued"]
  OBVIOUS
<1>2. /\ e \in Entry /\ e.place = "queued" /\ e.feedbackId = 0
  BY <1>1, NewEntryFacts DEF Entry
<1> DEFINE q == [entries EXCEPT ![i] = e]
<1>3. /\ entries[i].place = "none" /\ \A j \in 1 .. (i - 1) : entries[j].place # "none"
      /\ \/ flush.pc = "idle" /\ Proceed(q, 1, q)
         \/ flush.pc # "idle" /\ entries' = q /\ disk' = q /\ UNCHANGED <<flush, network>>
      /\ UNCHANGED <<events, aged, stuck>>
  BY <1>1 DEF Submit, history
<1>4. /\ q \in Queues /\ q[i] = e /\ \A j \in Ids \ {i} : q[j] = entries[j]
      /\ Ordered(q, q, stuck)
      /\ flush.pc # "idle" => flush.at # i /\ ~(i < flush.at)
  BY <1>2, <1>3, SubmitQueueOrdered
<1> HIDE DEF q
<1>5. CASE flush.pc = "idle" /\ Proceed(q, 1, q)
  <2>1. \A j \in Ids : j < 1 => Handled(q[j])
    BY QueueAssumption DEF Ids
  <2> QED
    BY <1>3, <1>4, <1>5, <2>1, OrderedFacts, ProceedOrdered
<1>6. CASE flush.pc # "idle" /\ entries' = q /\ disk' = q /\ UNCHANGED <<flush, network>>
  <2>1. flush' = flush /\ posts' = posts
    BY <1>6 DEF network
  <2>2. Ordered(entries, disk, stuck)'
    BY <1>3, <1>4, <1>6, <2>1 DEF Ordered, RowOK
  <2>3. entries[flush.at].place # "none" /\ flush.at \in Ids /\ flush.at # i
        /\ ~(i < flush.at)
    BY <1>4, <1>6, AtFacts DEF OrderInv, PassOK
  <2>4. q[flush.at] = entries[flush.at] /\ \A j \in Ids : j < flush.at => q[j] = entries[j]
    BY <1>4, <2>3
  <2>5. PassOK'
    BY <1>3, <1>6, <2>1, <2>4 DEF OrderInv, PassOK
  <2>6. AgedOK'
    BY <1>3 DEF OrderInv, AgedOK
  <2> QED
    BY <2>2, <2>5, <2>6 DEF OrderInv
<1> QED
  BY <1>3, <1>5, <1>6

LEMMA CreateFeedbackOrdered ==
    ASSUME QueueInv, OrderInv, NEW i \in Ids, CreateFeedback(i)
    PROVE  OrderInv'
<1> DEFINE E == [key : Ids, undone : BOOLEAN]
           new == [key |-> i, undone |-> FALSE]
<1>1. i \in posts /\ UNCHANGED <<entries, disk, flush, posts, aged, stuck>>
  BY DEF CreateFeedback, client, network, history
<1>2. PassOK' /\ AgedOK'
  BY <1>1 DEF OrderInv, PassOK, AgedOK
<1>3. CASE EventsOf(i) # {}
  <2>1. events' = events
    BY <1>3 DEF CreateFeedback, Created
  <2>2. Ordered(entries, disk, stuck)'
    BY <1>1, <2>1, OrderedFacts DEF Ordered, RowOK
  <2> QED
    BY <1>2, <2>2 DEF OrderInv
<1>4. CASE EventsOf(i) = {}
  <2>1. events \in Seq(E) /\ new \in E /\ new.key = i
    BY DEF QueueInv, TypeOK
  <2>2. events' = Append(events, new)
    BY <1>4 DEF CreateFeedback, Created
  <2> HIDE DEF E, new
  <2>3. /\ Len(events) \in Nat /\ Len(events') = Len(events) + 1
        /\ events'[Len(events) + 1].key = i
        /\ \A n \in 1 .. Len(events) : events'[n] = events[n]
    BY <2>1, <2>2
  <2>4. entries[i].feedbackId = 0 /\ disk[i].feedbackId = 0
    BY <1>4, Consistency DEF Consistent, Sound
  <2>5. ASSUME NEW m \in 1 .. Len(events'), NEW n \in 1 .. Len(events'),
               m < n, events'[n].key < events'[m].key
        PROVE  \/ events'[n].key \in stuck
               \/ TakenBack(entries[events'[n].key]) /\ TakenBack(disk[events'[n].key])
    <3>1. m \in 1 .. Len(events)
      BY <2>3, <2>5
    <3>2. CASE n \in 1 .. Len(events)
      BY <2>3, <2>5, <3>1, <3>2, OrderedFacts DEF Ordered
    <3>3. CASE n = Len(events) + 1
      <4>1. events'[n].key = i /\ i < events[m].key /\ events[m].key \in posts
        BY <2>3, <2>5, <3>1, <3>3 DEF QueueInv, Keyed
      <4>2. Handled(entries[i]) /\ Handled(disk[i])
        BY <4>1, OrderedFacts DEF Ordered
      <4> QED
        BY <2>4, <4>1, <4>2 DEF Handled, TakenBack
    <3> QED
      BY <2>3, <3>2, <3>3
  <2>6. Ordered(entries, disk, stuck)'
    BY <1>1, <2>5, OrderedFacts DEF Ordered, RowOK
  <2> QED
    BY <1>2, <2>6 DEF OrderInv
<1> QED
  BY <1>3, <1>4

LEMMA UndoFeedbackOrdered ==
    ASSUME QueueInv, OrderInv, NEW n \in 1 .. Len(events), UndoFeedback(n)
    PROVE  OrderInv'
<1> DEFINE E == [key : Ids, undone : BOOLEAN]
<1>1. /\ UNCHANGED <<entries, disk, flush, posts, aged, stuck>>
      /\ events' = [events EXCEPT ![n].undone = TRUE]
  BY DEF UndoFeedback, client, network, history
<1>2. events \in Seq(E)
  BY DEF QueueInv, TypeOK
<1> HIDE DEF E
<1>3. events[n] \in E
  BY <1>2
<1>4. PICK x : x = [events[n] EXCEPT !.undone = TRUE]
  OBVIOUS
<1>5. x.key = events[n].key
  BY <1>3, <1>4 DEF E
<1>6. events' = [events EXCEPT ![n] = x]
  BY <1>1, <1>4
<1>7. Len(events') = Len(events) /\ \A m \in 1 .. Len(events) : events'[m].key = events[m].key
  BY <1>2, <1>5, <1>6
<1>8. Ordered(entries, disk, stuck)'
  BY <1>1, <1>7, OrderedFacts DEF Ordered, RowOK
<1>9. PassOK' /\ AgedOK'
  BY <1>1 DEF OrderInv, PassOK, AgedOK
<1> QED
  BY <1>8, <1>9 DEF OrderInv

LEMMA SevenDaysPassOrdered ==
    ASSUME QueueInv, OrderInv, NEW i \in Ids, SevenDaysPass(i)
    PROVE  OrderInv'
<1>1. aged' = aged \cup 1 .. i /\ UNCHANGED <<entries, disk, flush, posts, events, stuck>>
  BY DEF SevenDaysPass, client, network, history
<1>2. AgedOK'
  BY <1>1 DEF OrderInv, AgedOK, Ids
<1>3. Ordered(entries, disk, stuck)'
  BY <1>1, OrderedFacts DEF Ordered, RowOK
<1>4. PassOK'
  BY <1>1 DEF OrderInv, PassOK
<1> QED
  BY <1>2, <1>3, <1>4 DEF OrderInv

LEMMA OrderInit == Init => OrderInv
<1> SUFFICES ASSUME Init PROVE OrderInv
  OBVIOUS
<1>1. \A i \in Ids : entries[i] = NewEntry /\ disk[i] = NewEntry
  BY DEF Init
<1>2. posts = {} /\ aged = {} /\ 1 .. Len(events) = {} /\ flush.pc = "idle"
  BY NewEntryFacts DEF Init
<1>3. \A i \in Ids : RowOK(NewEntry, i, stuck)
  BY NewEntryFacts DEF RowOK
<1> QED
  BY <1>1, <1>2, <1>3, NewEntryFacts DEF OrderInv, Ordered, PassOK, AgedOK

LEMMA OrderNext == QueueInv /\ OrderInv /\ [Next]_vars => OrderInv'
<1> SUFFICES ASSUME QueueInv, OrderInv, [Next]_vars PROVE OrderInv'
  OBVIOUS
<1>1. CASE Flushing
  BY <1>1, BeginFlushOrdered, PostAnsweredOrdered, FlushUndoAnsweredOrdered DEF Flushing
<1>2. CASE PostRefused \/ FlushUndoRefused \/ FlushBreaks \/ Reload
  BY <1>2, PostRefusedOrdered, FlushUndoRefusedOrdered, FlushBreaksOrdered, ReloadOrdered
<1>3. CASE \E i \in Ids : Submit(i) \/ Undo(i) \/ UndoAnswered(i) \/ UndoFails(i)
  BY <1>3, SubmitOrdered, UndoOrdered, UndoAnsweredOrdered, UndoFailsOrdered
<1>4. CASE \E i \in Ids : CreateFeedback(i) \/ SevenDaysPass(i)
  BY <1>4, CreateFeedbackOrdered, SevenDaysPassOrdered
<1>5. CASE \E n \in 1 .. Len(events) : UndoFeedback(n)
  BY <1>5, UndoFeedbackOrdered
<1>6. CASE UNCHANGED vars
  BY <1>6 DEF vars, OrderInv, Ordered, RowOK, PassOK, AgedOK
<1> QED
  BY <1>1, <1>2, <1>3, <1>4, <1>5, <1>6 DEF Next

\* Submissions reach the server in the order they were made, except those
\* the user took back meanwhile; what storage forgets, it forgets in order.
THEOREM QueueKeepsOrder == Spec => []OrderInv
BY OrderInit, OrderNext, QueueInitInv, QueueNextInv, PTL DEF Spec

LEMMA OrderAgrees == QueueInv /\ OrderInv => LatestAgrees
<1> DEFINE shownIds == {i \in Ids : Shown(i)}
           S == Largest(shownIds)
           L == Largest(Active)
<1> SUFFICES ASSUME QueueInv, OrderInv,
                    \A i \in Ids : entries[i].place = "queued" => Settled(i),
                    stuck \cup Lost = {}, S # 0
             PROVE  events[L].key = S
  BY DEF LatestAgrees
<1>1. S \in Ids /\ Shown(S) /\ \A i \in Ids : Shown(i) => i <= S
  <2>1. shownIds # {} /\ shownIds \in SUBSET (0 .. MaxEntries) /\ S = Max(shownIds)
    BY DEF Largest, Ids
  <2>2. Max(shownIds) \in shownIds /\ \A i \in shownIds : i <= Max(shownIds)
    <3> HIDE DEF shownIds
    <3> QED
      BY <2>1, MaxOf, QueueAssumption
  <2> QED
    BY <2>1, <2>2
<1> HIDE DEF S
<1>2. stuck = {} /\ \A i \in Ids : entries[i].place = "dropped" => ~Pending(entries[i])
  BY DEF Lost
<1>3. PICK n \in EventsOf(S) : n \in Active
  BY <1>1, <1>2, QueueInvInSync DEF InSync, Shown
<1>4. Active \in SUBSET (0 .. Len(events)) /\ Len(events) \in Nat
  BY DEF Active, QueueInv, TypeOK
<1>5. L \in Active /\ n <= L
  <2>1. Active # {} /\ L = Max(Active)
    BY <1>3 DEF Largest
  <2> QED
    BY <1>3, <1>4, <2>1, MaxOf
<1> HIDE DEF L
<1>6. /\ n \in 1 .. Len(events) /\ events[n].key = S
      /\ L \in 1 .. Len(events) /\ ~events[L].undone
  BY <1>3, <1>5 DEF EventsOf, Active
<1>7. PICK k : k = events[L].key
  OBVIOUS
<1>8. k \in Ids /\ k \in posts /\ L \in EventsOf(k)
  BY <1>6, <1>7, EventFacts DEF QueueInv, Keyed, EventsOf
<1>9. entries[k].place \in {"queued", "dropped"}
  <2>1. entries[k].place # "none"
    BY <1>8, Consistency DEF Consistent, Sound
  <2>2. entries[k].place \in {"none", "queued", "dropped"}
    BY <1>8, QueueTypes DEF Queues, Entry
  <2> QED
    BY <2>1, <2>2
<1>10. entries[k].place = "queued" => Shown(k)
  BY <1>2, <1>5, <1>8, QueueInvInSync DEF InSync
<1>11. ~TakenBack(entries[S]) /\ entries[S].place = "queued"
  BY <1>1 DEF Shown, TakenBack
<1>12. ~(S < k)
  <2> SUFFICES ASSUME S < k PROVE FALSE
    OBVIOUS
  <2>1. ~Shown(k)
    BY <1>1, <1>8 DEF Ids
  <2>2. entries[k].place = "dropped"
    BY <1>9, <1>10, <2>1
  <2> QED
    BY <1>1, <1>2, <1>8, <1>11, <2>2, OrderedFacts DEF Ordered
<1>13. ~(k < S)
  <2> SUFFICES ASSUME k < S PROVE FALSE
    OBVIOUS
  <2>1. n # L /\ n < L
    <3>1. k \in Nat /\ S \in Nat /\ k # S
      BY <1>1, <1>8 DEF Ids
    <3>2. n # L
      BY <1>6, <1>7, <3>1
    <3>3. n \in Nat /\ L \in Nat
      BY <1>4, <1>6
    <3> QED
      BY <1>5, <3>2, <3>3
  <2>2. TakenBack(entries[k])
    BY <1>2, <1>6, <1>7, <2>1, OrderedFacts DEF Ordered
  <2>3. entries[k].place = "dropped"
    BY <1>9, <1>10, <2>2 DEF Shown, TakenBack
  <2>4. /\ RowOK(entries[k], k, stuck) /\ Sound(entries[k], k, Cause, stuck)
        /\ entries[k].attempted /\ ~Pending(entries[k])
    BY <1>2, <1>8, <2>3, Consistency, OrderedFacts DEF Ordered, Consistent
  <2>5. entries[k].feedbackId # 0
    BY <2>4 DEF Pending
  <2>6. entries[k].feedbackId = L
    BY <1>8, <2>4, <2>5 DEF Sound, EventsOf, QueueInv, Keyed
  <2>7. entries[k].syncError = "null"
    <3>1. entries[k].syncError \in {"null", "undo_pending", "failed"}
      BY <1>8, QueueTypes DEF Queues, Entry
    <3> QED
      BY <1>2, <2>4, <2>5, <3>1 DEF RowOK, Pending
  <2>8. entries[k].undone
    BY <1>2, <2>2, <2>4, <2>5 DEF Sound, TakenBack
  <2>9. events[L].undone
    BY <1>2, <2>4, <2>5, <2>6, <2>7, <2>8 DEF Sound
  <2> QED
    BY <1>6, <2>9
<1> QED
  BY <1>1, <1>7, <1>8, <1>12, <1>13 DEF Ids

\* When all is settled, the newest feedback the client shows is the newest
\* active one of the server: neither late POSTs nor lost answers, undos,
\* reloads or the storage filter put them in another order.
THEOREM NewestIsNewest == Spec => []LatestAgrees
BY QueueInvariant, QueueKeepsOrder, OrderAgrees, PTL

-----------------------------------------------------------------------------
(* What the filter drops                                                   *)

(* Entries that were told of a failure.                                    *)
Told == rejected \cup stuck

(* What a pass leaves behind it: an entry not acknowledged was never sent, *)
(* and the undo of a cancelled one was answered.                           *)
Through(e, i, exempt) ==
    i \notin exempt /\ e.place = "queued" =>
        /\ e.feedbackId = 0 => ~e.attempted
        /\ e.feedbackId # 0 /\ e.cancelled => events[e.feedbackId].undone

(* An undo the user asked for is not forgotten, nor by a reload.           *)
Remembered(q, saved, exempt) ==
    \A i \in asked \ exempt : TakenBack(q[i]) /\ TakenBack(saved[i])

DropInv ==
    /\ \A i \in asked : entries[i].place # "none"
    /\ Remembered(entries, disk, stuck)
    /\ flush.pc # "idle" => \A i \in Ids : i < flush.at => Through(entries[i], i, Told)

(* An entry the user took back is forgotten while its feedback is active   *)
(* only if a failure was told, or the pass broke off before it.            *)
DropsForCause ==
    \A i \in asked : entries'[i].place = "dropped" /\ entries[i].place # "dropped" =>
        \/ EventsOf(i) \cap Active = {}
        \/ i \in Told'
        \/ FlushBreaks /\ flush.at <= i

LEMMA PassedOver ==
    ASSUME NEW q \in Queues, NEW saved, NEW cause, NEW exempt, NEW told, exempt \subseteq told,
           Consistent(q, saved, cause, exempt), Ordered(q, saved, exempt),
           NEW i \in Ids, ~MustPost(q[i]), ~MustUndo(q[i])
    PROVE  Through(q[i], i, told)
<1>1. q[i] \in Entry /\ Sound(q[i], i, cause, exempt) /\ RowOK(q[i], i, exempt)
  BY DEF Queues, Consistent, Ordered
<1> SUFFICES ASSUME i \notin exempt, q[i].place = "queued"
             PROVE  /\ q[i].feedbackId = 0 => ~q[i].attempted
                    /\ q[i].feedbackId # 0 /\ q[i].cancelled => events[q[i].feedbackId].undone
  BY DEF Through
<1>2. CASE q[i].feedbackId = 0
  BY <1>2 DEF MustPost
<1>3. CASE q[i].feedbackId # 0
  <2>1. q[i].cancelled => q[i].undone
    BY <1>1, <1>3 DEF Sound
  <2>2. q[i].undone => q[i].syncError = "null"
    BY <1>1, <1>3 DEF MustUndo, RowOK, Entry
  <2> QED
    BY <1>1, <1>3, <2>1, <2>2 DEF Sound
<1> QED
  BY <1>2, <1>3

LEMMA ForgottenIsUndone ==
    ASSUME QueueInv, NEW q \in Queues, NEW saved, NEW cause, NEW exempt, NEW told,
           exempt \subseteq told,
           Consistent(q, saved, cause, exempt), NEW i \in Ids, i \notin told,
           q[i].place = "queued", Expired(q[i]), TakenBack(q[i]), Through(q[i], i, told)
    PROVE  EventsOf(i) \cap Active = {}
<1>1. Sound(q[i], i, cause, exempt)
  BY DEF Consistent
<1>2. CASE q[i].feedbackId = 0
  <2>1. i \notin posts
    BY <1>2 DEF Through, Consistent
  <2> QED
    BY <2>1 DEF EventsOf, QueueInv, Keyed
<1>3. CASE q[i].feedbackId # 0
  <2>1. events[q[i].feedbackId].undone
    BY <1>1, <1>3 DEF Through, Expired, TakenBack, Sound
  <2>2. \A n \in EventsOf(i) : n = q[i].feedbackId
    BY <1>1, <1>3 DEF Sound, EventsOf, QueueInv, Keyed
  <2> QED
    BY <2>1, <2>2 DEF Active
<1> QED
  BY <1>2, <1>3

LEMMA FilteredFacts ==
    ASSUME NEW q \in Queues, NEW i \in Ids
    PROVE  Filtered(q)[i].place = "dropped" /\ q[i].place # "dropped" =>
               q[i].place = "queued" /\ Expired(q[i])
BY DEF Filtered, Queues

(* A pass leaves only what it may, and drops only what is over.            *)
LEMMA ProceedThrough ==
    ASSUME QueueInv, NEW q \in Queues, NEW saved \in Queues, NEW cause,
           NEW from \in Nat \ {0},
           Consistent(q, saved, cause, stuck'), Ordered(q, saved, stuck'),
           Proceed(q, from, saved),
           \A i \in Ids : i < from => Through(q[i], i, Told')
    PROVE  /\ flush'.pc # "idle" =>
                  \A i \in Ids : i < flush'.at => Through(entries'[i], i, Told')
           /\ \A i \in Ids : entries'[i].place = "dropped" /\ q[i].place # "dropped" =>
                  q[i].place = "queued" /\ Expired(q[i]) /\ Through(q[i], i, Told')
<1> DEFINE due == {i \in from .. MaxEntries : MustPost(q[i]) \/ MustUndo(q[i])}
           m == Min(due)
<1>1. stuck' \subseteq Told'
  BY DEF Told
<1>2. due # {} => m \in due /\ m \in Ids /\ \A j \in due : m <= j
  <2>1. due \in SUBSET Nat /\ due \subseteq Ids
    BY QueueAssumption DEF Ids
  <2> HIDE DEF due
  <2> QED
    BY <2>1, MinOf
<1>3. ASSUME NEW i \in Ids, i \notin due PROVE Through(q[i], i, Told')
  <2>1. CASE i < from
    BY <2>1
  <2>2. CASE ~(i < from)
    <3>1. ~MustPost(q[i]) /\ ~MustUndo(q[i])
      BY <1>3, <2>2, QueueAssumption DEF Ids
    <3> QED
      BY <1>1, <3>1, PassedOver
  <2> QED
    BY <2>1, <2>2
<1>4. CASE due = {} /\ FinishFlush(q) /\ UNCHANGED network
  <2>1. entries' = Filtered(q) /\ flush'.pc = "idle"
    BY <1>4, NewEntryFacts DEF FinishFlush
  <2>2. \A i \in Ids : Through(q[i], i, Told')
    BY <1>3, <1>4
  <2> QED
    BY <2>1, <2>2, FilteredFacts
<1>5. due # {} => \A i \in Ids : i < m => Through(q[i], i, Told')
  <2> SUFFICES ASSUME due # {}, NEW i \in Ids, i < m PROVE i \notin due
    BY <1>3
  <2> HIDE DEF due, m
  <2> QED
    BY <1>2 DEF Ids
<1>6. CASE due # {} /\ entries' = [q EXCEPT ![m].attempted = TRUE] /\ flush'.at = m
  <2> HIDE DEF due, m
  <2>1. \A i \in Ids : i < m => entries'[i] = q[i]
    BY <1>2, <1>6 DEF Queues, Ids
  <2>2. \A i \in Ids : entries'[i].place = q[i].place
    BY <1>2, <1>6 DEF Queues, Entry
  <2> QED
    BY <1>5, <1>6, <2>1, <2>2
<1>7. CASE due # {} /\ entries' = q /\ flush'.at = m
  BY <1>5, <1>7
<1> QED
  BY <1>4, <1>6, <1>7 DEF Proceed

(* A pass over a queue that remembers every undo keeps the invariant.      *)
LEMMA PassDrops ==
    ASSUME QueueInv, DropInv, NEW q \in Queues, NEW saved \in Queues, NEW from \in Nat \ {0},
           Consistent(q, saved, Cause', stuck'), Ordered(q, saved, stuck'),
           Proceed(q, from, saved),
           \A i \in Ids : i < from => Through(q[i], i, Told'),
           events' = events, asked' = asked,
           \A i \in asked : q[i].place = entries[i].place,
           Remembered(q, saved, stuck')
    PROVE  DropInv' /\ DropsForCause
<1>1. Moved(q, saved)
  BY ProceedMoves DEF QueueInv
<1>2. asked \subseteq Ids /\ stuck' \subseteq Told'
  BY QueueTypes DEF Told
<1>3. /\ flush'.pc # "idle" =>
            \A i \in Ids : i < flush'.at => Through(entries'[i], i, Told')
      /\ \A i \in Ids : entries'[i].place = "dropped" /\ q[i].place # "dropped" =>
            q[i].place = "queued" /\ Expired(q[i]) /\ Through(q[i], i, Told')
  BY ProceedThrough
<1>4. \A i \in Ids : Kept(q[i], entries'[i])
  BY <1>1 DEF Moved
<1>5. \A i \in asked : entries'[i].place # "none"
  BY <1>2, <1>4 DEF Kept, DropInv
<1>6. Remembered(entries', disk', stuck')
  <2>1. \A i \in asked : TakenBack(q[i]) => TakenBack(entries'[i])
    BY <1>2, <1>4 DEF Kept, TakenBack
  <2>2. disk' = entries' \/ disk' = saved
    BY <1>1 DEF Moved
  <2> QED
    BY <2>1, <2>2 DEF Remembered
<1>7. DropInv'
  BY <1>3, <1>5, <1>6 DEF DropInv, Remembered, Through
<1>8. DropsForCause
  <2> SUFFICES ASSUME NEW i \in asked, entries'[i].place = "dropped",
                      entries[i].place # "dropped", i \notin Told'
               PROVE  EventsOf(i) \cap Active = {}
    BY DEF DropsForCause
  <2>1. i \in Ids /\ q[i].place # "dropped" /\ TakenBack(q[i])
    BY <1>2 DEF Remembered
  <2>2. q[i].place = "queued" /\ Expired(q[i]) /\ Through(q[i], i, Told')
    BY <1>3, <2>1
  <2> QED
    BY <1>2, <2>1, <2>2, ForgottenIsUndone
<1> QED
  BY <1>7, <1>8

LEMMA BeginFlushDrops ==
    ASSUME QueueInv, OrderInv, DropInv, BeginFlush
    PROVE  DropInv' /\ DropsForCause
<1>1. /\ Proceed(entries, 1, disk)
      /\ UNCHANGED <<events, asked, rejected, stuck>>
  BY DEF BeginFlush, history
<1>2. Consistent(entries, disk, Cause', stuck') /\ Ordered(entries, disk, stuck')
  BY <1>1, Consistency, OrderedFacts DEF Cause
<1>3. \A i \in Ids : i < 1 => Through(entries[i], i, Told')
  BY QueueAssumption DEF Ids
<1>4. Remembered(entries, disk, stuck')
  BY <1>1 DEF DropInv
<1> QED
  BY <1>1, <1>2, <1>3, <1>4, QueueTypes, PassDrops

LEMMA ReloadDrops ==
    ASSUME QueueInv, OrderInv, DropInv, Reload
    PROVE  DropInv' /\ DropsForCause
<1>1. /\ Proceed(disk, 1, disk)
      /\ UNCHANGED <<events, asked, rejected, stuck>>
  BY DEF Reload, history
<1>2. Consistent(disk, disk, Cause', stuck') /\ Ordered(disk, disk, stuck')
  <2>1. posts \subseteq Ids /\ Ordered(entries, disk, stuck)
        /\ Consistent(entries, disk, Cause, stuck)
    BY QueueTypes, OrderedFacts, Consistency
  <2>2. Ordered(disk, disk, stuck)
    BY <2>1 DEF Ordered
  <2>3. Consistent(disk, disk, Cause, stuck)
    BY <2>1 DEF Consistent, TakenBack
  <2> QED
    BY <1>1, <2>2, <2>3 DEF Cause
<1>3. \A i \in Ids : i < 1 => Through(disk[i], i, Told')
  BY QueueAssumption DEF Ids
<1>4. \A i \in asked : disk[i].place = entries[i].place
  BY QueueTypes, OrderedFacts DEF Ordered
<1>5. Remembered(disk, disk, stuck')
  BY <1>1 DEF DropInv, Remembered
<1> QED
  BY <1>1, <1>2, <1>3, <1>4, <1>5, QueueTypes, PassDrops

(* The flush goes on after its entry got another state.                    *)
LEMMA FlushGoesOnDrops ==
    ASSUME QueueInv, OrderInv, DropInv, NEW e \in Entry,
           NEW from \in {flush.at, flush.at + 1},
           Sound(e, flush.at, Cause', stuck'),
           Cause \subseteq Cause', stuck \subseteq stuck', Told \subseteq Told',
           e.attempted = entries[flush.at].attempted,
           TakenBack(entries[flush.at]) => TakenBack(e),
           e.feedbackId # 0 \/ entries[flush.at].feedbackId = 0,
           flush.at \notin stuck' /\ e.undone => TakenBack(disk[flush.at]),
           e.place = entries[flush.at].place, RowOK(e, flush.at, stuck'), Handled(e),
           flush.pc # "idle",
           from = flush.at + 1 => Through(e, flush.at, Told'),
           Proceed([entries EXCEPT ![flush.at] = e], from, disk),
           events' = events, asked' = asked
    PROVE  DropInv' /\ DropsForCause
<1> DEFINE i == flush.at
           q == [entries EXCEPT ![i] = e]
<1>1. i \in Ids /\ i \in Nat /\ from \in Nat \ {0}
  BY AtFacts, QueueAssumption DEF Ids
<1>2. q \in Queues /\ Ordered(q, disk, stuck')
  BY <1>1, OneReordered
<1>3. Consistent(q, disk, Cause', stuck')
  BY <1>1, OneChanged
<1>4. q[i] = e /\ \A j \in Ids \ {i} : q[j] = entries[j]
  BY <1>1, QueueTypes DEF Queues
<1>5. Proceed(q, from, disk)
  OBVIOUS
<1> HIDE DEF q
<1>6. ASSUME NEW j \in Ids, j < from PROVE Through(q[j], j, Told')
  <2>1. CASE j = i
    BY <1>1, <1>4, <1>6, <2>1
  <2>2. CASE j # i
    <3>1. j < i
      BY <1>1, <1>6, <2>2 DEF Ids
    <3>2. Through(entries[j], j, Told)
      BY <3>1 DEF DropInv
    <3> QED
      BY <1>4, <2>2, <3>2 DEF Through
  <2> QED
    BY <2>1, <2>2
<1>7. \A j \in asked : q[j].place = entries[j].place
  BY <1>4, QueueTypes
<1>8. Remembered(q, disk, stuck')
  BY <1>4, QueueTypes DEF DropInv, Remembered
<1> QED
  BY <1>1, <1>2, <1>3, <1>5, <1>6, <1>7, <1>8, QueueTypes, PassDrops

LEMMA PostAnsweredDrops ==
    ASSUME QueueInv, OrderInv, DropInv, PostAnswered
    PROVE  DropInv' /\ DropsForCause
<1> DEFINE i == flush.at
<1>1. PICK n \in EventsOf(i) : Proceed([entries EXCEPT ![i] = Acknowledged(@, n)], i, disk)
  BY DEF PostAnswered
<1>2. n \in Nat /\ n # 0 /\ n \in 1 .. Len(events) /\ events[n].key = i
  BY <1>1, QueueTypes DEF EventsOf, QueueInv, TypeOK
<1>3. PICK e : e = Acknowledged(entries[i], n)
  OBVIOUS
<1>4. /\ e \in Entry /\ e.place = entries[i].place /\ e.attempted = entries[i].attempted
      /\ e.feedbackId = n /\ e.cancelled = entries[i].cancelled
      /\ e.undone = TakenBack(entries[i])
      /\ e.syncError = "null" \/ (e.syncError = "undo_pending" /\ e.undone)
      /\ TakenBack(entries[i]) => e.syncError = "undo_pending"
  BY <1>2, <1>3, AtFacts, AcknowledgedFacts
<1>5. disk = entries /\ flush.pc # "idle"
  BY DEF PostAnswered, QueueInv, Awaited
<1>6. UNCHANGED <<events, asked, rejected, stuck>>
  BY DEF PostAnswered, history
<1>7. Cause' = Cause /\ Told' = Told
  BY <1>6 DEF Cause, Told
<1>8. Sound(e, i, Cause, stuck)
  <2>1. i \in posts
    BY <1>2 DEF QueueInv, Keyed
  <2>2. entries[i].attempted
    BY <2>1, Consistency DEF Consistent
  <2> QED
    BY <1>1, <1>4, <2>2, AtFacts DEF Sound, TakenBack
<1>9. Handled(e) /\ RowOK(e, i, stuck) /\ (TakenBack(entries[i]) <=> TakenBack(e))
  BY <1>2, <1>4 DEF Handled, RowOK, TakenBack
<1>10. e.undone => TakenBack(disk[i])
  BY <1>4, <1>5
<1>11. Proceed([entries EXCEPT ![i] = e], i, disk)
  BY <1>1, <1>3
<1>12. i \in Nat
  BY AtFacts DEF Ids
<1> QED
  BY <1>2, <1>4, <1>5, <1>6, <1>7, <1>8, <1>9, <1>10, <1>11, <1>12, FlushGoesOnDrops

LEMMA UndoneKnown ==
    ASSUME QueueInv, flush.at \notin stuck', stuck \subseteq stuck', entries[flush.at].undone
    PROVE  TakenBack(disk[flush.at])
BY AtFacts, Consistency DEF Consistent

LEMMA FlushUndoAnsweredDrops ==
    ASSUME QueueInv, OrderInv, DropInv, FlushUndoAnswered
    PROVE  DropInv' /\ DropsForCause
<1> DEFINE i == flush.at
<1>1. PICK e : e = [entries[i] EXCEPT !.syncError = "null"]
  OBVIOUS
<1>2. /\ e \in Entry /\ e.place = entries[i].place /\ e.attempted = entries[i].attempted
      /\ e.feedbackId = entries[i].feedbackId /\ e.cancelled = entries[i].cancelled
      /\ e.undone = entries[i].undone /\ e.syncError = "null"
  BY <1>1, AtFacts, StateFacts
<1>3. /\ events[entries[i].feedbackId].undone
      /\ Proceed([entries EXCEPT ![i] = e], i + 1, disk)
      /\ UNCHANGED <<events, asked, rejected, stuck>>
  BY <1>1 DEF FlushUndoAnswered, history
<1>4. Cause' = Cause /\ Told' = Told
  BY <1>3 DEF Cause, Told
<1>5. flush.pc # "idle" /\ entries[i].feedbackId # 0
  BY DEF FlushUndoAnswered, OrderInv, PassOK
<1>6. Sound(e, i, Cause', stuck')
  BY <1>2, <1>3, <1>4, AtFacts DEF Sound
<1>7. Handled(e) /\ RowOK(e, i, stuck') /\ (TakenBack(entries[i]) => TakenBack(e))
  BY <1>2, <1>3, <1>5 DEF Handled, RowOK, TakenBack
<1>8. Through(e, i, Told')
  BY <1>2, <1>3, <1>5 DEF Through
<1>9. i \notin stuck' /\ e.undone => TakenBack(disk[i])
  BY <1>2, <1>3, UndoneKnown
<1> QED
  BY <1>2, <1>3, <1>4, <1>5, <1>6, <1>7, <1>8, <1>9, FlushGoesOnDrops

LEMMA PostRefusedDrops ==
    ASSUME QueueInv, OrderInv, DropInv, PostRefused
    PROVE  DropInv' /\ DropsForCause
<1> DEFINE i == flush.at
<1>1. PICK e : e = Rejected(entries[i])
  OBVIOUS
<1>2. /\ e \in Entry /\ e.place = entries[i].place /\ e.attempted = entries[i].attempted
      /\ e.feedbackId = entries[i].feedbackId /\ e.cancelled
      /\ e.undone = entries[i].undone
  BY <1>1, AtFacts, RejectedFacts
<1>3. /\ Proceed([entries EXCEPT ![i] = e], i + 1, disk)
      /\ rejected' = rejected \cup {i}
      /\ UNCHANGED <<events, asked, stuck>>
  BY <1>1 DEF PostRefused
<1>4. Cause' = Cause \cup {i} /\ Told' = Told \cup {i}
  BY <1>3 DEF Cause, Told
<1>5. flush.pc # "idle" /\ entries[i].feedbackId = 0
  BY DEF PostRefused, QueueInv, Awaited
<1>6. Sound(e, i, Cause', stuck')
  BY <1>2, <1>3, <1>4, <1>5, AtFacts DEF Sound
<1>7. Handled(e) /\ RowOK(e, i, stuck') /\ TakenBack(e)
  BY <1>2, <1>5 DEF Handled, RowOK, TakenBack
<1>8. Through(e, i, Told')
  BY <1>4 DEF Through
<1>9. i \notin stuck' /\ e.undone => TakenBack(disk[i])
  BY <1>2, <1>3, UndoneKnown
<1>10. Cause \subseteq Cause' /\ Told \subseteq Told'
  BY <1>4
<1> QED
  BY <1>2, <1>3, <1>5, <1>6, <1>7, <1>8, <1>9, <1>10, FlushGoesOnDrops

LEMMA FlushUndoRefusedDrops ==
    ASSUME QueueInv, OrderInv, DropInv, FlushUndoRefused
    PROVE  DropInv' /\ DropsForCause
<1> DEFINE i == flush.at
<1>1. PICK e : e = [entries[i] EXCEPT !.syncError = "failed"]
  OBVIOUS
<1>2. /\ e \in Entry /\ e.place = entries[i].place /\ e.attempted = entries[i].attempted
      /\ e.feedbackId = entries[i].feedbackId /\ e.cancelled = entries[i].cancelled
      /\ e.undone = entries[i].undone
  BY <1>1, AtFacts, StateFacts
<1>3. /\ Proceed([entries EXCEPT ![i] = e], i + 1, disk)
      /\ stuck' = stuck \cup {i}
      /\ UNCHANGED <<events, asked, rejected>>
  BY <1>1 DEF FlushUndoRefused
<1>4. Cause' = Cause /\ Told' = Told \cup {i}
  BY <1>3 DEF Cause, Told
<1>5. flush.pc # "idle" /\ entries[i].feedbackId # 0
  BY DEF FlushUndoRefused, OrderInv, PassOK
<1>6. Sound(e, i, Cause', stuck')
  BY <1>2, <1>3, <1>4, AtFacts DEF Sound
<1>7. Handled(e) /\ RowOK(e, i, stuck') /\ (TakenBack(entries[i]) => TakenBack(e))
  BY <1>2, <1>3, <1>5 DEF Handled, RowOK, TakenBack
<1>8. Through(e, i, Told') /\ i \in stuck'
  BY <1>3, <1>4 DEF Through
<1>9. Told \subseteq Told' /\ stuck \subseteq stuck'
  BY <1>3, <1>4
<1> QED
  BY <1>2, <1>3, <1>4, <1>5, <1>6, <1>7, <1>8, <1>9, FlushGoesOnDrops

LEMMA FlushBreaksDrops ==
    ASSUME QueueInv, OrderInv, DropInv, FlushBreaks
    PROVE  DropInv' /\ DropsForCause
<1> DEFINE i == flush.at
<1>0. PICK failure \in {"null", "undo_pending", "failed"} :
         failure = (IF flush.pc = "post" THEN "failed" ELSE "undo_pending")
  OBVIOUS
<1>1. PICK e : e = [entries[i] EXCEPT !.syncError = failure]
  OBVIOUS
<1>2. /\ e \in Entry /\ e.place = entries[i].place /\ e.cancelled = entries[i].cancelled
      /\ e.undone = entries[i].undone
  BY <1>1, AtFacts, StateFacts
<1> DEFINE q == [entries EXCEPT ![i] = e]
<1>3. /\ FinishFlush(q) /\ UNCHANGED <<events, asked, rejected, stuck>>
      /\ flush.pc # "idle"
  BY <1>0, <1>1 DEF FlushBreaks, history
<1>4. /\ q \in Queues /\ q[i] = e /\ \A j \in Ids \ {i} : q[j] = entries[j]
      /\ i \in Ids
  BY <1>2, AtFacts, QueueTypes DEF Queues
<1> HIDE DEF q
<1>5. entries' = Filtered(q) /\ disk' = entries' /\ flush'.pc = "idle"
  BY <1>3, NewEntryFacts DEF FinishFlush
<1>6. ASSUME NEW j \in Ids
      PROVE  /\ q[j].place = entries[j].place
             /\ TakenBack(entries[j]) => TakenBack(entries'[j])
             /\ entries'[j].place = "none" => q[j].place = "none"
  <2>1. q[j] \in Entry /\ q[j].place = entries[j].place
        /\ (TakenBack(entries[j]) => TakenBack(q[j]))
    BY <1>2, <1>4 DEF TakenBack, Queues
  <2>2. entries'[j] = q[j] \/ entries'[j] = [q[j] EXCEPT !.place = "dropped"]
    BY <1>5 DEF Filtered
  <2> QED
    BY <2>1, <2>2 DEF TakenBack, Entry
<1>7. DropInv'
  BY <1>3, <1>5, <1>6, QueueTypes DEF DropInv, Remembered
<1>8. ASSUME NEW j \in asked, entries'[j].place = "dropped", entries[j].place # "dropped",
             j \notin Told', j < i
      PROVE  EventsOf(j) \cap Active = {}
  <2>1. j \in Ids /\ j \in Nat /\ i \in Nat
    BY <1>4, QueueTypes DEF Ids
  <2>2. q[j] = entries[j] /\ entries[j].place = "queued" /\ Expired(entries[j])
    BY <1>4, <1>5, <1>8, <2>1, FilteredFacts
  <2>3. Through(entries[j], j, Told) /\ TakenBack(entries[j]) /\ j \notin Told
        /\ stuck \subseteq Told
    BY <1>3, <1>8, <2>1 DEF DropInv, Remembered, Told
  <2> QED
    BY <2>1, <2>2, <2>3, QueueTypes, Consistency, ForgottenIsUndone
<1>9. DropsForCause
  <2> SUFFICES ASSUME NEW j \in asked, entries'[j].place = "dropped",
                      entries[j].place # "dropped", j \notin Told', ~(i <= j)
               PROVE  EventsOf(j) \cap Active = {}
    BY DEF DropsForCause
  <2>1. j < i
    BY <1>4, QueueTypes DEF Ids
  <2> QED
    BY <1>8, <2>1
<1> QED
  BY <1>7, <1>9

(* A change to one entry that is saved while the flush, if any, waits.     *)
LEMMA SavedDrops ==
    ASSUME QueueInv, OrderInv, DropInv, NEW i \in Ids, NEW e \in Entry,
           e.place = entries[i].place, e.place # "none",
           i \in stuck' \/ (TakenBack(entries[i]) => TakenBack(e)),
           asked' \subseteq asked \cup {i}, i \in asked' \ asked => TakenBack(e),
           Told \subseteq Told', stuck \subseteq stuck',
           flush.pc # "idle" /\ i < flush.at /\ Through(entries[i], i, Told) =>
               Through(e, i, Told'),
           entries' = [entries EXCEPT ![i] = e], disk' = entries',
           UNCHANGED <<flush, events>>
    PROVE  DropInv' /\ DropsForCause
<1>1. entries'[i] = e /\ \A j \in Ids \ {i} : entries'[j] = entries[j]
  BY QueueTypes DEF Queues
<1>2. \A j \in asked : entries'[j].place = entries[j].place
  BY <1>1, QueueTypes
<1>3. \A j \in asked' : entries'[j].place # "none"
  BY <1>1, <1>2 DEF DropInv
<1>4. \A j \in asked' \ stuck' : TakenBack(entries'[j])
  <2> SUFFICES ASSUME NEW j \in asked', j \notin stuck' PROVE TakenBack(entries'[j])
    OBVIOUS
  <2>1. j \in asked => TakenBack(entries[j])
    BY DEF DropInv, Remembered
  <2>2. j \in Ids /\ (j # i => j \in asked)
    BY QueueTypes
  <2> QED
    BY <1>1, <2>1, <2>2
<1>5. Remembered(entries, disk, stuck)'
  BY <1>4 DEF Remembered
<1>6. ASSUME flush.pc # "idle", NEW j \in Ids, j < flush.at
      PROVE  Through(entries'[j], j, Told')
  <2>1. Through(entries[j], j, Told)
    BY <1>6 DEF DropInv
  <2> QED
    BY <1>1, <1>6, <2>1 DEF Through
<1>7. DropInv'
  BY <1>3, <1>5, <1>6 DEF DropInv, Through
<1>8. DropsForCause
  BY <1>2 DEF DropsForCause
<1> QED
  BY <1>7, <1>8

LEMMA UndoDrops ==
    ASSUME QueueInv, OrderInv, DropInv, NEW i \in Ids, Undo(i)
    PROVE  DropInv' /\ DropsForCause
<1> DEFINE old == entries[i]
<1>1. /\ disk' = entries' /\ UNCHANGED <<flush, events, rejected, stuck>>
      /\ asked' = asked \cup {i} /\ old.place = "queued" /\ ~old.cancelled
  BY DEF Undo
<1>2. old \in Entry /\ Told' = Told
  BY <1>1, QueueTypes DEF Queues, Told
<1>3. CASE old.feedbackId = 0
  <2>1. PICK e : e = [old EXCEPT !.cancelled = TRUE]
    OBVIOUS
  <2>2. e \in Entry /\ e.place = old.place /\ e.cancelled
    BY <1>2, <2>1 DEF Entry
  <2>3. entries' = [entries EXCEPT ![i] = e]
    BY <1>3, <2>1 DEF Undo
  <2>4. ~(flush.pc # "idle" /\ i < flush.at)
    BY <1>1, <1>3, OrderedFacts DEF Handled
  <2> QED
    BY <1>1, <1>2, <2>2, <2>3, <2>4, SavedDrops DEF TakenBack
<1>4. CASE old.feedbackId # 0
  <2>1. PICK e : e = [old EXCEPT !.undone = TRUE, !.syncError = "undo_pending"]
    OBVIOUS
  <2>2. e \in Entry /\ e.place = old.place /\ e.feedbackId = old.feedbackId
        /\ e.cancelled = old.cancelled /\ e.undone
    BY <1>2, <2>1 DEF Entry
  <2>3. entries' = [entries EXCEPT ![i] = e]
    BY <1>4, <2>1 DEF Undo
  <2>4. Through(e, i, Told')
    BY <1>1, <1>4, <2>2 DEF Through
  <2> QED
    BY <1>1, <1>2, <2>2, <2>3, <2>4, SavedDrops DEF TakenBack
<1> QED
  BY <1>3, <1>4

(* An undo() that awaits its answer is about an entry of the queue.        *)
LEMMA UndoingPlace ==
    ASSUME QueueInv, NEW i \in undoing
    PROVE  i \in Ids /\ entries[i] \in Entry /\ entries[i].place # "none"
           /\ entries[i].feedbackId # 0
<1>1. i \in Ids /\ entries[i].feedbackId # 0 /\ entries[i] \in Entry
  BY QueueTypes DEF QueueInv, Awaited, Queues
<1> QED
  BY <1>1, Consistency DEF Consistent, Sound

LEMMA UndoAnsweredDrops ==
    ASSUME QueueInv, OrderInv, DropInv, NEW i \in Ids, UndoAnswered(i)
    PROVE  DropInv' /\ DropsForCause
<1>1. PICK e : e = [entries[i] EXCEPT !.syncError = "null"]
  OBVIOUS
<1>2. /\ entries' = [entries EXCEPT ![i] = e] /\ disk' = entries' /\ i \in undoing
      /\ UNCHANGED <<flush, events, asked, rejected, stuck>>
  BY <1>1 DEF UndoAnswered, history
<1>3. /\ e \in Entry /\ e.place = entries[i].place /\ e.feedbackId = entries[i].feedbackId
      /\ e.attempted = entries[i].attempted /\ e.cancelled = entries[i].cancelled
      /\ e.undone = entries[i].undone
  BY <1>1, <1>2, UndoingPlace, StateFacts
<1>4. Told' = Told
  BY <1>2 DEF Told
<1>5. TakenBack(entries[i]) => TakenBack(e)
  BY <1>3 DEF TakenBack
<1>6. Through(entries[i], i, Told) => Through(e, i, Told')
  BY <1>3, <1>4 DEF Through
<1> QED
  BY <1>2, <1>3, <1>4, <1>5, <1>6, UndoingPlace, SavedDrops

LEMMA UndoFailsDrops ==
    ASSUME QueueInv, OrderInv, DropInv, NEW i \in Ids, UndoFails(i)
    PROVE  DropInv' /\ DropsForCause
<1>1. disk' = entries' /\ i \in undoing /\ UNCHANGED <<flush, events, asked, rejected>>
  BY DEF UndoFails
<1>2. entries[i] \in Entry /\ entries[i].place # "none"
  BY <1>1, UndoingPlace
<1>3. CASE UNCHANGED <<entries, stuck>>
  <2>1. entries' = [entries EXCEPT ![i] = entries[i]]
    BY <1>3, QueueTypes DEF Queues
  <2>2. Told' = Told
    BY <1>1, <1>3 DEF Told
  <2> QED
    BY <1>1, <1>2, <1>3, <2>1, <2>2, SavedDrops
<1>4. CASE /\ entries' = [entries EXCEPT ![i] = [@ EXCEPT !.undone = FALSE, !.syncError = "failed"]]
           /\ stuck' = stuck \cup {i}
  <2>1. PICK e : e = [entries[i] EXCEPT !.undone = FALSE, !.syncError = "failed"]
    OBVIOUS
  <2>2. e \in Entry /\ e.place = entries[i].place
    BY <1>2, <2>1 DEF Entry
  <2>3. entries' = [entries EXCEPT ![i] = e] /\ stuck \subseteq stuck' /\ i \in stuck'
        /\ Told' = Told \cup {i}
    BY <1>1, <1>4, <2>1 DEF Told
  <2>4. Through(e, i, Told') /\ Told \subseteq Told'
    BY <2>3 DEF Through
  <2> QED
    BY <1>1, <1>2, <2>2, <2>3, <2>4, SavedDrops
<1> QED
  BY <1>3, <1>4 DEF UndoFails

(* What leaves the client alone and takes nothing back on the server.      *)
LEMMA ServedDrops ==
    ASSUME QueueInv, DropInv, UNCHANGED <<entries, disk, flush, history>>,
           \A n \in 1 .. Len(events) : events[n].undone => events'[n].undone
    PROVE  DropInv' /\ DropsForCause
<1>1. UNCHANGED <<asked, rejected, stuck>> /\ Told' = Told
  BY DEF history, Told
<1>2. ASSUME NEW i \in Ids, Through(entries[i], i, Told)
      PROVE  Through(entries[i], i, Told)'
  <2>1. entries[i].feedbackId # 0 => entries[i].feedbackId \in 1 .. Len(events)
    BY Consistency DEF Consistent, Sound, EventsOf
  <2> QED
    BY <1>1, <1>2, <2>1 DEF Through
<1>3. DropInv'
  BY <1>1, <1>2 DEF DropInv, Remembered
<1> QED
  BY <1>3 DEF DropsForCause

LEMMA CreateFeedbackDrops ==
    ASSUME QueueInv, DropInv, NEW i \in Ids, CreateFeedback(i)
    PROVE  DropInv' /\ DropsForCause
<1> DEFINE E == [key : Ids, undone : BOOLEAN]
           new == [key |-> i, undone |-> FALSE]
<1>1. events' = events \/ events' = Append(events, new)
  BY DEF CreateFeedback, Created
<1>2. events \in Seq(E)
  BY DEF QueueInv, TypeOK
<1>3. UNCHANGED <<entries, disk, flush, history>>
  BY DEF CreateFeedback, client
<1> HIDE DEF E, new
<1>4. \A n \in 1 .. Len(events) : events'[n] = events[n]
  BY <1>1, <1>2
<1> QED
  BY <1>3, <1>4, ServedDrops

LEMMA UndoFeedbackDrops ==
    ASSUME QueueInv, DropInv, NEW n \in 1 .. Len(events), UndoFeedback(n)
    PROVE  DropInv' /\ DropsForCause
<1> DEFINE E == [key : Ids, undone : BOOLEAN]
<1>1. events' = [events EXCEPT ![n].undone = TRUE] /\ UNCHANGED <<entries, disk, flush, history>>
  BY DEF UndoFeedback, client
<1>2. events \in Seq(E)
  BY DEF QueueInv, TypeOK
<1> HIDE DEF E
<1>3. events[n] \in E
  BY <1>2
<1>4. \A m \in 1 .. Len(events) : events[m].undone => events'[m].undone
  BY <1>1, <1>2, <1>3 DEF E
<1> QED
  BY <1>1, <1>4, ServedDrops

LEMMA SubmitDrops ==
    ASSUME QueueInv, OrderInv, DropInv, NEW i \in Ids, Submit(i)
    PROVE  DropInv' /\ DropsForCause
<1>1. PICK e : e = [NewEntry EXCEPT !.place = "queued"]
  OBVIOUS
<1>2. /\ e \in Entry /\ e.place = "queued" /\ e.feedbackId = 0
      /\ ~e.attempted /\ ~e.undone /\ ~e.cancelled /\ e.syncError = "null"
  BY <1>1, NewEntryFacts DEF Entry, NewEntry
<1> DEFINE q == [entries EXCEPT ![i] = e]
<1>3. /\ entries[i].place = "none" /\ \A j \in 1 .. (i - 1) : entries[j].place # "none"
      /\ \/ flush.pc = "idle" /\ Proceed(q, 1, q)
         \/ flush.pc # "idle" /\ entries' = q /\ disk' = q /\ UNCHANGED flush
      /\ UNCHANGED <<events, asked, rejected, stuck>>
  BY <1>1 DEF Submit, history
<1>4. q \in Queues /\ q[i] = e /\ \A j \in Ids \ {i} : q[j] = entries[j]
  BY <1>2, QueueTypes DEF Queues
<1>5. i \notin asked /\ Cause' = Cause /\ Told' = Told
  BY <1>3 DEF DropInv, Cause, Told
<1>6. \A j \in asked : q[j] = entries[j]
  BY <1>4, <1>5, QueueTypes
<1>7. Remembered(q, q, stuck)
  BY <1>6 DEF DropInv, Remembered
<1>8. Consistent(q, q, Cause, stuck) /\ entries[i].feedbackId = 0
  <2>1. Sound(entries[i], i, Cause, stuck)
    BY Consistency DEF Consistent
  <2>2. ~entries[i].attempted /\ entries[i].feedbackId = 0
    BY <1>3, <2>1 DEF Sound
  <2>3. i \notin posts
    BY <2>2, Consistency DEF Consistent
  <2>4. Sound(e, i, Cause, stuck)
    BY <1>2 DEF Sound
  <2> QED
    BY <1>2, <2>2, <2>3, <2>4, OneChanged
<1>9. Ordered(q, q, stuck) /\ (flush.pc # "idle" => ~(i < flush.at))
  BY <1>2, <1>3, SubmitQueueOrdered
<1> HIDE DEF q
<1>10. CASE flush.pc = "idle" /\ Proceed(q, 1, q)
  <2>1. \A j \in Ids : j < 1 => Through(q[j], j, Told')
    BY QueueAssumption DEF Ids
  <2>2. \A j \in asked : q[j].place = entries[j].place
    BY <1>6
  <2>3. /\ Consistent(q, q, Cause', stuck') /\ Ordered(q, q, stuck')
        /\ Remembered(q, q, stuck') /\ events' = events /\ asked' = asked
    BY <1>3, <1>5, <1>7, <1>8, <1>9
  <2> QED
    BY <1>4, <1>10, <2>1, <2>2, <2>3, PassDrops
<1>11. CASE flush.pc # "idle" /\ entries' = q /\ disk' = q /\ UNCHANGED flush
  <2>1. ASSUME NEW j \in Ids, j < flush.at PROVE Through(entries'[j], j, Told')
    BY <1>4, <1>5, <1>9, <1>11, <2>1 DEF DropInv
  <2>2. \A j \in asked : entries'[j].place = entries[j].place
    BY <1>6, <1>11
  <2>3. DropInv'
    BY <1>3, <1>7, <1>11, <2>1, <2>2 DEF DropInv, Remembered, Through
  <2> QED
    BY <2>2, <2>3 DEF DropsForCause
<1> QED
  BY <1>3, <1>10, <1>11

LEMMA DropInit == Init => DropInv
BY NewEntryFacts DEF Init, DropInv, Remembered

LEMMA DropNext ==
    ASSUME QueueInv, OrderInv, DropInv, [Next]_vars
    PROVE  DropInv' /\ (DropsForCause \/ UNCHANGED vars)
<1>1. CASE Flushing
  BY <1>1, BeginFlushDrops, PostAnsweredDrops, FlushUndoAnsweredDrops DEF Flushing
<1>2. CASE PostRefused \/ FlushUndoRefused \/ FlushBreaks \/ Reload
  BY <1>2, PostRefusedDrops, FlushUndoRefusedDrops, FlushBreaksDrops, ReloadDrops
<1>3. CASE \E i \in Ids : Submit(i) \/ Undo(i) \/ UndoAnswered(i) \/ UndoFails(i)
  BY <1>3, SubmitDrops, UndoDrops, UndoAnsweredDrops, UndoFailsDrops
<1>4. CASE \E i \in Ids : CreateFeedback(i)
  BY <1>4, CreateFeedbackDrops
<1>5. CASE \E i \in Ids : SevenDaysPass(i)
  <2>1. UNCHANGED <<entries, disk, flush, history, events>>
    BY <1>5 DEF SevenDaysPass, client
  <2> QED
    BY <2>1, ServedDrops
<1>6. CASE \E n \in 1 .. Len(events) : UndoFeedback(n)
  BY <1>6, UndoFeedbackDrops
<1>7. CASE UNCHANGED vars
  BY <1>7 DEF vars, DropInv, Remembered, Through, Told
<1> QED
  BY <1>1, <1>2, <1>3, <1>4, <1>5, <1>6, <1>7 DEF Next

\* Feedback the user took back while it was active on the server is never
\* forgotten by the seven-day filter but for two causes: the client was told
\* that a request about it had failed for good, or a retryable failure broke
\* the pass off before it came past the entry.  In a pass that goes through,
\* the filter drops fully settled entries only, as the comment over it says.
THEOREM FilterDropsForCause == Spec => [][DropsForCause]_vars
<1>1. Init => QueueInv /\ OrderInv /\ DropInv
  BY QueueInitInv, OrderInit, DropInit
<1>2. QueueInv /\ OrderInv /\ DropInv /\ [Next]_vars =>
         (QueueInv /\ OrderInv /\ DropInv)' /\ [DropsForCause]_vars
  BY QueueNextInv, OrderNext, DropNext
<1> QED
  BY <1>1, <1>2, PTL DEF Spec

=============================================================================
