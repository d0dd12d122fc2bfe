------------------------------ MODULE Sessions ------------------------------
(***************************************************************************)
(* The sessions of one account: the token rows of                          *)
(* crates/storage/src/accounts.rs, the handlers of apps/server/src/api.rs  *)
(* and the pages that use them through web/src/api/client.ts.              *)
(*                                                                         *)
(* A session is one access token and one refresh token.  The access token  *)
(* expires first; then, or after a 401, the page trades its refresh token  *)
(* for a new session, once for all of its calls.  A page keeps its session *)
(* in memory and in the storage it shares with the other pages of its      *)
(* device.  Each storage call is a transaction; a handler that asks for an *)
(* account makes two of them.                                              *)
(***************************************************************************)
EXTENDS Naturals, FiniteSets

CONSTANTS
    Pages,        \* pages of the client
    Devices,      \* storages the pages load from
    Calls,        \* calls that may be under way at once
    PageOf,       \* PageOf[k]: the page that makes call k
    DeviceOf,     \* DeviceOf[p]: the storage of page p
    OpsOf,        \* bound: what call k may be for is in OpsOf[k]
    MaxSessions,  \* bound: sessions ever created
    MaxEvents     \* bound: failed requests, reloads and expiries

Ops == {"use", "login", "logout", "logoutAll", "password", "delete"}

ASSUME PlaceAssumption ==
    /\ PageOf \in [Calls -> Pages]
    /\ DeviceOf \in [Pages -> Devices]

ASSUME BoundAssumption ==
    /\ MaxSessions \in Nat \ {0} /\ MaxEvents \in Nat
    /\ OpsOf \in [Calls -> SUBSET Ops]

VARIABLES
    sessions,  \* account_sessions, a row's number stands for its tokens
    deleted,   \* the account's status is 'deleted'
    page,      \* page[p]: the session p keeps in memory
    disk,      \* disk[d]: the session kept in d's storage
    refresh,   \* refresh[p]: p's bootstrapSession, shared by its calls
    calls,     \* calls[k]: call k
    late,      \* refresh tokens still on their way after their page gave up
    events     \* failures, reloads and expiries so far

server == <<sessions, deleted>>
client == <<page, disk, refresh, calls, late>>
vars == <<sessions, deleted, page, disk, refresh, calls, late, events>>

Ids == 1 .. MaxSessions

\* Session 0 stands for being signed out: an anonymous session or none.
NoOne == 0

\* root: the sign-in the session descends from; next: replaced_by_session_id;
\* age: its access token is still good, has expired, so has its refresh token.
Session ==
    [state : {"free", "live", "revoked"}, age : {"fresh", "stale", "lapsed"},
     root : Ids \cup {NoOne}, next : Ids \cup {NoOne}]

\* invalid: expires_at_ms was set to 0 after a 401.
Kept == [id : Ids \cup {NoOne}, invalid : BOOLEAN]

\* await: for the page's refresh; sent, granted: at the server, before and
\* after require_account; ok, denied: answered.
Call ==
    [op : Ops, pc : {"idle", "await", "sent", "granted", "ok", "denied"},
     token : Ids \cup {NoOne}, retried : BOOLEAN]

\* from: the session the page kept when it began; token: what it presents,
\* NoOne when it asks for an anonymous session; got: the new session.
Refresh ==
    [pc : {"idle", "sent", "ok", "denied"}, from : Ids \cup {NoOne},
     token : Ids \cup {NoOne}, got : Ids \cup {NoOne}]

FreeSession == [state |-> "free", age |-> "fresh", root |-> NoOne, next |-> NoOne]
SignedOut == [id |-> NoOne, invalid |-> FALSE]
NoRefresh == [pc |-> "idle", from |-> NoOne, token |-> NoOne, got |-> NoOne]
NoCall == [op |-> "use", pc |-> "idle", token |-> NoOne, retried |-> FALSE]

TypeOK ==
    /\ sessions \in [Ids -> Session]
    /\ deleted \in BOOLEAN
    /\ page \in [Pages -> Kept]
    /\ disk \in [Devices -> Kept]
    /\ refresh \in [Pages -> Refresh]
    /\ calls \in [Calls -> Call]
    /\ late \subseteq Ids
    /\ events \in 0 .. MaxEvents

Init ==
    /\ sessions = [s \in Ids |-> FreeSession]
    /\ deleted = FALSE
    /\ page = [p \in Pages |-> SignedOut]
    /\ disk = [d \in Devices |-> SignedOut]
    /\ refresh = [p \in Pages |-> NoRefresh]
    /\ calls = [k \in Calls |-> NoCall]
    /\ late = {}
    /\ events = 0

\* At the bound on sessions every request fails.
Full == \A s \in Ids : sessions[s].state # "free"

Fault ==
    \/ events < MaxEvents /\ events' = events + 1
    \/ Full /\ UNCHANGED events

-----------------------------------------------------------------------------
(* The sessions table                                                      *)

Live(s) == s # NoOne /\ sessions[s].state = "live"

\* A live session of an active account that can still be refreshed.
Usable(s) == Live(s) /\ sessions[s].age # "lapsed" /\ ~deleted

\* create_account_session inserts the next row.
NextFree(n) ==
    sessions[n].state = "free" /\ \A s \in 1 .. (n - 1) : sessions[s].state # "free"

Issued(root) == [FreeSession EXCEPT !.state = "live", !.root = root]

\* The table with what is live among S revoked.
Revoked(S) ==
    [s \in Ids |-> IF s \in S /\ Live(s) THEN [sessions[s] EXCEPT !.state = "revoked"]
                   ELSE sessions[s]]

\* Mutant: the old row is not revoked.
RotatedBeside(s, n) ==
    [sessions EXCEPT ![n] = Issued(sessions[s].root), ![s].next = n]

\* The replacement is inserted and the old row revoked.
Rotated(s, n) ==
    [sessions EXCEPT ![n] = Issued(sessions[s].root),
                     ![s].state = "revoked", ![s].next = n]

\* Mutant: only a session that was replaced counts as revoked.
HonouredUnlessReplaced(s) ==
    sessions[s].next = NoOne /\ sessions[s].age # "lapsed" /\ ~deleted

Honoured(s) == Usable(s)

\* A revoked token is taken for a stolen one and ends every session.
Condemned(s) == IF Live(s) THEN {s} ELSE Ids

\* refresh_account_session: what it does and answers to token s.
RefreshSession(s, answer) ==
    \/ /\ Honoured(s)
       /\ answer.pc = "ok"
       /\ NextFree(answer.got)
       /\ sessions' = Rotated(s, answer.got)
    \/ /\ ~Honoured(s)
       /\ answer = [pc |-> "denied", got |-> NoOne]
       /\ sessions' = Revoked(Condemned(s))

Answers == [pc : {"ok"}, got : Ids] \cup {[pc |-> "denied", got |-> NoOne]}

-----------------------------------------------------------------------------
(* The page's session: ensureSession and bootstrapSession                  *)

Keep(p, kept) ==
    /\ page' = [page EXCEPT ![p] = kept]
    /\ disk' = [disk EXCEPT ![DeviceOf[p]] = kept]

Good(kept) == kept.id # NoOne /\ ~kept.invalid /\ sessions[kept.id].age = "fresh"

\* Mutant: a session that has to be refreshed is given up.
PresentedNever(kept) == NoOne

\* A refresh token known to have expired is not presented.
Presented(kept) ==
    IF kept.id = NoOne \/ sessions[kept.id].age = "lapsed" THEN NoOne ELSE kept.id

\* Call c goes out at once, or waits for the bootstrap under way or begun
\* now.  An anonymous session may have expired or not.
Ensure(k, c, kept) ==
    LET p == PageOf[k] IN
    \/ /\ Good(kept) \/ kept.id = NoOne
       /\ calls' = [calls EXCEPT ![k] = [c EXCEPT !.pc = "sent", !.token = kept.id]]
       /\ UNCHANGED refresh
    \/ /\ ~Good(kept)
       /\ calls' = [calls EXCEPT ![k] = [c EXCEPT !.pc = "await"]]
       /\ refresh' = IF refresh[p].pc # "idle" THEN refresh
                     ELSE [refresh EXCEPT ![p] =
                              [NoRefresh EXCEPT !.pc = "sent", !.from = kept.id,
                                                !.token = Presented(kept)]]

\* The bootstrap of p ends with session s: its calls go out.
Settle(p, s) ==
    /\ Keep(p, [id |-> s, invalid |-> FALSE])
    /\ refresh' = [refresh EXCEPT ![p] = NoRefresh]
    /\ calls' = [k \in Calls |->
                    IF PageOf[k] = p /\ calls[k].pc = "await"
                    THEN [calls[k] EXCEPT !.pc = "sent", !.token = s]
                    ELSE calls[k]]
    /\ UNCHANGED <<server, late, events>>

RefreshHandled(p) ==
    /\ refresh[p].pc = "sent"
    /\ refresh[p].token # NoOne
    /\ \E answer \in Answers :
           /\ RefreshSession(refresh[p].token, answer)
           /\ refresh' = [refresh EXCEPT ![p].pc = answer.pc, ![p].got = answer.got]
    /\ UNCHANGED <<deleted, page, disk, calls, late, events>>

RefreshAnswered(p) == refresh[p].pc = "ok" /\ Settle(p, refresh[p].got)

\* Mutant: a rejected refresh token is kept and presented again.
AfterRejection(p) == NoRefresh

\* A 401 falls back to an anonymous session.
AfterDenial(p) == [refresh[p] EXCEPT !.pc = "sent", !.token = NoOne]

RefreshDenied(p) ==
    /\ refresh[p].pc = "denied"
    /\ refresh' = [refresh EXCEPT ![p] = AfterDenial(p)]
    /\ UNCHANGED <<server, page, disk, calls, late, events>>

AnonymousAnswered(p) ==
    /\ refresh[p].pc = "sent"
    /\ refresh[p].token = NoOne
    /\ Settle(p, NoOne)

\* A refresh token sent but not yet handled may still arrive.
OnItsWay(p) ==
    IF refresh[p].pc = "sent" /\ refresh[p].token # NoOne THEN {refresh[p].token} ELSE {}

\* A network or server failure: the calls fail, the session is kept.
BootstrapFails(p) ==
    /\ refresh[p].pc # "idle"
    /\ Fault
    /\ refresh' = [refresh EXCEPT ![p] = NoRefresh]
    /\ calls' = [k \in Calls |->
                    IF PageOf[k] = p /\ calls[k].pc = "await" THEN NoCall ELSE calls[k]]
    /\ late' = late \cup OnItsWay(p)
    /\ UNCHANGED <<server, page, disk>>

LateRefresh(s) ==
    /\ s \in late
    /\ \E answer \in Answers : RefreshSession(s, answer)
    /\ late' = late \ {s}
    /\ UNCHANGED <<deleted, page, disk, refresh, calls, events>>

-----------------------------------------------------------------------------
(* A call, from the page to the server and back                            *)

SignOuts == {"logout", "logoutAll", "delete"}

Start(k, op) ==
    LET kept == page[PageOf[k]] IN
    /\ calls[k].pc = "idle"
    /\ op = "login" <=> kept.id = NoOne
    /\ Ensure(k, [NoCall EXCEPT !.op = op], kept)
    /\ UNCHANGED <<server, page, disk, late, events>>

\* require_account
Granted(s) == Live(s) /\ sessions[s].age = "fresh" /\ ~deleted

Reply(k, pc) == calls' = [calls EXCEPT ![k].pc = pc]

\* Any use but browsing asks for the account.
Authorise(k) ==
    LET c == calls[k] IN
    /\ c.pc = "sent"
    /\ c.op # "login"
    /\ Reply(k, IF ~Granted(c.token) THEN "denied"
                ELSE IF c.op = "use" THEN "ok" ELSE "granted")
    /\ UNCHANGED <<server, page, disk, refresh, late, events>>

\* Credentials are right: a wrong password changes nothing but the retry.
Login(k) ==
    /\ calls[k].pc = "sent"
    /\ calls[k].op = "login"
    /\ \/ /\ deleted
          /\ Reply(k, "denied")
          /\ UNCHANGED sessions
       \/ /\ ~deleted
          /\ \E n \in Ids :
                 /\ NextFree(n)
                 /\ sessions' = [sessions EXCEPT ![n] = Issued(n)]
                 /\ calls' = [calls EXCEPT ![k].pc = "ok", ![k].token = n]
    /\ UNCHANGED <<deleted, page, disk, refresh, late, events>>

\* Mutant: revoke_current_session does not count the rows it changed.
LoggedOutUnchecked(s) == TRUE

LoggedOut(s) == Live(s)

\* The second transaction of the handler, for a token found good in the first.
\* The old password may be wrong.
Perform(k) ==
    LET c == calls[k] IN
    /\ c.pc = "granted"
    /\ \/ /\ c.op = "logout"
          /\ sessions' = Revoked({c.token})
          /\ Reply(k, IF LoggedOut(c.token) THEN "ok" ELSE "denied")
          /\ UNCHANGED deleted
       \/ /\ c.op = "logoutAll"
          /\ sessions' = Revoked(Ids)
          /\ Reply(k, "ok")
          /\ UNCHANGED deleted
       \/ /\ c.op = "password" \/ (c.op = "delete" /\ deleted)
          /\ Reply(k, "denied")
          /\ UNCHANGED server
       \/ /\ c.op = "password"
          /\ ~deleted
          /\ sessions' = Revoked(Ids \ {c.token})
          /\ Reply(k, "ok")
          /\ UNCHANGED deleted
       \/ /\ c.op = "delete"
          /\ ~deleted
          /\ sessions' = Revoked(Ids)
          /\ deleted' = TRUE
          /\ Reply(k, "ok")
    /\ UNCHANGED <<page, disk, refresh, late, events>>

Returned(k) ==
    LET c == calls[k]
        p == PageOf[k]
    IN  /\ c.pc = "ok"
        /\ calls' = [calls EXCEPT ![k] = NoCall]
        /\ \/ c.op = "login" /\ Keep(p, [id |-> c.token, invalid |-> FALSE])
           \/ c.op \in SignOuts /\ Keep(p, SignedOut)
           \/ c.op \in {"use", "password"} /\ UNCHANGED <<page, disk>>
        /\ UNCHANGED <<server, refresh, late, events>>

\* A first 401 marks the access token expired and tries once more.
Denied(k) ==
    LET c == calls[k]
        p == PageOf[k]
        kept == IF page[p].id = NoOne THEN SignedOut ELSE [page[p] EXCEPT !.invalid = TRUE]
    IN  /\ c.pc = "denied"
        /\ \/ /\ c.retried
              /\ calls' = [calls EXCEPT ![k] = NoCall]
              /\ UNCHANGED <<page, disk, refresh>>
           \/ /\ ~c.retried
              /\ Keep(p, kept)
              /\ Ensure(k, [c EXCEPT !.token = NoOne, !.retried = TRUE], kept)
        /\ UNCHANGED <<server, late, events>>

CallFails(k) ==
    /\ calls[k].pc \in {"sent", "granted", "ok", "denied"}
    /\ Fault
    /\ calls' = [calls EXCEPT ![k] = NoCall]
    /\ UNCHANGED <<server, page, disk, refresh, late>>

\* The page is opened anew, from what its device has stored.
Reload(p) ==
    /\ Fault
    /\ page' = [page EXCEPT ![p] = disk[DeviceOf[p]]]
    /\ refresh' = [refresh EXCEPT ![p] = NoRefresh]
    /\ calls' = [k \in Calls |-> IF PageOf[k] = p THEN NoCall ELSE calls[k]]
    /\ late' = late \cup OnItsWay(p)
    /\ UNCHANGED <<server, disk>>

\* An access token, later its refresh token, expires.
Expire(s) ==
    /\ \E p \in Pages : page[p].id = s
    /\ sessions[s].age # "lapsed"
    /\ events < MaxEvents
    /\ events' = events + 1
    /\ sessions' = [sessions EXCEPT ![s].age = IF @ = "fresh" THEN "stale" ELSE "lapsed"]
    /\ UNCHANGED <<deleted, client>>

-----------------------------------------------------------------------------
Refreshing(p) ==
    RefreshHandled(p) \/ RefreshAnswered(p) \/ RefreshDenied(p) \/ AnonymousAnswered(p)

Calling(k) == Authorise(k) \/ Login(k) \/ Perform(k) \/ Returned(k) \/ Denied(k)

Next ==
    \/ \E p \in Pages : Refreshing(p) \/ BootstrapFails(p) \/ Reload(p)
    \/ \E k \in Calls : Calling(k) \/ CallFails(k) \/ \E op \in OpsOf[k] : Start(k, op)
    \/ \E s \in Ids : Expire(s) \/ LateRefresh(s)

Spec == Init /\ [][Next]_vars

\* Requests are answered and every page goes on making calls.
Fairness ==
    /\ \A p \in Pages : WF_vars(Refreshing(p))
    /\ \A k \in Calls : WF_vars(Calling(k)) /\ WF_vars(\E op \in OpsOf[k] : Start(k, op))

FairSpec == Spec /\ Fairness

-----------------------------------------------------------------------------
(* Properties                                                              *)

\* However refreshes, retries and late requests interleave, at most one
\* session of a sign-in is live: a refresh token is honoured once.
OneLivePerSignIn ==
    \A s, t \in Ids : Live(s) /\ Live(t) /\ sessions[s].root = sessions[t].root => s = t

LiveRoots == {sessions[s].root : s \in {t \in Ids : Live(t)}}

\* A sign-in once ended, by sign-out, password change, expiry, deletion or an
\* alarm, is never live again, also when a refresh was on its way.
EndedStaysEnded ==
    [][\A r \in LiveRoots' : r \in LiveRoots \/ sessions[r].state = "free"]_vars

\* A page told that it has signed out leaves no live session of its sign-in,
\* also when the session was refreshed while the request was under way.
SignOutIsReal ==
    \A k \in Calls :
        calls[k].pc = "ok" /\ calls[k].op \in SignOuts =>
            \A s \in Ids : Live(s) => sessions[s].root # sessions[calls[k].token].root

\* A page drops a usable session only when its user signs out: failures of
\* the network keep it.  Two exceptions: a reload finds what another page
\* stored, and an anonymous bootstrap begun before signing in ends after it.
KeepsSession ==
    [][\A p \in Pages :
          LET s == page[p].id IN
          Usable(s) /\ page'[p].id = NoOne =>
              \/ \E k \in Calls :
                     PageOf[k] = p /\ calls[k].pc = "ok" /\ calls[k].op \in SignOuts
              \/ refresh[p].from # s
              \/ Reload(p)]_vars

\* A page does not believe for ever in a session the server has ended.
LearnsFate ==
    \A p \in Pages : []<>(Full \/ page[p].id = NoOne \/ Usable(page[p].id))

\* Only the reuse of a rotated refresh token ends sessions other than its own.
OnlyReuseEndsOthers ==
    [][\A p \in Pages :
          LET s == refresh[p].token IN
          /\ refresh[p].pc = "sent" /\ refresh'[p].pc = "denied"
          /\ \E t \in Ids \ {s} : Live(t) /\ ~Live(t)'
          => sessions[s].next # NoOne]_vars
=============================================================================
