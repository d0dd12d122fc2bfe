--------------------------- MODULE SessionsProofs ---------------------------
(***************************************************************************)
(* Proofs about Sessions, for any number of pages, devices, calls and      *)
(* sessions: type correctness, that a refresh token is honoured once, that *)
(* an ended sign-in stays ended, that a confirmed sign-out is real and     *)
(* that a page keeps a usable session.                                     *)
(***************************************************************************)
EXTENDS Sessions, TLAPS

Tables == [Ids -> Session]

-----------------------------------------------------------------------------
(* Types of the rows and client records the actions build                  *)

\* create_account_session inserts a row.
LEMMA IssuedType ==
    ASSUME NEW r \in Ids \cup {NoOne} PROVE Issued(r) \in Session
BY DEF Issued, FreeSession, Session, NoOne

\* Revoking rows keeps the table well formed.
LEMMA RevokedType ==
    ASSUME sessions \in Tables, NEW S PROVE Revoked(S) \in Tables
<1>1. ASSUME NEW r \in Session PROVE [r EXCEPT !.state = "revoked"] \in Session
  BY <1>1 DEF Session
<1> QED BY <1>1 DEF Revoked, Tables

\* A rotation keeps the table well formed.
LEMMA RotatedType ==
    ASSUME sessions \in Tables, NEW s \in Ids, NEW n \in Ids
    PROVE  Rotated(s, n) \in Tables
<1>1. Issued(sessions[s].root) \in Session
  BY IssuedType DEF Tables, Session
<1>2. ASSUME NEW r \in Session
      PROVE  [[r EXCEPT !.state = "revoked"] EXCEPT !.next = n] \in Session
  BY <1>2 DEF Session
<1> DEFINE mid == [sessions EXCEPT ![n] = Issued(sessions[s].root)]
<1>3. mid \in Tables
  BY <1>1 DEF Tables
<1>4. Rotated(s, n) = [mid EXCEPT ![s] = [[mid[s] EXCEPT !.state = "revoked"] EXCEPT !.next = n]]
  BY <1>3 DEF Rotated, Tables
<1> HIDE DEF mid
<1>5. mid[s] \in Session
  BY <1>3 DEF Tables
<1> QED BY <1>2, <1>3, <1>4, <1>5 DEF Tables

\* What saveSession keeps is of the right type.
LEMMA KeepType ==
    ASSUME PlaceAssumption, page \in [Pages -> Kept], disk \in [Devices -> Kept],
           NEW p \in Pages, NEW kept \in Kept, Keep(p, kept)
    PROVE  page' \in [Pages -> Kept] /\ disk' \in [Devices -> Kept]
BY DEF Keep, PlaceAssumption

\* ensureSession sends the call or makes it wait for a bootstrap.
LEMMA EnsureType ==
    ASSUME TypeOK, NEW k \in Calls, NEW c \in Call, NEW kept \in Kept,
           Ensure(k, c, kept)
    PROVE  calls' \in [Calls -> Call] /\ refresh' \in [Pages -> Refresh]
<1> DEFINE p == PageOf[k]
<1>1. p \in Pages
  BY PlaceAssumption DEF PlaceAssumption
<1>2. kept.id \in Ids \cup {NoOne} /\ Presented(kept) \in Ids \cup {NoOne}
  BY DEF Kept, Presented
<1>3. [c EXCEPT !.pc = "sent", !.token = kept.id] \in Call
  BY <1>2 DEF Call
<1>4. [c EXCEPT !.pc = "await"] \in Call
  BY DEF Call
<1>5. [NoRefresh EXCEPT !.pc = "sent", !.from = kept.id, !.token = Presented(kept)] \in Refresh
  BY <1>2 DEF NoRefresh, Refresh
<1> QED BY <1>1, <1>3, <1>4, <1>5 DEF Ensure, TypeOK

\* A call that changes its place stays a call.
LEMMA ReplyType ==
    ASSUME TypeOK, NEW k \in Calls, Reply(k, "ok") \/ Reply(k, "denied") \/ Reply(k, "granted")
    PROVE  calls' \in [Calls -> Call]
<1>1. ASSUME NEW pc \in {"ok", "denied", "granted"}
      PROVE  [calls[k] EXCEPT !.pc = pc] \in Call
  BY <1>1 DEF TypeOK, Call
<1> QED BY <1>1 DEF Reply, TypeOK

\* The records of an idle call and an idle bootstrap.
LEMMA IdleType == NoCall \in Call /\ NoRefresh \in Refresh /\ SignedOut \in Kept
BY DEF NoCall, Call, NoRefresh, Refresh, SignedOut, Kept, Ops

\* A bootstrap ends with a session or with none.
LEMMA SettleType ==
    ASSUME TypeOK, NEW p \in Pages, NEW s \in Ids \cup {NoOne}, Settle(p, s)
    PROVE  TypeOK'
<1>1. [id |-> s, invalid |-> FALSE] \in Kept
  BY DEF Kept
<1>2. page' \in [Pages -> Kept] /\ disk' \in [Devices -> Kept]
  BY <1>1, KeepType, PlaceAssumption DEF TypeOK, Settle
<1>3. refresh' \in [Pages -> Refresh]
  BY IdleType DEF TypeOK, Settle
<1>4. ASSUME NEW k \in Calls PROVE [calls[k] EXCEPT !.pc = "sent", !.token = s] \in Call
  BY <1>4 DEF TypeOK, Call
<1>5. calls' \in [Calls -> Call]
  BY <1>4 DEF TypeOK, Settle
<1> QED BY <1>2, <1>3, <1>5 DEF Settle, TypeOK, server

\* A step that counts an event stays within the bound.
LEMMA FaultType ==
    ASSUME TypeOK, Fault PROVE events' \in 0 .. MaxEvents
BY BoundAssumption DEF TypeOK, Fault, BoundAssumption

\* What refresh_account_session leaves and answers.
LEMMA RefreshSessionType ==
    ASSUME TypeOK, NEW s \in Ids, NEW answer \in Answers, RefreshSession(s, answer)
    PROVE  /\ sessions' \in Tables
           /\ answer.pc \in {"ok", "denied"}
           /\ answer.got \in Ids \cup {NoOne}
<1>1. answer.pc \in {"ok", "denied"} /\ answer.got \in Ids \cup {NoOne}
  BY DEF Answers
<1>2. CASE answer.pc = "ok" /\ NextFree(answer.got) /\ sessions' = Rotated(s, answer.got)
  <2>1. answer.got \in Ids
    BY <1>2 DEF Answers
  <2> QED BY <1>1, <1>2, <2>1, RotatedType DEF TypeOK, Tables
<1>3. CASE sessions' = Revoked(Condemned(s))
  BY <1>1, <1>3, RevokedType DEF TypeOK, Tables
<1> QED BY <1>2, <1>3 DEF RefreshSession

-----------------------------------------------------------------------------
(* Type correctness                                                        *)

\* A token on its way is the number of a session.
LEMMA OnItsWayType ==
    ASSUME TypeOK, NEW p \in Pages PROVE OnItsWay(p) \subseteq Ids
BY DEF OnItsWay, TypeOK, Refresh

LEMMA RefreshingType ==
    ASSUME TypeOK, NEW p \in Pages, Refreshing(p) PROVE TypeOK'
<1>1. CASE RefreshHandled(p)
  <2>1. refresh[p].token \in Ids
    BY <1>1 DEF RefreshHandled, TypeOK, Refresh
  <2>2. PICK answer \in Answers :
            /\ RefreshSession(refresh[p].token, answer)
            /\ refresh' = [refresh EXCEPT ![p].pc = answer.pc, ![p].got = answer.got]
    BY <1>1 DEF RefreshHandled
  <2>3. /\ sessions' \in Tables
        /\ answer.pc \in {"ok", "denied"}
        /\ answer.got \in Ids \cup {NoOne}
    BY <2>1, <2>2, RefreshSessionType
  <2>4. ASSUME NEW r \in Refresh
        PROVE  [[r EXCEPT !.pc = answer.pc] EXCEPT !.got = answer.got] \in Refresh
    BY <2>3, <2>4 DEF Refresh
  <2>5. refresh' = [refresh EXCEPT ![p] =
                       [[refresh[p] EXCEPT !.pc = answer.pc] EXCEPT !.got = answer.got]]
    BY <2>2 DEF TypeOK, Refresh
  <2>6. refresh' \in [Pages -> Refresh]
    BY <2>4, <2>5 DEF TypeOK
  <2> QED BY <1>1, <2>3, <2>6 DEF RefreshHandled, TypeOK, Tables
<1>2. CASE RefreshAnswered(p)
  BY <1>2, SettleType DEF RefreshAnswered, TypeOK, Refresh
<1>3. CASE RefreshDenied(p)
  <2>1. AfterDenial(p) \in Refresh
    BY DEF AfterDenial, TypeOK, Refresh
  <2> QED BY <1>3, <2>1 DEF RefreshDenied, TypeOK, server
<1>4. CASE AnonymousAnswered(p)
  BY <1>4, SettleType DEF AnonymousAnswered
<1> QED BY <1>1, <1>2, <1>3, <1>4 DEF Refreshing

LEMMA CallingType ==
    ASSUME TypeOK, NEW k \in Calls, Calling(k) PROVE TypeOK'
<1> DEFINE c == calls[k]
           p == PageOf[k]
<1>0. p \in Pages /\ c \in Call
  BY PlaceAssumption DEF PlaceAssumption, TypeOK
<1>1. CASE Authorise(k)
  <2>1. calls' \in [Calls -> Call]
    BY <1>1, ReplyType DEF Authorise
  <2> QED BY <1>1, <2>1 DEF Authorise, TypeOK, server
<1>2. CASE Login(k)
  <2>1. CASE Reply(k, "denied") /\ UNCHANGED sessions
    <3>1. calls' \in [Calls -> Call]
      BY <2>1, ReplyType
    <3> QED BY <1>2, <2>1, <3>1 DEF Login, TypeOK
  <2>2. ASSUME NEW n \in Ids,
               sessions' = [sessions EXCEPT ![n] = Issued(n)],
               calls' = [calls EXCEPT ![k].pc = "ok", ![k].token = n]
        PROVE  TypeOK'
    <3>1. Issued(n) \in Session
      BY IssuedType
    <3>2. [[c EXCEPT !.pc = "ok"] EXCEPT !.token = n] \in Call
      BY <1>0 DEF Call
    <3>3. calls' = [calls EXCEPT ![k] = [[c EXCEPT !.pc = "ok"] EXCEPT !.token = n]]
      BY <2>2 DEF TypeOK, Call
    <3>4. calls' \in [Calls -> Call]
      BY <3>2, <3>3 DEF TypeOK
    <3> QED BY <1>2, <2>2, <3>1, <3>4 DEF Login, TypeOK
  <2> QED BY <1>2, <2>1, <2>2 DEF Login
<1>3. CASE Perform(k)
  <2>1. calls' \in [Calls -> Call]
    BY <1>3, ReplyType DEF Perform
  <2>2. sessions' \in Tables /\ deleted' \in BOOLEAN
    BY <1>3, RevokedType DEF Perform, TypeOK, Tables, server
  <2> QED BY <1>3, <2>1, <2>2 DEF Perform, TypeOK, Tables
<1>4. CASE Returned(k)
  <2>1. calls' \in [Calls -> Call]
    BY <1>4, IdleType DEF Returned, TypeOK
  <2>2. [id |-> c.token, invalid |-> FALSE] \in Kept
    BY <1>0 DEF Call, Kept
  <2>3. page' \in [Pages -> Kept] /\ disk' \in [Devices -> Kept]
    BY <1>0, <1>4, <2>2, IdleType, KeepType, PlaceAssumption DEF Returned, TypeOK
  <2> QED BY <1>4, <2>1, <2>3 DEF Returned, TypeOK, server
<1>5. CASE Denied(k)
  <2> DEFINE kept == IF page[p].id = NoOne THEN SignedOut
                     ELSE [page[p] EXCEPT !.invalid = TRUE]
             again == [c EXCEPT !.token = NoOne, !.retried = TRUE]
  <2>1. kept \in Kept
    BY <1>0, IdleType DEF TypeOK, Kept
  <2>2. again \in Call
    BY <1>0 DEF Call
  <2>3. CASE c.retried
    BY <1>5, <2>3, IdleType DEF Denied, TypeOK, server
  <2>4. CASE ~c.retried
    <3>1. Keep(p, kept) /\ Ensure(k, again, kept)
      BY <1>5, <2>4 DEF Denied
    <3> HIDE DEF kept, again
    <3>2. page' \in [Pages -> Kept] /\ disk' \in [Devices -> Kept]
      BY <1>0, <2>1, <3>1, KeepType, PlaceAssumption DEF TypeOK
    <3>3. calls' \in [Calls -> Call] /\ refresh' \in [Pages -> Refresh]
      BY <2>1, <2>2, <3>1, EnsureType
    <3> QED BY <1>5, <3>2, <3>3 DEF Denied, TypeOK, server
  <2> QED BY <2>3, <2>4
<1> QED BY <1>1, <1>2, <1>3, <1>4, <1>5 DEF Calling

LEMMA StartType ==
    ASSUME TypeOK, NEW k \in Calls, NEW op \in OpsOf[k], Start(k, op) PROVE TypeOK'
<1> DEFINE kept == page[PageOf[k]]
           c == [NoCall EXCEPT !.op = op]
<1>1. kept \in Kept
  BY PlaceAssumption DEF PlaceAssumption, TypeOK
<1>2. op \in Ops
  BY BoundAssumption DEF BoundAssumption
<1>3. c \in Call
  BY <1>2 DEF NoCall, Call
<1>4. Ensure(k, c, kept)
  BY DEF Start
<1> HIDE DEF c, kept
<1>5. calls' \in [Calls -> Call] /\ refresh' \in [Pages -> Refresh]
  BY <1>1, <1>3, <1>4, EnsureType
<1> QED BY <1>5 DEF Start, TypeOK, server

LEMMA FailuresType ==
    ASSUME TypeOK, NEW p \in Pages, BootstrapFails(p) \/ Reload(p) PROVE TypeOK'
<1>1. events' \in 0 .. MaxEvents
  BY FaultType DEF BootstrapFails, Reload
<1>2. refresh' \in [Pages -> Refresh]
  BY IdleType DEF BootstrapFails, Reload, TypeOK
<1>3. calls' \in [Calls -> Call]
  BY IdleType DEF BootstrapFails, Reload, TypeOK
<1>4. late' \subseteq Ids
  BY OnItsWayType DEF BootstrapFails, Reload, TypeOK
<1>5. page' \in [Pages -> Kept]
  BY PlaceAssumption DEF BootstrapFails, Reload, TypeOK, PlaceAssumption
<1> QED BY <1>1, <1>2, <1>3, <1>4, <1>5 DEF BootstrapFails, Reload, TypeOK, server

LEMMA CallFailsType ==
    ASSUME TypeOK, NEW k \in Calls, CallFails(k) PROVE TypeOK'
<1>1. events' \in 0 .. MaxEvents
  BY FaultType DEF CallFails
<1> QED BY <1>1, IdleType DEF CallFails, TypeOK, server

LEMMA TimeType ==
    ASSUME TypeOK, NEW s \in Ids, Expire(s) \/ LateRefresh(s) PROVE TypeOK'
<1>1. CASE Expire(s)
  <2>1. ASSUME NEW r \in Session, NEW a \in {"stale", "lapsed"}
        PROVE  [r EXCEPT !.age = a] \in Session
    BY <2>1 DEF Session
  <2>2. sessions' = [sessions EXCEPT ![s] =
                       [sessions[s] EXCEPT !.age = IF sessions[s].age = "fresh"
                                                   THEN "stale" ELSE "lapsed"]]
    BY <1>1 DEF Expire, TypeOK, Session
  <2>3. sessions' \in Tables
    BY <2>1, <2>2 DEF TypeOK, Tables
  <2>4. events' \in 0 .. MaxEvents
    BY <1>1, BoundAssumption DEF Expire, TypeOK, BoundAssumption
  <2> QED BY <1>1, <2>3, <2>4 DEF Expire, TypeOK, Tables, client
<1>2. CASE LateRefresh(s)
  <2>1. sessions' \in Tables
    BY <1>2, RefreshSessionType DEF LateRefresh
  <2> QED BY <1>2, <2>1 DEF LateRefresh, TypeOK, Tables
<1> QED BY <1>1, <1>2

LEMMA TypeStep == TypeOK /\ [Next]_vars => TypeOK'
<1> SUFFICES ASSUME TypeOK, [Next]_vars PROVE TypeOK'
  OBVIOUS
<1>1. CASE UNCHANGED vars
  BY <1>1 DEF vars, TypeOK
<1>2. CASE Next
  BY <1>2, RefreshingType, CallingType, StartType, FailuresType, CallFailsType, TimeType
     DEF Next
<1> QED BY <1>1, <1>2

LEMMA TypeInit == Init => TypeOK
<1>1. FreeSession \in Session
  BY DEF FreeSession, Session
<1>2. 0 \in 0 .. MaxEvents
  BY BoundAssumption DEF BoundAssumption
<1> QED BY <1>1, <1>2, IdleType DEF Init, TypeOK

\* TypeOK holds for every number of pages, devices, calls and sessions.
THEOREM TypeCorrect == Spec => []TypeOK
BY TypeInit, TypeStep, PTL DEF Spec

-----------------------------------------------------------------------------
(* What any step may do to the sessions table                              *)

Free(s) == sessions[s].state = "free"

\* A row, once inserted, keeps its sign-in and never comes back to life.
Fades ==
    \A s \in Ids :
        ~Free(s) =>
            /\ ~Free(s)'
            /\ sessions'[s].root = sessions[s].root
            /\ Live(s)' => Live(s)
            /\ sessions[s].age = "lapsed" => sessions'[s].age = "lapsed"

\* Row n and no other is inserted, and live.
Added(n) == Free(n) /\ Live(n)' /\ \A s \in Ids \ {n} : Free(s) => Free(s)'

Unadded == \A s \in Ids : Free(s) => Free(s)'

Rotates(s, n) ==
    /\ Live(s) /\ ~Live(s)'
    /\ Added(n)
    /\ sessions'[n].root = sessions[s].root

SignsIn(n) == Added(n) /\ sessions'[n].root = n

\* A step inserts nothing, or replaces a live session, or begins a sign-in.
TableStep ==
    /\ Fades
    /\ Unadded \/ (\E s, n \in Ids : Rotates(s, n)) \/ (\E n \in Ids : SignsIn(n))

LEMMA UnchangedTable ==
    ASSUME UNCHANGED sessions PROVE TableStep
BY DEF TableStep, Fades, Unadded, Free, Live

LEMMA RevokedTable ==
    ASSUME TypeOK, NEW S, sessions' = Revoked(S) PROVE TableStep
<1>1. ASSUME NEW s \in Ids
      PROVE  /\ sessions'[s].root = sessions[s].root
             /\ sessions'[s].age = sessions[s].age
             /\ Free(s)' <=> Free(s)
             /\ Live(s)' => Live(s)
  <2>1. sessions[s] \in Session
    BY DEF TypeOK
  <2>2. sessions'[s] = IF s \in S /\ Live(s) THEN [sessions[s] EXCEPT !.state = "revoked"]
                       ELSE sessions[s]
    BY DEF Revoked
  <2> QED BY <2>1, <2>2 DEF Session, Free, Live
<1> QED BY <1>1 DEF TableStep, Fades, Unadded

LEMMA RotatedTable ==
    ASSUME TypeOK, NEW s \in Ids, NEW n \in Ids, Live(s), NextFree(n),
           sessions' = Rotated(s, n)
    PROVE  TableStep /\ Live(n)'
<1>1. s # n /\ Free(n) /\ n # NoOne
  BY DEF Live, NextFree, Free, Ids, NoOne
<1>2. sessions'[n] = Issued(sessions[s].root)
  BY <1>1 DEF Rotated, TypeOK
<1>3. /\ sessions'[s].state = "revoked"
      /\ sessions'[s].root = sessions[s].root
      /\ sessions'[s].age = sessions[s].age
  BY <1>1 DEF Rotated, TypeOK, Session
<1>4. \A t \in Ids \ {s, n} : sessions'[t] = sessions[t]
  BY DEF Rotated, TypeOK
<1>5. Live(n)' /\ sessions'[n].root = sessions[s].root
  BY <1>1, <1>2 DEF Issued, FreeSession, Live
<1>6. Fades
  BY <1>1, <1>3, <1>4 DEF Fades, Free, Live
<1>7. Rotates(s, n)
  BY <1>3, <1>4, <1>5, <1>1 DEF Rotates, Added, Free, Live
<1> QED BY <1>5, <1>6, <1>7 DEF TableStep

LEMMA SignInTable ==
    ASSUME TypeOK, NEW n \in Ids, NextFree(n),
           sessions' = [sessions EXCEPT ![n] = Issued(n)]
    PROVE  TableStep /\ Live(n)'
<1>1. Free(n) /\ n # NoOne
  BY DEF NextFree, Free, Ids, NoOne
<1>2. sessions'[n] = Issued(n)
  BY DEF TypeOK
<1>3. \A t \in Ids \ {n} : sessions'[t] = sessions[t]
  BY DEF TypeOK
<1>4. Live(n)' /\ sessions'[n].root = n
  BY <1>1, <1>2 DEF Issued, FreeSession, Live
<1>5. Fades
  BY <1>1, <1>3 DEF Fades, Free, Live
<1>6. SignsIn(n)
  BY <1>1, <1>3, <1>4 DEF SignsIn, Added, Free
<1> QED BY <1>4, <1>5, <1>6 DEF TableStep

LEMMA ExpireTable ==
    ASSUME TypeOK, NEW s \in Ids, Expire(s) PROVE TableStep
<1>1. ASSUME NEW t \in Ids
      PROVE  /\ sessions'[t].root = sessions[t].root
             /\ sessions'[t].state = sessions[t].state
             /\ sessions[t].age = "lapsed" => sessions'[t].age = "lapsed"
  BY DEF Expire, TypeOK, Session
<1> QED BY <1>1 DEF TableStep, Fades, Unadded, Free, Live

LEMMA RefreshSessionTable ==
    ASSUME TypeOK, NEW s \in Ids, NEW answer \in Answers, RefreshSession(s, answer)
    PROVE  TableStep
<1>1. CASE Honoured(s) /\ answer.pc = "ok" /\ NextFree(answer.got)
           /\ sessions' = Rotated(s, answer.got)
  BY <1>1, RotatedTable DEF Answers, Honoured, Usable
<1>2. CASE sessions' = Revoked(Condemned(s))
  BY <1>2, RevokedTable
<1> QED BY <1>1, <1>2 DEF RefreshSession

LEMMA EveryTableStep ==
    ASSUME TypeOK, [Next]_vars PROVE TableStep
<1>1. CASE UNCHANGED vars
  BY <1>1, UnchangedTable DEF vars
<1>2. ASSUME NEW p \in Pages, RefreshHandled(p) PROVE TableStep
  BY <1>2, RefreshSessionTable DEF RefreshHandled, TypeOK, Refresh
<1>3. ASSUME NEW s \in Ids, LateRefresh(s) PROVE TableStep
  BY <1>3, RefreshSessionTable DEF LateRefresh
<1>4. ASSUME NEW k \in Calls, Login(k) PROVE TableStep
  BY <1>4, SignInTable, UnchangedTable DEF Login
<1>5. ASSUME NEW k \in Calls, Perform(k) PROVE TableStep
  BY <1>5, RevokedTable, UnchangedTable DEF Perform, server
<1>6. ASSUME NEW s \in Ids, Expire(s) PROVE TableStep
  BY <1>6, ExpireTable
<1>7. ASSUME NEW p \in Pages,
             RefreshAnswered(p) \/ RefreshDenied(p) \/ AnonymousAnswered(p)
                 \/ BootstrapFails(p) \/ Reload(p)
      PROVE  TableStep
  BY <1>7, UnchangedTable
     DEF RefreshAnswered, RefreshDenied, AnonymousAnswered, Settle, BootstrapFails,
         Reload, server
<1>8. ASSUME NEW k \in Calls,
             Authorise(k) \/ Returned(k) \/ Denied(k) \/ CallFails(k)
                 \/ \E op \in OpsOf[k] : Start(k, op)
      PROVE  TableStep
  BY <1>8, UnchangedTable DEF Authorise, Returned, Denied, CallFails, Start, server
<1> QED BY <1>1, <1>2, <1>3, <1>4, <1>5, <1>6, <1>7, <1>8 DEF Next, Refreshing, Calling

-----------------------------------------------------------------------------
(* A refresh token is honoured once, an ended sign-in stays ended          *)

\* The sign-in a session descends from has itself been inserted.
Rooted ==
    \A s \in Ids : ~Free(s) => sessions[s].root \in Ids /\ ~Free(sessions[s].root)

TableInv == TypeOK /\ Rooted /\ OneLivePerSignIn

LEMMA RootedStep ==
    ASSUME TypeOK, TableStep, Rooted PROVE Rooted'
<1> SUFFICES ASSUME NEW t \in Ids, ~Free(t)'
             PROVE  sessions'[t].root \in Ids /\ ~Free(sessions[t].root)'
  BY DEF Rooted
<1>1. CASE ~Free(t)
  BY <1>1 DEF TableStep, Fades, Rooted, Free
<1>2. CASE Free(t)
  <2>1. ~Unadded
    BY <1>2 DEF Unadded
  <2>2. ASSUME NEW s \in Ids, NEW n \in Ids, Rotates(s, n)
        PROVE  sessions'[t].root \in Ids /\ ~Free(sessions[t].root)'
    <3>1. t = n /\ ~Free(s)
      BY <1>2, <2>2 DEF Rotates, Added, Free, Live
    <3> QED BY <2>2, <3>1 DEF Rotates, Rooted, TableStep, Fades, Free
  <2>3. ASSUME NEW n \in Ids, SignsIn(n)
        PROVE  sessions'[t].root \in Ids /\ ~Free(sessions[t].root)'
    BY <1>2, <2>3 DEF SignsIn, Added, Free, Live
  <2> QED BY <2>1, <2>2, <2>3 DEF TableStep
<1> QED BY <1>1, <1>2

LEMMA OneLiveStep ==
    ASSUME TypeOK, TableStep, Rooted, OneLivePerSignIn PROVE OneLivePerSignIn'
<1> SUFFICES ASSUME NEW t \in Ids, NEW u \in Ids, Live(t)', Live(u)',
                    sessions'[t].root = sessions'[u].root
             PROVE  t = u
  BY DEF OneLivePerSignIn
<1>1. ASSUME NEW a \in Ids, Live(a)', ~Free(a)
      PROVE  Live(a) /\ sessions'[a].root = sessions[a].root
  BY <1>1 DEF TableStep, Fades
<1>2. CASE ~Free(t) /\ ~Free(u)
  BY <1>1, <1>2 DEF OneLivePerSignIn
<1>3. CASE Free(t) \/ Free(u)
  <2>1. ~Unadded
    BY <1>3 DEF Unadded, Free, Live
  <2>2. ASSUME NEW s \in Ids, NEW n \in Ids, Rotates(s, n), t # u PROVE FALSE
    <3>1. PICK a \in {t, u} : a # n
      BY <2>2
    <3>2. ~Free(a) /\ Live(a)' /\ (t = n \/ u = n)
      BY <1>3, <2>2, <3>1 DEF Rotates, Added, Free, Live
    <3>3. Live(a) /\ sessions[a].root = sessions[s].root
      BY <1>1, <2>2, <3>1, <3>2 DEF Rotates
    <3>4. a = s
      BY <2>2, <3>3 DEF Rotates, OneLivePerSignIn
    <3> QED BY <2>2, <3>2, <3>4 DEF Rotates
  <2>3. ASSUME NEW n \in Ids, SignsIn(n), t # u PROVE FALSE
    <3>1. PICK a \in {t, u} : a # n
      BY <2>3
    <3>2. ~Free(a) /\ Live(a)' /\ (t = n \/ u = n)
      BY <1>3, <2>3, <3>1 DEF SignsIn, Added, Free, Live
    <3>3. sessions[a].root = n
      BY <1>1, <2>3, <3>1, <3>2 DEF SignsIn
    <3> QED BY <2>3, <3>2, <3>3 DEF SignsIn, Added, Rooted
  <2> QED BY <2>1, <2>2, <2>3 DEF TableStep
<1> QED BY <1>2, <1>3

LEMMA TableInvStep == TableInv /\ [Next]_vars => TableInv'
BY TypeStep, EveryTableStep, RootedStep, OneLiveStep DEF TableInv

\* The table invariant: typed, rooted, one live session per sign-in.
LEMMA TableInvariant == Spec => []TableInv
<1>1. Init => TableInv
  BY TypeInit DEF Init, TableInv, Rooted, OneLivePerSignIn, Free, Live, FreeSession
<1> QED BY <1>1, TableInvStep, PTL DEF Spec

\* However refreshes, retries and late requests interleave, the sessions of
\* a sign-in take turns: refresh_account_session honours a token once.
THEOREM HonouredOnce == Spec => []OneLivePerSignIn
BY TableInvariant, PTL DEF TableInv

\* A sign-in that was ended stays ended, also when a refresh was on its way.
THEOREM EndedForGood == Spec => EndedStaysEnded
<1>1. ASSUME TableInv, [Next]_vars, NEW r \in LiveRoots'
      PROVE  r \in LiveRoots \/ sessions[r].state = "free"
  <2>1. TableStep
    BY <1>1, EveryTableStep DEF TableInv
  <2>2. PICK t \in Ids : Live(t)' /\ r = sessions'[t].root
    BY <1>1 DEF LiveRoots
  <2>3. CASE ~Free(t)
    BY <2>1, <2>2, <2>3 DEF TableStep, Fades, LiveRoots
  <2>4. CASE Free(t)
    <3>1. ~Unadded
      BY <2>2, <2>4 DEF Unadded, Free, Live
    <3>2. ASSUME NEW s \in Ids, NEW n \in Ids, Rotates(s, n) PROVE r \in LiveRoots
      <4>1. t = n
        BY <2>2, <2>4, <3>2 DEF Rotates, Added, Free, Live
      <4> QED BY <2>2, <3>2, <4>1 DEF Rotates, LiveRoots
    <3>3. ASSUME NEW n \in Ids, SignsIn(n) PROVE sessions[r].state = "free"
      BY <2>2, <2>4, <3>3 DEF SignsIn, Added, Free, Live
    <3> QED BY <2>1, <3>1, <3>2, <3>3 DEF TableStep
  <2> QED BY <2>3, <2>4
<1>2. TableInv /\ [Next]_vars
      => [\A r \in LiveRoots' : r \in LiveRoots \/ sessions[r].state = "free"]_vars
  BY <1>1
<1> QED BY <1>2, TableInvariant, PTL DEF Spec, EndedStaysEnded

-----------------------------------------------------------------------------
(* A confirmed sign-out is real                                            *)

\* The session a handler works on has been inserted.
TokensInserted ==
    \A k \in Calls :
        calls[k].pc = "granted" \/ (calls[k].pc = "ok" /\ calls[k].op \in SignOuts)
            => calls[k].token \in Ids /\ ~Free(calls[k].token)

SignOutInv == TableInv /\ TokensInserted /\ SignOutIsReal

\* No session of token s's sign-in is live.
Gone(s) == \A t \in Ids : Live(t) => sessions[t].root # sessions[s].root

\* A sign-in without a live session stays so.
LEMMA GoneForGood ==
    ASSUME TableInv, TableStep, NEW s \in Ids, ~Free(s), Gone(s)
    PROVE  Gone(s)'
<1> SUFFICES ASSUME NEW t \in Ids, Live(t)', sessions'[t].root = sessions'[s].root
             PROVE  FALSE
  BY DEF Gone
<1>1. sessions'[s].root = sessions[s].root
  BY DEF TableStep, Fades
<1>2. CASE ~Free(t)
  BY <1>1, <1>2 DEF TableStep, Fades, Gone
<1>3. CASE Free(t)
  <2>1. ~Unadded
    BY <1>3 DEF Unadded, Free, Live
  <2>2. ASSUME NEW u \in Ids, NEW n \in Ids, Rotates(u, n) PROVE FALSE
    <3>1. t = n
      BY <1>3, <2>2 DEF Rotates, Added, Free, Live
    <3> QED BY <1>1, <2>2, <3>1 DEF Rotates, Gone
  <2>3. ASSUME NEW n \in Ids, SignsIn(n) PROVE FALSE
    <3>1. t = n
      BY <1>3, <2>3 DEF SignsIn, Added, Free, Live
    <3> QED BY <1>1, <2>3, <3>1 DEF SignsIn, Added, TableInv, Rooted
  <2> QED BY <2>1, <2>2, <2>3 DEF TableStep
<1> QED BY <1>2, <1>3

\* revoke_current_session, revoke_all_sessions and delete_account leave no
\* live session of the sign-in behind when they report success.
LEMMA SignOutLeavesNone ==
    ASSUME TableInv, NEW k \in Calls, Perform(k), calls[k].op \in SignOuts,
           calls'[k].pc = "ok", NEW s \in Ids, s = calls[k].token
    PROVE  Gone(s)'
<1>1. ASSUME NEW S, sessions' = Revoked(S), NEW t \in Ids
      PROVE  /\ sessions'[t].root = sessions[t].root
             /\ Live(t)' => Live(t) /\ t \notin S
  <2>1. sessions[t] \in Session
    BY DEF TableInv, TypeOK
  <2>2. sessions'[t] = IF t \in S /\ Live(t) THEN [sessions[t] EXCEPT !.state = "revoked"]
                       ELSE sessions[t]
    BY <1>1 DEF Revoked
  <2> QED BY <2>1, <2>2 DEF Session, Live
<1>2. CASE sessions' = Revoked(Ids)
  BY <1>1, <1>2 DEF Gone
<1>3. CASE calls[k].op = "logout" /\ sessions' = Revoked({s}) /\ LoggedOut(s)
  <2>1. Live(s)
    BY <1>3 DEF LoggedOut
  <2>2. \A t \in Ids : Live(t) /\ t # s => sessions[t].root # sessions[s].root
    BY <2>1 DEF TableInv, OneLivePerSignIn
  <2> QED BY <1>1, <1>3, <2>2 DEF Gone
<1>4. calls[k].pc = "granted" /\ (Reply(k, "denied") => calls'[k].pc = "denied")
  BY DEF Perform, Reply, TableInv, TypeOK, Call
<1> QED BY <1>2, <1>3, <1>4 DEF Perform, SignOuts

\* Where the calls of the invariant come from.
LEMMA HandlerSteps ==
    ASSUME TypeOK, [Next]_vars, NEW k \in Calls
    PROVE  /\ calls'[k].pc = "granted" =>
                 calls'[k] = calls[k] \/ (Granted(calls[k].token) /\ calls'[k].token = calls[k].token)
           /\ calls'[k].pc = "ok" /\ calls'[k].op \in SignOuts =>
                 \/ calls'[k] = calls[k]
                 \/ Perform(k) /\ calls[k].pc = "granted"
                       /\ calls'[k].op = calls[k].op /\ calls'[k].token = calls[k].token
           /\ calls'[k].pc = "ok" /\ calls'[k].op = "login" =>
                 calls'[k] = calls[k] \/ Login(k)
<1> DEFINE New == calls'[k].pc \in {"granted", "ok"} /\ calls'[k] # calls[k]
<1> SUFFICES ASSUME New
             PROVE  /\ calls'[k].pc = "granted" =>
                          Granted(calls[k].token) /\ calls'[k].token = calls[k].token
                    /\ calls'[k].pc = "ok" /\ calls'[k].op \in SignOuts =>
                          /\ Perform(k) /\ calls[k].pc = "granted"
                          /\ calls'[k].op = calls[k].op /\ calls'[k].token = calls[k].token
                    /\ calls'[k].pc = "ok" /\ calls'[k].op = "login" => Login(k)
  OBVIOUS
<1>0. calls \in [Calls -> Call]
  BY DEF TypeOK
<1>1. ASSUME NEW j \in Calls, NEW pc, Reply(j, pc), New
      PROVE  /\ j = k /\ calls'[k].pc = pc
             /\ calls'[k].op = calls[k].op /\ calls'[k].token = calls[k].token
  BY <1>0, <1>1 DEF Reply, Call
<1>2. ASSUME NEW j \in Calls, Authorise(j), ~Granted(calls[j].token) PROVE FALSE
  <2>1. Reply(j, "denied")
    BY <1>2 DEF Authorise
  <2> QED BY <1>1, <2>1
<1>3. ASSUME NEW j \in Calls, Authorise(j)
      PROVE  /\ Granted(calls[k].token) /\ calls'[k].token = calls[k].token
             /\ calls'[k].pc = "ok" => calls'[k].op = "use"
  BY <1>1, <1>2, <1>3 DEF Authorise
<1>4. ASSUME NEW j \in Calls, Login(j)
      PROVE  Login(k) /\ calls'[k].pc = "ok" /\ calls'[k].op = "login"
  <2>1. ~Reply(j, "denied")
    BY <1>1
  <2>2. PICK n : calls' = [calls EXCEPT ![j].pc = "ok", ![j].token = n]
    BY <1>4, <2>1 DEF Login
  <2> QED BY <1>0, <1>4, <2>2 DEF Login, Call
<1>5. ASSUME NEW j \in Calls, Perform(j)
      PROVE  /\ Perform(k) /\ calls[k].pc = "granted" /\ calls'[k].pc = "ok"
             /\ calls'[k].op = calls[k].op /\ calls'[k].token = calls[k].token
             /\ calls'[k].op # "login"
  <2>1. Reply(j, "ok") \/ Reply(j, "denied")
    BY <1>5 DEF Perform
  <2> QED BY <1>1, <1>5, <2>1 DEF Perform
<1>6. ASSUME NEW j \in Calls, NEW c \in Call, NEW kept, Ensure(j, c, kept) PROVE FALSE
  BY <1>0, <1>6 DEF Ensure, Call
<1>7. ASSUME NEW j \in Calls, Denied(j) PROVE FALSE
  <2>1. [calls[j] EXCEPT !.token = NoOne, !.retried = TRUE] \in Call
    BY <1>0 DEF Call
  <2> QED BY <1>0, <1>6, <1>7, <2>1 DEF Denied, NoCall
<1>8. ASSUME NEW j \in Calls, NEW op \in OpsOf[j], Start(j, op) PROVE FALSE
  <2>1. [NoCall EXCEPT !.op = op] \in Call
    BY BoundAssumption, IdleType DEF BoundAssumption, Call
  <2> QED BY <1>6, <1>8, <2>1 DEF Start
<1>9. ASSUME NEW j \in Calls, Returned(j) \/ CallFails(j) PROVE FALSE
  BY <1>0, <1>9 DEF Returned, CallFails, NoCall
<1>10. ASSUME NEW p \in Pages, Refreshing(p) \/ BootstrapFails(p) \/ Reload(p) PROVE FALSE
  <2>1. ASSUME NEW s, Settle(p, s) PROVE FALSE
    <3>1. calls'[k] # calls[k] => calls'[k] = [calls[k] EXCEPT !.pc = "sent", !.token = s]
      BY <2>1 DEF Settle
    <3>2. calls'[k] # calls[k] => calls'[k].pc = "sent"
      BY <1>0, <3>1 DEF Call
    <3> QED BY <3>2
  <2>2. CASE BootstrapFails(p) \/ Reload(p)
    BY <2>2 DEF BootstrapFails, Reload, NoCall
  <2>3. CASE RefreshHandled(p) \/ RefreshDenied(p)
    BY <2>3 DEF RefreshHandled, RefreshDenied
  <2> QED BY <1>10, <2>1, <2>2, <2>3 DEF Refreshing, RefreshAnswered, AnonymousAnswered
<1>11. ASSUME NEW s \in Ids, Expire(s) \/ LateRefresh(s) PROVE FALSE
  BY <1>11 DEF Expire, LateRefresh, client
<1>12. ~UNCHANGED vars
  BY DEF vars
<1> QED
  BY <1>3, <1>4, <1>5, <1>7, <1>8, <1>9, <1>10, <1>11, <1>12
     DEF Next, Calling, SignOuts

LEMMA SignOutInvStep == SignOutInv /\ [Next]_vars => SignOutInv'
<1> SUFFICES ASSUME SignOutInv, [Next]_vars PROVE SignOutInv'
  OBVIOUS
<1>1. TableInv' /\ TableStep /\ TypeOK
  BY TableInvStep, EveryTableStep DEF SignOutInv, TableInv
<1>2. \A s \in Ids : ~Free(s) => ~Free(s)'
  BY <1>1 DEF TableStep, Fades
<1>3. ASSUME NEW k \in Calls,
             calls'[k].pc = "granted" \/ (calls'[k].pc = "ok" /\ calls'[k].op \in SignOuts)
      PROVE  calls'[k].token \in Ids /\ ~Free(calls[k].token)'
  <2>1. CASE calls'[k] = calls[k]
    BY <1>2, <1>3, <2>1 DEF SignOutInv, TokensInserted, Free
  <2>2. CASE Granted(calls[k].token) /\ calls'[k].token = calls[k].token
    <3>1. calls[k].token \in Ids /\ ~Free(calls[k].token)
      BY <1>1, <2>2 DEF Granted, Live, Free, TypeOK, Call
    <3> QED BY <1>2, <2>2, <3>1 DEF Free
  <2>3. CASE calls[k].pc = "granted" /\ calls'[k].token = calls[k].token
    BY <1>2, <2>3 DEF SignOutInv, TokensInserted, Free
  <2> QED BY <1>1, <1>3, <2>1, <2>2, <2>3, HandlerSteps
<1>4. ASSUME NEW k \in Calls, calls'[k].pc = "ok", calls'[k].op \in SignOuts
      PROVE  Gone(calls[k].token)'
  <2>1. CASE calls'[k] = calls[k]
    <3>1. calls[k].token \in Ids /\ ~Free(calls[k].token) /\ Gone(calls[k].token)
      BY <1>4, <2>1 DEF SignOutInv, TokensInserted, SignOutIsReal, Gone
    <3>2. ASSUME NEW s \in Ids, ~Free(s), Gone(s) PROVE Gone(s)'
      BY <1>1, <3>2, GoneForGood DEF SignOutInv
    <3> QED BY <2>1, <3>1, <3>2 DEF Gone
  <2>2. CASE /\ Perform(k) /\ calls[k].pc = "granted"
             /\ calls'[k].op = calls[k].op /\ calls'[k].token = calls[k].token
    <3>1. PICK s \in Ids : s = calls[k].token
      BY <2>2, <1>4 DEF SignOutInv, TokensInserted
    <3>2. Gone(s)'
      BY <1>4, <2>2, <3>1, SignOutLeavesNone DEF SignOutInv
    <3> QED BY <2>2, <3>1, <3>2 DEF Gone
  <2> QED BY <1>1, <1>4, <2>1, <2>2, HandlerSteps
<1> QED BY <1>1, <1>3, <1>4 DEF SignOutInv, TokensInserted, SignOutIsReal, Gone

\* A page told that it has signed out leaves no live session of its sign-in,
\* also when the session was rotated between the handler's two transactions.
THEOREM SignOutReal == Spec => []SignOutIsReal
<1>1. Init => SignOutInv
  BY TypeInit
     DEF Init, SignOutInv, TableInv, Rooted, OneLivePerSignIn, TokensInserted,
         SignOutIsReal, Free, Live, FreeSession, NoCall
<1> QED BY <1>1, SignOutInvStep, PTL DEF Spec, SignOutInv

-----------------------------------------------------------------------------
(* A page keeps a usable session                                           *)

\* Being signed out, or a session that has been inserted.
Named(s) == s # NoOne => ~Free(s)

\* What the client keeps or was sent names inserted sessions.
NamesInserted ==
    /\ \A p \in Pages : Named(page[p].id)
    /\ \A d \in Devices : Named(disk[d].id)
    /\ \A p \in Pages :
           /\ Named(refresh[p].from)
           /\ refresh[p].pc = "ok" => refresh[p].got # NoOne /\ ~Free(refresh[p].got)
    /\ \A k \in Calls :
           calls[k].pc = "ok" /\ calls[k].op = "login" =>
               calls[k].token # NoOne /\ ~Free(calls[k].token)

\* A bootstrap that gives up the session it began with has reason to.
Justified(r) ==
    /\ r.token # NoOne => r.token = r.from
    /\ r.pc = "denied" \/ (r.pc = "sent" /\ r.token = NoOne) => ~Usable(r.from)

GivesUpForCause == \A p \in Pages : Justified(refresh[p])

KeepInv == TypeOK /\ NamesInserted /\ GivesUpForCause

\* Inserted sessions stay so, and unusable ones too.
LEMMA FadesOn ==
    ASSUME TypeOK, [Next]_vars, NEW s \in Ids \cup {NoOne}
    PROVE  /\ Named(s) => Named(s)'
           /\ s # NoOne /\ ~Free(s) => ~Free(s)'
           /\ Named(s) /\ ~Usable(s) => ~Usable(s)'
<1>1. Fades
  BY EveryTableStep DEF TableStep
<1>2. deleted => deleted'
  BY DEF Next, vars, Refreshing, Calling, RefreshHandled, RefreshAnswered, RefreshDenied,
         AnonymousAnswered, Settle, BootstrapFails, Reload, Authorise, Login, Perform,
         Returned, Denied, CallFails, Start, Expire, LateRefresh, server
<1>3. CASE s = NoOne
  BY <1>3 DEF Named, Usable, Live
<1>4. CASE s \in Ids /\ s # NoOne
  BY <1>1, <1>2, <1>4 DEF Fades, Named, Usable, Free, Live
<1> QED BY <1>3, <1>4

\* Pages and storages take over what they, their calls or refreshes name.
LEMMA KeepNamed ==
    ASSUME TypeOK, NamesInserted, [Next]_vars
    PROVE  /\ \A p \in Pages : Named(page'[p].id)
           /\ \A d \in Devices : Named(disk'[d].id)
<1>1. ASSUME NEW q \in Pages, NEW kept \in Kept, Named(kept.id), Keep(q, kept)
      PROVE  /\ \A p \in Pages : Named(page'[p].id)
             /\ \A d \in Devices : Named(disk'[d].id)
  BY <1>1 DEF Keep, NamesInserted, TypeOK
<1>2. ASSUME NEW s \in Ids \cup {NoOne}
      PROVE  [id |-> s, invalid |-> FALSE] \in Kept
  BY DEF Kept
<1>3. ASSUME NEW q \in Pages, RefreshAnswered(q) \/ AnonymousAnswered(q)
      PROVE  /\ \A p \in Pages : Named(page'[p].id)
             /\ \A d \in Devices : Named(disk'[d].id)
  <2>1. CASE RefreshAnswered(q)
    <3>1. refresh[q].got \in Ids \cup {NoOne} /\ Named(refresh[q].got)
      BY <2>1 DEF RefreshAnswered, NamesInserted, Named, TypeOK, Refresh
    <3> QED BY <1>1, <1>2, <2>1, <3>1 DEF RefreshAnswered, Settle
  <2>2. CASE AnonymousAnswered(q)
    BY <1>1, <1>2, <2>2 DEF AnonymousAnswered, Settle, Named
  <2> QED BY <1>3, <2>1, <2>2
<1>4. ASSUME NEW k \in Calls, Returned(k)
      PROVE  /\ \A p \in Pages : Named(page'[p].id)
             /\ \A d \in Devices : Named(disk'[d].id)
  <2>1. PageOf[k] \in Pages
    BY PlaceAssumption DEF PlaceAssumption
  <2>2. calls[k].token \in Ids \cup {NoOne}
    BY DEF TypeOK, Call
  <2>3. CASE calls[k].op = "login" /\ Keep(PageOf[k], [id |-> calls[k].token, invalid |-> FALSE])
    BY <1>1, <1>2, <1>4, <2>1, <2>2, <2>3 DEF Returned, NamesInserted, Named
  <2>4. CASE Keep(PageOf[k], SignedOut)
    BY <1>1, <2>1, <2>4, IdleType DEF SignedOut, Named
  <2>5. CASE UNCHANGED <<page, disk>>
    BY <2>5 DEF NamesInserted
  <2> QED BY <1>4, <2>3, <2>4, <2>5 DEF Returned
<1>5. ASSUME NEW k \in Calls, Denied(k)
      PROVE  /\ \A p \in Pages : Named(page'[p].id)
             /\ \A d \in Devices : Named(disk'[d].id)
  <2> DEFINE p == PageOf[k]
             kept == IF page[p].id = NoOne THEN SignedOut ELSE [page[p] EXCEPT !.invalid = TRUE]
  <2>1. p \in Pages
    BY PlaceAssumption DEF PlaceAssumption
  <2>2. kept \in Kept /\ Named(kept.id)
    BY <2>1, IdleType DEF TypeOK, Kept, SignedOut, NamesInserted, Named
  <2>3. Keep(p, kept) \/ UNCHANGED <<page, disk>>
    BY <1>5 DEF Denied
  <2> HIDE DEF kept
  <2> QED BY <1>1, <2>1, <2>2, <2>3 DEF NamesInserted
<1>6. ASSUME NEW q \in Pages, Reload(q)
      PROVE  /\ \A p \in Pages : Named(page'[p].id)
             /\ \A d \in Devices : Named(disk'[d].id)
  BY <1>6, PlaceAssumption DEF Reload, NamesInserted, TypeOK, PlaceAssumption
<1>7. UNCHANGED <<page, disk>>
      => /\ \A p \in Pages : Named(page'[p].id)
         /\ \A d \in Devices : Named(disk'[d].id)
  BY DEF NamesInserted
<1> QED
  BY <1>3, <1>4, <1>5, <1>6, <1>7
     DEF Next, vars, Refreshing, Calling, RefreshHandled, RefreshDenied, BootstrapFails,
         Authorise, Login, Perform, CallFails, Start, Expire, LateRefresh, client

\* ensureSession begins a bootstrap with what the page keeps.
Begins(p) ==
    \E kept \in Kept :
        /\ Named(kept.id)
        /\ refresh'[p] = [NoRefresh EXCEPT !.pc = "sent", !.from = kept.id,
                                           !.token = Presented(kept)]

\* Where the bootstrap of a page comes from.
LEMMA BootstrapSteps ==
    ASSUME KeepInv, [Next]_vars, NEW p \in Pages
    PROVE  \/ refresh'[p] = refresh[p]
           \/ refresh'[p] = NoRefresh
           \/ Begins(p)
           \/ RefreshHandled(p)
           \/ RefreshDenied(p)
<1> DEFINE Known == \/ refresh'[p] = refresh[p]
                    \/ refresh'[p] = NoRefresh
                    \/ Begins(p)
                    \/ RefreshHandled(p)
                    \/ RefreshDenied(p)
<1>0. refresh \in [Pages -> Refresh] /\ NamesInserted /\ TypeOK
  BY DEF KeepInv, TypeOK
<1>1. ASSUME NEW k \in Calls, NEW c, NEW kept \in Kept, Named(kept.id), Ensure(k, c, kept)
      PROVE  Known
  BY <1>0, <1>1 DEF Ensure, Begins
<1>2. ASSUME NEW k \in Calls, NEW op \in OpsOf[k], Start(k, op) PROVE Known
  <2>1. page[PageOf[k]] \in Kept /\ Named(page[PageOf[k]].id)
    BY <1>0, PlaceAssumption DEF PlaceAssumption, NamesInserted, TypeOK
  <2> QED BY <1>1, <1>2, <2>1 DEF Start
<1>3. ASSUME NEW k \in Calls, Denied(k) PROVE Known
  <2> DEFINE q == PageOf[k]
             kept == IF page[q].id = NoOne THEN SignedOut ELSE [page[q] EXCEPT !.invalid = TRUE]
             again == [calls[k] EXCEPT !.token = NoOne, !.retried = TRUE]
  <2>1. q \in Pages
    BY PlaceAssumption DEF PlaceAssumption
  <2>2. kept \in Kept /\ Named(kept.id)
    BY <1>0, <2>1, IdleType DEF TypeOK, Kept, SignedOut, NamesInserted, Named
  <2>3. Ensure(k, again, kept) \/ UNCHANGED refresh
    BY <1>3 DEF Denied
  <2> HIDE DEF kept, again
  <2> QED BY <1>1, <2>2, <2>3
<1>4. ASSUME NEW q \in Pages, Refreshing(q) PROVE Known
  BY <1>0, <1>4
     DEF Refreshing, RefreshHandled, RefreshAnswered, RefreshDenied, AnonymousAnswered, Settle
<1>5. ASSUME NEW q \in Pages, BootstrapFails(q) \/ Reload(q) PROVE Known
  BY <1>0, <1>5 DEF BootstrapFails, Reload
<1>6. ASSUME NEW k \in Calls,
             Authorise(k) \/ Login(k) \/ Perform(k) \/ Returned(k) \/ CallFails(k)
      PROVE  Known
  BY <1>6 DEF Authorise, Login, Perform, Returned, CallFails
<1>7. ASSUME NEW s \in Ids, Expire(s) \/ LateRefresh(s) PROVE Known
  BY <1>7 DEF Expire, LateRefresh, client
<1>8. UNCHANGED vars => Known
  BY DEF vars
<1> HIDE DEF Known
<1>9. Known
  BY <1>2, <1>3, <1>4, <1>5, <1>6, <1>7, <1>8 DEF Next, Calling
<1> QED BY <1>9 DEF Known

LEMMA BootstrapInv ==
    ASSUME KeepInv, [Next]_vars, NEW p \in Pages
    PROVE  /\ Named(refresh[p].from)'
           /\ refresh'[p].pc = "ok" => refresh'[p].got # NoOne /\ ~Free(refresh[p].got)'
           /\ Justified(refresh[p])'
<1> DEFINE r == refresh[p]
<1>0. TypeOK /\ r \in Refresh /\ Named(r.from) /\ Justified(r)
  BY DEF KeepInv, TypeOK, NamesInserted, GivesUpForCause
<1>1. ASSUME NEW s \in Ids \cup {NoOne}
      PROVE  /\ Named(s) => Named(s)'
             /\ s # NoOne /\ ~Free(s) => ~Free(s)'
             /\ Named(s) /\ ~Usable(s) => ~Usable(s)'
  BY <1>0, FadesOn
<1>2. r.from \in Ids \cup {NoOne} /\ r.token \in Ids \cup {NoOne} /\ r.got \in Ids \cup {NoOne}
  BY <1>0 DEF Refresh
<1>3. CASE refresh'[p] = r
  BY <1>0, <1>1, <1>2, <1>3 DEF KeepInv, NamesInserted, Justified, Named, Free, Usable, Live
<1>4. CASE refresh'[p] = NoRefresh
  BY <1>4 DEF NoRefresh, Named, Justified
<1>5. CASE Begins(p)
  <2>1. PICK kept \in Kept :
            /\ Named(kept.id)
            /\ refresh'[p] = [NoRefresh EXCEPT !.pc = "sent", !.from = kept.id,
                                               !.token = Presented(kept)]
    BY <1>5 DEF Begins
  <2> DEFINE s == kept.id
             token == Presented(kept)
  <2>2. s \in Ids \cup {NoOne} /\ token \in {s, NoOne}
    BY DEF Kept, Presented
  <2>3. /\ refresh'[p].pc = "sent" /\ refresh'[p].from = s /\ refresh'[p].token = token
    BY <2>1 DEF NoRefresh
  <2>4. token = NoOne => ~Usable(s)
    BY <2>2 DEF Presented, Usable, Live
  <2>5. /\ \A t \in Ids \cup {NoOne} : t = s => Named(t)'
        /\ \A t \in Ids \cup {NoOne} : t = s /\ token = NoOne => ~Usable(t)'
    BY <1>1, <2>1, <2>2, <2>4
  <2> HIDE DEF s, token
  <2>6. PICK t \in Ids \cup {NoOne} : t = s
    BY <2>2
  <2> QED BY <2>2, <2>3, <2>5, <2>6 DEF Justified, Named, Free, Usable, Live
<1>6. CASE RefreshHandled(p)
  <2>1. PICK answer \in Answers :
            /\ RefreshSession(r.token, answer)
            /\ refresh' = [refresh EXCEPT ![p].pc = answer.pc, ![p].got = answer.got]
    BY <1>6 DEF RefreshHandled
  <2>2. /\ refresh'[p].pc = answer.pc /\ refresh'[p].got = answer.got
        /\ refresh'[p].from = r.from /\ refresh'[p].token = r.token
    BY <1>0, <2>1 DEF TypeOK, Refresh
  <2>3. r.token \in Ids /\ r.token = r.from
    BY <1>0, <1>2, <1>6 DEF RefreshHandled, Justified
  <2>4. PICK s \in Ids : s = r.token
    BY <2>3
  <2>5. Named(s) /\ Named(s)'
    BY <1>0, <1>1, <2>3, <2>4
  <2>6. CASE /\ Honoured(s) /\ answer.pc = "ok" /\ NextFree(answer.got)
             /\ sessions' = Rotated(s, answer.got)
    <3>1. PICK n \in Ids : n = answer.got
      BY <2>6 DEF Answers
    <3>2. Live(n)'
      BY <1>0, <2>6, <3>1, RotatedTable DEF Honoured, Usable
    <3> QED BY <2>2, <2>3, <2>4, <2>5, <2>6, <3>1, <3>2 DEF Justified, Named, Free, Live
  <2>7. CASE ~Honoured(s) /\ answer = [pc |-> "denied", got |-> NoOne]
    <3>1. ~Usable(s)'
      BY <1>1, <2>5, <2>7 DEF Honoured
    <3> QED BY <2>2, <2>3, <2>4, <2>5, <2>7, <3>1 DEF Justified, Named, Free, Usable, Live
  <2> QED BY <2>1, <2>4, <2>6, <2>7 DEF RefreshSession
<1>7. CASE RefreshDenied(p)
  <2>1. /\ r.pc = "denied"
        /\ refresh'[p].pc = "sent" /\ refresh'[p].from = r.from /\ refresh'[p].token = NoOne
    BY <1>0, <1>7 DEF RefreshDenied, AfterDenial, TypeOK, Refresh
  <2>2. PICK s \in Ids \cup {NoOne} : s = r.from
    BY <1>2
  <2>3. Named(s)' /\ ~Usable(s)'
    BY <1>0, <1>1, <2>1, <2>2 DEF Justified
  <2> QED BY <2>1, <2>2, <2>3 DEF Justified, Named, Free, Usable, Live
<1> QED BY <1>3, <1>4, <1>5, <1>6, <1>7, BootstrapSteps

LEMMA LoginTokens ==
    ASSUME KeepInv, [Next]_vars, NEW k \in Calls,
           calls'[k].pc = "ok", calls'[k].op = "login"
    PROVE  calls'[k].token # NoOne /\ ~Free(calls[k].token)'
<1>1. TypeOK
  BY DEF KeepInv
<1>2. CASE calls'[k] = calls[k]
  <2>1. PICK s \in Ids \cup {NoOne} : s = calls[k].token
    BY <1>1 DEF TypeOK, Call
  <2>2. s # NoOne /\ ~Free(s)
    BY <1>2, <2>1 DEF KeepInv, NamesInserted
  <2>3. ~Free(s)'
    BY <1>1, <2>2, FadesOn
  <2> QED BY <1>2, <2>1, <2>2, <2>3 DEF Free
<1>3. CASE Login(k)
  <2>1. ~Reply(k, "denied")
    BY <1>1 DEF Reply, TypeOK, Call
  <2>2. PICK n \in Ids :
            /\ NextFree(n)
            /\ sessions' = [sessions EXCEPT ![n] = Issued(n)]
            /\ calls' = [calls EXCEPT ![k].pc = "ok", ![k].token = n]
    BY <1>3, <2>1 DEF Login
  <2>3. calls'[k].token = n
    BY <1>1, <2>2 DEF TypeOK, Call
  <2>4. Live(n)'
    BY <1>1, <2>2, SignInTable
  <2> QED BY <2>3, <2>4 DEF Live, Free
<1> QED BY <1>1, <1>2, <1>3, HandlerSteps

LEMMA KeepInvStep == KeepInv /\ [Next]_vars => KeepInv'
<1> SUFFICES ASSUME KeepInv, [Next]_vars PROVE KeepInv'
  OBVIOUS
<1>1. TypeOK /\ TypeOK' /\ NamesInserted
  BY TypeStep DEF KeepInv
<1>2. ASSUME NEW s \in Ids \cup {NoOne}, Named(s) PROVE Named(s)'
  BY <1>1, <1>2, FadesOn
<1>3. ASSUME NEW p \in Pages PROVE Named(page[p].id)'
  <2>1. PICK s \in Ids \cup {NoOne} : s = page'[p].id
    BY <1>1 DEF TypeOK, Kept
  <2> QED BY <1>1, <1>2, <2>1, KeepNamed DEF Named, Free
<1>4. ASSUME NEW d \in Devices PROVE Named(disk[d].id)'
  <2>1. PICK s \in Ids \cup {NoOne} : s = disk'[d].id
    BY <1>1 DEF TypeOK, Kept
  <2> QED BY <1>1, <1>2, <2>1, KeepNamed DEF Named, Free
<1>5. NamesInserted'
  BY <1>3, <1>4, BootstrapInv, LoginTokens DEF NamesInserted
<1>6. GivesUpForCause'
  BY BootstrapInv DEF GivesUpForCause
<1> QED BY <1>1, <1>5, <1>6 DEF KeepInv

LEMMA KeepInvariant == Spec => []KeepInv
<1>1. Init => KeepInv
  BY TypeInit
     DEF Init, KeepInv, NamesInserted, GivesUpForCause, Justified, Named, SignedOut,
         NoRefresh, NoCall
<1> QED BY <1>1, KeepInvStep, PTL DEF Spec

\* The code behind a page that forgets its session.
LEMMA Forgets ==
    ASSUME KeepInv, [Next]_vars, NEW p \in Pages,
           Usable(page[p].id), page'[p].id = NoOne
    PROVE  \/ \E k \in Calls :
                  PageOf[k] = p /\ calls[k].pc = "ok" /\ calls[k].op \in SignOuts
           \/ refresh[p].from # page[p].id
           \/ Reload(p)
<1> DEFINE Cause == \/ \E k \in Calls :
                           PageOf[k] = p /\ calls[k].pc = "ok" /\ calls[k].op \in SignOuts
                    \/ refresh[p].from # page[p].id
                    \/ Reload(p)
<1>0. /\ TypeOK /\ NamesInserted /\ Justified(refresh[p])
      /\ page \in [Pages -> Kept] /\ page[p].id # NoOne
  BY DEF KeepInv, GivesUpForCause, TypeOK, Usable, Live
<1>1. ASSUME NEW q, NEW kept, Keep(q, kept) PROVE q = p /\ kept.id = NoOne
  BY <1>0, <1>1 DEF Keep
<1>2. ASSUME NEW q \in Pages, RefreshAnswered(q) PROVE Cause
  <2> DEFINE kept == [id |-> refresh[q].got, invalid |-> FALSE]
  <2>1. Keep(q, kept)
    BY <1>2 DEF RefreshAnswered, Settle
  <2>2. kept.id = refresh[q].got
    OBVIOUS
  <2> HIDE DEF kept
  <2>3. q = p /\ refresh[q].got = NoOne
    BY <1>1, <2>1, <2>2
  <2> QED BY <1>0, <1>2, <2>3 DEF RefreshAnswered, NamesInserted
<1>3. ASSUME NEW q \in Pages, AnonymousAnswered(q) PROVE Cause
  <2>1. q = p
    BY <1>1, <1>3 DEF AnonymousAnswered, Settle
  <2>2. ~Usable(refresh[p].from)
    BY <1>0, <1>3, <2>1 DEF AnonymousAnswered, Justified
  <2> QED BY <2>2
<1>4. ASSUME NEW k \in Calls, Returned(k) PROVE Cause
  <2>1. CASE calls[k].op = "login" /\ Keep(PageOf[k], [id |-> calls[k].token, invalid |-> FALSE])
    <3>1. calls[k].token = NoOne
      BY <1>1, <2>1
    <3> QED BY <1>0, <1>4, <2>1, <3>1 DEF Returned, NamesInserted
  <2>2. CASE calls[k].op \in SignOuts /\ Keep(PageOf[k], SignedOut)
    BY <1>1, <1>4, <2>2 DEF Returned
  <2>3. CASE UNCHANGED <<page, disk>>
    BY <1>0, <2>3
  <2> QED BY <1>4, <2>1, <2>2, <2>3 DEF Returned
<1>5. ASSUME NEW k \in Calls, Denied(k) PROVE Cause
  <2> DEFINE kept == IF page[PageOf[k]].id = NoOne THEN SignedOut
                     ELSE [page[PageOf[k]] EXCEPT !.invalid = TRUE]
  <2>1. ~Keep(PageOf[k], kept)
    <3>1. SUFFICES ASSUME Keep(PageOf[k], kept) PROVE FALSE
      OBVIOUS
    <3>2. PageOf[k] = p /\ kept.id = NoOne
      BY <1>1, <3>1
    <3>3. page[PageOf[k]] \in Kept /\ page[PageOf[k]].id # NoOne
      BY <1>0, <3>2
    <3>4. kept = [page[PageOf[k]] EXCEPT !.invalid = TRUE]
      BY <3>3
    <3>5. kept.id = page[PageOf[k]].id
      BY <3>3, <3>4 DEF Kept
    <3> QED BY <3>2, <3>3, <3>5
  <2>2. UNCHANGED <<page, disk>>
    BY <1>5, <2>1 DEF Denied
  <2> QED BY <1>0, <2>2
<1>6. ASSUME NEW q \in Pages, Reload(q) PROVE Cause
  BY <1>0, <1>6 DEF Reload
<1>7. UNCHANGED <<page, disk>> => Cause
  BY <1>0
<1> HIDE DEF Cause
<1>8. Cause
  BY <1>2, <1>3, <1>4, <1>5, <1>6, <1>7
     DEF Next, vars, Refreshing, Calling, RefreshHandled, RefreshDenied, BootstrapFails,
         Authorise, Login, Perform, CallFails, Start, Expire, LateRefresh, client
<1> QED BY <1>8 DEF Cause

\* A page drops a usable session only when its user signs out: bootstrapSession
\* gives an identity up on a 401 or an expired refresh token, never on a failure.
THEOREM SessionKept == Spec => KeepsSession
<1>1. KeepInv /\ [Next]_vars
      => [\A p \in Pages :
            LET s == page[p].id IN
            Usable(s) /\ page'[p].id = NoOne =>
                \/ \E k \in Calls :
                       PageOf[k] = p /\ calls[k].pc = "ok" /\ calls[k].op \in SignOuts
                \/ refresh[p].from # s
                \/ Reload(p)]_vars
  BY Forgets
<1> QED BY <1>1, KeepInvariant, PTL DEF Spec, KeepsSession
=============================================================================
