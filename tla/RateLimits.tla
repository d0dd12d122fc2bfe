----------------------------- MODULE RateLimits -----------------------------
(***************************************************************************)
(* The request limiter of the HTTP server and the limiter of login names   *)
(* behind it. Each keeps fixed windows in a table behind a mutex: a        *)
(* request is counted against every key it stands for (device or token,    *)
(* address, everybody) or against none, and a table that is full is swept  *)
(* of windows that ended before anybody is turned away for it.             *)
(*                                                                         *)
(* A check is one step: the clock read before the mutex is taken is the    *)
(* clock of the step. Retry-After is left out.                             *)
(***************************************************************************)
EXTENDS Integers, Sequences, FiniteSets

CONSTANTS HttpRequests,   \* kinds of request: [bucket, identities, name]
          NoName,         \* name of a request that is no login
          Quota,          \* limit per window, by bucket, "global" and "login" among them
          WindowTicks,
          SweepEvery,     \* requests between two sweeps
          MaxCounters,    \* MAX_IDENTITIES, MAX_LOGIN_IDENTITIES
          MaxTick         \* bound on the clock

ASSUME LimitAssumption ==
    /\ {WindowTicks, SweepEvery, MaxCounters} \subseteq Nat \ {0} /\ MaxTick \in Nat
    /\ {"global", "login"} \cup {r.bucket : r \in HttpRequests} \subseteq DOMAIN Quota
    /\ \A b \in DOMAIN Quota : Quota[b] \in Nat \ {0}
    /\ \A r \in HttpRequests : /\ r.bucket # "login" /\ IsFiniteSet(r.identities)
                               /\ Cardinality(r.identities) <= 2

VARIABLES tick,
          counters,   \* by key: [start, count]
          logins,     \* the same by login name
          asked,      \* requests since the last sweep by number
          entries     \* history: by key, the times at which something was counted

limitVars == <<tick, counters, logins, asked, entries>>

NoCounters == [k \in {} |-> {}]

LimitInit ==
    /\ tick = 0 /\ counters = NoCounters /\ logins = NoCounters
    /\ asked = 0 /\ entries = NoCounters

(* RateLimiter::identities, classify; everybody counts together.           *)
CountedKeys(r) == {<<r.bucket, i>> : i \in r.identities} \cup {<<"global", "all">>}
LimitOf(k) == Quota[k[1]]

InWindow(c) == tick - c.start < WindowTicks
OnlyActive(table) == [k \in {j \in DOMAIN table : InWindow(table[j])} |-> table[k]]
IsFull(table) == Cardinality(DOMAIN table) >= MaxCounters
Spent(table, k) == k \in DOMAIN table /\ InWindow(table[k]) /\ table[k].count >= LimitOf(k)

CountOnce(table, keys) ==
    [k \in DOMAIN table \cup keys |->
        IF k \notin keys THEN table[k]
        ELSE IF k \in DOMAIN table /\ InWindow(table[k])
             THEN [table[k] EXCEPT !.count = @ + 1] ELSE [start |-> tick, count |-> 1]]

Recorded(history, keys) ==
    [k \in DOMAIN history \cup keys |->
        IF k \notin keys THEN history[k]
        ELSE Append(IF k \in DOMAIN history THEN history[k] ELSE <<>>, tick)]

(* RateLimiter::check: the requests are numbered only while the table has  *)
(* room, and every SweepEvery-th of them sweeps.                           *)
Sweeps == IsFull(counters) \/ asked = 0
Swept == IF Sweeps THEN OnlyActive(counters) ELSE counters
Numbered == IF IsFull(counters) THEN asked ELSE (asked + 1) % SweepEvery

\* Mutant: keys are counted until one of them is spent.
CountedAsYouGo(table, keys) == CountOnce(table, {k \in keys : ~Spent(table, k)})

(* All keys are looked at before any is counted.                           *)
Counted(table, keys) ==
    IF \E k \in keys : Spent(table, k) THEN table ELSE CountOnce(table, keys)

Admits(r) == ~IsFull(Swept) /\ \A k \in CountedKeys(r) : ~Spent(Swept, k)

(* LoginAttemptLimiter::allow: swept only when full; a refused name keeps  *)
(* its window.                                                             *)
LoginsSwept == IF IsFull(logins) THEN OnlyActive(logins) ELSE logins
AllowsName(key) == ~IsFull(LoginsSwept) /\ ~Spent(LoginsSwept, key)

Request(r) ==
    LET key == <<"login", r.name>>
        isLogin == Admits(r) /\ r.name # NoName
        keys == (IF Admits(r) THEN CountedKeys(r) ELSE {})
                  \cup (IF isLogin /\ AllowsName(key) THEN {key} ELSE {})
    IN  /\ counters' = IF IsFull(Swept) THEN Swept ELSE Counted(Swept, CountedKeys(r))
        /\ logins' = IF ~isLogin THEN logins
                     ELSE IF IsFull(LoginsSwept) THEN LoginsSwept ELSE Counted(LoginsSwept, {key})
        /\ asked' = Numbered
        /\ entries' = Recorded(entries, keys)
        /\ UNCHANGED tick

LimitTick ==
    /\ tick < MaxTick /\ tick' = tick + 1
    /\ UNCHANGED <<counters, logins, asked, entries>>

(* The tables are in memory.                                               *)
RestartLimits ==
    /\ counters' = NoCounters /\ logins' = NoCounters /\ asked' = 0 /\ entries' = NoCounters
    /\ UNCHANGED tick

LimitNext == (\E r \in HttpRequests : Request(r)) \/ LimitTick \/ RestartLimits

LimitSpec == LimitInit /\ [][LimitNext]_limitVars

(***************************************************************************)
(* Properties                                                              *)
(***************************************************************************)

LimitTypeOK ==
    /\ tick \in 0..MaxTick /\ asked \in 0..(SweepEvery - 1)
    /\ \A k \in DOMAIN counters : counters[k].start \in 0..tick /\ counters[k].count \in Nat
    /\ \A k \in DOMAIN logins : logins[k].start \in 0..tick /\ logins[k].count \in Nat

(* What an open window has counted is what was let through in it, whatever *)
(* was swept, refused for another key or refused for a full table: nobody  *)
(* pays for a request that was turned away, nobody is let through beyond   *)
(* the limit, or twice the limit within any one minute, and the table      *)
(* outgrows its bound by no more than the keys of one request.             *)
QuotasHold ==
    LET passedSince(k, t) == Cardinality({i \in DOMAIN entries[k] : entries[k][i] >= t})
        table(k) == IF k[1] = "login" THEN logins ELSE counters
    IN  /\ \A k \in DOMAIN entries :
             /\ passedSince(k, tick - WindowTicks + 1) <= 2 * LimitOf(k)
             /\ \A c \in {table(k)[j] : j \in DOMAIN table(k) \cap {k}} :
                  InWindow(c) => c.count = passedSince(k, c.start) /\ c.count <= LimitOf(k)
        /\ \A k \in DOMAIN counters \cup DOMAIN logins : k \in DOMAIN entries
        /\ Cardinality(DOMAIN counters) <= MaxCounters + 2
=============================================================================
