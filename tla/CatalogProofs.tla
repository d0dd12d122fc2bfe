--------------------------- MODULE CatalogProofs ----------------------------
(***************************************************************************)
(* The walk over Steam's app list, for any apps, page sizes, processes,    *)
(* clocks and faults: the watermark, the cursor, and what a finished pass  *)
(* has brought in.                                                         *)
(***************************************************************************)
EXTENDS CatalogSync, CommonLemmas

-----------------------------------------------------------------------------
(* The walk over the app list                                              *)

LEMMA LargestOfBounded ==
    ASSUME NEW n \in Nat, NEW S \in SUBSET (0 .. n)
    PROVE  /\ Largest(S) \in 0 .. n
           /\ \A x \in S : x <= Largest(S)
           /\ S # {} => Largest(S) \in S
           /\ S = {} => Largest(S) = 0
<1>1. CASE S = {}
  BY <1>1 DEF Largest
<1>2. CASE S # {}
  <2>1. Max(S) \in S /\ \A x \in S : x <= Max(S)
    BY <1>2, MaxOf
  <2> QED
    BY <2>1, <1>2 DEF Largest
<1> QED
  BY <1>1, <1>2

(* FirstOf takes a prefix: who comes before one of them is one of them.    *)
LEMMA FirstIsPrefix ==
    ASSUME NEW S \in SUBSET Apps, NEW m \in FirstOf(S), NEW a \in S, a <= m
    PROVE  a \in FirstOf(S)
<1>1. IsFiniteSet(Apps)
  BY FS_Interval, WalkAssumption DEF Apps
<1>2. IsFiniteSet(S)
  BY <1>1, FS_Subset
<1> DEFINE A == {b \in S : b < a}
           M == {b \in S : b < m}
<1>3. IsFiniteSet(M) /\ A \in SUBSET M
  <2>1. m \in S
    BY DEF FirstOf
  <2>2. \A b \in S : b \in Int
    BY WalkAssumption DEF Apps
  <2>3. A \in SUBSET M
    BY <2>1, <2>2
  <2> QED
    BY <1>2, <2>3, FS_Subset
<1>4. Cardinality(A) <= Cardinality(M) /\ Cardinality(A) \in Nat /\ Cardinality(M) \in Nat
  BY <1>3, FS_Subset, FS_CardinalityType
<1>5. Cardinality(M) < PageSize
  BY DEF FirstOf
<1>6. Cardinality(A) < PageSize
  BY <1>4, <1>5, WalkAssumption
<1> QED
  BY <1>6 DEF FirstOf

-----------------------------------------------------------------------------
(* The invariant                                                           *)

(* Nothing is dated later than now, and no cursor is of a later build.     *)
ClockKnows ==
    /\ now >= 1 /\ \A a \in Apps : steam[a] <= now
    /\ stored.since <= stored.high /\ stored.high <= now /\ stored.build <= build
    /\ \A a \in slipped : steam[a] > 0
    /\ \A a \in Apps : steam[a] = 0 => catalog[a] = 0

(* A collector works from the cursor that is stored.                       *)
RunKnows == run.pc # "off" => run.cursor = Resumed(stored) /\ run.pages < MaxPages

NewestRead(c, p) == IF p.high > c.high THEN p.high ELSE c.high

(* What the cursor will promise once the page is saved.                    *)
Promised(a) ==
    IF run.page.more THEN a <= run.page.last ELSE steam[a] < NewestRead(run.cursor, run.page)

Ingested(a) == IF run.page.mods[a] > 0 THEN run.page.mods[a] ELSE catalog[a]

FetchedKnows ==
    run.pc = "ingest" =>
        /\ \A a \in Apps : run.page.mods[a] > 0 =>
              a > run.cursor.last /\ steam[a] >= run.cursor.since /\ steam[a] > 0
        /\ \A a \in Apps \ slipped : Promised(a) => Ingested(a) = steam[a]

IngestedKnows ==
    run.pc = "save" => \A a \in Apps \ slipped : Promised(a) => catalog[a] = steam[a]

PageKnows == run.pc \in {"ingest", "save"} => run.page.high <= now

WalkInv ==
    /\ TypeOK /\ ClockKnows /\ RunKnows /\ CursorIsJustified
    /\ FetchedKnows /\ IngestedKnows /\ PageKnows

Runs == [pc : {"off", "fetch", "ingest", "save"}, cursor : Cursor, page : Page,
         pages : 0 .. MaxPages]

LEMMA NewPassIsCursor ==
    ASSUME NEW since \in Times, NEW b \in 0 .. MaxBuild
    PROVE  NewPass(since, b) \in Cursor
BY DEF NewPass, Cursor

LEMMA OffIsRun == Off \in Runs /\ Off.pc = "off" /\ Off.pages = 0
<1>1. NewPass(0, 1) \in Cursor
  BY WalkAssumption, NewPassIsCursor DEF Times
<1>2. NoPage \in Page
  BY WalkAssumption DEF NoPage, Page, Times
<1> QED
  BY <1>1, <1>2, WalkAssumption DEF Off, Runs

LEMMA WalkInitInv == Init => WalkInv
<1> SUFFICES ASSUME Init PROVE WalkInv
  OBVIOUS
<1>1. stored \in Cursor /\ stored = NewPass(0, 1)
  BY WalkAssumption, NewPassIsCursor DEF Init, Times
<1>2. run \in Runs /\ run.pc = "off"
  BY OffIsRun DEF Init
<1>3. /\ steam \in [Apps -> Times] /\ catalog \in [Apps -> Times] /\ now \in Times
      /\ atStart \in [Apps -> Times] /\ build \in 1 .. MaxBuild /\ crashes \in 0 .. MaxCrashes
  BY WalkAssumption DEF Init, Times
<1>4. TypeOK
  BY <1>1, <1>2, <1>3 DEF TypeOK, Runs, Init
<1>5. ClockKnows
  BY <1>1 DEF Init, ClockKnows, NewPass
<1>6. CursorIsJustified
  BY <1>1, <1>3 DEF CursorIsJustified, NewPass, Apps, Times
<1> QED
  BY <1>2, <1>4, <1>5, <1>6 DEF WalkInv, RunKnows, FetchedKnows, IngestedKnows, PageKnows

LEMMA ResumedFacts ==
    ASSUME WalkInv
    PROVE  /\ Resumed(stored) \in Cursor /\ Resumed(stored).build = build
           /\ Resumed(stored).since = stored.since /\ Resumed(stored).high <= now
           /\ Resumed(stored).since <= Resumed(stored).high
           /\ Resumed(stored).last > 0 =>
                 InProgress(stored) /\ stored.build = build /\ stored.last = Resumed(stored).last
<1>1. stored \in Cursor /\ build \in 0 .. MaxBuild /\ stored.since \in Times /\ now \in Times
  BY WalkAssumption DEF WalkInv, TypeOK, Cursor
<1>2. CASE InProgress(stored) /\ stored.build = build
  BY <1>1, <1>2 DEF Resumed, WalkInv, ClockKnows
<1>3. CASE ~(InProgress(stored) /\ stored.build = build)
  <2>1. Resumed(stored) = NewPass(stored.since, build)
    BY <1>3 DEF Resumed
  <2>2. stored.since <= now
    BY <1>1, WalkAssumption DEF WalkInv, ClockKnows, Cursor, Times
  <2> QED
    BY <1>1, <2>1, <2>2, NewPassIsCursor, WalkAssumption DEF NewPass, Times
<1> QED
  BY <1>2, <1>3

-----------------------------------------------------------------------------
(* Steam and the operator                                                  *)

LEMMA ChangeKeeps ==
    ASSUME WalkInv, NEW a \in Apps, Change(a)
    PROVE  WalkInv'
<1>0. /\ steam' = [steam EXCEPT ![a] = now]
      /\ slipped' = IF Passed(a) THEN slipped \cup {a} ELSE slipped
      /\ UNCHANGED <<now, build, catalog, stored, run, crashes, atStart>>
  BY DEF Change
<1>1. /\ steam \in [Apps -> Times] /\ now \in Times /\ catalog \in [Apps -> Times]
      /\ stored \in Cursor /\ run \in Runs /\ now >= 1
  BY DEF WalkInv, TypeOK, ClockKnows, Runs
<1>2. /\ steam' \in [Apps -> Times] /\ steam'[a] = now
      /\ \A b \in Apps \ {a} : steam'[b] = steam[b]
  BY <1>0, <1>1
<1>3. TypeOK'
  BY <1>0, <1>2 DEF WalkInv, TypeOK, Cursor, Page
<1>4. ClockKnows'
  BY <1>0, <1>1, <1>2 DEF WalkInv, TypeOK, ClockKnows, Times
<1>5. CursorIsJustified'
  <2> SUFFICES ASSUME NEW b \in (Apps \ slipped)'
               PROVE  /\ InProgress(stored) /\ stored.build = build /\ b <= stored.last =>
                             catalog[b] = steam'[b]
                      /\ steam'[b] < stored.since => catalog[b] = steam'[b]
    BY <1>0 DEF CursorIsJustified, InProgress
  <2>1. CASE b = a
    <3>1. ~Passed(a)
      BY <2>1, <1>0
    <3>2. ~(now < stored.since)
      BY <1>1, WalkAssumption DEF WalkInv, ClockKnows, Cursor, Times
    <3> QED
      BY <2>1, <3>1, <3>2, <1>2 DEF Passed
  <2>2. CASE b # a
    BY <2>2, <1>0, <1>2 DEF WalkInv, CursorIsJustified
  <2> QED BY <2>1, <2>2
<1>6. RunKnows' /\ PageKnows'
  BY <1>0 DEF WalkInv, RunKnows, PageKnows, Resumed, InProgress, NewPass
<1>7. ASSUME run.pc \in {"ingest", "save"}
      PROVE  \A b \in (Apps \ slipped)' : Promised(b)' => b # a /\ b \in Apps \ slipped /\ Promised(b)
  <2> SUFFICES ASSUME NEW b \in (Apps \ slipped)', Promised(b)'
               PROVE  b # a /\ b \in Apps \ slipped /\ Promised(b)
    OBVIOUS
  <2>1. b \in Apps \ slipped
    BY <1>0
  <2>2. CASE run.page.more
    <3>1. b <= run.page.last
      BY <2>2, <1>0 DEF Promised
    <3>2. ~(b = a)
      BY <3>1, <2>2, <1>0, <1>7 DEF Passed
    <3> QED BY <2>1, <2>2, <3>1, <3>2 DEF Promised
  <2>3. CASE ~run.page.more
    <3>1. steam'[b] < NewestRead(run.cursor, run.page)
      BY <2>3, <1>0 DEF Promised, NewestRead
    <3>2. run.cursor.high <= now /\ run.page.high <= now
      BY <1>7, ResumedFacts DEF WalkInv, RunKnows, PageKnows
    <3>3. run.cursor.high \in Nat /\ run.page.high \in Nat /\ now \in Nat
      BY <1>1, WalkAssumption DEF Runs, Cursor, Page, Times
    <3>4. ~(b = a)
      BY <3>1, <3>2, <3>3, <1>2 DEF NewestRead
    <3> QED BY <2>1, <2>3, <3>1, <3>4, <1>2 DEF Promised
  <2> QED BY <2>2, <2>3
<1>8. IngestedKnows'
  BY <1>0, <1>2, <1>7 DEF WalkInv, IngestedKnows
<1>9. FetchedKnows'
  <2> SUFFICES ASSUME run.pc = "ingest" PROVE FetchedKnows'
    BY <1>0 DEF FetchedKnows
  <2>1. \A b \in (Apps \ slipped)' : Promised(b)' => Ingested(b)' = steam'[b]
    BY <1>0, <1>2, <1>7 DEF WalkInv, FetchedKnows, Ingested
  <2>2. run.cursor.since <= now
    <3>1. run.cursor = Resumed(stored) /\ run.cursor \in Cursor
      BY ResumedFacts DEF WalkInv, RunKnows
    <3> QED
      BY <3>1, <1>1, ResumedFacts, WalkAssumption DEF Cursor, Times
  <2>3. \A b \in Apps : run.page.mods[b] > 0 =>
           b > run.cursor.last /\ steam'[b] >= run.cursor.since /\ steam'[b] > 0
    <3> SUFFICES ASSUME NEW b \in Apps, run.page.mods[b] > 0
                 PROVE  b > run.cursor.last /\ steam'[b] >= run.cursor.since /\ steam'[b] > 0
      OBVIOUS
    <3>1. b > run.cursor.last /\ steam[b] >= run.cursor.since /\ steam[b] > 0
      BY DEF WalkInv, FetchedKnows
    <3>2. CASE b = a
      BY <3>1, <3>2, <2>2, <1>1, <1>2, WalkAssumption DEF Runs, Cursor, Times
    <3>3. CASE b # a
      BY <3>1, <3>3, <1>2
    <3> QED BY <3>2, <3>3
  <2> QED
    BY <2>1, <2>3, <1>0 DEF FetchedKnows
<1> QED
  BY <1>3, <1>4, <1>5, <1>6, <1>8, <1>9 DEF WalkInv

LEMMA TickKeeps ==
    ASSUME WalkInv, Tick
    PROVE  WalkInv'
<1>0. /\ now < MaxTime /\ now' = now + 1
      /\ UNCHANGED <<steam, build, catalog, stored, run, crashes, atStart, slipped>>
  BY DEF Tick
<1>1. now \in Times /\ now' \in Times /\ stored \in Cursor /\ run \in Runs
        /\ steam \in [Apps -> Times]
  BY <1>0, WalkAssumption DEF WalkInv, TypeOK, Times, Runs
<1>2. TypeOK'
  BY <1>0, <1>1 DEF WalkInv, TypeOK, Cursor, Page
<1>3. ClockKnows' /\ PageKnows'
  BY <1>0, <1>1, WalkAssumption
     DEF WalkInv, ClockKnows, PageKnows, Times, Cursor, Runs, Page
<1>4. CursorIsJustified' /\ RunKnows' /\ IngestedKnows' /\ FetchedKnows'
  BY <1>0 DEF WalkInv, CursorIsJustified, RunKnows, IngestedKnows, FetchedKnows, Resumed,
              InProgress, NewPass, Promised, Ingested, NewestRead
<1> QED
  BY <1>2, <1>3, <1>4 DEF WalkInv

LEMMA UpgradeKeeps ==
    ASSUME WalkInv, Upgrade
    PROVE  WalkInv'
<1>0. /\ run.pc = "off" /\ build < MaxBuild /\ build' = build + 1
      /\ UNCHANGED <<steam, now, catalog, stored, run, crashes, atStart, slipped>>
  BY DEF Upgrade
<1>1. build \in 1 .. MaxBuild /\ stored \in Cursor
  BY DEF WalkInv, TypeOK
<1>2. TypeOK'
  BY <1>0, <1>1, WalkAssumption DEF WalkInv, TypeOK, Cursor, Page
<1>3. ClockKnows' /\ stored.build # build'
  BY <1>0, <1>1, WalkAssumption DEF WalkInv, ClockKnows, Cursor
<1>4. CursorIsJustified'
  BY <1>0, <1>3 DEF WalkInv, CursorIsJustified, InProgress
<1> QED
  BY <1>0, <1>2, <1>3, <1>4
     DEF WalkInv, RunKnows, FetchedKnows, IngestedKnows, PageKnows

-----------------------------------------------------------------------------
(* The collector                                                           *)

LEMMA RunStopsKeeps ==
    ASSUME WalkInv, RunStops
    PROVE  WalkInv'
<1>0. /\ crashes < MaxCrashes /\ crashes' = crashes + 1 /\ run' = Off
      /\ UNCHANGED <<steam, now, build, catalog, stored, atStart, slipped>>
  BY DEF RunStops
<1>1. run' \in Runs /\ run'.pc = "off"
  BY <1>0, OffIsRun
<1>2. TypeOK'
  BY <1>0, <1>1, WalkAssumption DEF WalkInv, TypeOK, Runs
<1>3. ClockKnows' /\ CursorIsJustified'
  BY <1>0 DEF WalkInv, ClockKnows, CursorIsJustified, InProgress
<1> QED
  BY <1>1, <1>2, <1>3 DEF WalkInv, RunKnows, FetchedKnows, IngestedKnows, PageKnows

LEMMA StartRunKeeps ==
    ASSUME WalkInv, StartRun
    PROVE  WalkInv'
<1> DEFINE c == Resumed(stored)
<1>0. /\ run' = [Off EXCEPT !.pc = "fetch", !.cursor = c]
      /\ atStart' = IF c.last = 0 THEN steam ELSE atStart
      /\ UNCHANGED <<steam, now, build, catalog, stored, crashes, slipped>>
  BY DEF StartRun
<1>1. c \in Cursor
  BY ResumedFacts
<1> HIDE DEF c
<1>2. run' \in Runs /\ run'.pc = "fetch" /\ run'.cursor = c /\ run'.pages = 0
  BY <1>0, <1>1, OffIsRun DEF Runs
<1>3. TypeOK'
  BY <1>0, <1>2 DEF WalkInv, TypeOK, Runs
<1>4. ClockKnows' /\ CursorIsJustified'
  BY <1>0 DEF WalkInv, ClockKnows, CursorIsJustified, InProgress
<1>5. RunKnows'
  <2>1. Resumed(stored)' = c
    BY <1>0 DEF c, Resumed, InProgress, NewPass
  <2> QED
    BY <2>1, <1>2, WalkAssumption DEF RunKnows
<1> QED
  BY <1>2, <1>3, <1>4, <1>5 DEF WalkInv, FetchedKnows, IngestedKnows, PageKnows

(* What GetAppList answers, in the terms of the invariant.                 *)
LEMMA PageFacts ==
    ASSUME WalkInv, NEW c \in Cursor
    PROVE  /\ PageFor(c) \in Page /\ PageFor(c).high <= now
           /\ \A a \in Apps : PageFor(c).mods[a] > 0 =>
                 /\ PageFor(c).mods[a] = steam[a] /\ steam[a] > 0
                 /\ a > c.last /\ steam[a] >= c.since
           /\ \A a \in Apps :
                 PageFor(c).mods[a] = 0 /\ (PageFor(c).more => a <= PageFor(c).last) =>
                    a <= c.last \/ steam[a] = 0 \/ steam[a] < c.since
           /\ \A a \in Apps : PageFor(c).mods[a] \in Nat
<1> DEFINE L == Listed(c)
           F == FirstOf(L)
           mods == [a \in Apps |-> IF a \in F THEN steam[a] ELSE 0]
           last == Largest(F)
           high == Largest({steam[a] : a \in F})
           more == F # L
<1>1. PageFor(c) = [mods |-> mods, last |-> last, high |-> high, more |-> more]
  BY DEF PageFor
<1>2. steam \in [Apps -> Times] /\ now \in Times /\ c.last \in Nat /\ c.since \in Nat
  <2>1. c.last \in Apps \cup {0} /\ c.since \in Times
    BY DEF Cursor
  <2>2. steam \in [Apps -> Times] /\ now \in Times
    BY DEF WalkInv, TypeOK
  <2>3. c.last \in Nat /\ c.since \in Nat
    BY <2>1, WalkAssumption DEF Apps, Times
  <2> QED
    BY <2>2, <2>3
<1>3. L \in SUBSET Apps /\ F \in SUBSET L
  BY DEF Listed, FirstOf
<1>4. Apps \subseteq 0 .. NumApps /\ NumApps \in Nat /\ \A a \in Apps : a \in Nat /\ a > 0
  BY WalkAssumption DEF Apps
<1>5. /\ last \in 0 .. NumApps
      /\ F # {} => last \in F
      /\ F = {} => last = 0
  BY <1>3, <1>4, LargestOfBounded
<1>6. last \in Apps \cup {0}
  BY <1>3, <1>5
<1>7. high \in 0 .. now
  <2>1. now \in Nat /\ {steam[a] : a \in F} \in SUBSET (0 .. now)
    <3> SUFFICES ASSUME NEW a \in F PROVE now \in Nat /\ steam[a] \in 0 .. now
      BY <1>2, WalkAssumption DEF Times
    <3> QED
      BY <1>2, <1>3, WalkAssumption DEF WalkInv, ClockKnows, Times
  <2> QED
    BY <2>1, LargestOfBounded
<1>8. high \in Times /\ high <= now
  BY <1>2, <1>7, WalkAssumption DEF Times
<1>9. mods \in [Apps -> Times]
  BY <1>2, WalkAssumption DEF Times
<1>10. \A a \in Apps : mods[a] > 0 =>
          /\ mods[a] = steam[a] /\ steam[a] > 0 /\ a > c.last /\ steam[a] >= c.since
  BY <1>3 DEF Listed
<1>11. ASSUME NEW a \in Apps, mods[a] = 0, (F # L) => a <= last
       PROVE  a <= c.last \/ steam[a] = 0 \/ steam[a] < c.since
  <2>1. a \notin F
    BY <1>2, <1>3, <1>11 DEF Listed, Times
  <2>2. a \notin L
    <3>1. CASE F = L
      BY <3>1, <2>1
    <3>2. CASE F # L
      <4>1. a <= last
        BY <3>2, <1>11
      <4>2. last \in F
        BY <4>1, <1>4, <1>5
      <4> HIDE DEF L, last
      <4> QED
        BY <4>1, <4>2, <2>1, <1>3, FirstIsPrefix
    <3> QED BY <3>1, <3>2
  <2> QED
    BY <2>2, <1>2, <1>4, WalkAssumption DEF Listed, Times
<1> HIDE DEF L, F, mods, last, high, more
<1>12. PageFor(c) \in Page
  <2>1. more \in BOOLEAN
    BY DEF more
  <2> QED
    BY <2>1, <1>1, <1>6, <1>8, <1>9 DEF Page
<1>13. \A a \in Apps : mods[a] \in Nat
  BY <1>9, WalkAssumption DEF Times
<1>14. PageFor(c).mods = mods /\ PageFor(c).last = last /\ PageFor(c).high = high
  BY <1>1
<1>15. PageFor(c).more <=> F # L
  <2>1. PageFor(c).more = more
    BY <1>1
  <2> QED
    BY <2>1 DEF more
<1>16. ASSUME NEW a \in Apps, PageFor(c).mods[a] = 0, PageFor(c).more => a <= PageFor(c).last
       PROVE  a <= c.last \/ steam[a] = 0 \/ steam[a] < c.since
  <2>1. (F # L) => a <= last
    BY <1>14, <1>15, <1>16
  <2> QED
    BY <2>1, <1>11, <1>14, <1>16
<1> QED
  BY <1>8, <1>10, <1>12, <1>13, <1>14, <1>16

LEMMA FetchPageKeeps ==
    ASSUME WalkInv, FetchPage
    PROVE  WalkInv'
<1> DEFINE c == run.cursor
           p == PageFor(c)
<1>0. /\ run.pc = "fetch" /\ run' = [run EXCEPT !.pc = "ingest", !.page = p]
      /\ UNCHANGED <<steam, now, build, catalog, stored, crashes, atStart, slipped>>
  BY DEF FetchPage
<1>1. run \in Runs /\ c \in Cursor /\ c = Resumed(stored) /\ run.pages < MaxPages
  BY <1>0 DEF WalkInv, TypeOK, RunKnows, Runs
<1>2. /\ p \in Page /\ p.high <= now
      /\ \A a \in Apps : p.mods[a] > 0 =>
            p.mods[a] = steam[a] /\ steam[a] > 0 /\ a > c.last /\ steam[a] >= c.since
      /\ \A a \in Apps : p.mods[a] = 0 /\ (p.more => a <= p.last) =>
            a <= c.last \/ steam[a] = 0 \/ steam[a] < c.since
      /\ \A a \in Apps : p.mods[a] \in Nat
  BY <1>1, PageFacts
<1> HIDE DEF p
<1>3. run' \in Runs /\ run'.pc = "ingest" /\ run'.page = p /\ run'.cursor = c
        /\ run'.pages = run.pages
  BY <1>0, <1>1, <1>2 DEF Runs
<1>4. TypeOK'
  BY <1>0, <1>3 DEF WalkInv, TypeOK, Runs
<1>5. ClockKnows' /\ CursorIsJustified'
  BY <1>0 DEF WalkInv, ClockKnows, CursorIsJustified, InProgress
<1>6. RunKnows' /\ PageKnows'
  BY <1>0, <1>1, <1>2, <1>3 DEF RunKnows, PageKnows, Resumed, InProgress, NewPass
<1>7. FetchedKnows'
  <2>1. \A a \in Apps : run'.page.mods[a] > 0 =>
           a > run'.cursor.last /\ steam'[a] >= run'.cursor.since /\ steam'[a] > 0
    BY <1>0, <1>2, <1>3
  <2>2. ASSUME NEW a \in Apps \ slipped, Promised(a)'
        PROVE  Ingested(a)' = steam'[a]
    <3>1. CASE p.mods[a] > 0
      BY <3>1, <1>0, <1>2, <1>3 DEF Ingested
    <3>2. CASE ~(p.mods[a] > 0)
      <4>1. p.mods[a] = 0 /\ Ingested(a)' = catalog[a]
        BY <3>2, <1>0, <1>2, <1>3 DEF Ingested
      <4>2. p.more => a <= p.last
        BY <2>2, <1>3 DEF Promised
      <4>3. a <= c.last \/ steam[a] = 0 \/ steam[a] < c.since
        BY <4>1, <4>2, <1>2
      <4>4. CASE a <= c.last
        <5>1. c.last > 0
          BY <4>4, <1>1, WalkAssumption DEF Apps, Cursor
        <5>2. InProgress(stored) /\ stored.build = build /\ stored.last = c.last
          BY <5>1, <1>1, ResumedFacts
        <5> QED
          BY <5>2, <4>1, <4>4, <1>0 DEF WalkInv, CursorIsJustified
      <4>5. CASE steam[a] = 0
        BY <4>5, <4>1, <1>0 DEF WalkInv, ClockKnows
      <4>6. CASE steam[a] < c.since
        <5>1. c.since = stored.since
          BY <1>1, ResumedFacts
        <5> QED
          BY <5>1, <4>1, <4>6, <1>0 DEF WalkInv, CursorIsJustified
      <4> QED BY <4>3, <4>4, <4>5, <4>6
    <3> QED BY <3>1, <3>2
  <2> QED
    BY <2>1, <2>2, <1>0 DEF FetchedKnows
<1> QED
  BY <1>3, <1>4, <1>5, <1>6, <1>7 DEF WalkInv, IngestedKnows

LEMMA IngestPageKeeps ==
    ASSUME WalkInv, IngestPage
    PROVE  WalkInv'
<1> DEFINE mods == run.page.mods
<1>0. /\ run.pc = "ingest" /\ run' = [run EXCEPT !.pc = "save"]
      /\ catalog' = [a \in Apps |-> Ingested(a)]
      /\ slipped' = {a \in slipped : mods[a] # steam[a]}
      /\ UNCHANGED <<steam, now, build, stored, crashes, atStart>>
  BY DEF IngestPage, Ingested
<1>1. /\ run \in Runs /\ mods \in [Apps -> Times] /\ catalog \in [Apps -> Times]
      /\ slipped \in SUBSET Apps /\ \A a \in Apps : mods[a] \in Nat /\ steam[a] \in Nat
  BY WalkAssumption DEF WalkInv, TypeOK, Runs, Page, Times
<1>2. run' \in Runs /\ run'.pc = "save" /\ run'.page = run.page /\ run'.cursor = run.cursor
        /\ run'.pages = run.pages
  BY <1>0, <1>1 DEF Runs
<1>3. run.cursor = Resumed(stored) /\ run.pages < MaxPages
  BY <1>0 DEF WalkInv, RunKnows
<1>4. \A a \in Apps : mods[a] > 0 =>
         a > run.cursor.last /\ steam[a] >= run.cursor.since /\ steam[a] > 0
  BY <1>0 DEF WalkInv, FetchedKnows
<1>5. \A a \in slipped : steam[a] > 0
  BY DEF WalkInv, ClockKnows
<1>6. \A a \in slipped : a \notin slipped' => catalog'[a] = steam[a]
  BY <1>0, <1>1, <1>5 DEF Ingested
<1>7. \A a \in Apps : mods[a] = 0 => catalog'[a] = catalog[a]
  BY <1>0, <1>1 DEF Ingested
<1>8. TypeOK'
  <2>1. catalog' \in [Apps -> Times]
    BY <1>0, <1>1 DEF Ingested
  <2> QED
    BY <2>1, <1>0, <1>1, <1>2 DEF WalkInv, TypeOK, Runs
<1>9. ClockKnows'
  BY <1>0, <1>1, <1>4, <1>7 DEF WalkInv, ClockKnows
<1>10. CursorIsJustified'
  <2> SUFFICES ASSUME NEW a \in (Apps \ slipped)'
               PROVE  /\ InProgress(stored) /\ stored.build = build /\ a <= stored.last =>
                             catalog'[a] = steam[a]
                      /\ steam[a] < stored.since => catalog'[a] = steam[a]
    BY <1>0 DEF CursorIsJustified, InProgress
  <2>1. CASE a \in slipped
    BY <2>1, <1>6
  <2>2. CASE a \notin slipped
    <3>1. ASSUME InProgress(stored), stored.build = build, a <= stored.last
          PROVE  catalog'[a] = steam[a]
      <4>1. run.cursor = stored
        BY <3>1, <1>3 DEF Resumed
      <4>2. stored.last \in Int /\ a \in Int
        BY WalkAssumption DEF WalkInv, TypeOK, Cursor, Apps
      <4>3. mods[a] = 0
        BY <3>1, <4>1, <4>2, <1>1, <1>4
      <4> QED
        BY <3>1, <4>3, <2>2, <1>7 DEF WalkInv, CursorIsJustified
    <3>2. ASSUME steam[a] < stored.since
          PROVE  catalog'[a] = steam[a]
      <4>1. run.cursor.since = stored.since /\ stored.since \in Nat
        BY <1>3, ResumedFacts, WalkAssumption DEF WalkInv, TypeOK, Cursor, Times
      <4>2. mods[a] = 0
        BY <3>2, <4>1, <1>1, <1>4
      <4> QED
        BY <3>2, <4>2, <2>2, <1>7 DEF WalkInv, CursorIsJustified
    <3> QED BY <3>1, <3>2
  <2> QED BY <2>1, <2>2
<1>11. RunKnows' /\ PageKnows'
  BY <1>0, <1>2, <1>3 DEF WalkInv, RunKnows, PageKnows, Resumed, InProgress, NewPass
<1>12. IngestedKnows'
  <2> SUFFICES ASSUME NEW a \in (Apps \ slipped)', Promised(a)
               PROVE  catalog'[a] = steam[a]
    BY <1>0, <1>2 DEF IngestedKnows, Promised
  <2>1. CASE a \in slipped
    BY <2>1, <1>6
  <2>2. CASE a \notin slipped
    BY <2>2, <1>0 DEF WalkInv, FetchedKnows
  <2> QED BY <2>1, <2>2
<1> QED
  BY <1>2, <1>8, <1>9, <1>10, <1>11, <1>12 DEF WalkInv, FetchedKnows

(* The cursor after a page.                                                *)
LEMMA AdvancedFacts ==
    ASSUME NEW c \in Cursor, NEW p \in Page
    PROVE  /\ Advanced(c, p) \in Cursor /\ Advanced(c, p).build = c.build
           /\ Advanced(c, p).high = NewestRead(c, p)
           /\ p.more => /\ InProgress(Advanced(c, p)) /\ Advanced(c, p).last = p.last
                        /\ Advanced(c, p).since = c.since
           /\ ~p.more => /\ ~InProgress(Advanced(c, p))
                         /\ Advanced(c, p).since = NewestRead(c, p)
<1> DEFINE high == NewestRead(c, p)
<1>1. high \in Times
  BY DEF NewestRead, Cursor, Page
<1>2. CASE p.more
  <2>1. Advanced(c, p) = [c EXCEPT !.last = p.last, !.more = TRUE, !.high = high]
    BY <1>2 DEF Advanced, NewestRead
  <2> HIDE DEF high
  <2>2. Advanced(c, p) \in Cursor /\ Advanced(c, p).more = TRUE
    BY <2>1, <1>1 DEF Cursor, Page
  <2>3. /\ Advanced(c, p).last = p.last /\ Advanced(c, p).since = c.since
        /\ Advanced(c, p).high = high /\ Advanced(c, p).build = c.build
    BY <2>1, <1>1 DEF Cursor, Page
  <2> QED
    BY <2>2, <2>3, <1>2 DEF InProgress, high
<1>3. CASE ~p.more
  <2>1. Advanced(c, p) =
           [c EXCEPT !.last = 0, !.more = FALSE, !.high = high, !.since = high]
    BY <1>3 DEF Advanced, NewestRead
  <2> HIDE DEF high
  <2>2. Advanced(c, p) \in Cursor /\ Advanced(c, p).more = FALSE /\ Advanced(c, p).last = 0
    BY <2>1, <1>1 DEF Cursor, Page
  <2>3. /\ Advanced(c, p).since = high /\ Advanced(c, p).high = high
        /\ Advanced(c, p).build = c.build
    BY <2>1, <1>1 DEF Cursor, Page
  <2>4. ~InProgress(Advanced(c, p))
    BY <2>2 DEF InProgress
  <2> QED
    BY <2>2, <2>3, <2>4, <1>3 DEF high
<1> QED
  BY <1>2, <1>3

LEMMA SaveCursorKeeps ==
    ASSUME WalkInv, SaveCursor
    PROVE  WalkInv' /\ stored'.since >= stored.since
<1> DEFINE c == Advanced(run.cursor, run.page)
<1>0. /\ run.pc = "save" /\ stored' = c
      /\ run' = IF ~InProgress(c) \/ run.pages + 1 = MaxPages THEN Off
                ELSE [Off EXCEPT !.pc = "fetch", !.cursor = c, !.pages = run.pages + 1]
      /\ UNCHANGED <<steam, now, build, catalog, crashes, atStart, slipped>>
  BY DEF SaveCursor
<1>1. /\ run \in Runs /\ run.cursor \in Cursor /\ run.page \in Page
      /\ run.cursor = Resumed(stored) /\ run.pages < MaxPages /\ run.pages \in Nat
      /\ stored \in Cursor /\ now \in Times
  BY <1>0, WalkAssumption DEF WalkInv, TypeOK, RunKnows, Runs
<1>2. /\ c \in Cursor /\ c.build = run.cursor.build /\ c.high = NewestRead(run.cursor, run.page)
      /\ run.page.more => /\ InProgress(c) /\ c.last = run.page.last
                          /\ c.since = run.cursor.since
      /\ ~run.page.more => ~InProgress(c) /\ c.since = NewestRead(run.cursor, run.page)
  BY <1>1, AdvancedFacts
<1> HIDE DEF c
<1>3. /\ c.build = build /\ run.cursor.since = stored.since /\ run.cursor.high <= now
      /\ run.cursor.since <= run.cursor.high
  BY <1>1, <1>2, ResumedFacts
<1>4. /\ run.page.high <= now /\ run.page.high \in Nat /\ run.cursor.high \in Nat
      /\ now \in Nat /\ stored.since \in Nat
  BY <1>0, <1>1, WalkAssumption DEF WalkInv, PageKnows, Page, Cursor, Times
<1>5. /\ NewestRead(run.cursor, run.page) <= now
      /\ NewestRead(run.cursor, run.page) >= stored.since
      /\ NewestRead(run.cursor, run.page) \in Nat
  BY <1>3, <1>4 DEF NewestRead
<1>6. c.since <= c.high /\ c.high <= now /\ c.since >= stored.since
  <2>1. CASE run.page.more
    BY <2>1, <1>2, <1>3, <1>5, <1>4
  <2>2. CASE ~run.page.more
    BY <2>2, <1>2, <1>5, <1>4
  <2> QED BY <2>1, <2>2
<1>7. /\ run' \in Runs /\ run'.pc \in {"off", "fetch"}
      /\ run'.pc = "fetch" => InProgress(c) /\ run'.cursor = c /\ run'.pages < MaxPages
  <2>1. CASE ~InProgress(c) \/ run.pages + 1 = MaxPages
    BY <2>1, <1>0, OffIsRun
  <2>2. CASE ~(~InProgress(c) \/ run.pages + 1 = MaxPages)
    <3>1. run' = [Off EXCEPT !.pc = "fetch", !.cursor = c, !.pages = run.pages + 1]
      BY <2>2, <1>0
    <3>2. run.pages + 1 \in 0 .. MaxPages /\ run.pages + 1 < MaxPages
      BY <2>2, <1>1, WalkAssumption
    <3> QED
      BY <3>1, <3>2, <2>2, <1>2, OffIsRun DEF Runs
  <2> QED BY <2>1, <2>2
<1>8. TypeOK'
  BY <1>0, <1>2, <1>7 DEF WalkInv, TypeOK, Runs
<1>9. ClockKnows'
  BY <1>0, <1>3, <1>6, WalkAssumption DEF WalkInv, TypeOK, ClockKnows
<1>10. CursorIsJustified'
  <2> SUFFICES ASSUME NEW a \in Apps \ slipped
               PROVE  /\ InProgress(c) /\ c.build = build /\ a <= c.last =>
                             catalog[a] = steam[a]
                      /\ steam[a] < c.since => catalog[a] = steam[a]
    BY <1>0 DEF CursorIsJustified, InProgress
  <2>1. Promised(a) => catalog[a] = steam[a]
    BY <1>0 DEF WalkInv, IngestedKnows
  <2>2. CASE run.page.more
    BY <2>1, <2>2, <1>2, <1>3 DEF Promised, WalkInv, CursorIsJustified
  <2>3. CASE ~run.page.more
    BY <2>1, <2>3, <1>2 DEF Promised
  <2> QED BY <2>2, <2>3
<1>11. RunKnows'
  BY <1>0, <1>3, <1>7 DEF RunKnows, Resumed, InProgress
<1> QED
  BY <1>0, <1>6, <1>7, <1>8, <1>9, <1>10, <1>11
     DEF WalkInv, FetchedKnows, IngestedKnows, PageKnows

-----------------------------------------------------------------------------
(* The specification                                                       *)

LEMMA StutterKeeps ==
    ASSUME WalkInv, UNCHANGED vars
    PROVE  WalkInv'
<1>0. UNCHANGED <<steam, now, build, catalog, stored, run, crashes, atStart, slipped>>
  BY DEF vars
<1>1. TypeOK' /\ ClockKnows' /\ CursorIsJustified'
  BY <1>0 DEF WalkInv, TypeOK, Cursor, Page, ClockKnows, CursorIsJustified, InProgress
<1>2. RunKnows' /\ PageKnows' /\ IngestedKnows' /\ FetchedKnows'
  BY <1>0 DEF WalkInv, RunKnows, PageKnows, IngestedKnows, FetchedKnows, Resumed,
              InProgress, NewPass, Promised, Ingested, NewestRead
<1> QED
  BY <1>1, <1>2 DEF WalkInv

LEMMA WalkStep == WalkInv /\ [Next]_vars => WalkInv'
<1> SUFFICES ASSUME WalkInv, [Next]_vars PROVE WalkInv'
  OBVIOUS
<1>1. CASE UNCHANGED vars
  BY <1>1, StutterKeeps
<1>2. CASE Collecting
  BY <1>2, StartRunKeeps, FetchPageKeeps, IngestPageKeeps, SaveCursorKeeps DEF Collecting
<1>3. CASE RunStops \/ Upgrade \/ Tick
  BY <1>3, RunStopsKeeps, UpgradeKeeps, TickKeeps
<1>4. CASE \E a \in Apps : Change(a)
  BY <1>4, ChangeKeeps
<1> QED
  BY <1>1, <1>2, <1>3, <1>4 DEF Next

THEOREM WalkInvariant == Spec => []WalkInv
BY WalkInitInv, WalkStep, PTL DEF Spec

(* The cursor of cursor.rs never walks past, and its watermark never       *)
(* filters out, an app whose last change is not in the catalog, unless     *)
(* that app changed behind a pass under way: whatever the page size, and   *)
(* wherever a collector dies.                                              *)
THEOREM CursorJustified == Spec => []CursorIsJustified
<1>1. WalkInv => CursorIsJustified
  BY DEF WalkInv
<1> QED
  BY <1>1, WalkInvariant, PTL

(* No restart, no retried page and no upgrade of the collector moves the   *)
(* watermark back (complete_pass, resume in cursor.rs).                    *)
THEOREM WatermarkRises == Spec => WatermarkOnlyRises
<1>1. WalkInv /\ [Next]_vars => [stored'.since >= stored.since]_vars
  <2> SUFFICES ASSUME WalkInv, Next PROVE stored'.since >= stored.since
    OBVIOUS
  <2>1. CASE SaveCursor
    BY <2>1, SaveCursorKeeps
  <2>2. CASE ~SaveCursor
    <3>1. stored' = stored
      BY <2>2 DEF Next, Collecting, StartRun, FetchPage, IngestPage, RunStops, Upgrade,
                  Tick, Change
    <3>2. stored.since \in Nat
      BY WalkAssumption DEF WalkInv, TypeOK, Cursor, Times
    <3> QED BY <3>1, <3>2
  <2> QED BY <2>1, <2>2
<1> QED
  BY <1>1, WalkInvariant, PTL DEF Spec, WatermarkOnlyRises

-----------------------------------------------------------------------------
(* What a finished pass has brought in                                     *)

(* The pages fetched so far in this pass reach a.                          *)
Reached(a) == run.page.more => a <= run.page.last

(* Nothing Steam listed when the pass began is dated later than what it    *)
(* lists now, and what the pages reach is in the catalog, or on the page   *)
(* at hand, as it was when the pass began.                                 *)
StartKnows ==
    /\ \A a \in Apps : atStart[a] <= steam[a]
    /\ run.pc = "ingest" =>
          \A a \in Apps \ slipped : Reached(a) => Ingested(a) >= atStart[a]
    /\ run.pc = "save" =>
          \A a \in Apps \ slipped : Reached(a) => catalog[a] >= atStart[a]

\* A finished pass has brought in what Steam listed when it began, but for
\* apps that changed behind the cursor of a pass and were not fetched since.
PassBringsAll ==
    ~InProgress(stored') /\ stored' # stored =>
        \A a \in Apps \ slipped : catalog[a] >= atStart[a]

LEMMA Dates ==
    ASSUME WalkInv
    PROVE  /\ Times \subseteq Nat /\ now \in Nat
           /\ \A a \in Apps : steam[a] \in Nat /\ catalog[a] \in Nat /\ atStart[a] \in Nat
           /\ \A a \in Apps : steam[a] <= now
BY WalkAssumption DEF WalkInv, TypeOK, ClockKnows, Times

LEMMA FetchPageStart ==
    ASSUME WalkInv, StartKnows, FetchPage
    PROVE  StartKnows'
<1> DEFINE c == run.cursor
           p == PageFor(c)
<1>0. /\ run.pc = "fetch" /\ run' = [run EXCEPT !.pc = "ingest", !.page = p]
      /\ UNCHANGED <<steam, now, build, catalog, stored, crashes, atStart, slipped>>
  BY DEF FetchPage
<1>1. run \in Runs /\ c \in Cursor /\ c = Resumed(stored)
  BY <1>0 DEF WalkInv, TypeOK, RunKnows, Runs
<1>2. /\ \A a \in Apps : p.mods[a] > 0 => p.mods[a] = steam[a]
      /\ \A a \in Apps : p.mods[a] = 0 /\ (p.more => a <= p.last) =>
            a <= c.last \/ steam[a] = 0 \/ steam[a] < c.since
      /\ \A a \in Apps : p.mods[a] \in Nat
  BY <1>1, PageFacts
<1> HIDE DEF p
<1>3. run'.pc = "ingest" /\ run'.page = p
  BY <1>0, <1>1 DEF Runs
<1>4. ASSUME NEW a \in Apps \ slipped, Reached(a)' PROVE Ingested(a)' >= atStart[a]
  <2>0. atStart[a] <= steam[a] /\ atStart[a] \in Nat /\ steam[a] \in Nat /\ catalog[a] \in Nat
    BY Dates DEF StartKnows
  <2>1. CASE p.mods[a] > 0
    BY <1>0, <1>2, <1>3, <2>0, <2>1 DEF Ingested
  <2>2. CASE ~(p.mods[a] > 0)
    <3>1. p.mods[a] = 0 /\ Ingested(a)' = catalog[a]
      BY <2>2, <1>0, <1>2, <1>3 DEF Ingested
    <3>2. a <= c.last \/ steam[a] = 0 \/ steam[a] < c.since
      BY <3>1, <1>2, <1>3, <1>4 DEF Reached
    <3>3. CASE a <= c.last
      <4>1. c.last > 0
        BY <3>3, <1>1, WalkAssumption DEF Apps, Cursor
      <4>2. InProgress(stored) /\ stored.build = build /\ stored.last = c.last
        BY <4>1, <1>1, ResumedFacts
      <4>3. catalog[a] = steam[a]
        BY <4>2, <3>3 DEF WalkInv, CursorIsJustified
      <4> QED
        BY <4>3, <3>1, <2>0
    <3>4. CASE steam[a] = 0
      BY <3>4, <3>1, <2>0
    <3>5. CASE steam[a] < c.since
      <4>1. c.since = stored.since
        BY <1>1, ResumedFacts
      <4>2. catalog[a] = steam[a]
        BY <4>1, <3>5 DEF WalkInv, CursorIsJustified
      <4> QED
        BY <4>2, <3>1, <2>0
    <3> QED
      BY <3>2, <3>3, <3>4, <3>5
  <2> QED
    BY <2>1, <2>2
<1> QED
  BY <1>0, <1>3, <1>4 DEF StartKnows

LEMMA IngestPageStart ==
    ASSUME WalkInv, StartKnows, IngestPage
    PROVE  StartKnows'
<1> DEFINE mods == run.page.mods
<1>0. /\ run.pc = "ingest" /\ run' = [run EXCEPT !.pc = "save"]
      /\ catalog' = [a \in Apps |-> Ingested(a)]
      /\ slipped' = {a \in slipped : mods[a] # steam[a]}
      /\ UNCHANGED <<steam, now, build, stored, crashes, atStart>>
  BY DEF IngestPage, Ingested
<1>1. run'.pc = "save" /\ run'.page = run.page
  BY <1>0 DEF WalkInv, TypeOK, Runs
<1>2. ASSUME NEW a \in (Apps \ slipped)', Reached(a)' PROVE catalog'[a] >= atStart[a]
  <2>1. catalog'[a] = Ingested(a) /\ Reached(a)
    BY <1>0, <1>1, <1>2 DEF Reached
  <2>2. CASE a \notin slipped
    BY <1>0, <2>1, <2>2 DEF StartKnows
  <2>3. CASE a \in slipped
    <3>1. mods[a] = steam[a] /\ steam[a] > 0
      BY <1>0, <2>3 DEF WalkInv, ClockKnows
    <3>2. catalog'[a] = steam[a]
      BY <2>1, <3>1 DEF Ingested
    <3> QED
      BY <3>2, Dates DEF StartKnows
  <2> QED
    BY <2>2, <2>3
<1> QED
  BY <1>0, <1>1, <1>2 DEF StartKnows

LEMMA StartStep ==
    ASSUME WalkInv, StartKnows, [Next]_vars
    PROVE  StartKnows'
<1>1. CASE StartRun
  <2>1. run'.pc = "fetch" /\ steam' = steam /\ (atStart' = steam \/ atStart' = atStart)
    BY <1>1 DEF StartRun, Off
  <2> QED
    BY <2>1, Dates DEF StartKnows
<1>2. CASE FetchPage
  BY <1>2, FetchPageStart
<1>3. CASE IngestPage
  BY <1>3, IngestPageStart
<1>4. CASE SaveCursor
  <2>1. run'.pc \in {"off", "fetch"} /\ steam' = steam /\ atStart' = atStart
    BY <1>4 DEF SaveCursor, Off
  <2> QED
    BY <2>1 DEF StartKnows
<1>5. CASE RunStops
  BY <1>5 DEF RunStops, Off, StartKnows
<1>6. CASE Upgrade \/ Tick \/ UNCHANGED vars
  BY <1>6 DEF Upgrade, Tick, vars, StartKnows, Reached, Ingested
<1>7. ASSUME NEW a \in Apps, Change(a) PROVE StartKnows'
  <2>1. /\ steam' = [steam EXCEPT ![a] = now] /\ slipped \subseteq slipped'
        /\ UNCHANGED <<catalog, run, atStart>>
    BY <1>7 DEF Change
  <2>2. \A b \in Apps : steam[b] <= steam'[b] /\ steam'[b] \in Nat
    BY <2>1, Dates DEF WalkInv, TypeOK
  <2>3. \A b \in Apps : atStart[b] <= steam'[b]
    BY <2>1, <2>2, Dates DEF StartKnows
  <2> QED
    BY <2>1, <2>3 DEF StartKnows, Reached, Ingested
<1> QED
  BY <1>1, <1>2, <1>3, <1>4, <1>5, <1>6, <1>7 DEF Next, Collecting

LEMMA BringsStep ==
    ASSUME WalkInv, StartKnows, [Next]_vars
    PROVE  [PassBringsAll]_vars
<1>1. CASE SaveCursor
  <2>1. run.pc = "save" /\ stored' = Advanced(run.cursor, run.page)
    BY <1>1 DEF SaveCursor
  <2>2. run.cursor \in Cursor /\ run.page \in Page
    BY DEF WalkInv, TypeOK
  <2>3. run.page.more => InProgress(stored')
    BY <2>1, <2>2, AdvancedFacts
  <2> QED
    BY <2>1, <2>3 DEF PassBringsAll, StartKnows, Reached
<1>2. CASE ~SaveCursor
  <2>1. stored' = stored
    BY <1>2 DEF Next, Collecting, StartRun, FetchPage, IngestPage, RunStops, Upgrade,
                Tick, Change, vars
  <2> QED
    BY <2>1 DEF PassBringsAll
<1> QED
  BY <1>1, <1>2

(* PassIsComplete is false of the code, and an app that changes behind the *)
(* cursor is all that it takes: every other app that Steam listed when a   *)
(* pass began is in the catalog when it ends, however often the collector  *)
(* died or was upgraded on the way.                                        *)
THEOREM PassesBringAll == Spec => [][PassBringsAll]_vars
<1>1. Init => StartKnows
  BY WalkAssumption DEF Init, StartKnows, Off, Times
<1>2. WalkInv /\ StartKnows /\ [Next]_vars => StartKnows'
  BY StartStep
<1>3. WalkInv /\ StartKnows /\ [Next]_vars => [PassBringsAll]_vars
  BY BringsStep
<1> QED
  BY WalkInvariant, <1>1, <1>2, <1>3, PTL DEF Spec

=============================================================================
