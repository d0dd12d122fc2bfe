--------------------------- MODULE JobQueueProofs ---------------------------
(***************************************************************************)
(* Proofs about JobQueue: type correctness in every deployment, and, when  *)
(* every caller goes through one process's write lock under an owner name  *)
(* of its own, that leases are exclusive, that a job changes only by its   *)
(* own lease, that the retry budget is kept and that the queue implements  *)
(* JobLifecycle.                                                           *)
(***************************************************************************)
EXTENDS JobQueue, TLAPS

\* The deployment of docs/ARCHITECTURE.md 6.2: collectors call the server.
SingleProcess == \A v, w \in Workers : ProcOf[v] = ProcOf[w]
DistinctNames == \A v, w \in Workers : OwnerOf[v] = OwnerOf[w] => v = w

-----------------------------------------------------------------------------
(* Types of the rows and calls the actions build                           *)

\* A freshly inserted row is a row (INSERT of enqueue_job).
LEMMA SubmittedRowType ==
    ASSUME NEW d \in Nat, NEW k \in Keys, NEW p \in Nat
    PROVE  [NoJob EXCEPT !.status = "pending", !.due = d, !.key = k,
                         !.priority = p] \in JobRow
BY DEF NoJob, JobRow, Status

\* Recovery of expired leases keeps the table well formed.
LEMMA RecoveredType ==
    ASSUME jobs \in [JobIds -> JobRow], NEW now \in Nat
    PROVE  Recovered(now) \in [JobIds -> JobRow]
<1>1. ASSUME NEW r \in JobRow
      PROVE  [r EXCEPT !.status = "pending", !.owner = None, !.expires = 0] \in JobRow
  BY <1>1 DEF JobRow, Status
<1> QED BY <1>1 DEF Recovered

\* A claimed row is a row, and its lease is a lease.
LEMMA ClaimType ==
    ASSUME NEW w \in Workers, NEW j \in JobIds, jobs[j] \in JobRow,
           call[w].now \in Nat
    PROVE  /\ ClaimRow(j, w) \in JobRow
           /\ [job |-> j, try |-> jobs[j].attempts + 1,
               until |-> call[w].now + LeaseTime] \in Lease
<1>1. jobs[j].attempts + 1 \in Nat
  BY DEF JobRow
<1>2. call[w].now + LeaseTime \in Nat
  BY RangeAssumption
<1>3. OwnerOf[w] \in Owners \cup {None}
  BY DeploymentAssumption
<1>4. ASSUME NEW r \in JobRow, NEW o \in Owners \cup {None}, NEW e \in Nat,
             NEW a \in Nat
      PROVE  [r EXCEPT !.status = "leased", !.owner = o, !.expires = e,
                       !.attempts = a] \in JobRow
  BY DEF JobRow, Status
<1>5. ClaimRow(j, w) \in JobRow
  BY <1>1, <1>2, <1>3, <1>4 DEF ClaimRow
<1> QED BY <1>1, <1>2, <1>5 DEF Lease

\* A settled row is a row.
LEMMA SettledRowType ==
    ASSUME NEW w \in Workers, jobs[call[w].job] \in JobRow, call[w].now \in Nat,
           call[w].to \in {"completed", "pending", "dead"}
    PROVE  SettledRow(w) \in JobRow
<1> DEFINE row == [jobs[call[w].job] EXCEPT !.status = call[w].to, !.owner = None,
                                            !.expires = 0]
<1>1. row \in JobRow
  BY DEF JobRow, Status
<1> HIDE DEF row
<1>2. [row EXCEPT !.done = OwnerOf[w]] \in JobRow
  BY <1>1, DeploymentAssumption DEF JobRow
<1>3. [row EXCEPT !.due = call[w].now + RetryDelay] \in JobRow
  BY <1>1, RangeAssumption DEF JobRow
<1>4. SettledRow(w) \in {row, [row EXCEPT !.done = OwnerOf[w]],
                         [row EXCEPT !.due = call[w].now + RetryDelay]}
  BY DEF SettledRow, row
<1> QED BY <1>1, <1>2, <1>3, <1>4

LEMMA IdleCallType == IdleCall \in Call
BY DEF IdleCall, Call, CallRecord

\* The call records the actions build from other ones.
LEMMA CallType ==
    /\ \A n \in Nat : [IdleCall EXCEPT !.op = "lease", !.now = n] \in Call
    /\ \A c \in Call, S \in SUBSET JobIds :
          /\ [c EXCEPT !.op = "claim", !.todo = S] \in Call
          /\ [c EXCEPT !.todo = S] \in Call
    /\ \A n \in Nat, l \in Lease, t \in {"completed", "pending", "dead"} :
          [IdleCall EXCEPT !.op = "report", !.now = n, !.job = l.job,
                           !.try = l.try, !.to = t] \in Call
    /\ \A c \in Call : c.op = "report" => [c EXCEPT !.op = "settle"] \in Call
    /\ \A c \in Call, t \in {"completed", "pending", "dead"} :
          c.op = "report" => [c EXCEPT !.op = "settle", !.to = t] \in Call
    /\ \A c \in Call, n \in Nat :
          c.op = "settle" => [c EXCEPT !.op = "report", !.now = n] \in Call
<1> USE DEF Call, CallRecord
<1>1. ASSUME NEW n \in Nat
      PROVE  [IdleCall EXCEPT !.op = "lease", !.now = n] \in Call
  BY DEF IdleCall
<1>2. ASSUME NEW c \in Call, NEW S \in SUBSET JobIds
      PROVE  /\ [c EXCEPT !.op = "claim", !.todo = S] \in Call
             /\ [c EXCEPT !.todo = S] \in Call
  OBVIOUS
<1>3. ASSUME NEW n \in Nat, NEW l \in Lease, NEW t \in {"completed", "pending", "dead"}
      PROVE  [IdleCall EXCEPT !.op = "report", !.now = n, !.job = l.job,
                              !.try = l.try, !.to = t] \in Call
  <2>1. l.job \in JobIds /\ l.job # 0 /\ l.try \in Nat
    BY DEF Lease, JobIds
  <2> QED BY <2>1 DEF IdleCall
<1>4. ASSUME NEW c \in Call, c.op = "report"
      PROVE  [c EXCEPT !.op = "settle"] \in Call
  BY <1>4
<1>5. ASSUME NEW c \in Call, NEW t \in {"completed", "pending", "dead"}, c.op = "report"
      PROVE  [c EXCEPT !.op = "settle", !.to = t] \in Call
  BY <1>5
<1>6. ASSUME NEW c \in Call, NEW n \in Nat, c.op = "settle"
      PROVE  [c EXCEPT !.op = "report", !.now = n] \in Call
  BY <1>6
<1> HIDE DEF Call, CallRecord
<1> QED BY <1>1, <1>2, <1>3, <1>4, <1>5, <1>6

-----------------------------------------------------------------------------
(* Type correctness                                                        *)

LEMMA InitType == Init => TypeOK
<1>1. NoJob \in JobRow
  BY DEF NoJob, JobRow, Status
<1> QED BY <1>1, IdleCallType DEF Init, TypeOK

LEMMA StepType ==
    ASSUME TypeOK, [Next]_vars
    PROVE  TypeOK'
<1> USE DEF TypeOK
<1>1. CASE Submission
  <2> PICK j \in JobIds, k \in Keys, p \in Priorities,
           d \in {clock, clock + RetryDelay} : EnqueueJob(j, k, p, d)
    BY <1>1 DEF Submission
  <2>1. d \in Nat /\ p \in Nat
    BY RangeAssumption
  <2> QED BY <2>1, SubmittedRowType DEF EnqueueJob
<1>2. CASE Tick
  BY <1>2 DEF Tick
<1>3. ASSUME NEW w \in Workers, BeginLease(w)
      PROVE  TypeOK'
  <2>1. [IdleCall EXCEPT !.op = "lease", !.now = clock] \in Call
    BY CallType, IdleCallType
  <2> QED BY <1>3, <2>1 DEF BeginLease
<1>4. ASSUME NEW w \in Workers, RecoverAndSelect(w)
      PROVE  TypeOK'
  <2> DEFINE now == call[w].now
             todo == Selected(Recovered(now), now)
  <2>1. now \in Nat /\ call[w] \in Call
    BY DEF Call, CallRecord
  <2>2. todo \in SUBSET JobIds
    BY DEF Selected
  <2>3. jobs' \in [JobIds -> JobRow]
    BY <1>4, <2>1, RecoveredType DEF RecoverAndSelect
  <2>4. lapses' \in [JobIds -> Nat]
    BY <1>4 DEF RecoverAndSelect
  <2>5. call' = [call EXCEPT ![w] = IF todo = {} THEN IdleCall
                                    ELSE [@ EXCEPT !.op = "claim", !.todo = todo]]
    BY <1>4 DEF RecoverAndSelect
  <2> HIDE DEF todo
  <2>6. [call[w] EXCEPT !.op = "claim", !.todo = todo] \in Call
    BY <2>1, <2>2, CallType
  <2>7. call' \in [Workers -> Call]
    BY <2>5, <2>6, IdleCallType
  <2> QED BY <1>4, <2>3, <2>4, <2>7 DEF RecoverAndSelect
<1>5. ASSUME NEW w \in Workers, NEW j \in JobIds, ClaimJob(w, j)
      PROVE  TypeOK'
  <2>1. call[w] \in Call /\ call[w].now \in Nat /\ call[w].todo \in SUBSET JobIds
    BY DEF Call, CallRecord
  <2>2. /\ ClaimRow(j, w) \in JobRow
        /\ [job |-> j, try |-> jobs[j].attempts + 1,
            until |-> call[w].now + LeaseTime] \in Lease
    BY <2>1, ClaimType
  <2>3. [call[w] EXCEPT !.todo = call[w].todo \ {j}] \in Call
    <3> DEFINE rest == call[w].todo \ {j}
    <3>1. rest \in SUBSET JobIds
      BY <2>1
    <3> HIDE DEF rest
    <3>2. [call[w] EXCEPT !.todo = rest] \in Call
      BY <2>1, <3>1, CallType
    <3> QED BY <3>2 DEF rest
  <2>4. call' \in [Workers -> Call]
    BY <1>5, <2>3, IdleCallType DEF ClaimJob
  <2>5. jobs' \in [JobIds -> JobRow]
    BY <1>5, <2>2 DEF ClaimJob
  <2>6. held' \in [Workers -> SUBSET Lease]
    BY <1>5, <2>2 DEF ClaimJob
  <2> QED BY <1>5, <2>4, <2>5, <2>6 DEF ClaimJob
<1>6. ASSUME NEW w \in Workers, NEW l \in held[w],
             NEW to \in {"completed", "pending", "dead"}, BeginReport(w, l, to)
      PROVE  TypeOK'
  <2>1. [IdleCall EXCEPT !.op = "report", !.now = clock, !.job = l.job,
                         !.try = l.try, !.to = to] \in Call
    BY CallType, IdleCallType
  <2> QED BY <1>6, <2>1 DEF BeginReport
<1>7. ASSUME NEW w \in Workers, CheckComplete(w)
      PROVE  TypeOK'
  <2>1. [call[w] EXCEPT !.op = "settle"] \in Call
    BY <1>7, CallType DEF CheckComplete
  <2>2. call' \in [Workers -> Call]
    BY <1>7, <2>1, IdleCallType DEF CheckComplete, GiveUp
  <2>3. held' \in [Workers -> SUBSET Lease]
    BY <1>7 DEF CheckComplete, GiveUp, OfJob
  <2> QED BY <1>7, <2>2, <2>3 DEF CheckComplete
<1>8. ASSUME NEW w \in Workers, CheckFail(w)
      PROVE  TypeOK'
  <2>1. FailVerdict(w) \in {"completed", "pending", "dead"}
    BY <1>8 DEF FailVerdict, CheckFail
  <2>2. [call[w] EXCEPT !.op = "settle", !.to = FailVerdict(w)] \in Call
    BY <1>8, <2>1, CallType DEF CheckFail
  <2>3. call' \in [Workers -> Call]
    BY <1>8, <2>2, IdleCallType DEF CheckFail, GiveUp
  <2>4. held' \in [Workers -> SUBSET Lease]
    BY <1>8 DEF CheckFail, GiveUp
  <2> QED BY <1>8, <2>3, <2>4 DEF CheckFail
<1>9. ASSUME NEW w \in Workers, WriteSettle(w)
      PROVE  TypeOK'
  <2>1. /\ call[w].now \in Nat
        /\ call[w].job \in JobIds
        /\ call[w].to \in {"completed", "pending", "dead"}
    BY <1>9 DEF WriteSettle, Call, CallRecord
  <2>2. SettledRow(w) \in JobRow
    BY <2>1, SettledRowType
  <2>3. [call[w] EXCEPT !.op = "report", !.now = clock] \in Call
    BY <1>9, CallType DEF WriteSettle
  <2>4. call' \in [Workers -> Call]
    BY <1>9, <2>3, IdleCallType DEF WriteSettle
  <2>5. held' \in [Workers -> SUBSET Lease]
    BY <1>9 DEF WriteSettle, OfJob
  <2> QED BY <1>9, <2>1, <2>2, <2>4, <2>5 DEF WriteSettle
<1>10. ASSUME NEW w \in Workers, Crash(w)
       PROVE  TypeOK'
  BY <1>10, IdleCallType DEF Crash, GiveUp
<1>11. CASE UNCHANGED vars
  BY <1>11 DEF vars
<1> QED
  BY <1>1, <1>2, <1>3, <1>4, <1>5, <1>6, <1>7, <1>8, <1>9, <1>10, <1>11
     DEF Next, Leasing, Reporting

\* The tables, calls and leases keep their types in every deployment.
THEOREM TypeCorrect == Spec => []TypeOK
<1>1. Init => TypeOK
  BY InitType
<1>2. TypeOK /\ [Next]_vars => TypeOK'
  BY StepType
<1> QED BY <1>1, <1>2, PTL DEF Spec

-----------------------------------------------------------------------------
(* What each action leaves in the row it touches                           *)

LEMMA RecoveredFields ==
    ASSUME TypeOK, NEW now \in Nat, NEW j \in JobIds
    PROVE  /\ ~Expired(j, now) => Recovered(now)[j] = jobs[j]
           /\ Expired(j, now) =>
                 /\ Recovered(now)[j].status = "pending"
                 /\ Recovered(now)[j].owner = None
                 /\ Recovered(now)[j].attempts = jobs[j].attempts
                 /\ Recovered(now)[j].done = jobs[j].done
<1>1. jobs[j] \in JobRow
  BY DEF TypeOK
<1>2. CASE ~Expired(j, now)
  BY <1>2 DEF Recovered
<1>3. CASE Expired(j, now)
  <2>1. Recovered(now)[j] =
          [jobs[j] EXCEPT !.status = "pending", !.owner = None, !.expires = 0]
    BY <1>3 DEF Recovered
  <2> QED BY <1>1, <1>3, <2>1 DEF JobRow
<1> QED BY <1>2, <1>3

LEMMA ClaimRowFields ==
    ASSUME TypeOK, NEW w \in Workers, NEW j \in JobIds
    PROVE  /\ ClaimRow(j, w).status = "leased"
           /\ ClaimRow(j, w).owner = OwnerOf[w]
           /\ ClaimRow(j, w).expires = call[w].now + LeaseTime
           /\ ClaimRow(j, w).attempts = jobs[j].attempts + 1
           /\ ClaimRow(j, w).done = jobs[j].done
<1>1. jobs[j] \in JobRow
  BY DEF TypeOK
<1> QED BY <1>1 DEF ClaimRow, JobRow

LEMMA SettledRowFields ==
    ASSUME TypeOK, NEW w \in Workers, call[w].op = "settle"
    PROVE  /\ call[w].job \in JobIds
           /\ call[w].to \in {"completed", "pending", "dead"}
           /\ SettledRow(w).status = call[w].to
           /\ SettledRow(w).owner = None
           /\ SettledRow(w).attempts = jobs[call[w].job].attempts
           /\ SettledRow(w).done = IF call[w].to = "completed" THEN OwnerOf[w]
                                   ELSE jobs[call[w].job].done
<1> DEFINE row == [jobs[call[w].job] EXCEPT !.status = call[w].to, !.owner = None,
                                            !.expires = 0]
<1>1. /\ call[w].job \in JobIds
      /\ call[w].to \in {"completed", "pending", "dead"}
      /\ call[w].now \in Nat
  BY DEF TypeOK, Call, CallRecord
<1>2. jobs[call[w].job] \in JobRow
  BY <1>1 DEF TypeOK
<1>3. /\ row \in JobRow
      /\ row.status = call[w].to
      /\ row.owner = None
      /\ row.attempts = jobs[call[w].job].attempts
      /\ row.done = jobs[call[w].job].done
  BY <1>1, <1>2 DEF JobRow, Status
<1>4. SettledRow(w) = CASE call[w].to = "completed" -> [row EXCEPT !.done = OwnerOf[w]]
                        [] call[w].to = "pending" ->
                             [row EXCEPT !.due = call[w].now + RetryDelay]
                        [] OTHER -> row
  BY DEF SettledRow
<1> HIDE DEF row
<1>5. CASE call[w].to = "completed"
  <2>1. SettledRow(w) = [row EXCEPT !.done = OwnerOf[w]]
    BY <1>4, <1>5
  <2> QED BY <1>1, <1>3, <1>5, <2>1 DEF JobRow
<1>6. CASE call[w].to = "pending"
  <2>1. SettledRow(w) = [row EXCEPT !.due = call[w].now + RetryDelay]
    BY <1>4, <1>6
  <2> QED BY <1>1, <1>3, <1>6, <2>1 DEF JobRow
<1>7. CASE call[w].to = "dead"
  <2>1. SettledRow(w) = row
    BY <1>4, <1>7
  <2> QED BY <1>1, <1>3, <1>7, <2>1
<1> QED BY <1>1, <1>5, <1>6, <1>7

LEMMA SubmittedRowFields ==
    ASSUME NEW d, NEW k, NEW p
    PROVE  LET r == [NoJob EXCEPT !.status = "pending", !.due = d, !.key = k,
                                  !.priority = p]
           IN  /\ r.status = "pending"
               /\ r.attempts = 0
               /\ r.owner = None
               /\ r.done = None
BY DEF NoJob

\* The records the actions put into call[w].
LEMMA CallFields ==
    /\ IdleCall.op = "idle" /\ IdleCall.now = 0
    /\ \A n : LET c == [IdleCall EXCEPT !.op = "lease", !.now = n]
              IN  c.op = "lease" /\ c.now = n
    /\ \A c \in Call : \A S : LET d == [c EXCEPT !.op = "claim", !.todo = S]
                              IN  d.op = "claim" /\ d.now = c.now /\ d.todo = S
    /\ \A c \in Call : \A S : LET d == [c EXCEPT !.todo = S]
                              IN  d.op = c.op /\ d.now = c.now /\ d.todo = S
    /\ \A n, j, t, to : LET c == [IdleCall EXCEPT !.op = "report", !.now = n,
                                      !.job = j, !.try = t, !.to = to]
                        IN  c.op = "report" /\ c.now = n /\ c.job = j /\ c.try = t
    /\ \A c \in Call : LET d == [c EXCEPT !.op = "settle"]
                      IN  /\ d.op = "settle" /\ d.now = c.now /\ d.job = c.job
                          /\ d.try = c.try /\ d.to = c.to
    /\ \A c \in Call : \A t : LET d == [c EXCEPT !.op = "settle", !.to = t]
                              IN  /\ d.op = "settle" /\ d.now = c.now /\ d.job = c.job
                                  /\ d.try = c.try /\ d.to = t
    /\ \A c \in Call : \A n : LET d == [c EXCEPT !.op = "report", !.now = n]
                              IN  /\ d.op = "report" /\ d.now = n /\ d.job = c.job
                                  /\ d.try = c.try
BY DEF IdleCall, Call, CallRecord

-----------------------------------------------------------------------------
(* The inductive invariant                                                 *)

LEMMA InitIInv == Init => IInv
<1> SUFFICES ASSUME Init PROVE IInv
  OBVIOUS
<1>1. TypeOK
  BY InitType
<1>2. \A w \in Workers : call[w].op = "idle" /\ call[w].now = 0 /\ held[w] = {}
  BY CallFields DEF Init
<1>3. \A j \in JobIds : jobs[j] = NoJob /\ lapses[j] = 0
  BY DEF Init
<1>4. NoJob.status = "absent" /\ NoJob.attempts = 0
  BY DEF NoJob
<1> QED
  BY <1>1, <1>2, <1>3, <1>4, RangeAssumption
     DEF Init, IInv, LockExclusive, NowIsPast, AbsentIsBlank, LeasesCurrent,
         NoLeaseWhileLeasing, ReportsCurrent, RetryBudget

\* Only the lock holder of the one process is between two statements.
LEMMA Unlocked ==
    ASSUME SingleProcess, NEW w \in Workers, ~Locked(ProcOf[w])
    PROVE  \A v \in Workers : call[v].op \notin {"claim", "settle"}
BY DEF SingleProcess, Locked

LEMMA SubmissionStep ==
    ASSUME IInv, TypeOK', Submission
    PROVE  IInv'
<1> PICK j \in JobIds, k \in Keys, p \in Priorities,
         d \in {clock, clock + RetryDelay} : EnqueueJob(j, k, p, d)
  BY DEF Submission
<1> USE DEF IInv
<1> DEFINE r == [NoJob EXCEPT !.status = "pending", !.due = d, !.key = k,
                              !.priority = p]
<1>1. /\ jobs[j] = NoJob
      /\ jobs' = [jobs EXCEPT ![j] = r]
      /\ UNCHANGED <<clock, call, held, lapses>>
  BY DEF EnqueueJob, AbsentIsBlank
<1>2. r.status = "pending" /\ r.attempts = 0 /\ r.owner = None
  BY SubmittedRowFields
<1>3. NoJob.status = "absent"
  BY DEF NoJob
<1> HIDE DEF r
<1>4. \A i \in JobIds : i # j => jobs'[i] = jobs[i]
  BY <1>1 DEF TypeOK
<1>5. jobs'[j] = r
  BY <1>1 DEF TypeOK
<1>6. \A w \in Workers, i \in JobIds : Mine(w, i)' <=> Mine(w, i)
  BY <1>1, <1>2, <1>3, <1>4, <1>5 DEF Mine
<1>7. ~\E w \in Workers : Mine(w, j)
  BY <1>1, <1>3 DEF Mine
<1>8. \A w \in Workers : call[w].op \in {"report", "settle"} => call[w].job \in JobIds
  BY DEF TypeOK, Call, CallRecord
<1>9. \A w \in Workers : \A l \in held[w] : l.job \in JobIds
  BY DEF TypeOK, Lease
<1>10. LockExclusive' /\ NowIsPast' /\ NoLeaseWhileLeasing'
  BY <1>1 DEF LockExclusive, NowIsPast, NoLeaseWhileLeasing
<1>11. AbsentIsBlank'
  BY <1>2, <1>4, <1>5 DEF AbsentIsBlank
<1>12. LeasesCurrent'
  BY <1>1, <1>4, <1>6, <1>7, <1>9 DEF LeasesCurrent
<1>13. ReportsCurrent'
  BY <1>1, <1>4, <1>6, <1>7, <1>8 DEF ReportsCurrent, SettlesOwnLease
<1>14. RetryBudget'
  <2>1. lapses[j] \in Nat
    BY DEF TypeOK
  <2>2. 0 <= MaxAttempts + lapses[j] /\ 0 < MaxAttempts + lapses[j]
    BY <2>1, RangeAssumption
  <2> QED BY <1>1, <1>2, <1>4, <1>5, <2>2 DEF RetryBudget
<1> QED BY <1>10, <1>11, <1>12, <1>13, <1>14

LEMMA TickStep ==
    ASSUME IInv, TypeOK', Tick
    PROVE  IInv'
<1> USE DEF IInv
<1>1. clock' = clock + 1 /\ UNCHANGED <<jobs, call, held, lapses>>
  BY DEF Tick
<1>2. NowIsPast'
  <2>1. \A w \in Workers : call[w].now \in Nat
    BY DEF TypeOK, Call, CallRecord
  <2> QED BY <1>1, <2>1 DEF NowIsPast, TypeOK
<1>3. LeasesCurrent'
  <2>1. \A w \in Workers : \A l \in held[w] : l.until \in Nat
    BY DEF TypeOK, Lease
  <2> QED BY <1>1, <2>1 DEF LeasesCurrent, Mine, TypeOK
<1> QED
  BY <1>1, <1>2, <1>3
     DEF LockExclusive, AbsentIsBlank, NoLeaseWhileLeasing, ReportsCurrent,
         SettlesOwnLease, Mine, RetryBudget

\* Steps that change one worker's call and shrink its leases only.
LEMMA CallOnlyStep ==
    ASSUME IInv, TypeOK', NEW w \in Workers,
           UNCHANGED <<jobs, clock, lapses>>,
           \A v \in Workers : v # w => call'[v] = call[v] /\ held'[v] = held[v],
           held'[w] \subseteq held[w],
           \/ call'[w].op = "idle" /\ call'[w].now = 0
           \/ /\ call'[w].op = "lease"
              /\ call'[w].now = clock
              /\ held'[w] = {}
           \/ /\ call'[w].op = "report"
              /\ call'[w].now = clock
              /\ Mine(w, call'[w].job) => jobs[call'[w].job].attempts = call'[w].try
           \/ /\ call'[w].op = "settle"
              /\ call'[w].now = call[w].now
              /\ \A v \in Workers : call[v].op \notin {"claim", "settle"}
              /\ Mine(w, call'[w].job)
              /\ jobs[call'[w].job].attempts = call'[w].try
              /\ call'[w].to = "pending" => jobs[call'[w].job].attempts < MaxAttempts
    PROVE  IInv'
<1> USE DEF IInv
<1>1. LockExclusive'
  BY DEF LockExclusive
<1>2. NowIsPast'
  BY DEF NowIsPast, TypeOK
<1>3. LeasesCurrent'
  BY DEF LeasesCurrent, Mine
<1>4. NoLeaseWhileLeasing'
  BY DEF NoLeaseWhileLeasing
<1>5. ReportsCurrent'
  BY DEF ReportsCurrent, SettlesOwnLease, Mine
<1>6. AbsentIsBlank' /\ RetryBudget'
  BY DEF AbsentIsBlank, RetryBudget
<1> QED BY <1>1, <1>2, <1>3, <1>4, <1>5, <1>6

LEMMA RecoverStep ==
    ASSUME SingleProcess, DistinctNames, IInv, TypeOK',
           NEW w \in Workers, RecoverAndSelect(w)
    PROVE  IInv'
<1> USE DEF IInv
<1> DEFINE now == call[w].now
           todo == Selected(Recovered(now), now)
<1>1. /\ call[w].op = "lease"
      /\ held[w] = {}
      /\ UNCHANGED <<clock, held>>
      /\ call[w] \in Call
      /\ now \in Nat
      /\ now <= clock
  BY DEF RecoverAndSelect, NoLeaseWhileLeasing, NowIsPast, TypeOK, Call, CallRecord
<1>2. \A v \in Workers : call[v].op \notin {"claim", "settle"}
  BY Unlocked DEF RecoverAndSelect
<1>3. \A j \in JobIds :
         /\ ~Expired(j, now) => jobs'[j] = jobs[j] /\ lapses'[j] = lapses[j]
         /\ Expired(j, now) =>
               /\ jobs'[j].status = "pending"
               /\ jobs'[j].attempts = jobs[j].attempts
               /\ lapses'[j] = lapses[j] + 1
  <2>1. jobs' = Recovered(now)
    BY DEF RecoverAndSelect
  <2>2. \A j \in JobIds : lapses'[j] = IF Expired(j, now) THEN lapses[j] + 1
                                        ELSE lapses[j]
    BY DEF RecoverAndSelect
  <2> QED BY <1>1, <2>1, <2>2, RecoveredFields
<1>4. /\ \A v \in Workers : v # w => call'[v] = call[v]
      /\ \/ call'[w] = IdleCall
         \/ call'[w].op = "claim" /\ call'[w].now = now
  <2>1. call' = [call EXCEPT ![w] = IF todo = {} THEN IdleCall
                                    ELSE [@ EXCEPT !.op = "claim", !.todo = todo]]
    BY DEF RecoverAndSelect
  <2> HIDE DEF todo
  <2>2. [call[w] EXCEPT !.op = "claim", !.todo = todo].op = "claim"
        /\ [call[w] EXCEPT !.op = "claim", !.todo = todo].now = now
    BY <1>1, CallFields
  <2> QED BY <2>1, <2>2 DEF TypeOK
<1> HIDE DEF now, todo
<1>5. \A v \in Workers, j \in JobIds :
         Mine(v, j)' => Mine(v, j) /\ jobs'[j] = jobs[j]
  BY <1>3 DEF Mine
<1>6. \A v \in Workers : \A l \in held[v] : l.job \in JobIds /\ l.until \in Nat
  BY DEF TypeOK, Lease
<1>7. IdleCall.op = "idle" /\ IdleCall.now = 0
  BY CallFields
<1>8. LockExclusive'
  BY <1>2, <1>4, <1>7 DEF LockExclusive
<1>9. NowIsPast'
  BY <1>1, <1>4, <1>7 DEF NowIsPast, TypeOK
<1>10. AbsentIsBlank'
  BY <1>3 DEF AbsentIsBlank
<1>11. LeasesCurrent'
  <2> SUFFICES ASSUME NEW v \in Workers, NEW l \in held[v]
               PROVE  /\ l.until > clock => Mine(v, l.job)'
                      /\ Mine(v, l.job)' => /\ jobs'[l.job].attempts = l.try
                                            /\ jobs'[l.job].expires = l.until
    BY <1>1 DEF LeasesCurrent
  <2>1. /\ l.until > clock => Mine(v, l.job)
        /\ Mine(v, l.job) => jobs[l.job].attempts = l.try
                             /\ jobs[l.job].expires = l.until
    BY DEF LeasesCurrent
  <2>2. l.until > clock => ~Expired(l.job, now)
    BY <1>1, <1>6, <2>1 DEF Expired, TypeOK
  <2>3. l.until > clock => Mine(v, l.job)'
    BY <1>3, <1>6, <2>1, <2>2 DEF Mine
  <2> QED BY <1>5, <1>6, <2>1, <2>3
<1>12. NoLeaseWhileLeasing'
  BY <1>1, <1>4, <1>7 DEF NoLeaseWhileLeasing
<1>13. ReportsCurrent'
  <2>1. \A v \in Workers : call[v].op = "report" => call[v].job \in JobIds
    BY DEF TypeOK, Call, CallRecord
  <2>2. \A v \in Workers : call'[v].op # "settle"
    BY <1>2, <1>4, <1>7
  <2>3. \A v \in Workers : call'[v].op = "report" => call'[v] = call[v]
    BY <1>4, <1>7
  <2> QED BY <1>5, <2>1, <2>2, <2>3 DEF ReportsCurrent
<1>14. RetryBudget'
  BY <1>3, RangeAssumption DEF RetryBudget, TypeOK, JobRow, Expired
<1> QED BY <1>8, <1>9, <1>10, <1>11, <1>12, <1>13, <1>14

LEMMA ClaimStep ==
    ASSUME SingleProcess, DistinctNames, IInv, TypeOK',
           NEW w \in Workers, NEW j \in JobIds, ClaimJob(w, j)
    PROVE  IInv'
<1> USE DEF IInv
<1> DEFINE l0 == [job |-> j, try |-> jobs[j].attempts + 1,
                  until |-> call[w].now + LeaseTime]
<1>1. /\ call[w].op = "claim"
      /\ j \in call[w].todo
      /\ call[w] \in Call
      /\ call[w].now \in Nat
      /\ call[w].now <= clock
      /\ UNCHANGED <<clock, lapses>>
      /\ \A l \in held[w] : l.job \notin call[w].todo
  BY DEF ClaimJob, NowIsPast, NoLeaseWhileLeasing, TypeOK, Call, CallRecord
<1>2. \A v \in Workers : v # w => call'[v] = call[v] /\ call[v].op \notin {"claim", "settle"}
  BY <1>1 DEF ClaimJob, LockExclusive, TypeOK
<1>3. \/ call'[w] = IdleCall
      \/ call'[w].op = "claim" /\ call'[w].now = call[w].now
         /\ call'[w].todo = call[w].todo \ {j}
  <2> DEFINE rest == call[w].todo \ {j}
  <2>1. call'[w] = IF call[w].todo = {j} THEN IdleCall
                   ELSE [call[w] EXCEPT !.todo = rest]
    BY DEF ClaimJob, TypeOK
  <2> HIDE DEF rest
  <2>2. /\ [call[w] EXCEPT !.todo = rest].op = "claim"
        /\ [call[w] EXCEPT !.todo = rest].now = call[w].now
        /\ [call[w] EXCEPT !.todo = rest].todo = rest
    BY <1>1, CallFields
  <2> QED BY <2>1, <2>2 DEF rest
<1>4. IdleCall.op = "idle" /\ IdleCall.now = 0
  BY CallFields
<1>5. LockExclusive' /\ NowIsPast'
  BY <1>1, <1>2, <1>3, <1>4 DEF LockExclusive, NowIsPast, TypeOK
<1>6. \A v \in Workers : call'[v].op \in {"report", "settle"} =>
         v # w /\ call'[v] = call[v] /\ call[v].op = "report" /\ call[v].job \in JobIds
  BY <1>2, <1>3, <1>4 DEF TypeOK, Call, CallRecord
<1>7. \A v \in Workers : \A l \in held[v] : l.job \in JobIds /\ l.until \in Nat
  BY DEF TypeOK, Lease
<1>8. CASE jobs[j].status = "pending"
  <2>1. /\ jobs' = [jobs EXCEPT ![j] = ClaimRow(j, w)]
        /\ held' = [held EXCEPT ![w] = @ \cup {l0}]
    BY <1>8 DEF ClaimJob
  <2>2. /\ ClaimRow(j, w).status = "leased"
        /\ ClaimRow(j, w).owner = OwnerOf[w]
        /\ ClaimRow(j, w).expires = call[w].now + LeaseTime
        /\ ClaimRow(j, w).attempts = jobs[j].attempts + 1
    BY ClaimRowFields
  <2>3. /\ jobs'[j] = ClaimRow(j, w)
        /\ \A i \in JobIds : i # j => jobs'[i] = jobs[i]
    BY <2>1 DEF TypeOK
  <2>4. AbsentIsBlank'
    BY <2>2, <2>3 DEF AbsentIsBlank
  <2>5. \A v \in Workers : ~Mine(v, j) /\ (v # w => ~Mine(v, j)')
    BY <1>8, <2>2, <2>3 DEF Mine, DistinctNames
  <2>6. \A v \in Workers, i \in JobIds : i # j => (Mine(v, i)' <=> Mine(v, i))
    BY <2>3 DEF Mine
  <2>7. LeasesCurrent'
    <3> SUFFICES ASSUME NEW v \in Workers, NEW l \in held'[v]
                 PROVE  /\ l.until > clock => Mine(v, l.job)'
                        /\ Mine(v, l.job)' => /\ jobs'[l.job].attempts = l.try
                                              /\ jobs'[l.job].expires = l.until
      BY <1>1 DEF LeasesCurrent
    <3>1. CASE v = w /\ l = l0
      BY <2>2, <2>3, <3>1 DEF Mine
    <3>2. CASE l \in held[v]
      <4>1. CASE l.job = j
        \* w holds no lease on a job it is claiming; another worker's lease
        \* on a pending job has expired
        BY <1>1, <1>7, <2>5, <3>2, <4>1 DEF LeasesCurrent
      <4>2. CASE l.job # j
        BY <1>7, <2>3, <2>6, <3>2, <4>2 DEF LeasesCurrent
      <4> QED BY <4>1, <4>2
    <3> QED BY <2>1, <3>1, <3>2 DEF TypeOK
  <2>8. NoLeaseWhileLeasing'
    <3>1. \A v \in Workers : v # w => held'[v] = held[v]
      BY <2>1 DEF TypeOK
    <3>2. held'[w] = held[w] \cup {l0} /\ l0.job = j
      BY <2>1 DEF TypeOK
    <3> HIDE DEF l0
    <3> QED BY <1>1, <1>2, <1>3, <1>4, <3>1, <3>2 DEF NoLeaseWhileLeasing
  <2>9. ReportsCurrent'
    BY <1>6, <2>3, <2>5, <2>6 DEF ReportsCurrent
  <2>10. RetryBudget'
    BY <1>1, <1>8, <2>2, <2>3, RangeAssumption DEF RetryBudget, TypeOK, JobRow
  <2> QED BY <1>5, <2>4, <2>7, <2>8, <2>9, <2>10
<1>9. CASE jobs[j].status # "pending"
  <2>1. UNCHANGED <<jobs, held>>
    BY <1>9 DEF ClaimJob
  <2>2. LeasesCurrent'
    BY <1>1, <2>1 DEF LeasesCurrent, Mine
  <2>3. NoLeaseWhileLeasing'
    BY <1>1, <1>2, <1>3, <1>4, <2>1 DEF NoLeaseWhileLeasing
  <2>4. ReportsCurrent'
    BY <1>6, <2>1 DEF ReportsCurrent, Mine
  <2> QED BY <1>1, <1>5, <2>1, <2>2, <2>3, <2>4 DEF AbsentIsBlank, RetryBudget
<1> QED BY <1>8, <1>9

LEMMA WriteSettleStep ==
    ASSUME SingleProcess, DistinctNames, IInv, TypeOK',
           NEW w \in Workers, WriteSettle(w)
    PROVE  IInv'
<1> USE DEF IInv
<1> PICK j \in JobIds : j = call[w].job
  BY SettledRowFields DEF WriteSettle
<1> DEFINE again == [call[w] EXCEPT !.op = "report", !.now = clock]
<1>1. /\ call[w].op = "settle"
      /\ call[w] \in Call
      /\ jobs' = [jobs EXCEPT ![j] = SettledRow(w)]
      /\ UNCHANGED <<clock, lapses>>
      /\ \A v \in Workers : v # w => call'[v] = call[v] /\ held'[v] = held[v]
      /\ held'[w] = {l \in held[w] : l.job # j}
      /\ call'[w] = IdleCall \/ call'[w] = again
  BY DEF WriteSettle, OfJob, TypeOK
<1>2. /\ SettledRow(w).status \in {"completed", "pending", "dead"}
      /\ SettledRow(w).status = call[w].to
      /\ SettledRow(w).attempts = jobs[j].attempts
  BY <1>1, SettledRowFields
<1>3. /\ again.op = "report"
      /\ again.now = clock
      /\ again.job = j
      /\ IdleCall.op = "idle"
      /\ IdleCall.now = 0
  BY <1>1, CallFields
<1>4. /\ Mine(w, j)
      /\ call[w].to = "pending" => jobs[j].attempts < MaxAttempts
  BY <1>1 DEF ReportsCurrent, SettlesOwnLease
<1> HIDE DEF again
<1>5. /\ jobs'[j] = SettledRow(w)
      /\ \A i \in JobIds : i # j => jobs'[i] = jobs[i]
  BY <1>1 DEF TypeOK
<1>6. \A v \in Workers : call[v].op \in {"claim", "settle"} => v = w
  BY <1>1 DEF LockExclusive
<1>7. LockExclusive' /\ NowIsPast'
  BY <1>1, <1>3, <1>6 DEF LockExclusive, NowIsPast, TypeOK
<1>8. AbsentIsBlank'
  BY <1>2, <1>5 DEF AbsentIsBlank
<1>9. /\ \A v \in Workers : ~Mine(v, j)' /\ (v # w => ~Mine(v, j))
      /\ \A v \in Workers, i \in JobIds : i # j => (Mine(v, i)' <=> Mine(v, i))
  BY <1>2, <1>4, <1>5 DEF Mine, DistinctNames
<1>10. LeasesCurrent'
  <2> SUFFICES ASSUME NEW v \in Workers, NEW l \in held'[v]
               PROVE  /\ l.until > clock => Mine(v, l.job)'
                      /\ Mine(v, l.job)' => /\ jobs'[l.job].attempts = l.try
                                            /\ jobs'[l.job].expires = l.until
    BY <1>1 DEF LeasesCurrent
  <2>1. l \in held[v] /\ (v = w => l.job # j)
    BY <1>1
  <2>2. l.job \in JobIds
    BY <2>1 DEF TypeOK, Lease
  <2>3. /\ l.until > clock => Mine(v, l.job)
        /\ Mine(v, l.job) => jobs[l.job].attempts = l.try
                             /\ jobs[l.job].expires = l.until
    BY <2>1 DEF LeasesCurrent
  <2>4. CASE l.job = j
    BY <1>9, <2>1, <2>3, <2>4
  <2>5. CASE l.job # j
    BY <1>5, <1>9, <2>2, <2>3, <2>5
  <2> QED BY <2>4, <2>5
<1>11. NoLeaseWhileLeasing'
  BY <1>1, <1>3 DEF NoLeaseWhileLeasing
<1>12. ReportsCurrent'
  <2>1. \A v \in Workers : call'[v].op # "settle"
    BY <1>1, <1>3, <1>6
  <2>2. \A v \in Workers : call[v].op = "report" => call[v].job \in JobIds
    BY DEF TypeOK, Call, CallRecord
  <2>3. \A v \in Workers : call'[v].op = "report" /\ v # w => call'[v] = call[v]
    BY <1>1
  <2>4. call'[w].op = "report" => call'[w].job = j
    BY <1>1, <1>3
  <2> QED BY <1>5, <1>9, <2>1, <2>2, <2>3, <2>4 DEF ReportsCurrent
<1>13. RetryBudget'
  <2>1. jobs[j].attempts \in Nat /\ lapses[j] \in Nat
    BY <1>2 DEF TypeOK, JobRow
  <2>2. jobs[j].attempts < MaxAttempts => jobs[j].attempts < MaxAttempts + lapses[j]
    BY <2>1, RangeAssumption
  <2> QED BY <1>1, <1>2, <1>4, <1>5, <2>2 DEF RetryBudget
<1> QED BY <1>7, <1>8, <1>10, <1>11, <1>12, <1>13

LEMMA IInvStep ==
    ASSUME SingleProcess, DistinctNames, IInv, [Next]_vars
    PROVE  IInv'
<1>1. TypeOK'
  BY StepType DEF IInv
<1>2. CASE Submission
  BY <1>1, <1>2, SubmissionStep
<1>3. CASE Tick
  BY <1>1, <1>3, TickStep
<1>4. ASSUME NEW w \in Workers, BeginLease(w)
      PROVE  IInv'
  <2> DEFINE c == [IdleCall EXCEPT !.op = "lease", !.now = clock]
  <2>1. c.op = "lease" /\ c.now = clock
    BY CallFields
  <2> HIDE DEF c
  <2>2. /\ UNCHANGED <<jobs, clock, lapses, held>>
        /\ call'[w] = c
        /\ \A v \in Workers : v # w => call'[v] = call[v]
        /\ held[w] = {}
    BY <1>4 DEF BeginLease, c, IInv, TypeOK
  <2> QED BY <1>1, <2>1, <2>2, CallOnlyStep
<1>5. ASSUME NEW w \in Workers, RecoverAndSelect(w)
      PROVE  IInv'
  BY <1>1, <1>5, RecoverStep
<1>6. ASSUME NEW w \in Workers, NEW j \in JobIds, ClaimJob(w, j)
      PROVE  IInv'
  BY <1>1, <1>6, ClaimStep
<1>7. ASSUME NEW w \in Workers, NEW l \in held[w],
             NEW to \in {"completed", "pending", "dead"}, BeginReport(w, l, to)
      PROVE  IInv'
  <2> DEFINE c == [IdleCall EXCEPT !.op = "report", !.now = clock, !.job = l.job,
                                   !.try = l.try, !.to = to]
  <2>1. c.op = "report" /\ c.now = clock /\ c.job = l.job /\ c.try = l.try
    BY CallFields
  <2> HIDE DEF c
  <2>2. /\ UNCHANGED <<jobs, clock, lapses, held>>
        /\ call'[w] = c
        /\ \A v \in Workers : v # w => call'[v] = call[v]
    BY <1>7 DEF BeginReport, c, IInv, TypeOK
  <2>3. Mine(w, l.job) => jobs[l.job].attempts = l.try
    BY DEF IInv, LeasesCurrent
  <2> QED BY <1>1, <2>1, <2>2, <2>3, CallOnlyStep
<1>8. ASSUME NEW w \in Workers, CheckComplete(w)
      PROVE  IInv'
  <2> DEFINE c == [call[w] EXCEPT !.op = "settle"]
  <2>1. /\ call[w] \in Call
        /\ call[w].op = "report"
        /\ call[w].to = "completed"
        /\ \A v \in Workers : call[v].op \notin {"claim", "settle"}
    BY <1>8, Unlocked DEF CheckComplete, IInv, TypeOK
  <2>2. /\ c.op = "settle" /\ c.now = call[w].now /\ c.job = call[w].job
        /\ c.try = call[w].try /\ c.to = "completed"
    BY <2>1, CallFields
  <2>3. LeaseAccepted(w) => Mine(w, call[w].job)
    BY DEF LeaseAccepted, Mine
  <2>4. Mine(w, call[w].job) => jobs[call[w].job].attempts = call[w].try
    BY <2>1 DEF IInv, ReportsCurrent
  <2>5. IdleCall.op = "idle" /\ IdleCall.now = 0
    BY CallFields
  <2>6. /\ UNCHANGED <<jobs, clock, lapses>>
        /\ \A v \in Workers : v # w => call'[v] = call[v] /\ held'[v] = held[v]
        /\ held'[w] \subseteq held[w]
        /\ call'[w] = IdleCall \/ (call'[w] = c /\ LeaseAccepted(w))
    BY <1>8 DEF CheckComplete, GiveUp, IInv, TypeOK
  <2> HIDE DEF c
  <2> QED BY <1>1, <2>1, <2>2, <2>3, <2>4, <2>5, <2>6, CallOnlyStep
<1>9. ASSUME NEW w \in Workers, CheckFail(w)
      PROVE  IInv'
  <2> DEFINE to == FailVerdict(w)
             c == [call[w] EXCEPT !.op = "settle", !.to = to]
  <2>1. /\ call[w] \in Call
        /\ call[w].op = "report"
        /\ call[w].job \in JobIds
        /\ \A v \in Workers : call[v].op \notin {"claim", "settle"}
    BY <1>9, Unlocked DEF CheckFail, IInv, TypeOK, Call, CallRecord
  <2>2. to = "pending" => jobs[call[w].job].attempts < MaxAttempts
    BY <2>1, RangeAssumption DEF FailVerdict, IInv, TypeOK, JobRow
  <2>3. /\ UNCHANGED <<jobs, clock, lapses>>
        /\ \A v \in Workers : v # w => call'[v] = call[v] /\ held'[v] = held[v]
        /\ held'[w] \subseteq held[w]
        /\ call'[w] = IdleCall \/ (call'[w] = c /\ LeaseAccepted(w))
    BY <1>9 DEF CheckFail, GiveUp, IInv, TypeOK
  <2> HIDE DEF to
  <2>4. /\ c.op = "settle" /\ c.now = call[w].now /\ c.job = call[w].job
        /\ c.try = call[w].try /\ c.to = to
    BY <2>1, CallFields
  <2>5. LeaseAccepted(w) => Mine(w, call[w].job)
    BY DEF LeaseAccepted, Mine
  <2>6. Mine(w, call[w].job) => jobs[call[w].job].attempts = call[w].try
    BY <2>1 DEF IInv, ReportsCurrent
  <2>7. IdleCall.op = "idle" /\ IdleCall.now = 0
    BY CallFields
  <2> HIDE DEF c
  <2> QED BY <1>1, <2>1, <2>2, <2>3, <2>4, <2>5, <2>6, <2>7, CallOnlyStep
<1>10. ASSUME NEW w \in Workers, WriteSettle(w)
       PROVE  IInv'
  BY <1>1, <1>10, WriteSettleStep
<1>11. ASSUME NEW w \in Workers, Crash(w)
       PROVE  IInv'
  <2>1. /\ UNCHANGED <<jobs, clock, lapses>>
        /\ \A v \in Workers : v # w => call'[v] = call[v] /\ held'[v] = held[v]
        /\ held'[w] = {}
        /\ call'[w] = IdleCall
    BY <1>11 DEF Crash, GiveUp, IInv, TypeOK
  <2>2. IdleCall.op = "idle" /\ IdleCall.now = 0
    BY CallFields
  <2> QED BY <1>1, <2>1, <2>2, CallOnlyStep
<1>12. CASE UNCHANGED vars
  BY <1>12 DEF vars, IInv, TypeOK, LockExclusive, NowIsPast, AbsentIsBlank,
     LeasesCurrent, NoLeaseWhileLeasing, ReportsCurrent, RetryBudget, Mine,
     SettlesOwnLease
<1> QED
  BY <1>2, <1>3, <1>4, <1>5, <1>6, <1>7, <1>8, <1>9, <1>10, <1>11, <1>12
     DEF Next, Leasing, Reporting

-----------------------------------------------------------------------------
(* What the queue promises when one process serves workers with distinct   *)
(* names                                                                   *)

\* The inductive invariant holds in every reachable state.
THEOREM InductiveInvariant ==
    ASSUME SingleProcess, DistinctNames
    PROVE  Spec => []IInv
<1>1. Init => IInv
  BY InitIInv
<1>2. IInv /\ [Next]_vars => IInv'
  BY IInvStep
<1> QED BY <1>1, <1>2, PTL DEF Spec

\* Two unexpired leases on one job belong to one worker (lease_jobs).
THEOREM LeasesAreExclusive ==
    ASSUME SingleProcess, DistinctNames
    PROVE  Spec => []NoDoubleLease
<1>1. IInv => NoDoubleLease
  <2> SUFFICES ASSUME IInv, NEW v \in Workers, NEW w \in Workers,
                      NEW l \in held[v], NEW m \in held[w],
                      v # w, l.job = m.job
               PROVE  l.until <= clock \/ m.until <= clock
    BY DEF NoDoubleLease
  <2>1. l.until \in Nat /\ m.until \in Nat /\ clock \in Nat
    BY DEF IInv, TypeOK, Lease
  <2>2. ~(Mine(v, l.job) /\ Mine(w, l.job))
    BY DEF Mine, DistinctNames
  <2> QED BY <2>1, <2>2 DEF IInv, LeasesCurrent
<1> QED BY <1>1, InductiveInvariant, PTL

\* Attempts beyond max_attempts were all lost to expired leases (fail_job).
THEOREM RetryBudgetKept ==
    ASSUME SingleProcess, DistinctNames
    PROVE  Spec => []RetryBudget
<1>1. IInv => RetryBudget
  BY DEF IInv
<1> QED BY <1>1, InductiveInvariant, PTL

-----------------------------------------------------------------------------
(* Steps of the queue as steps of the job life cycle                       *)

\* The row change SafeReassignment allows in one step.
SafeChange ==
    \A j \in JobIds :
        jobs'[j] # jobs[j] =>
           \/ jobs[j].status = "absent"
           \/ jobs[j].status = "pending" /\ jobs'[j].status = "leased"
           \/ jobs[j].status = "leased" /\ jobs[j].expires <= clock
           \/ \E w \in Workers : SettlesOwnLease(w, j)

\* Every closing UPDATE finds the row under the lease that it settles.
SettlesOwnOnly == \A w \in Workers : WriteSettle(w) => SettlesOwnLease(w, call[w].job)

\* What a step may rely on, whatever the deployment.
StepFacts == TypeOK /\ NowIsPast /\ AbsentIsBlank /\ SettlesOwnOnly

LEMMA IInvFacts == IInv => StepFacts
BY DEF IInv, StepFacts, SettlesOwnOnly, WriteSettle, ReportsCurrent

LEMMA SafeStep ==
    ASSUME StepFacts, [Next]_vars
    PROVE  SafeChange
<1> USE DEF StepFacts
<1>1. CASE UNCHANGED jobs
  BY <1>1 DEF SafeChange
<1>2. CASE Submission
  BY <1>2 DEF Submission, EnqueueJob, SafeChange, TypeOK
<1>3. ASSUME NEW w \in Workers, RecoverAndSelect(w)
      PROVE  SafeChange
  <2>1. /\ jobs' = Recovered(call[w].now)
        /\ call[w].now \in Nat
        /\ call[w].now <= clock
    BY <1>3 DEF RecoverAndSelect, NowIsPast, TypeOK, Call, CallRecord
  <2>2. \A j \in JobIds : jobs'[j] # jobs[j] => Expired(j, call[w].now)
    BY <2>1, RecoveredFields
  <2> QED BY <2>1, <2>2 DEF SafeChange, Expired, TypeOK, JobRow
<1>4. ASSUME NEW w \in Workers, NEW i \in JobIds, ClaimJob(w, i)
      PROVE  SafeChange
  <2>1. ClaimRow(i, w).status = "leased"
    BY ClaimRowFields
  <2> QED BY <1>4, <2>1 DEF ClaimJob, SafeChange, TypeOK
<1>5. ASSUME NEW w \in Workers, WriteSettle(w)
      PROVE  SafeChange
  <2>1. SettlesOwnLease(w, call[w].job)
    BY <1>5 DEF SettlesOwnOnly
  <2> QED BY <1>5, <2>1 DEF WriteSettle, SafeChange, TypeOK
<1> QED
  BY <1>1, <1>2, <1>3, <1>4, <1>5
     DEF Next, Leasing, Reporting, Tick, BeginLease, BeginReport, CheckComplete,
         CheckFail, Crash, vars

\* A leased or finished job changes only by its own lease or past its expiry.
THEOREM ReassignmentIsSafe ==
    ASSUME SingleProcess, DistinctNames
    PROVE  Spec => SafeReassignment
<1>1. IInv /\ [Next]_vars => [SafeChange]_vars
  BY IInvFacts, SafeStep
<1>2. SafeReassignment <=> [][SafeChange]_vars
  BY DEF SafeReassignment, SafeChange
<1> QED BY <1>1, <1>2, InductiveInvariant, PTL DEF Spec

LEMMA LifecycleInit == Init => Life!Init
BY DEF Init, Life!Init, NoJob

LEMMA LifecycleStep ==
    ASSUME StepFacts, [Next]_vars
    PROVE  [Life!Next]_(Life!lifeVars)
<1> USE DEF StepFacts
<1>1. CASE UNCHANGED jobs
  BY <1>1 DEF Life!lifeVars
<1>2. CASE Submission
  <2> PICK j \in JobIds, k \in Keys, p \in Priorities,
           d \in {clock, clock + RetryDelay} : EnqueueJob(j, k, p, d)
    BY <1>2 DEF Submission
  <2> DEFINE r == [NoJob EXCEPT !.status = "pending", !.due = d, !.key = k,
                                !.priority = p]
  <2>1. /\ jobs[j] = NoJob
        /\ jobs' = [jobs EXCEPT ![j] = r]
    BY DEF EnqueueJob, AbsentIsBlank
  <2>2. /\ r.status = "pending" /\ r.attempts = 0 /\ r.owner = None /\ r.done = None
        /\ NoJob.status = "absent" /\ NoJob.attempts = 0
        /\ NoJob.owner = None /\ NoJob.done = None
    BY SubmittedRowFields DEF NoJob
  <2> HIDE DEF r
  <2>3. \A i \in JobIds : jobs'[i] = IF i = j THEN r ELSE jobs[i]
    BY <2>1 DEF TypeOK
  <2>4. \A i \in JobIds :
           /\ jobs'[i].status = IF i = j THEN "pending" ELSE jobs[i].status
           /\ jobs'[i].owner = jobs[i].owner
           /\ jobs'[i].attempts = jobs[i].attempts
           /\ jobs'[i].done = jobs[i].done
    BY <2>1, <2>2, <2>3
  <2>5. Life!Submit(j)
    BY <2>1, <2>2, <2>4 DEF Life!Submit
  <2> QED BY <2>5 DEF Life!Next
<1>3. ASSUME NEW w \in Workers, RecoverAndSelect(w)
      PROVE  Life!Next
  <2> DEFINE now == call[w].now
  <2> PICK S \in SUBSET JobIds : S = {j \in JobIds : Expired(j, now)}
    OBVIOUS
  <2>1. jobs' = Recovered(now) /\ now \in Nat
    BY <1>3 DEF RecoverAndSelect, TypeOK, Call, CallRecord
  <2>2. \A j \in JobIds :
           /\ j \notin S => jobs'[j] = jobs[j]
           /\ j \in S =>
                 /\ jobs[j].status = "leased"
                 /\ jobs'[j].status = "pending"
                 /\ jobs'[j].owner = None
                 /\ jobs'[j].attempts = jobs[j].attempts
                 /\ jobs'[j].done = jobs[j].done
    BY <2>1, RecoveredFields DEF Expired
  <2> HIDE DEF now
  <2>3. Life!Lapse(S)
    BY <2>2 DEF Life!Lapse
  <2> QED BY <2>3 DEF Life!Next
<1>4. ASSUME NEW w \in Workers, NEW j \in JobIds, ClaimJob(w, j),
             jobs[j].status = "pending"
      PROVE  Life!Next
  <2>1. /\ ClaimRow(j, w).status = "leased"
        /\ ClaimRow(j, w).owner = OwnerOf[w]
        /\ ClaimRow(j, w).attempts = jobs[j].attempts + 1
        /\ ClaimRow(j, w).done = jobs[j].done
    BY ClaimRowFields
  <2>2. \A i \in JobIds : jobs'[i] = IF i = j THEN ClaimRow(j, w) ELSE jobs[i]
    BY <1>4 DEF ClaimJob, TypeOK
  <2>3. Life!Grant(j, OwnerOf[w])
    BY <1>4, <2>1, <2>2 DEF Life!Grant
  <2>4. OwnerOf[w] \in Owners
    BY DeploymentAssumption
  <2> QED BY <2>3, <2>4 DEF Life!Next
<1>5. ASSUME NEW w \in Workers, WriteSettle(w)
      PROVE  Life!Next
  <2> PICK j \in JobIds : j = call[w].job
    BY <1>5, SettledRowFields DEF WriteSettle
  <2> PICK to \in {"completed", "pending", "dead"} : to = call[w].to
    BY <1>5, SettledRowFields DEF WriteSettle
  <2>1. /\ SettledRow(w).status = to
        /\ SettledRow(w).owner = None
        /\ SettledRow(w).attempts = jobs[j].attempts
        /\ SettledRow(w).done = IF to = "completed" THEN OwnerOf[w] ELSE jobs[j].done
    BY <1>5, SettledRowFields DEF WriteSettle
  <2>2. \A i \in JobIds : jobs'[i] = IF i = j THEN SettledRow(w) ELSE jobs[i]
    BY <1>5 DEF WriteSettle, TypeOK
  <2>3. jobs[j].status = "leased" /\ jobs[j].owner = OwnerOf[w]
    BY <1>5 DEF SettlesOwnOnly, SettlesOwnLease, Mine
  <2>4. Life!Settle(j, OwnerOf[w], to)
    BY <2>1, <2>2, <2>3 DEF Life!Settle
  <2>5. OwnerOf[w] \in Owners
    BY DeploymentAssumption
  <2> QED BY <2>4, <2>5 DEF Life!Next
<1> QED
  BY <1>1, <1>2, <1>3, <1>4, <1>5
     DEF Next, Leasing, Reporting, Tick, BeginLease, BeginReport, CheckComplete,
         CheckFail, ClaimJob, Crash, vars

\* The queue implements the job life cycle of JobLifecycle.
THEOREM QueueImplementsLifecycle ==
    ASSUME SingleProcess, DistinctNames
    PROVE  Spec => ImplementsLifecycle
<1>1. Init => Life!Init
  BY LifecycleInit
<1>2. IInv /\ [Next]_vars => [Life!Next]_(Life!lifeVars)
  BY IInvFacts, LifecycleStep
<1> QED
  BY <1>1, <1>2, InductiveInvariant, PTL DEF Spec, ImplementsLifecycle, Life!Spec

-----------------------------------------------------------------------------
(* Any number of processes on the database, if reports are written in time *)

(* The closing UPDATE of a report runs before the lease it settles expires. *)
SettlesInTime ==
    \A w \in Workers : WriteSettle(w) => \A l \in OfJob(w) : l.until > clock

(* A worker that reports on a job has the lease it reports on.             *)
ReportedLeaseHeld ==
    \A w \in Workers :
        /\ (call[w].op = "report" /\ Mine(w, call[w].job)) \/ call[w].op = "settle" =>
              \E l \in held[w] : l.job = call[w].job /\ l.try = call[w].try
        /\ call[w].op = "settle" /\ call[w].to = "pending" => call[w].try < MaxAttempts

(* IInv without the lock: what a caller knows comes from its own lease.    *)
TimelyInv ==
    /\ TypeOK
    /\ NowIsPast
    /\ AbsentIsBlank
    /\ LeasesCurrent
    /\ NoLeaseWhileLeasing
    /\ ReportedLeaseHeld
    /\ RetryBudget

LEMMA InitTimely == Init => TimelyInv
<1> SUFFICES ASSUME Init PROVE TimelyInv
  OBVIOUS
<1>1. IInv
  BY InitIInv
<1>2. \A w \in Workers : call[w].op = "idle"
  BY CallFields DEF Init
<1>3. ReportedLeaseHeld
  BY <1>2 DEF ReportedLeaseHeld
<1> QED BY <1>1, <1>3 DEF IInv, TimelyInv

\* The settling caller still has the row, under the lease it was given.
LEMMA SettlesOwn ==
    ASSUME TimelyInv, SettlesInTime, NEW w \in Workers, WriteSettle(w)
    PROVE  /\ SettlesOwnLease(w, call[w].job)
           /\ call[w].to = "pending" => jobs[call[w].job].attempts < MaxAttempts
<1>1. call[w].op = "settle"
  BY DEF WriteSettle
<1>2. PICK l \in held[w] : l.job = call[w].job /\ l.try = call[w].try
  BY <1>1 DEF TimelyInv, ReportedLeaseHeld
<1>3. l.until > clock
  BY <1>2 DEF SettlesInTime, OfJob
<1>4. Mine(w, call[w].job) /\ jobs[call[w].job].attempts = call[w].try
  BY <1>2, <1>3 DEF TimelyInv, LeasesCurrent
<1> QED BY <1>1, <1>4 DEF SettlesOwnLease, TimelyInv, ReportedLeaseHeld

LEMMA TimelySubmission ==
    ASSUME TimelyInv, TypeOK', Submission
    PROVE  TimelyInv'
<1> PICK j \in JobIds, k \in Keys, p \in Priorities,
         d \in {clock, clock + RetryDelay} : EnqueueJob(j, k, p, d)
  BY DEF Submission
<1> USE DEF TimelyInv
<1> DEFINE r == [NoJob EXCEPT !.status = "pending", !.due = d, !.key = k,
                              !.priority = p]
<1>1. /\ jobs[j] = NoJob
      /\ jobs' = [jobs EXCEPT ![j] = r]
      /\ UNCHANGED <<clock, call, held, lapses>>
  BY DEF EnqueueJob, AbsentIsBlank
<1>2. r.status = "pending" /\ r.attempts = 0
  BY SubmittedRowFields
<1>3. NoJob.status = "absent"
  BY DEF NoJob
<1> HIDE DEF r
<1>4. jobs'[j] = r /\ \A i \in JobIds : i # j => jobs'[i] = jobs[i]
  BY <1>1 DEF TypeOK
<1>5. \A w \in Workers : ~Mine(w, j) /\ \A i \in JobIds : Mine(w, i)' <=> Mine(w, i)
  BY <1>1, <1>2, <1>3, <1>4 DEF Mine
<1>6. \A w \in Workers :
         /\ call[w].op \in {"report", "settle"} => call[w].job \in JobIds
         /\ \A l \in held[w] : l.job \in JobIds
  BY DEF TypeOK, Call, CallRecord, Lease
<1>7. NowIsPast' /\ NoLeaseWhileLeasing'
  BY <1>1 DEF NowIsPast, NoLeaseWhileLeasing
<1>8. AbsentIsBlank'
  BY <1>2, <1>4 DEF AbsentIsBlank
<1>9. LeasesCurrent'
  BY <1>1, <1>4, <1>5, <1>6 DEF LeasesCurrent
<1>10. ReportedLeaseHeld'
  BY <1>1, <1>5, <1>6 DEF ReportedLeaseHeld
<1>11. RetryBudget'
  <2>1. lapses[j] \in Nat
    BY DEF TypeOK
  <2>2. 0 <= MaxAttempts + lapses[j] /\ 0 < MaxAttempts + lapses[j]
    BY <2>1, RangeAssumption
  <2> QED BY <1>1, <1>2, <1>4, <2>2 DEF RetryBudget
<1> QED BY <1>7, <1>8, <1>9, <1>10, <1>11

LEMMA TimelyTick ==
    ASSUME TimelyInv, TypeOK', Tick
    PROVE  TimelyInv'
<1> USE DEF TimelyInv
<1>1. clock' = clock + 1 /\ UNCHANGED <<jobs, call, held, lapses>>
  BY DEF Tick
<1>2. NowIsPast'
  <2>1. \A w \in Workers : call[w].now \in Nat
    BY DEF TypeOK, Call, CallRecord
  <2> QED BY <1>1, <2>1 DEF NowIsPast, TypeOK
<1>3. LeasesCurrent'
  <2>1. \A w \in Workers : \A l \in held[w] : l.until \in Nat
    BY DEF TypeOK, Lease
  <2> QED BY <1>1, <2>1 DEF LeasesCurrent, Mine, TypeOK
<1> QED
  BY <1>1, <1>2, <1>3
     DEF AbsentIsBlank, NoLeaseWhileLeasing, ReportedLeaseHeld, Mine, RetryBudget

\* Steps that change one worker's call and shrink its leases only.
LEMMA TimelyCallOnly ==
    ASSUME TimelyInv, TypeOK', NEW w \in Workers,
           UNCHANGED <<jobs, clock, lapses>>,
           \A v \in Workers : v # w => call'[v] = call[v] /\ held'[v] = held[v],
           held'[w] \subseteq held[w],
           \/ call'[w].op = "idle" /\ call'[w].now = 0
           \/ /\ call'[w].op = "lease"
              /\ call'[w].now = clock
              /\ held'[w] = {}
           \/ /\ call'[w].op \in {"report", "settle"}
              /\ call'[w].now <= clock
              /\ \E l \in held'[w] : l.job = call'[w].job /\ l.try = call'[w].try
              /\ call'[w].op = "settle" /\ call'[w].to = "pending" =>
                    call'[w].try < MaxAttempts
    PROVE  TimelyInv'
<1> USE DEF TimelyInv
<1>1. NowIsPast'
  BY DEF NowIsPast, TypeOK
<1>2. LeasesCurrent'
  BY DEF LeasesCurrent, Mine
<1>3. NoLeaseWhileLeasing'
  BY DEF NoLeaseWhileLeasing
<1>4. ReportedLeaseHeld'
  BY DEF ReportedLeaseHeld, Mine
<1>5. AbsentIsBlank' /\ RetryBudget'
  BY DEF AbsentIsBlank, RetryBudget
<1> QED BY <1>1, <1>2, <1>3, <1>4, <1>5

LEMMA TimelyRecover ==
    ASSUME TimelyInv, TypeOK', NEW w \in Workers, RecoverAndSelect(w)
    PROVE  TimelyInv'
<1> USE DEF TimelyInv
<1> DEFINE now == call[w].now
           todo == Selected(Recovered(now), now)
<1>1. /\ call[w].op = "lease"
      /\ held[w] = {}
      /\ UNCHANGED <<clock, held>>
      /\ call[w] \in Call
      /\ now \in Nat
      /\ now <= clock
  BY DEF RecoverAndSelect, NoLeaseWhileLeasing, NowIsPast, TypeOK, Call, CallRecord
<1>2. \A j \in JobIds :
         /\ ~Expired(j, now) => jobs'[j] = jobs[j] /\ lapses'[j] = lapses[j]
         /\ Expired(j, now) =>
               /\ jobs'[j].status = "pending"
               /\ jobs'[j].attempts = jobs[j].attempts
               /\ lapses'[j] = lapses[j] + 1
  <2>1. jobs' = Recovered(now)
    BY DEF RecoverAndSelect
  <2>2. \A j \in JobIds : lapses'[j] = IF Expired(j, now) THEN lapses[j] + 1
                                        ELSE lapses[j]
    BY DEF RecoverAndSelect
  <2> QED BY <1>1, <2>1, <2>2, RecoveredFields
<1>3. /\ \A v \in Workers : v # w => call'[v] = call[v]
      /\ \/ call'[w].op = "idle" /\ call'[w].now = 0
         \/ call'[w].op = "claim" /\ call'[w].now = now
  <2>1. call' = [call EXCEPT ![w] = IF todo = {} THEN IdleCall
                                    ELSE [@ EXCEPT !.op = "claim", !.todo = todo]]
    BY DEF RecoverAndSelect
  <2> HIDE DEF todo
  <2>2. [call[w] EXCEPT !.op = "claim", !.todo = todo].op = "claim"
        /\ [call[w] EXCEPT !.op = "claim", !.todo = todo].now = now
    BY <1>1, CallFields
  <2> QED BY <2>1, <2>2, CallFields DEF TypeOK
<1> HIDE DEF now, todo
<1>4. \A v \in Workers, j \in JobIds :
         Mine(v, j)' => Mine(v, j) /\ jobs'[j] = jobs[j]
  BY <1>2 DEF Mine
<1>5. \A v \in Workers : \A l \in held[v] : l.job \in JobIds /\ l.until \in Nat
  BY DEF TypeOK, Lease
<1>6. NowIsPast'
  BY <1>1, <1>3 DEF NowIsPast, TypeOK
<1>7. AbsentIsBlank'
  BY <1>2 DEF AbsentIsBlank
<1>8. LeasesCurrent'
  <2> SUFFICES ASSUME NEW v \in Workers, NEW l \in held[v]
               PROVE  /\ l.until > clock => Mine(v, l.job)'
                      /\ Mine(v, l.job)' => /\ jobs'[l.job].attempts = l.try
                                            /\ jobs'[l.job].expires = l.until
    BY <1>1 DEF LeasesCurrent
  <2>1. /\ l.until > clock => Mine(v, l.job)
        /\ Mine(v, l.job) => jobs[l.job].attempts = l.try
                             /\ jobs[l.job].expires = l.until
    BY DEF LeasesCurrent
  <2>2. l.until > clock => ~Expired(l.job, now)
    BY <1>1, <1>5, <2>1 DEF Expired, TypeOK
  <2>3. l.until > clock => Mine(v, l.job)'
    BY <1>2, <1>5, <2>1, <2>2 DEF Mine
  <2> QED BY <1>4, <1>5, <2>1, <2>3
<1>9. NoLeaseWhileLeasing'
  BY <1>1, <1>3 DEF NoLeaseWhileLeasing
<1>10. ReportedLeaseHeld'
  <2> SUFFICES ASSUME NEW v \in Workers, call'[v].op \in {"report", "settle"}
               PROVE  v # w /\ call'[v] = call[v] /\ held'[v] = held[v]
                      /\ (Mine(v, call[v].job)' => Mine(v, call[v].job))
    BY DEF ReportedLeaseHeld
  <2>1. v # w /\ call'[v] = call[v]
    BY <1>3
  <2>2. call[v].job \in JobIds
    BY <2>1 DEF TypeOK, Call, CallRecord
  <2> QED BY <1>1, <1>4, <2>1, <2>2
<1>11. RetryBudget'
  BY <1>2, RangeAssumption DEF RetryBudget, TypeOK, JobRow, Expired
<1> QED BY <1>6, <1>7, <1>8, <1>9, <1>10, <1>11

LEMMA TimelyClaim ==
    ASSUME DistinctNames, TimelyInv, TypeOK',
           NEW w \in Workers, NEW j \in JobIds, ClaimJob(w, j)
    PROVE  TimelyInv'
<1> USE DEF TimelyInv
<1> DEFINE l0 == [job |-> j, try |-> jobs[j].attempts + 1,
                  until |-> call[w].now + LeaseTime]
<1>1. /\ call[w].op = "claim"
      /\ j \in call[w].todo
      /\ call[w] \in Call
      /\ call[w].now \in Nat
      /\ call[w].now <= clock
      /\ UNCHANGED <<clock, lapses>>
      /\ \A l \in held[w] : l.job \notin call[w].todo
      /\ \A v \in Workers : v # w => call'[v] = call[v]
  BY DEF ClaimJob, NowIsPast, NoLeaseWhileLeasing, TypeOK, Call, CallRecord
<1>2. \/ call'[w].op = "idle" /\ call'[w].now = 0
      \/ call'[w].op = "claim" /\ call'[w].now = call[w].now
         /\ call'[w].todo = call[w].todo \ {j}
  <2> DEFINE rest == call[w].todo \ {j}
  <2>1. call'[w] = IF call[w].todo = {j} THEN IdleCall
                   ELSE [call[w] EXCEPT !.todo = rest]
    BY DEF ClaimJob, TypeOK
  <2> HIDE DEF rest
  <2>2. /\ [call[w] EXCEPT !.todo = rest].op = "claim"
        /\ [call[w] EXCEPT !.todo = rest].now = call[w].now
        /\ [call[w] EXCEPT !.todo = rest].todo = rest
    BY <1>1, CallFields
  <2> QED BY <2>1, <2>2, CallFields DEF rest
<1>3. NowIsPast'
  BY <1>1, <1>2 DEF NowIsPast, TypeOK
<1>4. \A v \in Workers : call'[v].op \in {"report", "settle"} =>
         v # w /\ call'[v] = call[v] /\ call[v].job \in JobIds
  BY <1>1, <1>2 DEF TypeOK, Call, CallRecord
<1>5. \A v \in Workers : \A l \in held[v] : l.job \in JobIds /\ l.until \in Nat
  BY DEF TypeOK, Lease
<1>6. CASE jobs[j].status = "pending"
  <2>1. /\ jobs' = [jobs EXCEPT ![j] = ClaimRow(j, w)]
        /\ held' = [held EXCEPT ![w] = @ \cup {l0}]
    BY <1>6 DEF ClaimJob
  <2>2. /\ ClaimRow(j, w).status = "leased"
        /\ ClaimRow(j, w).owner = OwnerOf[w]
        /\ ClaimRow(j, w).expires = call[w].now + LeaseTime
        /\ ClaimRow(j, w).attempts = jobs[j].attempts + 1
    BY ClaimRowFields
  <2>3. /\ jobs'[j] = ClaimRow(j, w)
        /\ \A i \in JobIds : i # j => jobs'[i] = jobs[i]
    BY <2>1 DEF TypeOK
  <2>4. AbsentIsBlank'
    BY <2>2, <2>3 DEF AbsentIsBlank
  <2>5. \A v \in Workers : ~Mine(v, j) /\ (v # w => ~Mine(v, j)')
    BY <1>6, <2>2, <2>3 DEF Mine, DistinctNames
  <2>6. \A v \in Workers, i \in JobIds : i # j => (Mine(v, i)' <=> Mine(v, i))
    BY <2>3 DEF Mine
  <2>7. /\ \A v \in Workers : v # w => held'[v] = held[v]
        /\ held'[w] = held[w] \cup {l0} /\ l0.job = j
    BY <2>1 DEF TypeOK
  <2>8. LeasesCurrent'
    <3> SUFFICES ASSUME NEW v \in Workers, NEW l \in held'[v]
                 PROVE  /\ l.until > clock => Mine(v, l.job)'
                        /\ Mine(v, l.job)' => /\ jobs'[l.job].attempts = l.try
                                              /\ jobs'[l.job].expires = l.until
      BY <1>1 DEF LeasesCurrent
    <3>1. CASE v = w /\ l = l0
      BY <2>2, <2>3, <3>1 DEF Mine
    <3>2. CASE l \in held[v]
      <4>1. CASE l.job = j
        BY <1>1, <1>5, <2>5, <3>2, <4>1 DEF LeasesCurrent
      <4>2. CASE l.job # j
        BY <1>5, <2>3, <2>6, <3>2, <4>2 DEF LeasesCurrent
      <4> QED BY <4>1, <4>2
    <3> QED BY <2>1, <3>1, <3>2 DEF TypeOK
  <2> HIDE DEF l0
  <2>9. NoLeaseWhileLeasing'
    BY <1>1, <1>2, <2>7 DEF NoLeaseWhileLeasing
  <2>10. ReportedLeaseHeld'
    BY <1>4, <2>5, <2>6, <2>7 DEF ReportedLeaseHeld
  <2>11. RetryBudget'
    BY <1>1, <1>6, <2>2, <2>3, RangeAssumption DEF RetryBudget, TypeOK, JobRow
  <2> QED BY <1>3, <2>4, <2>8, <2>9, <2>10, <2>11
<1>7. CASE jobs[j].status # "pending"
  <2>1. UNCHANGED <<jobs, held>>
    BY <1>7 DEF ClaimJob
  <2>2. LeasesCurrent'
    BY <1>1, <2>1 DEF LeasesCurrent, Mine
  <2>3. NoLeaseWhileLeasing'
    BY <1>1, <1>2, <2>1 DEF NoLeaseWhileLeasing
  <2>4. ReportedLeaseHeld'
    BY <1>4, <2>1 DEF ReportedLeaseHeld, Mine
  <2> QED BY <1>1, <1>3, <2>1, <2>2, <2>3, <2>4 DEF AbsentIsBlank, RetryBudget
<1> QED BY <1>6, <1>7

LEMMA TimelyWrite ==
    ASSUME DistinctNames, TimelyInv, TypeOK', SettlesInTime,
           NEW w \in Workers, WriteSettle(w)
    PROVE  TimelyInv'
<1> USE DEF TimelyInv
<1> PICK j \in JobIds : j = call[w].job
  BY SettledRowFields DEF WriteSettle
<1> DEFINE again == [call[w] EXCEPT !.op = "report", !.now = clock]
<1>1. /\ call[w].op = "settle"
      /\ call[w] \in Call
      /\ jobs' = [jobs EXCEPT ![j] = SettledRow(w)]
      /\ UNCHANGED <<clock, lapses>>
      /\ \A v \in Workers : v # w => call'[v] = call[v] /\ held'[v] = held[v]
      /\ held'[w] = {l \in held[w] : l.job # j}
      /\ call'[w] = IdleCall \/ call'[w] = again
  BY DEF WriteSettle, OfJob, TypeOK
<1>2. /\ SettledRow(w).status \in {"completed", "pending", "dead"}
      /\ SettledRow(w).status = call[w].to
      /\ SettledRow(w).attempts = jobs[j].attempts
  BY <1>1, SettledRowFields
<1>3. /\ again.op = "report"
      /\ again.now = clock
      /\ again.job = j
      /\ IdleCall.op = "idle"
      /\ IdleCall.now = 0
  BY <1>1, CallFields
<1>4. /\ Mine(w, j)
      /\ call[w].to = "pending" => jobs[j].attempts < MaxAttempts
  BY SettlesOwn DEF SettlesOwnLease
<1> HIDE DEF again
<1>5. /\ jobs'[j] = SettledRow(w)
      /\ \A i \in JobIds : i # j => jobs'[i] = jobs[i]
  BY <1>1 DEF TypeOK
<1>6. NowIsPast'
  BY <1>1, <1>3 DEF NowIsPast, TypeOK
<1>7. AbsentIsBlank'
  BY <1>2, <1>5 DEF AbsentIsBlank
<1>8. /\ \A v \in Workers : ~Mine(v, j)' /\ (v # w => ~Mine(v, j))
      /\ \A v \in Workers, i \in JobIds : i # j => (Mine(v, i)' <=> Mine(v, i))
  BY <1>2, <1>4, <1>5 DEF Mine, DistinctNames
<1>9. LeasesCurrent'
  <2> SUFFICES ASSUME NEW v \in Workers, NEW l \in held'[v]
               PROVE  /\ l.until > clock => Mine(v, l.job)'
                      /\ Mine(v, l.job)' => /\ jobs'[l.job].attempts = l.try
                                            /\ jobs'[l.job].expires = l.until
    BY <1>1 DEF LeasesCurrent
  <2>1. l \in held[v] /\ (v = w => l.job # j)
    BY <1>1
  <2>2. l.job \in JobIds
    BY <2>1 DEF TypeOK, Lease
  <2>3. /\ l.until > clock => Mine(v, l.job)
        /\ Mine(v, l.job) => jobs[l.job].attempts = l.try
                             /\ jobs[l.job].expires = l.until
    BY <2>1 DEF LeasesCurrent
  <2>4. CASE l.job = j
    BY <1>8, <2>1, <2>3, <2>4
  <2>5. CASE l.job # j
    BY <1>5, <1>8, <2>2, <2>3, <2>5
  <2> QED BY <2>4, <2>5
<1>10. NoLeaseWhileLeasing'
  BY <1>1, <1>3 DEF NoLeaseWhileLeasing
<1>11. ReportedLeaseHeld'
  <2>1. \A v \in Workers : call[v].op = "report" => call[v].job \in JobIds
    BY DEF TypeOK, Call, CallRecord
  <2>2. ASSUME NEW v \in Workers, v # w, call[v].op = "report", Mine(v, call[v].job)'
        PROVE  Mine(v, call[v].job)
    <3>1. PICK i \in JobIds : i = call[v].job
      BY <2>1, <2>2
    <3>2. call'[v] = call[v]
      BY <1>1, <2>2
    <3>3. Mine(v, i)'
      BY <2>2, <3>1, <3>2 DEF Mine
    <3> QED BY <1>8, <3>1, <3>3
  <2>3. ASSUME NEW v \in Workers, v # w
        PROVE  /\ (call'[v].op = "report" /\ Mine(v, call[v].job)')
                     \/ call'[v].op = "settle" =>
                  \E l \in held'[v] : l.job = call'[v].job /\ l.try = call'[v].try
               /\ call'[v].op = "settle" /\ call'[v].to = "pending" =>
                     call'[v].try < MaxAttempts
    BY <1>1, <2>2, <2>3 DEF ReportedLeaseHeld
  <2>4. call'[w].op # "settle" /\ ~(call'[w].op = "report" /\ Mine(w, call[w].job)')
    BY <1>1, <1>3, <1>8
  <2> QED BY <2>3, <2>4 DEF ReportedLeaseHeld
<1>12. RetryBudget'
  <2>1. jobs[j].attempts \in Nat /\ lapses[j] \in Nat
    BY <1>2 DEF TypeOK, JobRow
  <2>2. jobs[j].attempts < MaxAttempts => jobs[j].attempts < MaxAttempts + lapses[j]
    BY <2>1, RangeAssumption
  <2> QED BY <1>1, <1>2, <1>4, <1>5, <2>2 DEF RetryBudget
<1> QED BY <1>6, <1>7, <1>9, <1>10, <1>11, <1>12

LEMMA TimelyStep ==
    ASSUME DistinctNames, TimelyInv, [Next]_vars, [SettlesInTime]_vars
    PROVE  TimelyInv'
<1>1. TypeOK'
  BY StepType DEF TimelyInv
<1>2. CASE Submission
  BY <1>1, <1>2, TimelySubmission
<1>3. CASE Tick
  BY <1>1, <1>3, TimelyTick
<1>4. ASSUME NEW w \in Workers, BeginLease(w)
      PROVE  TimelyInv'
  <2> DEFINE c == [IdleCall EXCEPT !.op = "lease", !.now = clock]
  <2>1. c.op = "lease" /\ c.now = clock
    BY CallFields
  <2> HIDE DEF c
  <2>2. /\ UNCHANGED <<jobs, clock, lapses, held>>
        /\ call'[w] = c
        /\ \A v \in Workers : v # w => call'[v] = call[v]
        /\ held[w] = {}
    BY <1>4 DEF BeginLease, c, TimelyInv, TypeOK
  <2> QED BY <1>1, <2>1, <2>2, TimelyCallOnly
<1>5. ASSUME NEW w \in Workers, RecoverAndSelect(w)
      PROVE  TimelyInv'
  BY <1>1, <1>5, TimelyRecover
<1>6. ASSUME NEW w \in Workers, NEW j \in JobIds, ClaimJob(w, j)
      PROVE  TimelyInv'
  BY <1>1, <1>6, TimelyClaim
<1>7. ASSUME NEW w \in Workers, NEW l \in held[w],
             NEW to \in {"completed", "pending", "dead"}, BeginReport(w, l, to)
      PROVE  TimelyInv'
  <2> DEFINE c == [IdleCall EXCEPT !.op = "report", !.now = clock, !.job = l.job,
                                   !.try = l.try, !.to = to]
  <2>1. c.op = "report" /\ c.now = clock /\ c.job = l.job /\ c.try = l.try
    BY CallFields
  <2> HIDE DEF c
  <2>2. /\ UNCHANGED <<jobs, clock, lapses, held>>
        /\ call'[w] = c
        /\ \A v \in Workers : v # w => call'[v] = call[v]
        /\ clock \in Nat
    BY <1>7 DEF BeginReport, c, TimelyInv, TypeOK
  <2> QED BY <1>1, <2>1, <2>2, TimelyCallOnly
<1>8. ASSUME NEW w \in Workers, call[w].op = "report", LeaseAccepted(w)
      PROVE  \E l \in held[w] : l.job = call[w].job /\ l.try = call[w].try
  BY <1>8 DEF LeaseAccepted, Mine, TimelyInv, ReportedLeaseHeld
<1>9. ASSUME NEW w \in Workers, CheckComplete(w)
      PROVE  TimelyInv'
  <2> DEFINE c == [call[w] EXCEPT !.op = "settle"]
  <2>1. call[w] \in Call /\ call[w].op = "report" /\ call[w].to = "completed"
        /\ call[w].now <= clock
    BY <1>9 DEF CheckComplete, TimelyInv, TypeOK, NowIsPast
  <2>2. /\ c.op = "settle" /\ c.now = call[w].now /\ c.job = call[w].job
        /\ c.try = call[w].try /\ c.to = "completed"
    BY <2>1, CallFields
  <2>3. /\ UNCHANGED <<jobs, clock, lapses>>
        /\ \A v \in Workers : v # w => call'[v] = call[v] /\ held'[v] = held[v]
        /\ held'[w] \subseteq held[w]
        /\ \/ call'[w] = IdleCall
           \/ call'[w] = c /\ LeaseAccepted(w) /\ held'[w] = held[w]
    BY <1>9 DEF CheckComplete, GiveUp, TimelyInv, TypeOK
  <2> HIDE DEF c
  <2>4. CASE call'[w] = IdleCall
    BY <1>1, <2>3, <2>4, CallFields, TimelyCallOnly
  <2>5. CASE call'[w] = c /\ LeaseAccepted(w) /\ held'[w] = held[w]
    BY <1>1, <1>8, <2>1, <2>2, <2>3, <2>5, TimelyCallOnly
  <2> QED BY <2>3, <2>4, <2>5
<1>10. ASSUME NEW w \in Workers, CheckFail(w)
       PROVE  TimelyInv'
  <2> DEFINE to == FailVerdict(w)
             c == [call[w] EXCEPT !.op = "settle", !.to = to]
  <2>1. call[w] \in Call /\ call[w].op = "report" /\ call[w].job \in JobIds
        /\ call[w].now <= clock
    BY <1>10 DEF CheckFail, TimelyInv, TypeOK, NowIsPast, Call, CallRecord
  <2>2. to = "pending" => jobs[call[w].job].attempts < MaxAttempts
    BY <2>1, RangeAssumption DEF FailVerdict, TimelyInv, TypeOK, JobRow
  <2>3. /\ UNCHANGED <<jobs, clock, lapses>>
        /\ \A v \in Workers : v # w => call'[v] = call[v] /\ held'[v] = held[v]
        /\ held'[w] \subseteq held[w]
        /\ \/ call'[w] = IdleCall
           \/ call'[w] = c /\ LeaseAccepted(w) /\ held'[w] = held[w]
    BY <1>10 DEF CheckFail, GiveUp, TimelyInv, TypeOK
  <2> HIDE DEF to
  <2>4. /\ c.op = "settle" /\ c.now = call[w].now /\ c.job = call[w].job
        /\ c.try = call[w].try /\ c.to = to
    BY <2>1, CallFields
  <2> HIDE DEF c
  <2>5. CASE call'[w] = IdleCall
    BY <1>1, <2>3, <2>5, CallFields, TimelyCallOnly
  <2>6. CASE call'[w] = c /\ LeaseAccepted(w) /\ held'[w] = held[w]
    <3>1. PICK l \in held[w] : l.job = call[w].job /\ l.try = call[w].try
      BY <1>8, <2>1, <2>6
    <3>2. jobs[call[w].job].attempts = call[w].try
      BY <2>6, <3>1 DEF LeaseAccepted, Mine, TimelyInv, LeasesCurrent
    <3> QED BY <1>1, <2>1, <2>2, <2>3, <2>4, <2>6, <3>1, <3>2, TimelyCallOnly
  <2> QED BY <2>3, <2>5, <2>6
<1>11. ASSUME NEW w \in Workers, WriteSettle(w), SettlesInTime
       PROVE  TimelyInv'
  BY <1>1, <1>11, TimelyWrite
<1>12. ASSUME NEW w \in Workers, Crash(w)
       PROVE  TimelyInv'
  <2>1. /\ UNCHANGED <<jobs, clock, lapses>>
        /\ \A v \in Workers : v # w => call'[v] = call[v] /\ held'[v] = held[v]
        /\ held'[w] = {}
        /\ call'[w] = IdleCall
    BY <1>12 DEF Crash, GiveUp, TimelyInv, TypeOK
  <2> QED BY <1>1, <2>1, CallFields, TimelyCallOnly
<1>13. CASE UNCHANGED vars
  BY <1>13 DEF vars, TimelyInv, TypeOK, NowIsPast, AbsentIsBlank,
     LeasesCurrent, NoLeaseWhileLeasing, ReportedLeaseHeld, RetryBudget, Mine
<1> QED
  BY <1>2, <1>3, <1>4, <1>5, <1>6, <1>7, <1>9, <1>10, <1>11, <1>12, <1>13
     DEF Next, Leasing, Reporting

LEMMA TimelyFacts ==
    ASSUME TimelyInv, [SettlesInTime]_vars
    PROVE  StepFacts \/ UNCHANGED vars
BY SettlesOwn DEF TimelyInv, StepFacts, SettlesOwnOnly

LEMMA TimelyInvariant ==
    ASSUME DistinctNames
    PROVE  Spec /\ [][SettlesInTime]_vars => []TimelyInv
<1>1. Init => TimelyInv
  BY InitTimely
<1>2. TimelyInv /\ [Next]_vars /\ [SettlesInTime]_vars => TimelyInv'
  BY TimelyStep
<1> QED BY <1>1, <1>2, PTL DEF Spec

\* With any number of processes on one database file, as long as every
\* closing UPDATE of complete_job and fail_job runs before the lease it
\* settles has expired: a leased or finished job changes only by its own
\* lease or past its expiry.  A late UPDATE is all that stands against it.
THEOREM TimelyReassignmentIsSafe ==
    ASSUME DistinctNames
    PROVE  Spec /\ [][SettlesInTime]_vars => SafeReassignment
<1>1. TimelyInv /\ [Next]_vars /\ [SettlesInTime]_vars => [SafeChange]_vars
  <2> SUFFICES ASSUME TimelyInv, [Next]_vars, [SettlesInTime]_vars
               PROVE  [SafeChange]_vars
    OBVIOUS
  <2> QED BY TimelyFacts, SafeStep
<1>2. SafeReassignment <=> [][SafeChange]_vars
  BY DEF SafeReassignment, SafeChange
<1> QED BY <1>1, <1>2, TimelyInvariant, PTL DEF Spec

\* Under the same condition no job is leased twice at a time, the retry
\* budget is kept and the queue implements the job life cycle, whatever
\* process each caller runs in.
THEOREM TimelyQueueImplementsLifecycle ==
    ASSUME DistinctNames
    PROVE  Spec /\ [][SettlesInTime]_vars =>
               [](NoDoubleLease /\ RetryBudget) /\ ImplementsLifecycle
<1>1. TimelyInv => NoDoubleLease /\ RetryBudget
  <2> SUFFICES ASSUME TimelyInv, NEW v \in Workers, NEW w \in Workers,
                      NEW l \in held[v], NEW m \in held[w],
                      v # w, l.job = m.job
               PROVE  l.until <= clock \/ m.until <= clock
    BY DEF NoDoubleLease, TimelyInv
  <2>1. l.until \in Nat /\ m.until \in Nat /\ clock \in Nat
    BY DEF TimelyInv, TypeOK, Lease
  <2>2. ~(Mine(v, l.job) /\ Mine(w, l.job))
    BY DEF Mine, DistinctNames
  <2> QED BY <2>1, <2>2 DEF TimelyInv, LeasesCurrent
<1>2. Init => Life!Init
  BY LifecycleInit
<1>3. TimelyInv /\ [Next]_vars /\ [SettlesInTime]_vars => [Life!Next]_(Life!lifeVars)
  <2> SUFFICES ASSUME TimelyInv, [Next]_vars, [SettlesInTime]_vars
               PROVE  [Life!Next]_(Life!lifeVars)
    OBVIOUS
  <2>1. UNCHANGED vars => UNCHANGED Life!lifeVars
    BY DEF vars, Life!lifeVars
  <2> QED BY <2>1, TimelyFacts, LifecycleStep
<1> QED
  BY <1>1, <1>2, <1>3, TimelyInvariant, PTL
     DEF Spec, ImplementsLifecycle, Life!Spec

=============================================================================
