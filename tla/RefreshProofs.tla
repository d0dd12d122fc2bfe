---------------------------- MODULE RefreshProofs ----------------------------
(***************************************************************************)
(* The safety of the refresh cycle for any number of tasks, any retry and  *)
(* batch limits and any number of faults: one active job per task, earned  *)
(* successes, and who may lose one.                                        *)
(***************************************************************************)
EXTENDS Refresh, TLAPS

AtMostOne == {<<>>} \cup {<<j>> : j \in ActiveJob}

(* Only a pass adds jobs, and it does so for a task it found without one.  *)
JobsKnow ==
    /\ jobs \in [Tasks -> AtMostOne]
    /\ sched.pc = "enqueue" => jobs[sched.task] = <<>>

(* What a worker has leased and not settled yet is still in the table.     *)
HoldsJobs ==
    /\ worker.pc \in {"begin", "insert", "collect", "finish", "settle", "read", "write"} =>
          worker.task \in worker.batch
    /\ \A t \in worker.batch :
          jobs[t] # <<>> \/ (worker.pc \in {"read", "write"} /\ t = worker.task)

(* Whose success a pass and a worker carry with them is still in its row,  *)
(* and what the worker is about to write covers the row it replaces.       *)
SuccessKnow ==
    /\ SuccessIsEarned
    /\ \A t \in Tasks : sched.seen[t].success => row[t].success
    /\ worker.pc \in {"read", "write"} /\ worker.verdict = "ok" => earned[worker.task]
    /\ worker.pc = "write" =>
          /\ worker.seen.success => earned[worker.task]
          /\ row[worker.task].success => worker.seen.success

RefreshInv == TypeOK /\ JobsKnow /\ HoldsJobs /\ CompletesSucceededRun /\ SuccessKnow

Passes == [pc : {"idle", "check", "enqueue", "defer"}, task : Tasks,
           seen : [Tasks -> Row], used : [Tasks -> BOOLEAN]]
Workers == [pc : {"idle", "next", "begin", "insert", "collect", "finish",
                  "settle", "read", "write"},
            batch : SUBSET Tasks, task : Tasks, verdict : Verdicts, seen : Row]

LEMMA TaskFacts == 1 \in Tasks /\ \A t \in Tasks : t # NumTasks => t + 1 \in Tasks
BY CycleAssumption DEF Tasks

LEMMA NewRecords ==
    /\ NewRow \in Row /\ NewRow.success = FALSE
    /\ NewJob \in ActiveJob
    /\ Resting \in Passes /\ Resting.pc = "idle"
    /\ \A t \in Tasks : Resting.seen[t].success = FALSE
    /\ Gone \in Workers /\ Gone.pc = "idle"
<1>1. NewRow \in Row /\ NewRow.success = FALSE
  BY DEF NewRow, Row
<1>2. NewJob \in ActiveJob
  BY CycleAssumption DEF NewJob, ActiveJob
<1>3. Resting \in Passes /\ Resting.pc = "idle" /\ \A t \in Tasks : Resting.seen[t] = NewRow
  BY <1>1, TaskFacts DEF Resting, Passes
<1>4. Gone \in Workers /\ Gone.pc = "idle"
  BY <1>1, TaskFacts DEF Gone, Workers, Verdicts
<1> QED
  BY <1>1, <1>2, <1>3, <1>4

LEMMA TypeParts ==
    ASSUME TypeOK
    PROVE  sched \in Passes /\ worker \in Workers
BY DEF TypeOK, Passes, Workers

LEMMA ShortIsSeq == AtMostOne \subseteq Seq(ActiveJob)
<1> SUFFICES ASSUME NEW s \in AtMostOne PROVE s \in Seq(ActiveJob)
  OBVIOUS
<1>1. CASE s = <<>>
  BY <1>1
<1>2. CASE \E j \in ActiveJob : s = <<j>>
  <2>1. PICK j \in ActiveJob : s = <<j>>
    BY <1>2
  <2> HIDE DEF ActiveJob
  <2> QED
    BY <2>1
<1> QED
  BY <1>1, <1>2 DEF AtMostOne

(* What the actions do to a sequence of at most one job.                   *)
LEMMA ShortFacts ==
    ASSUME NEW s \in AtMostOne, s # <<>>
    PROVE  /\ Head(s) \in ActiveJob /\ Tail(s) = <<>>
           /\ \A j \in ActiveJob : <<j>> \o Tail(s) \in AtMostOne /\ <<j>> \o Tail(s) # <<>>
<1>1. PICK j \in ActiveJob : s = <<j>>
  BY DEF AtMostOne
<1>2. Head(s) = j /\ Tail(s) = <<>>
  BY <1>1
<1>3. ASSUME NEW k \in ActiveJob
      PROVE  <<k>> \o Tail(s) \in AtMostOne /\ <<k>> \o Tail(s) # <<>>
  <2>1. <<k>> \o <<>> = <<k>>
    OBVIOUS
  <2>2. <<k>> \o Tail(s) = <<k>>
    BY <1>2, <2>1
  <2> QED
    BY <2>2 DEF AtMostOne
<1> QED
  BY <1>2, <1>3

LEMMA RefreshInitInv == Init => RefreshInv
<1> SUFFICES ASSUME Init PROVE RefreshInv
  OBVIOUS
<1>1. TypeOK
  BY NewRecords, TaskFacts, CycleAssumption
     DEF Init, TypeOK, RunStatus, Passes, Workers, Actors
<1>2. JobsKnow
  BY NewRecords DEF Init, JobsKnow, AtMostOne
<1>3. CompletesSucceededRun
  BY NewRecords DEF Init, CompletesSucceededRun
<1>4. SuccessKnow
  BY NewRecords DEF Init, SuccessKnow, SuccessIsEarned
<1>5. HoldsJobs
  BY DEF Init, HoldsJobs, Gone
<1> QED
  BY <1>1, <1>2, <1>3, <1>4, <1>5 DEF RefreshInv

-----------------------------------------------------------------------------
(* The jobs                                                                *)

LEMMA NextTaskFacts ==
    ASSUME TypeOK
    PROVE  /\ NextTask \in Passes /\ NextTask.pc # "enqueue"
           /\ \A t \in Tasks : NextTask.seen[t].success => sched.seen[t].success
<1>1. CASE sched.task = NumTasks
  BY <1>1, NewRecords DEF NextTask
<1>2. CASE sched.task # NumTasks
  <2> DEFINE seen == [sched.seen EXCEPT ![sched.task] = NewRow]
             used == [sched.used EXCEPT ![sched.task] = FALSE]
  <2>1. NextTask = [pc |-> "check", task |-> sched.task + 1, seen |-> seen, used |-> used]
    BY <1>2 DEF NextTask
  <2>2. seen \in [Tasks -> Row] /\ used \in [Tasks -> BOOLEAN] /\ sched.task + 1 \in Tasks
    BY <1>2, TypeParts, NewRecords, TaskFacts DEF Passes
  <2>3. \A t \in Tasks : seen[t].success => sched.seen[t].success
    BY TypeParts, NewRecords DEF Passes
  <2> HIDE DEF seen, used
  <2> QED
    BY <2>1, <2>2, <2>3 DEF Passes
<1> QED
  BY <1>1, <1>2

LEMMA LeaseFacts ==
    ASSUME NEW j \in ActiveJob
    PROVE  RecoveredJob(j) \in ActiveJob /\ LeasedJob(j) \in ActiveJob
<1>1. RecoveredJob(j) \in ActiveJob
  <2>1. CASE j.leased /\ j.elapsed
    BY <2>1 DEF RecoveredJob, ActiveJob
  <2>2. CASE ~(j.leased /\ j.elapsed)
    BY <2>2 DEF RecoveredJob
  <2> QED
    BY <2>1, <2>2
<1>2. j.attempts \in 0 .. MaxAttempts
  BY DEF ActiveJob
<1>3. Capped(j.attempts) \in 0 .. MaxAttempts
  BY <1>2, CycleAssumption DEF Capped
<1>4. LeasedJob(j) \in ActiveJob
  BY <1>3 DEF LeasedJob, ActiveJob
<1> QED
  BY <1>1, <1>4

LEMMA LeaseJobs ==
    ASSUME RefreshInv, NEW S \in SUBSET Tasks, LeaseBatch(S)
    PROVE  jobs' \in [Tasks -> AtMostOne] /\ \A t \in Tasks : jobs[t] = <<>> => jobs'[t] = <<>>
<1> DEFINE after(t) == IF jobs[t] = <<>> THEN <<>>
                       ELSE <<IF t \in S THEN LeasedJob(Head(jobs[t]))
                              ELSE RecoveredJob(Head(jobs[t]))>> \o Tail(jobs[t])
<1>1. jobs' = [t \in Tasks |-> after(t)]
  BY DEF LeaseBatch
<1>2. ASSUME NEW t \in Tasks PROVE after(t) \in AtMostOne
  <2>1. jobs[t] \in AtMostOne
    BY DEF RefreshInv, JobsKnow
  <2>2. CASE jobs[t] = <<>>
    BY <2>2 DEF AtMostOne
  <2>3. CASE jobs[t] # <<>>
    <3>1. Head(jobs[t]) \in ActiveJob
      BY <2>1, <2>3, ShortFacts
    <3>2. PICK j \in ActiveJob : j = (IF t \in S THEN LeasedJob(Head(jobs[t]))
                                      ELSE RecoveredJob(Head(jobs[t])))
      BY <3>1, LeaseFacts
    <3>3. after(t) = <<j>> \o Tail(jobs[t])
      BY <2>3, <3>2
    <3> HIDE DEF after
    <3> QED
      BY <2>1, <2>3, <3>3, ShortFacts
  <2> HIDE DEF after
  <2> QED BY <2>2, <2>3
<1>3. \A t \in Tasks : jobs[t] = <<>> => after(t) = <<>>
  OBVIOUS
<1> HIDE DEF after
<1> QED
  BY <1>1, <1>2, <1>3

LEMMA SettleFacts ==
    ASSUME RefreshInv, NEW t \in Tasks, jobs[t] # <<>>
    PROVE  AfterSettle(t) \in AtMostOne
<1>1. jobs[t] \in AtMostOne
  BY DEF RefreshInv, JobsKnow
<1>2. Head(jobs[t]) \in ActiveJob /\ Tail(jobs[t]) \in AtMostOne
  BY <1>1, ShortFacts DEF AtMostOne
<1>3. PICK j \in ActiveJob : j = [Head(jobs[t]) EXCEPT !.leased = FALSE, !.elapsed = FALSE]
  BY <1>2 DEF ActiveJob
<1>4. AfterSettle(t) = <<j>> \o Tail(jobs[t]) \/ AfterSettle(t) = Tail(jobs[t])
  BY <1>3 DEF AfterSettle
<1> QED
  BY <1>1, <1>2, <1>4, ShortFacts

LEMMA ElapsedFacts ==
    ASSUME RefreshInv, NEW t \in Tasks, Waiting(t), jobs' = Elapsed(t)
    PROVE  jobs' \in [Tasks -> AtMostOne] /\ \A u \in Tasks : jobs[u] = <<>> => jobs'[u] = <<>>
<1>1. jobs \in [Tasks -> AtMostOne] /\ jobs[t] # <<>>
  BY DEF RefreshInv, JobsKnow, Waiting
<1>2. Head(jobs[t]) \in ActiveJob
  BY <1>1, ShortFacts
<1>3. PICK j \in ActiveJob : j = [Head(jobs[t]) EXCEPT !.elapsed = TRUE]
  BY <1>2 DEF ActiveJob
<1>4. jobs' = [jobs EXCEPT ![t] = <<j>> \o Tail(jobs[t])]
  BY <1>3 DEF Elapsed
<1>5. <<j>> \o Tail(jobs[t]) \in AtMostOne
  BY <1>1, ShortFacts
<1> QED
  BY <1>1, <1>4, <1>5
LEMMA LeaseJobsStay ==
    ASSUME RefreshInv, NEW S \in SUBSET Tasks, LeaseBatch(S)
    PROVE  \A t \in Tasks : jobs[t] # <<>> => jobs'[t] # <<>>
<1> SUFFICES ASSUME NEW t \in Tasks, jobs[t] # <<>> PROVE jobs'[t] # <<>>
  OBVIOUS
<1>1. jobs[t] \in AtMostOne
  BY DEF RefreshInv, JobsKnow
<1>2. Head(jobs[t]) \in ActiveJob
  BY <1>1, ShortFacts
<1>3. PICK j \in ActiveJob : j = (IF t \in S THEN LeasedJob(Head(jobs[t]))
                                  ELSE RecoveredJob(Head(jobs[t])))
  BY <1>2, LeaseFacts
<1>4. jobs'[t] = <<j>> \o Tail(jobs[t])
  BY <1>3 DEF LeaseBatch
<1> QED
  BY <1>1, <1>4, ShortFacts

LEMMA ElapsedJobsStay ==
    ASSUME RefreshInv, NEW t \in Tasks, Waiting(t), jobs' = Elapsed(t)
    PROVE  \A u \in Tasks : jobs[u] # <<>> => jobs'[u] # <<>>
<1>1. jobs \in [Tasks -> AtMostOne] /\ jobs[t] # <<>>
  BY DEF RefreshInv, JobsKnow, Waiting
<1>2. Head(jobs[t]) \in ActiveJob
  BY <1>1, ShortFacts
<1>3. PICK j \in ActiveJob : j = [Head(jobs[t]) EXCEPT !.elapsed = TRUE]
  BY <1>2 DEF ActiveJob
<1>4. jobs' = [jobs EXCEPT ![t] = <<j>> \o Tail(jobs[t])]
  BY <1>3 DEF Elapsed
<1>5. <<j>> \o Tail(jobs[t]) # <<>>
  BY <1>1, ShortFacts
<1> QED
  BY <1>1, <1>4, <1>5

-----------------------------------------------------------------------------
(* The steps                                                               *)

(* A job is added only to a task that has none.                             *)
LEMMA JobsStep == RefreshInv /\ [Next]_vars => JobsKnow'
<1> SUFFICES ASSUME RefreshInv, [Next]_vars PROVE JobsKnow'
  OBVIOUS
<1>1. CASE BeginPass
  BY <1>1 DEF BeginPass, RefreshInv, JobsKnow
<1>2. CASE CheckTask
  BY <1>2, TypeParts, NextTaskFacts
     DEF CheckTask, ReadyToEnqueue, RefreshInv, JobsKnow, Passes
<1>3. CASE EnqueueTask
  <2> DEFINE t == sched.task
  <2>1. t \in Tasks /\ jobs[t] = <<>> /\ jobs \in [Tasks -> AtMostOne]
    BY <1>3 DEF EnqueueTask, RefreshInv, JobsKnow, TypeOK
  <2>2. Append(jobs[t], NewJob) \in AtMostOne
    BY <2>1, NewRecords DEF AtMostOne
  <2>3. jobs' = jobs \/ jobs' = [jobs EXCEPT ![t] = Append(jobs[t], NewJob)]
    BY <1>3 DEF EnqueueTask
  <2>4. jobs' \in [Tasks -> AtMostOne]
    BY <2>1, <2>2, <2>3
  <2>5. sched'.pc = "defer"
    BY <1>3, TypeParts DEF EnqueueTask, Passes, RefreshInv
  <2> QED
    BY <2>4, <2>5 DEF JobsKnow
<1>4. CASE DeferTask
  BY <1>4, NextTaskFacts DEF DeferTask, RefreshInv, JobsKnow
<1>5. CASE PassStops
  BY <1>5, NewRecords DEF PassStops, RefreshInv, JobsKnow
<1>6. ASSUME NEW S \in SUBSET Tasks, LeaseBatch(S) PROVE JobsKnow'
  BY <1>6, LeaseJobs, TypeParts DEF LeaseBatch, RefreshInv, JobsKnow, Passes
<1>7. ASSUME NEW t \in Tasks, PickJob(t) PROVE JobsKnow'
  BY <1>7 DEF PickJob, RefreshInv, JobsKnow
<1>8. CASE SupersedeRuns
  BY <1>8 DEF SupersedeRuns, RefreshInv, JobsKnow
<1>9. CASE InsertRun
  BY <1>9 DEF InsertRun, RefreshInv, JobsKnow
<1>10. ASSUME NEW v \in Verdicts, Collect(v) PROVE JobsKnow'
  BY <1>10 DEF Collect, RefreshInv, JobsKnow
<1>11. CASE FinishRun
  BY <1>11 DEF FinishRun, RefreshInv, JobsKnow
<1>12. CASE SettleJob
  <2> DEFINE t == worker.task
  <2>1. t \in Tasks /\ jobs \in [Tasks -> AtMostOne] /\ sched \in Passes
    BY TypeParts DEF Workers, RefreshInv, JobsKnow
  <2>2. jobs[t] # <<>>
    BY <1>12, <2>1, TypeParts DEF SettleJob, RefreshInv, HoldsJobs, Workers
  <2>3. AfterSettle(t) \in AtMostOne
    BY <2>1, <2>2, SettleFacts
  <2>4. jobs' = jobs \/ jobs' = [jobs EXCEPT ![t] = AfterSettle(t)]
    BY <1>12 DEF SettleJob
  <2>5. jobs' \in [Tasks -> AtMostOne] /\ \A u \in Tasks : jobs[u] = <<>> => jobs'[u] = <<>>
    BY <2>1, <2>2, <2>3, <2>4
  <2> QED
    BY <1>12, <2>1, <2>5 DEF SettleJob, RefreshInv, JobsKnow, Passes
<1>13. CASE ReadStatus
  BY <1>13 DEF ReadStatus, RefreshInv, JobsKnow
<1>14. CASE RecordRefresh
  BY <1>14 DEF RecordRefresh, RefreshInv, JobsKnow
<1>15. CASE WorkerStops
  BY <1>15 DEF WorkerStops, RefreshInv, JobsKnow
<1>16. ASSUME NEW v \in {"retry", "dead"}, FailEarly(v) PROVE JobsKnow'
  BY <1>16 DEF FailEarly, RefreshInv, JobsKnow
<1>17. CASE CliInsert
  BY <1>17 DEF CliInsert, RefreshInv, JobsKnow
<1>18. CASE CliEnd
  BY <1>18 DEF CliEnd, RefreshInv, JobsKnow
<1>19. ASSUME NEW t \in Tasks, CliBegin(t) PROVE JobsKnow'
  BY <1>19 DEF CliBegin, RefreshInv, JobsKnow
<1>20. ASSUME NEW t \in Tasks, SlotTurns(t) PROVE JobsKnow'
  BY <1>20 DEF SlotTurns, RefreshInv, JobsKnow
<1>21. ASSUME NEW t \in Tasks, ComesDue(t) PROVE JobsKnow'
  BY <1>21 DEF ComesDue, RefreshInv, JobsKnow
<1>22. ASSUME NEW t \in Tasks, DelayPasses(t) PROVE JobsKnow'
  BY <1>22, ElapsedFacts, TypeParts DEF DelayPasses, RefreshInv, JobsKnow, Passes
<1>23. ASSUME NEW t \in Tasks, LeaseRunsOut(t) PROVE JobsKnow'
  BY <1>23, ElapsedFacts, TypeParts DEF LeaseRunsOut, RefreshInv, JobsKnow, Passes
<1>24. CASE UNCHANGED vars
  BY <1>24 DEF vars, RefreshInv, JobsKnow
<1> QED
  BY <1>1, <1>2, <1>3, <1>4, <1>5, <1>6, <1>7, <1>8, <1>9, <1>10, <1>11, <1>12,
     <1>13, <1>14, <1>15, <1>16, <1>17, <1>18, <1>19, <1>20, <1>21, <1>22, <1>23,
     <1>24 DEF Next, Scheduling, Working

(* Only the worker that holds a job takes it away.                          *)
LEMMA HoldsStep == RefreshInv /\ [Next]_vars => HoldsJobs'
<1> SUFFICES ASSUME RefreshInv, [Next]_vars PROVE HoldsJobs'
  OBVIOUS
<1>1. CASE BeginPass
  BY <1>1, TypeParts DEF BeginPass, RefreshInv, HoldsJobs, Workers
<1>2. CASE CheckTask
  BY <1>2, TypeParts DEF CheckTask, RefreshInv, HoldsJobs, Workers
<1>3. CASE EnqueueTask
  <2>1. sched.task \in Tasks /\ jobs \in [Tasks -> AtMostOne] /\ jobs[sched.task] = <<>>
    BY <1>3, TypeParts DEF EnqueueTask, RefreshInv, JobsKnow, Passes
  <2>2. Append(jobs[sched.task], NewJob) # <<>>
    BY <2>1
  <2>3. \A t \in Tasks : jobs[t] # <<>> => jobs'[t] # <<>>
    BY <1>3, <2>1, <2>2 DEF EnqueueTask
  <2> QED
    BY <1>3, <2>3, TypeParts DEF EnqueueTask, RefreshInv, HoldsJobs, Workers
<1>4. CASE DeferTask
  BY <1>4, TypeParts DEF DeferTask, RefreshInv, HoldsJobs, Workers
<1>5. CASE PassStops
  BY <1>5, TypeParts DEF PassStops, RefreshInv, HoldsJobs, Workers
<1>6. ASSUME NEW S \in SUBSET Tasks, LeaseBatch(S) PROVE HoldsJobs'
  <2>1. \A t \in Tasks : jobs[t] # <<>> => jobs'[t] # <<>>
    BY <1>6, LeaseJobsStay
  <2>2. worker'.pc = "next" /\ worker'.batch = S
    BY <1>6 DEF LeaseBatch, Gone
  <2>3. \A t \in S : jobs[t] # <<>>
    BY <1>6 DEF LeaseBatch, Ready
  <2>4. \A t \in S : jobs'[t] # <<>>
    BY <2>1, <2>3
  <2>5. ~(worker'.pc \in {"begin", "insert", "collect", "finish", "settle", "read", "write"})
    BY <2>2
  <2>6. \A t \in worker'.batch : jobs'[t] # <<>>
    BY <2>2, <2>4
  <2> QED
    BY <2>5, <2>6 DEF HoldsJobs
<1>7. ASSUME NEW t \in Tasks, PickJob(t) PROVE HoldsJobs'
  BY <1>7, TypeParts DEF PickJob, RefreshInv, HoldsJobs, Workers
<1>8. CASE SupersedeRuns
  BY <1>8, TypeParts DEF SupersedeRuns, RefreshInv, HoldsJobs, Workers
<1>9. CASE InsertRun
  BY <1>9, TypeParts DEF InsertRun, RefreshInv, HoldsJobs, Workers
<1>10. ASSUME NEW v \in Verdicts, Collect(v) PROVE HoldsJobs'
  BY <1>10, TypeParts DEF Collect, RefreshInv, HoldsJobs, Workers
<1>11. CASE FinishRun
  BY <1>11, TypeParts DEF FinishRun, RefreshInv, HoldsJobs, Workers
<1>12. CASE SettleJob
  <2> DEFINE t == worker.task
  <2>1. t \in Tasks /\ jobs \in [Tasks -> AtMostOne] /\ worker \in Workers
    BY TypeParts DEF Workers, RefreshInv, JobsKnow
  <2>2. CASE Head(jobs[t]).elapsed
    BY <1>12, <2>2 DEF SettleJob, HoldsJobs, Gone
  <2>3. CASE ~Head(jobs[t]).elapsed
    <3>1. jobs' = [jobs EXCEPT ![t] = AfterSettle(t)] /\ worker' = [worker EXCEPT !.pc = "read"]
      BY <1>12, <2>3 DEF SettleJob
    <3>2. worker'.pc = "read" /\ worker'.task = t /\ worker'.batch = worker.batch
      BY <2>1, <3>1 DEF Workers
    <3>3. \A u \in worker.batch : u # t => jobs'[u] = jobs[u]
      BY <2>1, <3>1 DEF Workers
    <3> QED
      BY <1>12, <2>1, <3>2, <3>3 DEF SettleJob, RefreshInv, HoldsJobs
  <2> QED
    BY <2>2, <2>3
<1>13. CASE ReadStatus
  BY <1>13, TypeParts DEF ReadStatus, RefreshInv, HoldsJobs, Workers
<1>14. CASE RecordRefresh
  <2> DEFINE rest == worker.batch \ {worker.task}
  <2>1. CASE rest = {}
    BY <1>14, <2>1 DEF RecordRefresh, HoldsJobs, Gone
  <2>2. CASE rest # {}
    <3>1. worker'.pc = "next" /\ worker'.batch = rest
      BY <1>14, <2>2 DEF RecordRefresh, Gone
    <3> QED
      BY <1>14, <3>1 DEF RecordRefresh, RefreshInv, HoldsJobs
  <2> QED
    BY <2>1, <2>2
<1>15. CASE WorkerStops
  BY <1>15 DEF WorkerStops, HoldsJobs, Gone
<1>16. ASSUME NEW v \in {"retry", "dead"}, FailEarly(v) PROVE HoldsJobs'
  BY <1>16, TypeParts DEF FailEarly, RefreshInv, HoldsJobs, Workers
<1>17. CASE CliInsert
  BY <1>17, TypeParts DEF CliInsert, RefreshInv, HoldsJobs, Workers
<1>18. CASE CliEnd
  BY <1>18, TypeParts DEF CliEnd, RefreshInv, HoldsJobs, Workers
<1>19. ASSUME NEW t \in Tasks, CliBegin(t) PROVE HoldsJobs'
  BY <1>19, TypeParts DEF CliBegin, RefreshInv, HoldsJobs, Workers
<1>20. ASSUME NEW t \in Tasks, SlotTurns(t) PROVE HoldsJobs'
  BY <1>20, TypeParts DEF SlotTurns, RefreshInv, HoldsJobs, Workers
<1>21. ASSUME NEW t \in Tasks, ComesDue(t) PROVE HoldsJobs'
  BY <1>21, TypeParts DEF ComesDue, RefreshInv, HoldsJobs, Workers
<1>22. ASSUME NEW t \in Tasks, DelayPasses(t) PROVE HoldsJobs'
  BY <1>22, ElapsedJobsStay, TypeParts DEF DelayPasses, RefreshInv, HoldsJobs, Workers
<1>23. ASSUME NEW t \in Tasks, LeaseRunsOut(t) PROVE HoldsJobs'
  BY <1>23, ElapsedJobsStay, TypeParts DEF LeaseRunsOut, RefreshInv, HoldsJobs, Workers
<1>24. CASE UNCHANGED vars
  BY <1>24, TypeParts DEF vars, RefreshInv, HoldsJobs, Workers
<1> QED
  BY <1>1, <1>2, <1>3, <1>4, <1>5, <1>6, <1>7, <1>8, <1>9, <1>10, <1>11, <1>12,
     <1>13, <1>14, <1>15, <1>16, <1>17, <1>18, <1>19, <1>20, <1>21, <1>22, <1>23,
     <1>24 DEF Next, Scheduling, Working
(* What the runs of a task become.                                         *)
RunTable == [Tasks -> [Actors -> RunStatus]]

LEMMA RunFacts ==
    ASSUME TypeOK, NEW t \in Tasks
    PROVE  /\ Superseded(t) \in RunTable
           /\ \A u \in Tasks : \A a \in Actors :
                 run[u][a] = "succeeded" => Superseded(t)[u][a] = "succeeded"
           /\ \A a \in Actors : Inserted(t, a) \in RunTable
           /\ \A a \in Actors : \A status \in {"succeeded", "failed"} :
                 Finished(t, a, status) \in RunTable
           /\ \A u \in Tasks : \A status \in {"succeeded", "failed"} :
                 /\ Inserted(t, "cli")[u]["worker"] = run[u]["worker"]
                 /\ Finished(t, "cli", status)[u]["worker"] = run[u]["worker"]
           /\ run[t]["worker"] = "running" =>
                 Finished(t, "worker", "succeeded")[t]["worker"] = "succeeded"
<1>1. run \in RunTable
  BY DEF TypeOK, RunTable
<1>2. Superseded(t) \in RunTable
      /\ \A u \in Tasks : \A a \in Actors :
            run[u][a] = "succeeded" => Superseded(t)[u][a] = "succeeded"
  BY <1>1 DEF Superseded, RunTable, RunStatus
<1>3. \A a \in Actors : Inserted(t, a) \in RunTable
  BY <1>1 DEF Inserted, RunTable, RunStatus
<1>4. \A a \in Actors : \A status \in {"succeeded", "failed"} :
         Finished(t, a, status) \in RunTable
  <2> SUFFICES ASSUME NEW a \in Actors, NEW status \in {"succeeded", "failed"}
               PROVE  Finished(t, a, status) \in RunTable
    OBVIOUS
  <2>1. PICK x \in RunStatus : x = (IF run[t][a] = "running" THEN status ELSE run[t][a])
    BY <1>1 DEF RunTable, RunStatus
  <2>2. [run[t] EXCEPT ![a] = x] \in [Actors -> RunStatus]
    BY <1>1, <2>1 DEF RunTable
  <2>3. Finished(t, a, status) = [run EXCEPT ![t] = [run[t] EXCEPT ![a] = x]]
    BY <1>1, <2>1 DEF Finished, RunTable
  <2> QED
    BY <1>1, <2>2, <2>3 DEF RunTable
<1>5. \A u \in Tasks : \A status \in {"succeeded", "failed"} :
         /\ Inserted(t, "cli")[u]["worker"] = run[u]["worker"]
         /\ Finished(t, "cli", status)[u]["worker"] = run[u]["worker"]
  BY <1>1 DEF Inserted, Finished, RunTable, Actors
<1>6. run[t]["worker"] = "running" =>
         Finished(t, "worker", "succeeded")[t]["worker"] = "succeeded"
  <2> SUFFICES ASSUME run[t]["worker"] = "running"
               PROVE  Finished(t, "worker", "succeeded")[t]["worker"] = "succeeded"
    OBVIOUS
  <2>1. Finished(t, "worker", "succeeded")
        = [run EXCEPT ![t] = [run[t] EXCEPT !["worker"] = "succeeded"]]
    BY <1>1 DEF Finished, RunTable, Actors
  <2>2. run[t] \in [Actors -> RunStatus] /\ "worker" \in Actors
    BY <1>1 DEF RunTable, Actors
  <2> QED
    BY <1>1, <2>1, <2>2 DEF RunTable
<1> QED
  BY <1>2, <1>3, <1>4, <1>5, <1>6

(* A job is completed only for a run that was finalised as succeeded.      *)
LEMMA RunsStep == RefreshInv /\ [Next]_vars => CompletesSucceededRun'
<1> SUFFICES ASSUME RefreshInv, [Next]_vars PROVE CompletesSucceededRun'
  OBVIOUS
<1>1. CASE BeginPass
  BY <1>1, TypeParts DEF BeginPass, RefreshInv, CompletesSucceededRun, Workers
<1>2. CASE CheckTask
  BY <1>2, TypeParts DEF CheckTask, RefreshInv, CompletesSucceededRun, Workers
<1>3. CASE EnqueueTask
  BY <1>3, TypeParts DEF EnqueueTask, RefreshInv, CompletesSucceededRun, Workers
<1>4. CASE DeferTask
  BY <1>4, TypeParts DEF DeferTask, RefreshInv, CompletesSucceededRun, Workers
<1>5. CASE PassStops
  BY <1>5, TypeParts DEF PassStops, RefreshInv, CompletesSucceededRun, Workers
<1>6. ASSUME NEW S \in SUBSET Tasks, LeaseBatch(S) PROVE CompletesSucceededRun'
  BY <1>6 DEF LeaseBatch, Gone, CompletesSucceededRun
<1>7. ASSUME NEW t \in Tasks, PickJob(t) PROVE CompletesSucceededRun'
  BY <1>7, TypeParts DEF PickJob, RefreshInv, CompletesSucceededRun, Workers
<1>8. CASE SupersedeRuns
  BY <1>8, TypeParts DEF SupersedeRuns, RefreshInv, CompletesSucceededRun, Workers
<1>9. CASE InsertRun
  BY <1>9, TypeParts DEF InsertRun, RefreshInv, CompletesSucceededRun, Workers
<1>10. ASSUME NEW v \in Verdicts, Collect(v) PROVE CompletesSucceededRun'
  BY <1>10, TypeParts DEF Collect, RefreshInv, CompletesSucceededRun, Workers
<1>11. CASE FinishRun
  <2> DEFINE t == worker.task
  <2>1. worker' = [worker EXCEPT !.pc = "settle", !.verdict = FinishVerdict]
    BY <1>11 DEF FinishRun
  <2>2. t \in Tasks /\ worker'.task = t /\ worker'.verdict = FinishVerdict
    BY <2>1, TypeParts DEF RefreshInv, Workers
  <2> SUFFICES ASSUME FinishVerdict = "ok" PROVE run'[t]["worker"] = "succeeded"
    BY <2>2 DEF CompletesSucceededRun
  <2>3. worker.verdict = "ok" /\ run[t]["worker"] = "running"
    BY DEF FinishVerdict
  <2>4. run' = Finished(t, "worker", "succeeded")
    BY <1>11, <2>3 DEF FinishRun
  <2> QED
    BY <2>2, <2>3, <2>4, RunFacts DEF RefreshInv
<1>12. CASE SettleJob
  BY <1>12, TypeParts DEF SettleJob, Gone, RefreshInv, CompletesSucceededRun, Workers
<1>13. CASE ReadStatus
  BY <1>13, TypeParts DEF ReadStatus, RefreshInv, CompletesSucceededRun, Workers
<1>14. CASE RecordRefresh
  BY <1>14 DEF RecordRefresh, Gone, CompletesSucceededRun
<1>15. CASE WorkerStops
  BY <1>15 DEF WorkerStops, Gone, CompletesSucceededRun
<1>16. ASSUME NEW v \in {"retry", "dead"}, FailEarly(v) PROVE CompletesSucceededRun'
  BY <1>16, TypeParts DEF FailEarly, RefreshInv, CompletesSucceededRun, Workers
<1>17. CASE CliInsert
  <2>1. cli.task \in Tasks /\ worker.task \in Tasks
    BY TypeParts DEF RefreshInv, TypeOK, Workers
  <2> QED
    BY <1>17, <2>1, RunFacts DEF CliInsert, RefreshInv, CompletesSucceededRun
<1>18. CASE CliEnd
  <2>1. cli.task \in Tasks /\ worker.task \in Tasks
    BY TypeParts DEF RefreshInv, TypeOK, Workers
  <2> QED
    BY <1>18, <2>1, RunFacts DEF CliEnd, RefreshInv, CompletesSucceededRun
<1>19. ASSUME NEW t \in Tasks, CliBegin(t) PROVE CompletesSucceededRun'
  BY <1>19, RunFacts, TypeParts
     DEF CliBegin, RefreshInv, CompletesSucceededRun, Workers, Actors
<1>20. ASSUME NEW t \in Tasks, SlotTurns(t) PROVE CompletesSucceededRun'
  BY <1>20, TypeParts DEF SlotTurns, RefreshInv, CompletesSucceededRun, Workers
<1>21. ASSUME NEW t \in Tasks, ComesDue(t) PROVE CompletesSucceededRun'
  BY <1>21, TypeParts DEF ComesDue, RefreshInv, CompletesSucceededRun, Workers
<1>22. ASSUME NEW t \in Tasks, DelayPasses(t) PROVE CompletesSucceededRun'
  BY <1>22, TypeParts DEF DelayPasses, RefreshInv, CompletesSucceededRun, Workers
<1>23. ASSUME NEW t \in Tasks, LeaseRunsOut(t) PROVE CompletesSucceededRun'
  BY <1>23, TypeParts DEF LeaseRunsOut, RefreshInv, CompletesSucceededRun, Workers
<1>24. CASE UNCHANGED vars
  BY <1>24, TypeParts DEF vars, RefreshInv, CompletesSucceededRun, Workers
<1> QED
  BY <1>1, <1>2, <1>3, <1>4, <1>5, <1>6, <1>7, <1>8, <1>9, <1>10, <1>11, <1>12,
     <1>13, <1>14, <1>15, <1>16, <1>17, <1>18, <1>19, <1>20, <1>21, <1>22, <1>23,
     <1>24 DEF Next, Scheduling, Working

(* A success in the table, in a pass or in a worker is earned.             *)
LEMMA SuccessStep == RefreshInv /\ [Next]_vars => SuccessKnow'
<1> SUFFICES ASSUME RefreshInv, [Next]_vars PROVE SuccessKnow'
  OBVIOUS
<1>1. CASE BeginPass
  <2>1. sched'.seen = row /\ row' = row /\ worker' = worker /\ earned' = earned
    BY <1>1 DEF BeginPass
  <2> QED
    BY <2>1 DEF RefreshInv, SuccessKnow, SuccessIsEarned
<1>2. CASE CheckTask
  <2>1. \A t \in Tasks : sched'.seen[t].success => sched.seen[t].success
    BY <1>2, TypeParts, NextTaskFacts DEF CheckTask, RefreshInv, Passes
  <2> QED
    BY <1>2, <2>1 DEF CheckTask, RefreshInv, SuccessKnow, SuccessIsEarned
<1>3. CASE EnqueueTask
  BY <1>3, TypeParts DEF EnqueueTask, RefreshInv, SuccessKnow, SuccessIsEarned, Passes
<1>4. CASE DeferTask
  <2> DEFINE d == sched.task
  <2>1. d \in Tasks /\ row \in [Tasks -> Row] /\ worker.task \in Tasks
    BY TypeParts DEF RefreshInv, TypeOK, Passes, Workers
  <2>2. \A t \in Tasks : t # d => row'[t] = row[t]
    BY <1>4, <2>1 DEF DeferTask
  <2>3. row'[d].success = sched.seen[d].success
    BY <1>4, <2>1 DEF DeferTask
  <2>4. \A t \in Tasks : row'[t].success => row[t].success
    BY <2>1, <2>2, <2>3 DEF RefreshInv, SuccessKnow
  <2>5. \A t \in Tasks : NextTask.seen[t].success => row'[t].success
    BY <2>2, <2>3, NextTaskFacts DEF RefreshInv, SuccessKnow
  <2> QED
    BY <1>4, <2>1, <2>4, <2>5 DEF DeferTask, RefreshInv, SuccessKnow, SuccessIsEarned
<1>5. CASE PassStops
  <2>1. \A t \in Tasks : ~sched'.seen[t].success
    BY <1>5, NewRecords DEF PassStops
  <2> QED
    BY <1>5, <2>1 DEF PassStops, RefreshInv, SuccessKnow, SuccessIsEarned
<1>6. ASSUME NEW S \in SUBSET Tasks, LeaseBatch(S) PROVE SuccessKnow'
  BY <1>6 DEF LeaseBatch, Gone, RefreshInv, SuccessKnow, SuccessIsEarned
<1>7. ASSUME NEW t \in Tasks, PickJob(t) PROVE SuccessKnow'
  BY <1>7, TypeParts DEF PickJob, RefreshInv, SuccessKnow, SuccessIsEarned, Workers
<1>8. CASE SupersedeRuns
  BY <1>8, TypeParts DEF SupersedeRuns, RefreshInv, SuccessKnow, SuccessIsEarned, Workers
<1>9. CASE InsertRun
  BY <1>9, TypeParts DEF InsertRun, RefreshInv, SuccessKnow, SuccessIsEarned, Workers
<1>10. ASSUME NEW v \in Verdicts, Collect(v) PROVE SuccessKnow'
  BY <1>10, TypeParts DEF Collect, RefreshInv, SuccessKnow, SuccessIsEarned, Workers
<1>11. CASE FinishRun
  BY <1>11, TypeParts DEF FinishRun, RefreshInv, SuccessKnow, SuccessIsEarned, Workers
<1>12. CASE SettleJob
  <2>1. worker.task \in Tasks /\ earned \in [Tasks -> BOOLEAN] /\ worker \in Workers
    BY TypeParts DEF RefreshInv, TypeOK, Workers
  <2>2. CASE Head(jobs[worker.task]).elapsed
    BY <1>12, <2>2 DEF SettleJob, Gone, RefreshInv, SuccessKnow, SuccessIsEarned
  <2>3. CASE ~Head(jobs[worker.task]).elapsed
    <3>1. worker' = [worker EXCEPT !.pc = "read"]
          /\ earned' = [earned EXCEPT ![worker.task] = @ \/ worker.verdict = "ok"]
          /\ UNCHANGED <<row, sched>>
      BY <1>12, <2>3 DEF SettleJob
    <3>2. \A t \in Tasks : earned[t] => earned'[t]
      BY <2>1, <3>1
    <3>3. worker.verdict = "ok" => earned'[worker.task]
      BY <2>1, <3>1
    <3>4. worker'.pc = "read" /\ worker'.task = worker.task /\ worker'.verdict = worker.verdict
      BY <2>1, <3>1 DEF Workers
    <3> QED
      BY <3>1, <3>2, <3>3, <3>4 DEF RefreshInv, SuccessKnow, SuccessIsEarned
  <2> QED
    BY <2>2, <2>3
<1>13. CASE ReadStatus
  <2>1. worker \in Workers /\ worker.task \in Tasks
    BY TypeParts DEF RefreshInv, Workers
  <2>2. worker' = [worker EXCEPT !.pc = "write", !.seen = row[worker.task]]
    BY <1>13 DEF ReadStatus
  <2>3. worker'.seen = row[worker.task] /\ worker'.task = worker.task
        /\ worker'.verdict = worker.verdict
    BY <2>1, <2>2 DEF Workers
  <2> QED
    BY <1>13, <2>1, <2>3 DEF ReadStatus, RefreshInv, SuccessKnow, SuccessIsEarned
<1>14. CASE RecordRefresh
  <2> DEFINE t == worker.task
  <2>1. t \in Tasks /\ row \in [Tasks -> Row]
    BY TypeParts DEF RefreshInv, TypeOK, Workers
  <2>2. \A u \in Tasks : u # t => row'[u] = row[u]
    BY <1>14, <2>1 DEF RecordRefresh
  <2>3. row'[t].success = (worker.verdict = "ok" \/ worker.seen.success)
    BY <1>14, <2>1 DEF RecordRefresh, RecordedRow
  <2>4. row'[t].success => earned[t]
    BY <1>14, <2>3 DEF RecordRefresh, RefreshInv, SuccessKnow
  <2>5. \A u \in Tasks : row[u].success => row'[u].success
    BY <1>14, <2>2, <2>3 DEF RecordRefresh, RefreshInv, SuccessKnow
  <2>6. worker'.pc \in {"idle", "next"}
    BY <1>14 DEF RecordRefresh, Gone
  <2>7. sched' = sched /\ earned' = earned
    BY <1>14 DEF RecordRefresh
  <2> QED
    BY <2>1, <2>2, <2>4, <2>5, <2>6, <2>7 DEF RefreshInv, SuccessKnow, SuccessIsEarned
<1>15. CASE WorkerStops
  BY <1>15 DEF WorkerStops, Gone, RefreshInv, SuccessKnow, SuccessIsEarned
<1>16. ASSUME NEW v \in {"retry", "dead"}, FailEarly(v) PROVE SuccessKnow'
  BY <1>16, TypeParts DEF FailEarly, RefreshInv, SuccessKnow, SuccessIsEarned, Workers
<1>17. CASE CliInsert
  BY <1>17, TypeParts DEF CliInsert, RefreshInv, SuccessKnow, SuccessIsEarned, Workers
<1>18. CASE CliEnd
  BY <1>18, TypeParts DEF CliEnd, RefreshInv, SuccessKnow, SuccessIsEarned, Workers
<1>19. ASSUME NEW t \in Tasks, CliBegin(t) PROVE SuccessKnow'
  BY <1>19, TypeParts DEF CliBegin, RefreshInv, SuccessKnow, SuccessIsEarned, Workers
<1>20. ASSUME NEW t \in Tasks, SlotTurns(t) PROVE SuccessKnow'
  BY <1>20, TypeParts DEF SlotTurns, RefreshInv, SuccessKnow, SuccessIsEarned, Workers
<1>21. ASSUME NEW t \in Tasks, ComesDue(t) PROVE SuccessKnow'
  <2>1. row \in [Tasks -> Row] /\ worker \in Workers
    BY TypeParts DEF RefreshInv, TypeOK
  <2>2. \A u \in Tasks : row'[u].success = row[u].success
    BY <1>21, <2>1 DEF ComesDue, Row
  <2>3. worker'.seen.success = worker.seen.success /\ worker'.pc = worker.pc
        /\ worker'.task = worker.task /\ worker'.verdict = worker.verdict
    <3>1. CASE worker.task = t
      BY <1>21, <2>1, <3>1 DEF ComesDue, Workers, Row
    <3>2. CASE worker.task # t
      BY <1>21, <3>2 DEF ComesDue
    <3> QED
      BY <3>1, <3>2
  <2>4. worker.task \in Tasks /\ sched' = sched /\ earned' = earned
    BY <1>21, <2>1 DEF ComesDue, Workers
  <2> QED
    BY <2>2, <2>3, <2>4 DEF RefreshInv, SuccessKnow, SuccessIsEarned
<1>22. ASSUME NEW t \in Tasks, DelayPasses(t) PROVE SuccessKnow'
  BY <1>22, TypeParts DEF DelayPasses, RefreshInv, SuccessKnow, SuccessIsEarned, Workers
<1>23. ASSUME NEW t \in Tasks, LeaseRunsOut(t) PROVE SuccessKnow'
  BY <1>23, TypeParts DEF LeaseRunsOut, RefreshInv, SuccessKnow, SuccessIsEarned, Workers
<1>24. CASE UNCHANGED vars
  BY <1>24, TypeParts DEF vars, RefreshInv, SuccessKnow, SuccessIsEarned, Workers
<1> QED
  BY <1>1, <1>2, <1>3, <1>4, <1>5, <1>6, <1>7, <1>8, <1>9, <1>10, <1>11, <1>12,
     <1>13, <1>14, <1>15, <1>16, <1>17, <1>18, <1>19, <1>20, <1>21, <1>22, <1>23,
     <1>24 DEF Next, Scheduling, Working
(* Everything TypeOK says but for the jobs, which JobsKnow bounds.         *)
Parts ==
    /\ keyUsed \in [Tasks -> BOOLEAN]
    /\ row \in [Tasks -> Row]
    /\ run \in RunTable
    /\ sched \in Passes
    /\ worker \in Workers
    /\ cli \in [pc : {"idle", "insert", "collect"}, task : Tasks]
    /\ faults \in 0 .. MaxFaults
    /\ earned \in [Tasks -> BOOLEAN]

LEMMA PartsOfType == TypeOK <=> jobs \in [Tasks -> Seq(ActiveJob)] /\ Parts
BY DEF TypeOK, Parts, RunTable, Passes, Workers

LEMMA OneMoreFault ==
    ASSUME Parts, Fault
    PROVE  faults' \in 0 .. MaxFaults
BY CycleAssumption DEF Parts, Fault

(* The rest of the state keeps its type.                                   *)
LEMMA PartsStep == RefreshInv /\ [Next]_vars => Parts'
<1> SUFFICES ASSUME RefreshInv, [Next]_vars PROVE Parts'
  OBVIOUS
<1>1. CASE BeginPass
  BY <1>1, TaskFacts, PartsOfType DEF BeginPass, RefreshInv, Parts, Passes
<1>2. CASE CheckTask
  BY <1>2, NextTaskFacts, PartsOfType DEF CheckTask, RefreshInv, Parts, Passes
<1>3. CASE EnqueueTask
  BY <1>3, PartsOfType DEF EnqueueTask, RefreshInv, Parts, Passes
<1>4. CASE DeferTask
  <2>1. [success |-> sched.seen[sched.task].success, later |-> TRUE] \in Row
    BY PartsOfType DEF RefreshInv, Parts, Passes, Row
  <2>2. row' \in [Tasks -> Row]
    BY <1>4, <2>1, PartsOfType DEF DeferTask, RefreshInv, Parts
  <2> QED
    BY <1>4, <2>2, NextTaskFacts, PartsOfType DEF DeferTask, RefreshInv, Parts
<1>5. CASE PassStops
  BY <1>5, NewRecords, OneMoreFault, PartsOfType DEF PassStops, RefreshInv, Parts
<1>6. ASSUME NEW S \in SUBSET Tasks, LeaseBatch(S) PROVE Parts'
  <2>1. worker' \in Workers
    BY <1>6, NewRecords DEF LeaseBatch, Workers
  <2> QED
    BY <1>6, <2>1, PartsOfType DEF LeaseBatch, RefreshInv, Parts
<1>7. ASSUME NEW t \in Tasks, PickJob(t) PROVE Parts'
  BY <1>7, PartsOfType DEF PickJob, RefreshInv, Parts, Workers
<1>8. CASE SupersedeRuns
  <2>1. worker.task \in Tasks
    BY TypeParts DEF RefreshInv, Workers
  <2> QED
    BY <1>8, <2>1, RunFacts, PartsOfType DEF SupersedeRuns, RefreshInv, Parts, Workers
<1>9. CASE InsertRun
  <2>1. worker.task \in Tasks
    BY TypeParts DEF RefreshInv, Workers
  <2> QED
    BY <1>9, <2>1, RunFacts, PartsOfType DEF InsertRun, RefreshInv, Parts, Workers, Actors
<1>10. ASSUME NEW v \in Verdicts, Collect(v) PROVE Parts'
  BY <1>10, PartsOfType DEF Collect, RefreshInv, Parts, Workers
<1>11. CASE FinishRun
  <2>1. worker.task \in Tasks /\ FinishVerdict \in Verdicts
    BY TypeParts DEF RefreshInv, Workers, FinishVerdict, Verdicts
  <2>2. run' \in RunTable
    BY <1>11, <2>1, RunFacts DEF FinishRun, RefreshInv, Actors
  <2>3. worker' \in Workers
    BY <1>11, <2>1, TypeParts DEF FinishRun, RefreshInv, Workers
  <2> QED
    BY <1>11, <2>2, <2>3, PartsOfType DEF FinishRun, RefreshInv, Parts
<1>12. CASE SettleJob
  <2>1. worker' \in Workers
    BY <1>12, NewRecords, TypeParts DEF SettleJob, RefreshInv, Workers
  <2>2. earned' \in [Tasks -> BOOLEAN]
    BY <1>12, PartsOfType DEF SettleJob, RefreshInv, Parts
  <2> QED
    BY <1>12, <2>1, <2>2, PartsOfType DEF SettleJob, RefreshInv, Parts
<1>13. CASE ReadStatus
  BY <1>13, PartsOfType DEF ReadStatus, RefreshInv, Parts, Workers
<1>14. CASE RecordRefresh
  <2>1. RecordedRow \in Row
    BY TypeParts DEF RecordedRow, RefreshInv, Workers, Row
  <2>2. worker' \in Workers
    BY <1>14, NewRecords, TypeParts DEF RecordRefresh, RefreshInv, Workers
  <2> QED
    BY <1>14, <2>1, <2>2, PartsOfType DEF RecordRefresh, RefreshInv, Parts
<1>15. CASE WorkerStops
  BY <1>15, NewRecords, OneMoreFault, PartsOfType DEF WorkerStops, RefreshInv, Parts
<1>16. ASSUME NEW v \in {"retry", "dead"}, FailEarly(v) PROVE Parts'
  BY <1>16, OneMoreFault, PartsOfType DEF FailEarly, RefreshInv, Parts, Workers, Verdicts
<1>17. CASE CliInsert
  BY <1>17, RunFacts, PartsOfType DEF CliInsert, RefreshInv, Parts, Actors
<1>18. CASE CliEnd
  <2>1. run' \in RunTable
    BY <1>18, RunFacts, PartsOfType DEF CliEnd, RefreshInv, Parts, Actors
  <2> QED
    BY <1>18, <2>1, TaskFacts, PartsOfType DEF CliEnd, RefreshInv, Parts
<1>19. ASSUME NEW t \in Tasks, CliBegin(t) PROVE Parts'
  <2>1. cli' \in [pc : {"idle", "insert", "collect"}, task : Tasks]
    BY <1>19 DEF CliBegin
  <2> QED
    BY <1>19, <2>1, OneMoreFault, RunFacts, PartsOfType DEF CliBegin, RefreshInv, Parts
<1>20. ASSUME NEW t \in Tasks, SlotTurns(t) PROVE Parts'
  BY <1>20, PartsOfType DEF SlotTurns, RefreshInv, Parts
<1>21. ASSUME NEW t \in Tasks, ComesDue(t) PROVE Parts'
  <2>1. row' \in [Tasks -> Row]
    BY <1>21, PartsOfType DEF ComesDue, RefreshInv, Parts, Row
  <2>2. worker' \in Workers
    BY <1>21, TypeParts DEF ComesDue, RefreshInv, Workers, Row
  <2> QED
    BY <1>21, <2>1, <2>2, PartsOfType DEF ComesDue, RefreshInv, Parts
<1>22. ASSUME NEW t \in Tasks, DelayPasses(t) PROVE Parts'
  BY <1>22, PartsOfType DEF DelayPasses, RefreshInv, Parts, Workers
<1>23. ASSUME NEW t \in Tasks, LeaseRunsOut(t) PROVE Parts'
  BY <1>23, OneMoreFault, PartsOfType DEF LeaseRunsOut, RefreshInv, Parts
<1>24. CASE UNCHANGED vars
  BY <1>24, PartsOfType DEF vars, RefreshInv, Parts, Workers
<1> QED
  BY <1>1, <1>2, <1>3, <1>4, <1>5, <1>6, <1>7, <1>8, <1>9, <1>10, <1>11, <1>12,
     <1>13, <1>14, <1>15, <1>16, <1>17, <1>18, <1>19, <1>20, <1>21, <1>22, <1>23,
     <1>24 DEF Next, Scheduling, Working

(* The inductive invariant.                                                *)
THEOREM RefreshInvariant == Spec => []RefreshInv
<1>1. RefreshInv /\ [Next]_vars => RefreshInv'
  <2> SUFFICES ASSUME RefreshInv, [Next]_vars PROVE RefreshInv'
    OBVIOUS
  <2>1. JobsKnow' /\ HoldsJobs' /\ CompletesSucceededRun' /\ SuccessKnow' /\ Parts'
    BY JobsStep, HoldsStep, RunsStep, SuccessStep, PartsStep
  <2>2. jobs' \in [Tasks -> Seq(ActiveJob)]
    BY <2>1, ShortIsSeq DEF JobsKnow
  <2>3. TypeOK'
    BY <2>1, <2>2 DEF TypeOK, Parts, RunTable, Passes, Workers
  <2> QED
    BY <2>1, <2>3 DEF RefreshInv
<1> QED
  BY RefreshInitInv, <1>1, PTL DEF Spec

(* OneActiveJob: whatever the interleaving of passes, workers, operators,  *)
(* crashes and stale status rows, no task ever has two live jobs.          *)
THEOREM OneJobAtATime == Spec => []OneActiveJob
<1>1. RefreshInv => OneActiveJob
  <2> SUFFICES ASSUME RefreshInv, NEW t \in Tasks PROVE Len(jobs[t]) <= 1
    BY DEF OneActiveJob
  <2>1. jobs[t] \in AtMostOne
    BY DEF RefreshInv, JobsKnow
  <2> HIDE DEF ActiveJob
  <2>2. CASE jobs[t] = <<>>
    BY <2>2
  <2>3. CASE \E j \in ActiveJob : jobs[t] = <<j>>
    BY <2>3
  <2> QED
    BY <2>1, <2>2, <2>3 DEF AtMostOne
<1> QED
  BY RefreshInvariant, <1>1, PTL

(* SuccessIsEarned: a row that shows a success belongs to a task one of    *)
(* whose jobs was completed.                                               *)
THEOREM SuccessEarned == Spec => []SuccessIsEarned
<1>1. RefreshInv => SuccessIsEarned
  BY DEF RefreshInv, SuccessKnow
<1> QED
  BY RefreshInvariant, <1>1, PTL

(* CompletesSucceededRun: a job is completed only for a source run that    *)
(* was finalised as succeeded, never for one superseded by hand.           *)
THEOREM CompletedRunSucceeded == Spec => []CompletesSucceededRun
<1>1. RefreshInv => CompletesSucceededRun
  BY DEF RefreshInv
<1> QED
  BY RefreshInvariant, <1>1, PTL

LosesStale ==
    \A t \in Tasks :
        row[t].success /\ ~row'[t].success =>
            sched.pc = "defer" /\ sched.task = t /\ ~sched.seen[t].success

LEMMA LossStep == RefreshInv /\ [Next]_vars => LosesStale
<1> SUFFICES ASSUME RefreshInv, [Next]_vars PROVE LosesStale
  OBVIOUS
<1>1. CASE BeginPass
  BY <1>1 DEF BeginPass, LosesStale
<1>2. CASE CheckTask
  BY <1>2 DEF CheckTask, LosesStale
<1>3. CASE EnqueueTask
  BY <1>3 DEF EnqueueTask, LosesStale
<1>4. CASE DeferTask
  <2>1. sched.task \in Tasks /\ row \in [Tasks -> Row]
    BY PartsOfType DEF RefreshInv, Parts, Passes
  <2>2. \A t \in Tasks : t # sched.task => row'[t] = row[t]
    BY <1>4, <2>1 DEF DeferTask
  <2>3. row'[sched.task].success = sched.seen[sched.task].success
    BY <1>4, <2>1 DEF DeferTask
  <2> QED
    BY <1>4, <2>2, <2>3 DEF DeferTask, LosesStale
<1>5. CASE PassStops
  BY <1>5 DEF PassStops, LosesStale
<1>6. ASSUME NEW S \in SUBSET Tasks, LeaseBatch(S) PROVE LosesStale
  BY <1>6 DEF LeaseBatch, LosesStale
<1>7. ASSUME NEW t \in Tasks, PickJob(t) PROVE LosesStale
  BY <1>7 DEF PickJob, LosesStale
<1>8. CASE SupersedeRuns
  BY <1>8 DEF SupersedeRuns, LosesStale
<1>9. CASE InsertRun
  BY <1>9 DEF InsertRun, LosesStale
<1>10. ASSUME NEW v \in Verdicts, Collect(v) PROVE LosesStale
  BY <1>10 DEF Collect, LosesStale
<1>11. CASE FinishRun
  BY <1>11 DEF FinishRun, LosesStale
<1>12. CASE SettleJob
  BY <1>12 DEF SettleJob, LosesStale
<1>13. CASE ReadStatus
  BY <1>13 DEF ReadStatus, LosesStale
<1>14. CASE RecordRefresh
  <2>1. worker.task \in Tasks /\ row \in [Tasks -> Row]
    BY PartsOfType DEF RefreshInv, Parts, Workers
  <2>2. row' = [row EXCEPT ![worker.task] = RecordedRow]
    BY <1>14 DEF RecordRefresh
  <2>3. row[worker.task].success => RecordedRow.success
    BY <1>14 DEF RecordRefresh, RecordedRow, RefreshInv, SuccessKnow
  <2> QED
    BY <2>1, <2>2, <2>3 DEF LosesStale
<1>15. CASE WorkerStops
  BY <1>15 DEF WorkerStops, LosesStale
<1>16. ASSUME NEW v \in {"retry", "dead"}, FailEarly(v) PROVE LosesStale
  BY <1>16 DEF FailEarly, LosesStale
<1>17. CASE CliInsert
  BY <1>17 DEF CliInsert, LosesStale
<1>18. CASE CliEnd
  BY <1>18 DEF CliEnd, LosesStale
<1>19. ASSUME NEW t \in Tasks, CliBegin(t) PROVE LosesStale
  BY <1>19 DEF CliBegin, LosesStale
<1>20. ASSUME NEW t \in Tasks, SlotTurns(t) PROVE LosesStale
  BY <1>20 DEF SlotTurns, LosesStale
<1>21. ASSUME NEW t \in Tasks, ComesDue(t) PROVE LosesStale
  <2>1. \A u \in Tasks : row'[u].success = row[u].success
    BY <1>21, PartsOfType DEF ComesDue, RefreshInv, Parts, Row
  <2> QED
    BY <2>1 DEF LosesStale
<1>22. ASSUME NEW t \in Tasks, DelayPasses(t) PROVE LosesStale
  BY <1>22 DEF DelayPasses, LosesStale
<1>23. ASSUME NEW t \in Tasks, LeaseRunsOut(t) PROVE LosesStale
  BY <1>23 DEF LeaseRunsOut, LosesStale
<1>24. CASE UNCHANGED vars
  BY <1>24 DEF vars, LosesStale
<1> QED
  BY <1>1, <1>2, <1>3, <1>4, <1>5, <1>6, <1>7, <1>8, <1>9, <1>10, <1>11, <1>12,
     <1>13, <1>14, <1>15, <1>16, <1>17, <1>18, <1>19, <1>20, <1>21, <1>22, <1>23,
     <1>24 DEF Next, Scheduling, Working

(* OnlyStalePassLosesSuccess: a recorded success disappears only in the    *)
(* write of a scheduler pass that read the row before it was recorded.     *)
THEOREM OnlyAStalePassLoses == Spec => OnlyStalePassLosesSuccess
<1>1. RefreshInv /\ [Next]_vars => [LosesStale]_vars
  BY LossStep
<1>2. Spec => [][LosesStale]_vars
  BY RefreshInvariant, <1>1, PTL DEF Spec
<1> QED
  BY <1>2 DEF OnlyStalePassLosesSuccess, LosesStale

-----------------------------------------------------------------------------
(* When the scheduler keeps what it should: SuccessIsKept is false of the  *)
(* code, and this is all that it takes to break it.                        *)

\* No first success of a task is recorded between a pass's reading of the
\* rows and its write of that task's row.
RecordedOutsidePass ==
    \A t \in Tasks :
        ~row[t].success /\ row'[t].success => sched.pc = "idle" \/ t < sched.task

(* What a pass has still to write agrees with the rows.                    *)
PassUpToDate ==
    sched.pc # "idle" =>
        \A t \in Tasks : t >= sched.task /\ row[t].success => sched.seen[t].success

(* The part of a pass that remains when it goes on to the next task.       *)
LEMMA GoesOn ==
    ASSUME TypeOK, PassUpToDate, sched.pc # "idle", sched' = NextTask,
           \A t \in Tasks : t # sched.task => row'[t] = row[t]
    PROVE  PassUpToDate'
<1>1. CASE sched.task = NumTasks
  BY <1>1, NewRecords DEF NextTask, PassUpToDate
<1>2. CASE sched.task # NumTasks
  <2> DEFINE d == sched.task
             seen == [sched.seen EXCEPT ![d] = NewRow]
  <2>1. sched'.task = d + 1 /\ sched'.seen = seen
    BY <1>2 DEF NextTask
  <2>2. d \in Nat /\ Tasks \subseteq Nat /\ sched.seen \in [Tasks -> Row]
    BY TypeParts DEF Passes, Tasks
  <2>3. ASSUME NEW t \in Tasks, t >= d + 1, row'[t].success
        PROVE  seen[t].success
    <3>1. t # d /\ t >= d
      BY <2>2, <2>3
    <3>2. row[t].success /\ seen[t] = sched.seen[t]
      BY <2>2, <2>3, <3>1
    <3> QED
      BY <3>1, <3>2 DEF PassUpToDate
  <2> HIDE DEF d, seen
  <2> QED
    BY <2>1, <2>3 DEF PassUpToDate
<1> QED
  BY <1>1, <1>2

LEMMA UpToDateStep ==
    ASSUME RefreshInv, PassUpToDate, [Next]_vars, [RecordedOutsidePass]_vars
    PROVE  PassUpToDate'
<1>1. CASE sched' = sched
  <2>1. RecordedOutsidePass \/ row' = row
    BY DEF vars
  <2>2. sched.task \in Nat /\ Tasks \subseteq Nat
    BY TypeParts DEF RefreshInv, Passes, Tasks
  <2> QED
    BY <1>1, <2>1, <2>2 DEF RecordedOutsidePass, PassUpToDate
<1>2. CASE BeginPass
  BY <1>2 DEF BeginPass, PassUpToDate
<1>3. CASE CheckTask
  <2>1. CASE sched' = NextTask
    BY <1>3, <2>1, GoesOn DEF CheckTask, RefreshInv
  <2>2. CASE sched' # NextTask
    <3>1. sched'.task = sched.task /\ sched'.seen = sched.seen /\ row' = row
          /\ sched.pc # "idle"
      BY <1>3, <2>2, TypeParts DEF CheckTask, RefreshInv, Passes
    <3> QED
      BY <3>1 DEF PassUpToDate
  <2> QED
    BY <2>1, <2>2
<1>4. CASE EnqueueTask
  <2>1. sched'.task = sched.task /\ sched'.seen = sched.seen /\ row' = row
        /\ sched.pc # "idle"
    BY <1>4, TypeParts DEF EnqueueTask, RefreshInv, Passes
  <2> QED
    BY <2>1 DEF PassUpToDate
<1>5. CASE DeferTask
  <2>1. sched.task \in Tasks /\ row \in [Tasks -> Row]
    BY TypeParts DEF RefreshInv, TypeOK, Passes
  <2>2. \A t \in Tasks : t # sched.task => row'[t] = row[t]
    BY <1>5, <2>1 DEF DeferTask
  <2> QED
    BY <1>5, <2>2, GoesOn DEF DeferTask, RefreshInv
<1>6. CASE PassStops
  BY <1>6, NewRecords DEF PassStops, PassUpToDate
<1>7. ASSUME Working PROVE sched' = sched
  <2>1. ASSUME NEW S \in SUBSET Tasks, LeaseBatch(S) PROVE sched' = sched
    BY <2>1 DEF LeaseBatch
  <2>2. ASSUME NEW t \in Tasks, PickJob(t) PROVE sched' = sched
    BY <2>2 DEF PickJob
  <2>6. ASSUME NEW v \in Verdicts, Collect(v) PROVE sched' = sched
    BY <2>6 DEF Collect
  <2>3. ASSUME SupersedeRuns \/ InsertRun \/ FinishRun PROVE sched' = sched
    BY <2>3 DEF SupersedeRuns, InsertRun, FinishRun
  <2>4. ASSUME ReadStatus \/ RecordRefresh PROVE sched' = sched
    BY <2>4 DEF ReadStatus, RecordRefresh
  <2>5. ASSUME SettleJob PROVE sched' = sched
    BY <2>5 DEF SettleJob
  <2> QED
    BY <1>7, <2>1, <2>2, <2>3, <2>4, <2>5, <2>6 DEF Working
<1>8. ASSUME \/ WorkerStops \/ CliInsert \/ CliEnd
             \/ \E v \in {"retry", "dead"} : FailEarly(v)
             \/ \E t \in Tasks : CliBegin(t) \/ SlotTurns(t) \/ ComesDue(t)
                                 \/ DelayPasses(t) \/ LeaseRunsOut(t)
      PROVE  sched' = sched
  BY <1>8 DEF WorkerStops, CliInsert, CliEnd, FailEarly, CliBegin, SlotTurns, ComesDue,
     DelayPasses, LeaseRunsOut
<1>9. CASE UNCHANGED vars
  BY <1>1, <1>9 DEF vars
<1> QED
  BY <1>1, <1>2, <1>3, <1>4, <1>5, <1>6, <1>7, <1>8, <1>9 DEF Next, Scheduling

LEMMA NothingLost ==
    ASSUME RefreshInv, PassUpToDate, [Next]_vars
    PROVE  \A t \in Tasks : row[t].success => row'[t].success
<1>1. LosesStale
  BY LossStep
<1>2. sched.task \in Tasks /\ sched.task >= sched.task
  BY TypeParts DEF RefreshInv, Passes, Tasks
<1> QED
  BY <1>1, <1>2 DEF LosesStale, PassUpToDate

(* Scheduling the next job keeps the last success, as the code means it    *)
(* to, whatever crashes, fails, is superseded or overruns its lease, as    *)
(* long as no worker records the first success of a task between a pass's  *)
(* reading of the status rows and its write of that task's row.            *)
THEOREM SuccessKeptOutsidePasses ==
    Spec /\ [][RecordedOutsidePass]_vars => SuccessIsKept
<1>1. Init => PassUpToDate
  BY NewRecords DEF Init, PassUpToDate
<1>2. RefreshInv /\ PassUpToDate /\ [Next]_vars /\ [RecordedOutsidePass]_vars => PassUpToDate'
  BY UpToDateStep
<1>3. RefreshInv /\ PassUpToDate /\ [Next]_vars =>
          [\A t \in Tasks : row[t].success => row'[t].success]_vars
  BY NothingLost
<1> QED
  BY RefreshInvariant, <1>1, <1>2, <1>3, PTL DEF Spec, SuccessIsKept

=============================================================================
