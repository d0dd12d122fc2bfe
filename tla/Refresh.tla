------------------------------ MODULE Refresh ------------------------------
(***************************************************************************)
(* The data-refresh cycle: the scheduler of apps/server/src/scheduler.rs,  *)
(* the worker loop around `mpgs-dbtool run-steam-worker-once`, and an      *)
(* operator running a collect command by hand.  They are separate          *)
(* processes that meet only in three tables of one SQLite file: jobs,      *)
(* source_runs and data_refresh_state.  No call below spans a transaction, *)
(* so every repository call is a step of its own.                          *)
(*                                                                         *)
(* Time is kept as what each actor can tell by comparing a stored time     *)
(* with the clock: a task's next_run_at_ms is `later` or has come, a job's *)
(* due time or lease has elapsed or not, the idempotency key of the        *)
(* current schedule slot is used or not.                                   *)
(***************************************************************************)
EXTENDS Naturals, Sequences, FiniteSets

CONSTANTS
    NumTasks,     \* collection tasks, scheduled in this order
    ByHand,       \* tasks an operator may also collect by hand
    Enabled,      \* tasks the server may enqueue (catalog_sync needs a key)
    MaxAttempts,  \* max_attempts of a scheduled job
    JobLimit,     \* jobs one worker invocation leases
    MaxFaults     \* bound: crashes, overlong leases, early failures, manual runs

Tasks == 1 .. NumTasks

ASSUME CycleAssumption ==
    /\ NumTasks \in Nat \ {0}
    /\ ByHand \subseteq Tasks
    /\ Enabled \subseteq Tasks
    /\ MaxAttempts \in Nat \ {0}
    /\ JobLimit \in Nat \ {0}
    /\ MaxFaults \in Nat

VARIABLES
    jobs,     \* jobs[t]: the pending and leased scheduled jobs of t, oldest first
    keyUsed,  \* keyUsed[t]: the current slot's idempotency key is in the table
    row,      \* row[t]: t's row of data_refresh_state
    run,      \* run[t][a]: status of actor a's latest source run of t
    sched,    \* the scheduler pass
    worker,   \* the worker invocation
    cli,      \* the collect command run by hand
    faults,   \* faults so far
    earned    \* history: some job of t was completed

vars == <<jobs, keyUsed, row, run, sched, worker, cli, faults, earned>>

Actors == {"worker", "cli"}
RunStatus == {"none", "running", "succeeded", "failed"}
Verdicts == {"ok", "retry", "dead"}

\* success: last_success_at_ms is set; later: next_run_at_ms is ahead.
Row == [success : BOOLEAN, later : BOOLEAN]

\* elapsed: a pending job is due, a leased one has outlived its lease.
ActiveJob == [leased : BOOLEAN, attempts : 0 .. MaxAttempts, elapsed : BOOLEAN]

NewRow == [success |-> FALSE, later |-> FALSE]
NewJob == [leased |-> FALSE, attempts |-> 0, elapsed |-> TRUE]

Resting ==
    [pc |-> "idle", task |-> 1, seen |-> [t \in Tasks |-> NewRow],
     used |-> [t \in Tasks |-> FALSE]]

Gone == [pc |-> "idle", batch |-> {}, task |-> 1, verdict |-> "ok", seen |-> NewRow]

TypeOK ==
    /\ jobs \in [Tasks -> Seq(ActiveJob)]
    /\ keyUsed \in [Tasks -> BOOLEAN]
    /\ row \in [Tasks -> Row]
    /\ run \in [Tasks -> [Actors -> RunStatus]]
    /\ sched \in [pc : {"idle", "check", "enqueue", "defer"}, task : Tasks,
                  seen : [Tasks -> Row], used : [Tasks -> BOOLEAN]]
    /\ worker \in [pc : {"idle", "next", "begin", "insert", "collect", "finish",
                         "settle", "read", "write"},
                   batch : SUBSET Tasks, task : Tasks, verdict : Verdicts, seen : Row]
    /\ cli \in [pc : {"idle", "insert", "collect"}, task : Tasks]
    /\ faults \in 0 .. MaxFaults
    /\ earned \in [Tasks -> BOOLEAN]

Init ==
    /\ jobs = [t \in Tasks |-> <<>>]
    /\ keyUsed = [t \in Tasks |-> FALSE]
    /\ row = [t \in Tasks |-> NewRow]
    /\ run = [t \in Tasks |-> [a \in Actors |-> "none"]]
    /\ sched = Resting
    /\ worker = Gone
    /\ cli = [pc |-> "idle", task |-> 1]
    /\ faults = 0
    /\ earned = [t \in Tasks |-> FALSE]

Fault == faults < MaxFaults /\ faults' = faults + 1

-----------------------------------------------------------------------------
(* The scheduler: one pass reads every status row first, then walks the    *)
(* tasks, deciding on what it read.                                        *)

BeginPass ==
    /\ sched.pc = "idle"
    /\ sched' = [pc |-> "check", task |-> 1, seen |-> row, used |-> keyUsed]
    /\ UNCHANGED <<jobs, keyUsed, row, run, worker, cli, faults, earned>>

\* Quality checks and retrieval sync follow the last task; they touch no
\* collection task, and their errors end a pass that is over anyway.
\* What the pass read of a task it is done with is forgotten.
NextTask ==
    LET t == sched.task IN
    IF t = NumTasks THEN Resting
    ELSE [pc |-> "check", task |-> t + 1, seen |-> [sched.seen EXCEPT ![t] = NewRow],
          used |-> [sched.used EXCEPT ![t] = FALSE]]

\* Mutant: due is enough, an active job is not looked for.
ReadyWithoutLooking(t) == ~sched.seen[t].later

\* has_active_job, asked only of a task that is due.
ReadyToEnqueue(t) == ~sched.seen[t].later /\ jobs[t] = <<>>

CheckTask ==
    LET t == sched.task IN
    /\ sched.pc = "check"
    /\ \/ /\ t \notin Enabled
          /\ sched' = [sched EXCEPT !.pc = "defer"]
       \/ /\ t \in Enabled
          /\ ReadyToEnqueue(t)
          /\ sched' = [sched EXCEPT !.pc = "enqueue"]
       \/ /\ t \in Enabled
          /\ ~ReadyToEnqueue(t)
          /\ sched' = NextTask
    /\ UNCHANGED <<jobs, keyUsed, row, run, worker, cli, faults, earned>>

\* A key used before returns the job it named, whatever became of it.
EnqueueTask ==
    LET t == sched.task IN
    /\ sched.pc = "enqueue"
    /\ \/ /\ ~sched.used[t]
          /\ jobs' = [jobs EXCEPT ![t] = Append(@, NewJob)]
          /\ keyUsed' = [keyUsed EXCEPT ![t] = TRUE]
       \/ /\ sched.used[t]
          /\ UNCHANGED <<jobs, keyUsed>>
    /\ sched' = [sched EXCEPT !.pc = "defer"]
    /\ UNCHANGED <<row, run, worker, cli, faults, earned>>

\* update_scheduled_status: the success time is the one read at the start.
DeferTask ==
    LET t == sched.task IN
    /\ sched.pc = "defer"
    /\ row' = [row EXCEPT ![t] = [success |-> sched.seen[t].success, later |-> TRUE]]
    /\ sched' = NextTask
    /\ UNCHANGED <<jobs, keyUsed, run, worker, cli, faults, earned>>

\* A storage error or a server restart ends the pass where it stands.
PassStops ==
    /\ sched.pc # "idle"
    /\ Fault
    /\ sched' = Resting
    /\ UNCHANGED <<jobs, keyUsed, row, run, worker, cli, earned>>

-----------------------------------------------------------------------------
(* Source runs: start_run closes what is still running, then inserts.      *)

\* Mutant: the interrupted runs are left as they are.
SupersededByNothing(t) == run

Superseded(t) ==
    [run EXCEPT ![t] = [a \in Actors |-> IF @[a] = "running" THEN "failed" ELSE @[a]]]

Inserted(t, a) == [run EXCEPT ![t][a] = "running"]

\* UPDATE ... WHERE run_id = ? AND status = 'running'
Finished(t, a, status) ==
    [run EXCEPT ![t][a] = IF @ = "running" THEN status ELSE @]

-----------------------------------------------------------------------------
(* The worker: one invocation leases a batch and works through it.         *)

\* Mutant: lease_jobs without its recovery statement.
NeverRecovered(j) == j

\* Expired leases become pending again; their due time passed long ago.
RecoveredJob(j) == IF j.leased /\ j.elapsed THEN [j EXCEPT !.leased = FALSE] ELSE j

Ready(t) ==
    jobs[t] # <<>> /\ LET j == RecoveredJob(Head(jobs[t])) IN ~j.leased /\ j.elapsed

Capped(n) == IF n < MaxAttempts THEN n + 1 ELSE n

LeasedJob(j) == [leased |-> TRUE, attempts |-> Capped(j.attempts), elapsed |-> FALSE]

LeaseBatch(S) ==
    LET ready == {t \in Tasks : Ready(t)} IN
    /\ worker.pc = "idle"
    /\ S # {}
    /\ S \subseteq ready
    /\ \/ Cardinality(S) = JobLimit
       \/ Cardinality(S) < JobLimit /\ S = ready
    /\ jobs' = [t \in Tasks |->
                   IF jobs[t] = <<>> THEN <<>>
                   ELSE <<IF t \in S THEN LeasedJob(Head(jobs[t]))
                          ELSE RecoveredJob(Head(jobs[t]))>> \o Tail(jobs[t])]
    /\ worker' = [Gone EXCEPT !.pc = "next", !.batch = S]
    /\ UNCHANGED <<keyUsed, row, run, sched, cli, faults, earned>>

PickJob(t) ==
    /\ worker.pc = "next"
    /\ t \in worker.batch
    /\ worker' = [worker EXCEPT !.pc = "begin", !.task = t]
    /\ UNCHANGED <<jobs, keyUsed, row, run, sched, cli, faults, earned>>

\* No key, a bad cursor or a storage error before the run is opened.
FailEarly(v) ==
    /\ worker.pc = "begin"
    /\ Fault
    /\ worker' = [worker EXCEPT !.pc = "settle", !.verdict = v]
    /\ UNCHANGED <<jobs, keyUsed, row, run, sched, cli, earned>>

SupersedeRuns ==
    /\ worker.pc = "begin"
    /\ run' = Superseded(worker.task)
    /\ worker' = [worker EXCEPT !.pc = "insert"]
    /\ UNCHANGED <<jobs, keyUsed, row, sched, cli, faults, earned>>

InsertRun ==
    /\ worker.pc = "insert"
    /\ run' = Inserted(worker.task, "worker")
    /\ worker' = [worker EXCEPT !.pc = "collect"]
    /\ UNCHANGED <<jobs, keyUsed, row, sched, cli, faults, earned>>

Collect(v) ==
    /\ worker.pc = "collect"
    /\ worker' = [worker EXCEPT !.pc = "finish", !.verdict = v]
    /\ UNCHANGED <<jobs, keyUsed, row, run, sched, cli, faults, earned>>

\* Mutant: finish_run does not look at how many rows it changed.
FinishVerdictUnchecked == worker.verdict

\* A run that is no longer 'running' is a conflict: the work counts as a
\* network failure.  On the failure paths the result is ignored.
FinishVerdict ==
    IF worker.verdict = "ok" /\ run[worker.task]["worker"] # "running" THEN "retry"
    ELSE worker.verdict

FinishRun ==
    LET t == worker.task
        status == IF worker.verdict = "ok" THEN "succeeded" ELSE "failed"
    IN  /\ worker.pc = "finish"
        /\ run' = Finished(t, "worker", status)
        /\ worker' = [worker EXCEPT !.pc = "settle", !.verdict = FinishVerdict]
        /\ UNCHANGED <<jobs, keyUsed, row, sched, cli, faults, earned>>

\* What complete_job or fail_job leaves of the job: nothing active, or the
\* same job pending behind its retry delay.
AfterSettle(t) ==
    LET j == Head(jobs[t]) IN
    IF worker.verdict = "retry" /\ j.attempts < MaxAttempts
    THEN <<[j EXCEPT !.leased = FALSE, !.elapsed = FALSE]>> \o Tail(jobs[t])
    ELSE Tail(jobs[t])

\* An expired lease is an error that ends the invocation and its batch.
SettleJob ==
    LET t == worker.task IN
    /\ worker.pc = "settle"
    /\ \/ /\ ~Head(jobs[t]).elapsed
          /\ jobs' = [jobs EXCEPT ![t] = AfterSettle(t)]
          /\ earned' = [earned EXCEPT ![t] = @ \/ worker.verdict = "ok"]
          /\ worker' = [worker EXCEPT !.pc = "read"]
       \/ /\ Head(jobs[t]).elapsed
          /\ worker' = Gone
          /\ UNCHANGED <<jobs, earned>>
    /\ UNCHANGED <<keyUsed, row, run, sched, cli, faults>>

\* record_worker_refresh reads the row ...
ReadStatus ==
    /\ worker.pc = "read"
    /\ worker' = [worker EXCEPT !.pc = "write", !.seen = row[worker.task]]
    /\ UNCHANGED <<jobs, keyUsed, row, run, sched, cli, faults, earned>>

\* Mutant: any settled job counts as a success.
RecordedAlways == [success |-> TRUE, later |-> worker.seen.later]

\* Mutant: a failure does not carry the previous success over.
RecordedAfresh == [success |-> worker.verdict = "ok", later |-> worker.seen.later]

\* ... and writes it back whole.
RecordedRow ==
    [success |-> worker.verdict = "ok" \/ worker.seen.success,
     later |-> worker.seen.later]

RecordRefresh ==
    LET t == worker.task
        rest == worker.batch \ {t}
    IN  /\ worker.pc = "write"
        /\ row' = [row EXCEPT ![t] = RecordedRow]
        /\ worker' = IF rest = {} THEN Gone
                     ELSE [Gone EXCEPT !.pc = "next", !.batch = rest]
        /\ UNCHANGED <<jobs, keyUsed, run, sched, cli, faults, earned>>

\* The process is killed, or a storage error ends it; the loop restarts it.
WorkerStops ==
    /\ worker.pc # "idle"
    /\ Fault
    /\ worker' = Gone
    /\ UNCHANGED <<jobs, keyUsed, row, run, sched, cli, earned>>

-----------------------------------------------------------------------------
(* The collect command, beside the worker                                  *)

CliBegin(t) ==
    /\ cli.pc = "idle"
    /\ t \in ByHand
    /\ Fault
    /\ run' = Superseded(t)
    /\ cli' = [pc |-> "insert", task |-> t]
    /\ UNCHANGED <<jobs, keyUsed, row, sched, worker, earned>>

CliInsert ==
    /\ cli.pc = "insert"
    /\ run' = Inserted(cli.task, "cli")
    /\ cli' = [cli EXCEPT !.pc = "collect"]
    /\ UNCHANGED <<jobs, keyUsed, row, sched, worker, faults, earned>>

\* It finishes its run, or is killed and leaves it behind.
CliEnd ==
    /\ cli.pc = "collect"
    /\ \/ \E status \in {"succeeded", "failed"} : run' = Finished(cli.task, "cli", status)
       \/ UNCHANGED run
    /\ cli' = [pc |-> "idle", task |-> 1]
    /\ UNCHANGED <<jobs, keyUsed, row, sched, worker, faults, earned>>

-----------------------------------------------------------------------------
(* Time                                                                    *)

\* The clock enters a new slot: a fresh idempotency key for t.
SlotTurns(t) ==
    /\ keyUsed[t]
    /\ keyUsed' = [keyUsed EXCEPT ![t] = FALSE]
    /\ UNCHANGED <<jobs, row, run, sched, worker, cli, faults, earned>>

\* next_run_at_ms lies one interval after the pass that wrote it, so the
\* slot has turned by then.  A copy the worker holds comes due with it.
ComesDue(t) ==
    /\ row[t].later
    /\ ~keyUsed[t]
    /\ row' = [row EXCEPT ![t] = [@ EXCEPT !.later = FALSE]]
    /\ worker' = IF worker.task = t
                 THEN [worker EXCEPT !.seen = [@ EXCEPT !.later = FALSE]]
                 ELSE worker
    /\ UNCHANGED <<jobs, keyUsed, run, sched, cli, faults, earned>>

Elapsed(t) ==
    [jobs EXCEPT ![t] = <<[Head(@) EXCEPT !.elapsed = TRUE]>> \o Tail(@)]

Waiting(t) == jobs[t] # <<>> /\ ~Head(jobs[t]).elapsed

\* A retry delay or an abandoned lease runs out.
DelayPasses(t) ==
    /\ Waiting(t)
    /\ t \notin worker.batch \/ ~Head(jobs[t]).leased
    /\ jobs' = Elapsed(t)
    /\ UNCHANGED <<keyUsed, row, run, sched, worker, cli, faults, earned>>

\* A batch takes longer than its leases.
LeaseRunsOut(t) ==
    /\ Waiting(t)
    /\ t \in worker.batch
    /\ Head(jobs[t]).leased
    /\ Fault
    /\ jobs' = Elapsed(t)
    /\ UNCHANGED <<keyUsed, row, run, sched, worker, cli, earned>>

-----------------------------------------------------------------------------
Scheduling == BeginPass \/ CheckTask \/ EnqueueTask \/ DeferTask

Working ==
    \/ \E S \in SUBSET Tasks : LeaseBatch(S)
    \/ \E t \in Tasks : PickJob(t)
    \/ SupersedeRuns
    \/ InsertRun
    \/ \E v \in Verdicts : Collect(v)
    \/ FinishRun
    \/ SettleJob
    \/ ReadStatus
    \/ RecordRefresh

Next ==
    \/ Scheduling
    \/ Working
    \/ PassStops
    \/ WorkerStops
    \/ \E v \in {"retry", "dead"} : FailEarly(v)
    \/ CliInsert
    \/ CliEnd
    \/ \E t \in Tasks :
           \/ CliBegin(t)
           \/ SlotTurns(t)
           \/ ComesDue(t)
           \/ DelayPasses(t)
           \/ LeaseRunsOut(t)

Spec == Init /\ [][Next]_vars

\* The ticker and the worker loop run for ever and time passes.
Fairness ==
    /\ WF_vars(Scheduling)
    /\ WF_vars(Working)
    /\ \A t \in Tasks :
          WF_vars(SlotTurns(t)) /\ WF_vars(ComesDue(t)) /\ WF_vars(DelayPasses(t))

FairSpec == Spec /\ Fairness

-----------------------------------------------------------------------------
(* Properties                                                              *)

\* At most one scheduled job of a task is pending or leased, whatever the
\* interleaving of passes, workers, crashes and stale status rows.
OneActiveJob == \A t \in Tasks : Len(jobs[t]) <= 1

\* A job is completed only when its source run was finalised as succeeded:
\* a run superseded by hand never turns into a completed job.
CompletesSucceededRun ==
    worker.pc = "settle" /\ worker.verdict = "ok" =>
        run[worker.task]["worker"] = "succeeded"

\* A status row shows a success only if some job of the task was completed.
SuccessIsEarned == \A t \in Tasks : row[t].success => earned[t]

\* A recorded success is lost only to a scheduler pass that read the row
\* before it was recorded; failures, retries and crashes keep it.
OnlyStalePassLosesSuccess ==
    [][\A t \in Tasks :
          row[t].success /\ ~row'[t].success =>
              sched.pc = "defer" /\ sched.task = t /\ ~sched.seen[t].success]_vars

\* Scheduling the next job keeps the last success.
SuccessIsKept == [][\A t \in Tasks : row[t].success => row'[t].success]_vars

\* Once faults cease, every enabled task is collected again and again.
Collected(t) == jobs[t] # <<>> /\ jobs'[t] = <<>>

KeepsCollecting == \A t \in Enabled : []<><<Collected(t)>>_vars

\* A source run whose process is gone does not look active for ever.
Abandoned(t) ==
    \/ run[t]["cli"] = "running" /\ ~(cli.task = t /\ cli.pc = "collect")
    \/ run[t]["worker"] = "running"
       /\ ~(worker.task = t /\ worker.pc \in {"collect", "finish"})

RunsAreClosed == \A t \in Enabled : []<>~Abandoned(t)
=============================================================================
