------------------------------ MODULE JobQueue ------------------------------
(***************************************************************************)
(* The durable job queue of crates/storage/src/jobs.rs and the workers     *)
(* that lease from it (apps/dbtool run_steam_worker_once, and collectors   *)
(* behind the /internal/v1/jobs API).                                      *)
(*                                                                         *)
(* The queue functions run their SQL statements one by one with no         *)
(* surrounding transaction.  Within one process they are serialised by the *)
(* write lock of Database::with_conn_mut; a second process on the same     *)
(* SQLite file is serialised only statement by statement.  Every call is   *)
(* therefore split where another process may step in: capture of `now`,    *)
(* the checks that read the row, and the UPDATE that trusts those checks.  *)
(***************************************************************************)
EXTENDS Naturals, FiniteSets

CONSTANTS
    Workers,      \* callers of the queue
    Processes,    \* operating-system processes that open the database
    ProcOf,       \* the process whose write lock a worker's calls take
    Owners,       \* lease owner names
    OwnerOf,      \* the owner name a worker presents
    None,         \* SQL NULL
    MaxJobs,      \* bound: rows ever inserted
    Keys,         \* enqueue idempotency keys
    Priorities,   \* the payload field the model keeps, and the lease order's
    MaxAttempts,  \* max_attempts of every job
    LeaseLimit,   \* jobs asked for in one lease call
    LeaseTime,    \* lease_ms in clock units
    RetryDelay,   \* retry_delay_ms in clock units
    MaxClock      \* bound: the clock stops here

ASSUME DeploymentAssumption ==
    /\ ProcOf \in [Workers -> Processes]
    /\ OwnerOf \in [Workers -> Owners]
    /\ None \notin Owners

ASSUME RangeAssumption ==
    /\ MaxJobs \in Nat
    /\ Priorities \subseteq Nat
    /\ MaxAttempts \in Nat \ {0}
    /\ LeaseLimit \in Nat \ {0}
    /\ LeaseTime \in Nat \ {0}
    /\ RetryDelay \in Nat \ {0}
    /\ MaxClock \in Nat

VARIABLES
    jobs,    \* the jobs table
    clock,   \* the wall clock every process reads
    call,    \* call[w]: the queue call worker w is in
    held,    \* held[w]: the leases w was given and has not finished with
    lapses   \* history: times each job's lease was recovered after expiry

vars == <<jobs, clock, call, held, lapses>>

JobIds == 1 .. MaxJobs
Status == {"absent", "pending", "leased", "completed", "dead"}

JobRow ==
    [status : Status, attempts : Nat, due : Nat, owner : Owners \cup {None},
     expires : Nat, done : Owners \cup {None}, key : Keys \cup {None},
     priority : Nat]

\* What a worker keeps of a leased JobRecord: attempts and lease_expires_at_ms.
Lease == [job : JobIds, try : Nat, until : Nat]

\* lease: now captured; claim: candidates selected, write lock held;
\* report: now captured; settle: row checked, write lock held.
CallRecord ==
    [op : {"idle", "lease", "claim", "report", "settle"}, now : Nat,
     todo : SUBSET JobIds, job : JobIds \cup {0}, try : Nat,
     to : {"none", "completed", "pending", "dead"}]

Call ==
    {c \in CallRecord :
        c.op \in {"report", "settle"} => c.job # 0 /\ c.to # "none"}

NoJob ==
    [status |-> "absent", attempts |-> 0, due |-> 0, owner |-> None,
     expires |-> 0, done |-> None, key |-> None, priority |-> 0]

IdleCall ==
    [op |-> "idle", now |-> 0, todo |-> {}, job |-> 0, try |-> 0, to |-> "none"]

TypeOK ==
    /\ jobs \in [JobIds -> JobRow]
    /\ clock \in Nat
    /\ call \in [Workers -> Call]
    /\ held \in [Workers -> SUBSET Lease]
    /\ lapses \in [JobIds -> Nat]

Init ==
    /\ jobs = [j \in JobIds |-> NoJob]
    /\ clock = 0
    /\ call = [w \in Workers |-> IdleCall]
    /\ held = [w \in Workers |-> {}]
    /\ lapses = [j \in JobIds |-> 0]

-----------------------------------------------------------------------------
(* Helpers                                                                 *)

\* Some worker of process p is inside with_conn_mut between two statements.
Locked(p) ==
    \E w \in Workers : ProcOf[w] = p /\ call[w].op \in {"claim", "settle"}

\* Mutant: recovery that takes back leases still running.
ExpiredTooSoon(j, now) == jobs[j].status = "leased"

Expired(j, now) == jobs[j].status = "leased" /\ jobs[j].expires <= now

\* The table after the recovery UPDATE of lease_jobs.
Recovered(now) ==
    [j \in JobIds |->
        IF Expired(j, now)
        THEN [jobs[j] EXCEPT !.status = "pending", !.owner = None, !.expires = 0]
        ELSE jobs[j]]

\* ORDER BY priority, due_at_ms, job_id
Before(T, j, k) ==
    \/ T[j].priority < T[k].priority
    \/ T[j].priority = T[k].priority /\ T[j].due < T[k].due
    \/ T[j].priority = T[k].priority /\ T[j].due = T[k].due /\ j < k

\* The first LeaseLimit due pending jobs of table T.
Selected(T, now) ==
    LET ready == {j \in JobIds : T[j].status = "pending" /\ T[j].due <= now}
    IN  {j \in ready : Cardinality({k \in ready : Before(T, k, j)}) < LeaseLimit}

-----------------------------------------------------------------------------
(* Submitting                                                              *)

\* A known key changes nothing: the stored id is returned, or a conflict
\* when the other fields differ.  The UNIQUE key makes check and INSERT one.
EnqueueJob(j, k, p, d) ==
    /\ \A i \in JobIds : jobs[i].key # k
    /\ jobs[j].status = "absent"
    /\ \A i \in 1 .. (j - 1) : jobs[i].status # "absent"
    /\ jobs' = [jobs EXCEPT ![j] = [NoJob EXCEPT !.status = "pending", !.due = d,
                                                 !.key = k, !.priority = p]]
    /\ UNCHANGED <<clock, call, held, lapses>>

-----------------------------------------------------------------------------
(* Leasing: a worker asks again only when it has finished its last batch.  *)

BeginLease(w) ==
    /\ call[w].op = "idle"
    /\ held[w] = {}
    /\ call' = [call EXCEPT ![w] = [IdleCall EXCEPT !.op = "lease", !.now = clock]]
    /\ UNCHANGED <<jobs, clock, held, lapses>>

\* Recover the expired leases, then select this call's candidates.
RecoverAndSelect(w) ==
    LET now == call[w].now
        todo == Selected(Recovered(now), now)
    IN  /\ call[w].op = "lease"
        /\ ~Locked(ProcOf[w])
        /\ jobs' = Recovered(now)
        /\ lapses' = [j \in JobIds |-> IF Expired(j, now) THEN lapses[j] + 1
                                       ELSE lapses[j]]
        /\ call' = [call EXCEPT ![w] =
                       IF todo = {} THEN IdleCall
                       ELSE [@ EXCEPT !.op = "claim", !.todo = todo]]
        /\ UNCHANGED <<clock, held>>

\* Mutant: a claim that forgets attempts = attempts + 1.
ClaimRowUncounted(j, w) ==
    [jobs[j] EXCEPT !.status = "leased", !.owner = OwnerOf[w],
                    !.expires = call[w].now + LeaseTime]

\* UPDATE ... WHERE job_id = ? AND status = 'pending' for one candidate.
ClaimRow(j, w) ==
    [jobs[j] EXCEPT !.status = "leased", !.owner = OwnerOf[w],
                    !.expires = call[w].now + LeaseTime, !.attempts = @ + 1]

ClaimJob(w, j) ==
    /\ call[w].op = "claim"
    /\ j \in call[w].todo
    /\ \/ /\ jobs[j].status = "pending"
          /\ jobs' = [jobs EXCEPT ![j] = ClaimRow(j, w)]
          /\ held' = [held EXCEPT ![w] =
                         @ \cup {[job |-> j, try |-> jobs[j].attempts + 1,
                                  until |-> call[w].now + LeaseTime]}]
       \/ /\ jobs[j].status # "pending"
          /\ UNCHANGED <<jobs, held>>
    /\ call' = [call EXCEPT ![w] =
                   IF call[w].todo = {j} THEN IdleCall
                   ELSE [@ EXCEPT !.todo = call[w].todo \ {j}]]
    /\ UNCHANGED <<clock, lapses>>

-----------------------------------------------------------------------------
(* Reporting: complete_job asks for "completed", fail_job with a permanent *)
(* category for "dead", fail_job with a retryable one for "pending".       *)

BeginReport(w, l, to) ==
    /\ call[w].op = "idle"
    /\ l \in held[w]
    /\ call' = [call EXCEPT ![w] =
                   [IdleCall EXCEPT !.op = "report", !.now = clock, !.job = l.job,
                                    !.try = l.try, !.to = to]]
    /\ UNCHANGED <<jobs, clock, held, lapses>>

OfJob(w) == {l \in held[w] : l.job = call[w].job}

\* Mutant: the owner of the lease is not compared.
LeaseAcceptedFromAnyone(w) ==
    LET row == jobs[call[w].job] IN
    row.status = "leased" /\ row.expires > call[w].now

\* Status, owner and expiry checks shared by complete_job and fail_job.
LeaseAccepted(w) ==
    LET row == jobs[call[w].job] IN
    /\ row.status = "leased"
    /\ row.owner = OwnerOf[w]
    /\ row.expires > call[w].now

AlreadyCompleted(w) ==
    LET row == jobs[call[w].job] IN
    row.status = "completed" /\ row.done = OwnerOf[w]

\* An error ends run_steam_worker_once: the rest of the batch is dropped.
GiveUp(w) ==
    /\ call' = [call EXCEPT ![w] = IdleCall]
    /\ held' = [held EXCEPT ![w] = {}]

CheckComplete(w) ==
    /\ call[w].op = "report"
    /\ call[w].to = "completed"
    /\ ~Locked(ProcOf[w])
    /\ \/ /\ AlreadyCompleted(w)
          /\ call' = [call EXCEPT ![w] = IdleCall]
          /\ held' = [held EXCEPT ![w] = @ \ OfJob(w)]
       \/ /\ LeaseAccepted(w)
          /\ call' = [call EXCEPT ![w] = [@ EXCEPT !.op = "settle"]]
          /\ UNCHANGED held
       \/ /\ ~AlreadyCompleted(w)
          /\ ~LeaseAccepted(w)
          /\ GiveUp(w)
    /\ UNCHANGED <<jobs, clock, lapses>>

\* Mutant: the attempt limit compared with > instead of >=.
FailVerdictOffByOne(w) ==
    IF call[w].to = "pending" /\ jobs[call[w].job].attempts > MaxAttempts
    THEN "dead"
    ELSE call[w].to

\* Mutant: a status the CHECK of the jobs table does not know.
FailVerdictUnknown(w) ==
    IF jobs[call[w].job].attempts >= MaxAttempts THEN "failed" ELSE call[w].to

\* A retryable failure at the attempt limit asks for "dead" instead.
FailVerdict(w) ==
    IF call[w].to = "pending" /\ jobs[call[w].job].attempts >= MaxAttempts
    THEN "dead"
    ELSE call[w].to

CheckFail(w) ==
    /\ call[w].op = "report"
    /\ call[w].to \in {"pending", "dead"}
    /\ ~Locked(ProcOf[w])
    /\ \/ /\ LeaseAccepted(w)
          /\ call' = [call EXCEPT ![w] = [@ EXCEPT !.op = "settle", !.to = FailVerdict(w)]]
          /\ UNCHANGED held
       \/ ~LeaseAccepted(w) /\ GiveUp(w)
    /\ UNCHANGED <<jobs, clock, lapses>>

\* The closing UPDATE names the row by job_id alone.
SettledRow(w) ==
    LET row == [jobs[call[w].job] EXCEPT !.status = call[w].to, !.owner = None,
                                         !.expires = 0]
    IN  CASE call[w].to = "completed" -> [row EXCEPT !.done = OwnerOf[w]]
          [] call[w].to = "pending" -> [row EXCEPT !.due = call[w].now + RetryDelay]
          [] OTHER -> row

\* When the answer is lost on its way the caller repeats the same request.
WriteSettle(w) ==
    /\ call[w].op = "settle"
    /\ jobs' = [jobs EXCEPT ![call[w].job] = SettledRow(w)]
    /\ held' = [held EXCEPT ![w] = @ \ OfJob(w)]
    /\ \/ call' = [call EXCEPT ![w] = IdleCall]
       \/ call' = [call EXCEPT ![w] = [@ EXCEPT !.op = "report", !.now = clock]]
    /\ UNCHANGED <<clock, lapses>>

-----------------------------------------------------------------------------
(* A worker process dies at any point: its call stops between statements   *)
(* and its leases are left to expire.                                      *)

Crash(w) ==
    /\ \/ call[w] # IdleCall
       \/ held[w] # {}
    /\ GiveUp(w)
    /\ UNCHANGED <<jobs, clock, lapses>>

Tick ==
    /\ clock < MaxClock
    /\ clock' = clock + 1
    /\ UNCHANGED <<jobs, call, held, lapses>>

Submission ==
    \E j \in JobIds, k \in Keys, p \in Priorities, d \in {clock, clock + RetryDelay} :
        EnqueueJob(j, k, p, d)

Leasing(w) ==
    \/ BeginLease(w)
    \/ RecoverAndSelect(w)
    \/ \E j \in JobIds : ClaimJob(w, j)

Reporting(w) ==
    \/ \E l \in held[w], to \in {"completed", "pending", "dead"} : BeginReport(w, l, to)
    \/ CheckComplete(w)
    \/ CheckFail(w)
    \/ WriteSettle(w)

Next ==
    \/ Submission
    \/ Tick
    \/ \E w \in Workers : Leasing(w) \/ Reporting(w) \/ Crash(w)

Spec == Init /\ [][Next]_vars

-----------------------------------------------------------------------------
(* Properties                                                              *)

\* No two workers hold an unexpired lease on the same job: the recovery,
\* selection and guarded claim of lease_jobs never hand a job out twice.
NoDoubleLease ==
    \A v, w \in Workers : \A l \in held[v], m \in held[w] :
        v # w /\ l.job = m.job => l.until <= clock \/ m.until <= clock

\* Reports spend at most max_attempts attempts of a job; whatever goes
\* beyond was lost to leases that expired, which fail_job never sees.
RetryBudget ==
    \A j \in JobIds :
        /\ jobs[j].attempts <= MaxAttempts + lapses[j]
        /\ jobs[j].status = "pending" => jobs[j].attempts < MaxAttempts + lapses[j]

\* The row is leased under this worker's name.
Mine(w, j) == jobs[j].status = "leased" /\ jobs[j].owner = OwnerOf[w]

\* The caller settles the very lease it was given.
SettlesOwnLease(w, j) ==
    /\ call[w].op = "settle"
    /\ call[w].job = j
    /\ Mine(w, j)
    /\ jobs[j].attempts = call[w].try

\* After a lease has lapsed the job can be handed out again safely: a row
\* that is leased or finished changes only by its own holder's report or,
\* for a leased one, after its expiry; a pending row only by being leased.
SafeReassignment ==
    [][\A j \in JobIds :
          jobs'[j] # jobs[j] =>
             \/ jobs[j].status = "absent"
             \/ jobs[j].status = "pending" /\ jobs'[j].status = "leased"
             \/ jobs[j].status = "leased" /\ jobs[j].expires <= clock
             \/ \E w \in Workers : SettlesOwnLease(w, j)]_vars

\* The queue implements the abstract job life cycle.
Life == INSTANCE JobLifecycle WITH
    Jobs <- JobIds,
    phase <- [j \in JobIds |-> jobs[j].status],
    holder <- [j \in JobIds |-> jobs[j].owner],
    tries <- [j \in JobIds |-> jobs[j].attempts],
    settledBy <- [j \in JobIds |-> jobs[j].done]

ImplementsLifecycle == Life!Spec

-----------------------------------------------------------------------------
(* The inductive invariant behind the properties above, for workers with   *)
(* distinct names that share one process.                                  *)

LockExclusive ==
    \A v, w \in Workers :
        call[v].op \in {"claim", "settle"} /\ call[w].op \in {"claim", "settle"}
            => v = w

NowIsPast == \A w \in Workers : call[w].now <= clock

AbsentIsBlank == \A j \in JobIds : jobs[j].status = "absent" => jobs[j] = NoJob

\* An unexpired held lease is the row's lease, and a row leased under the
\* worker's name carries exactly the lease the worker holds.
LeasesCurrent ==
    \A w \in Workers : \A l \in held[w] :
        /\ l.until > clock => Mine(w, l.job)
        /\ Mine(w, l.job) => jobs[l.job].attempts = l.try
                             /\ jobs[l.job].expires = l.until

NoLeaseWhileLeasing ==
    \A w \in Workers :
        /\ call[w].op = "lease" => held[w] = {}
        /\ call[w].op = "claim" => \A l \in held[w] : l.job \notin call[w].todo

\* What a report says about the row it names is still true of it.
ReportsCurrent ==
    \A w \in Workers :
        /\ call[w].op = "report" /\ Mine(w, call[w].job)
               => jobs[call[w].job].attempts = call[w].try
        /\ call[w].op = "settle" =>
               /\ SettlesOwnLease(w, call[w].job)
               /\ call[w].to = "pending" => jobs[call[w].job].attempts < MaxAttempts

IInv ==
    /\ TypeOK
    /\ LockExclusive
    /\ NowIsPast
    /\ AbsentIsBlank
    /\ LeasesCurrent
    /\ NoLeaseWhileLeasing
    /\ ReportsCurrent
    /\ RetryBudget
=============================================================================
