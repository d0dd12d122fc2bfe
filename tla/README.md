# A TLA+ model of MPGS

MPGS recommends multiplayer Steam games. A Rust server answers an HTTP API over
one SQLite file, a separate worker process collects from Steam into the same
file, and a web or desktop client keeps working while it is offline. The modules
here model the parts whose correctness depends on the order in which things
happen. Five are protocols with runs of their own: the durable job queue, the refresh
cycle built on it, the resumable catalog walk, the client's feedback queue, and
the sessions of an account. Thirteen more model the other stateful parts of server, worker
and database and are checked together. The safety of all eighteen is
proved for every size; liveness is model-checked. Every definition was read off the source; `PROJECT.json`
names the lines for each.

## Inventory

| Component | State | Operations | Hard because |
|---|---|---|---|
| Durable job queue (`crates/storage/src/jobs.rs`, `repo.rs`, `db.rs`) | table `jobs`: status, attempts, due time, lease owner and expiry, idempotency key | enqueue, lease (with recovery), complete, fail | no transaction around a call's statements; several processes; answers lost; workers die; `now` read early |
| Refresh scheduler (`apps/server/src/scheduler.rs`) | `data_refresh_state`, slot keys in `jobs` | one pass every tick: read all status rows, enqueue what is due, write the rows back | decides on rows read before its first write, beside the worker |
| Steam worker and collect commands (`apps/dbtool/src/main.rs`, `deploy/mpgs-worker-loop.sh`) | the leased batch, a source run, the cursor | lease a batch, open a run, collect, close the run, settle the job, record the refresh | process may die anywhere; leases of a batch expire while its first job runs; an operator runs the same collection by hand |
| Source runs, cursors, status rows (`crates/storage/src/source_state.rs`) | `source_runs`, `source_cursors`, `data_refresh_state` | start_run, finish_run, load/save cursor, upsert status | start_run closes other runs in one statement and inserts in the next |
| Catalog walk (`crates/steam-source/src/cursor.rs`, `app_list.rs`, `crates/storage/src/ingest.rs`) | the cursor and the apps ingested | advance_page, complete_pass, ingest_app_list_page | Steam changes during the walk; ingest and cursor are two writes; page limits, kills and adapter upgrades |
| Client feedback queue (`web/src/api/feedbackQueue.ts`, `web/src/app/runtime.ts`) | pending entries in memory and in local storage | submit, undo, flush, load, drop old entries | offline, lost answers, late requests, undo while the POST is on its way, reload at any await |
| Feedback events (`crates/storage/src/feedback.rs`) | `feedback_events` | create by idempotency key, undo, list the active one per game | must agree with a client that repeats itself |
| Play-intent votes (`play_intent.rs`, `playIntentStore.ts`) | votes, counts, revision; the client's optimistic map | toggle, snapshot, sync | pages read under one revision while others vote; identity changes mid-request |
| Accounts and sessions (`accounts.rs`, `users.rs`, `web/src/api/client.ts`) | accounts, sessions, refresh-token families, anonymous users, preferences | register, login, refresh, revoke, change password, merge, versioned preferences | token rotation with lost answers and several devices; merge of two users' data |
| AI gateway, router and limits (`crates/ai/src/gateway.rs`, `router.rs`, `api.rs`) | circuits, budgets, model registry, permits, daily quota, cache, pending analyses | walk a chain of models, count a call, rank and validate, finish in the background | several atomics that are not one; one deadline for a chain; awaits with permits in hand; clients that leave |
| Community list and avatars (`api.rs`, `accounts.rs`) | votes and revision, avatar row, moderator block, image files | page through, vote, upload, delete, moderate | rows and files changed behind awaits; cursors and ETags of a moving list |
| Search, retrieval and embeddings (`retrieval.rs`, `scheduler.rs`) | documents, full-text rows, vectors | synchronise, embed, search | several processes, a provider's answer for a text that changed |
| Quality checks and curation (`curation.rs`, `ingest.rs`) | profile columns, evidence, overrides, releases and their log | store answers, golden import, override, revoke, repair | five writers of the same columns in any order |
| Enrichment and candidate search (`dbtool/src/main.rs`, `repo.rs`) | observations with due times, gallery attempts, rotating cursor, search offset | pick, ask Steam, settle; walk pages | passes of two processes; death between two writes; short pages |
| HTTP API layer (`api.rs`, `rate_limit.rs`) | limiter tables | check a request against several keys | several keys or none; a table that is full |
| Migrations and backup (`migrate.rs`, `backup.rs`) | `schema_migrations`, the files | migrate at start, back up, restore | several releases start on one file; deaths in between |
| Recommender, quality report, parsers, screens, desktop shell | derived data, rendering | pure functions, OS I/O | sequential; their difficulty is data, not order |

The components interact through three things: SQLite tables shared by server and
worker processes (each statement atomic, few calls wrapped in a transaction), the
HTTP API between client and server, and the clock. The server guards its
connection with one write lock (`Database::with_conn_mut`), which orders calls of
that process only.

What makes each component correct:

- *Queue*: one live lease per job, a report takes effect only for the lease it was
  made under, `max_attempts` is respected, a job follows its life cycle.
- *Refresh*: one active job per task, status rows that tell the truth, a success
  that is not forgotten, abandoned runs closed, collection that never stops.
- *Walk*: the cursor never ahead of the catalog, the watermark monotonic, passes
  that end, a catalog that catches up.
- *Feedback*: what the client shows and what the server ranks with agree when
  nothing is pending, nothing is lost or counted twice, and the queue drains.
- *Sessions*: a refresh token honoured once, an ended sign-in never revived, a
  sign-out that is real, a page that neither loses its session to the network nor
  trusts a dead one for ever.
- *Lists*: a walk shows every game once and in order, a 304 is true.
- *AI*: calls within their budgets and quotas, a ranking that loses and invents
  nothing, a chain that is not burnt by one hanging model.
- *Data*: a profile column explained by its evidence, a release date remembered,
  an index that follows the catalog, Steam asked no more often than the policy says.
- *Start-up*: every script on every file once and in order.

`PROJECT.json` lists the hazards behind these properties, each at its line.

## Modules

| Module | Models | Used by |
|---|---|---|
| `JobLifecycle` | abstract specification of a job: submitted, granted, lapsed, settled by its holder | refined by `JobQueue` |
| `JobQueue` | `jobs.rs` statement by statement, workers, processes, the write lock, crashes, repeated reports | `MCJobQueue`, `JobQueueProofs` |
| `MCJobQueue` | the deployments that are checked (who runs in which process) | `JobQueueOneProcess.cfg`, `JobQueueTwoProcesses.cfg` |
| `JobQueueProofs` | theorems and proofs about `JobQueue` | |
| `Refresh` | scheduler, worker loop and a manual collect command over `jobs`, `source_runs`, `data_refresh_state` | `Refresh*.cfg` |
| `CatalogSync` | Steam's list, the collector process, the stored cursor, the catalog | `CatalogSync*.cfg` |
| `FeedbackQueue` | the client queue, its storage, the network and the server's events | `Feedback*.cfg` |
| `Sessions` | the sessions of one account, the handlers that use them, pages with memory, storage and retries | `MCSessions` |
| `MCSessions` | the deployment that is checked | `Sessions*.cfg` |
| `SessionsProofs` | theorems and proofs about `Sessions` | |
| `RefreshProofs`, `FeedbackQueueProofs` | theorems and proofs about those modules | |
| `CatalogProofs` | theorems and proofs about `CatalogSync` | |
| `SearchAiProofs` | theorems and proofs about `CandidateSearch`, `Retrieval`, `AiRouter`, `AiRank`, `AiBudget`, `Releases`, `Curation`, `Enrichment` | |
| `ServiceProofs` | theorems and proofs about `Avatars`, `Membership`, `RateLimits`, `Listings`, `Migrations`, and about `MCServer` as a whole | |
| `Selection` | filtering and sorting, as functions that can be reasoned about | the modules that filter or sort |
| `CommonLemmas` | lemmas of several proofs: extremes, induction, filtering, sorting, flattening, counting | |
| `Avatars` | avatar row, block and files under the handlers' awaits | `MCServer` |
| `Listings` | feed and community list: pages, cursors, ETags | `MCServer` |
| `Membership` | preferences, feedback and votes of subjects and accounts, merges | `MCServer` |
| `AiBudget` | `consume_budget`, load by load | `MCServer` |
| `AiRouter` | the model chain, circuits, registry and deadline | `MCServer` |
| `AiRank` | ranking requests, cache, permits, quota, background analysis | `MCServer` |
| `Curation` | every writer of a profile column | `MCServer` |
| `Releases` | release state, date and log of a game | `MCServer` |
| `Enrichment` | passes that pick, ask and settle | `MCServer` |
| `CandidateSearch` | the walk of the store search | `MCServer` |
| `RateLimits` | the request limiter and the login limiter | `MCServer` |
| `Retrieval` | documents, full text, vectors, their synchronisation | `MCServer` |
| `Migrations` | start-up migration, backup, restore | `MCServer` |
| `MCServer` | the instance of these thirteen that is checked | `ServerParts.cfg` |

### JobQueue

`jobs` is the table, `clock` the wall clock, `call[w]` the queue call worker `w` is
in, `held[w]` the leases it was given. A call is split where another process can
step in. `BeginLease`/`BeginReport` read `now` before the lock is taken, as
`Repository::lease_jobs` and its siblings do. `RecoverAndSelect` is the recovery
`UPDATE` and the candidate `SELECT`; `ClaimJob` is one guarded `UPDATE ... AND status
= 'pending'`. `CheckComplete`/`CheckFail` are the `SELECT` and its checks;
`WriteSettle` is the closing `UPDATE ... WHERE job_id = ?`. `Locked(p)` is the write
lock of process `p`. Recovery and selection are one step although they are two
statements: every other writer's effect on rows in between is caught by the
guard of `ClaimJob`. `WriteSettle` may be followed by the same report again, which
is what a caller does whose answer was lost. `Crash` drops the call and the leases.

Kept of a row: status, attempts, due time, owner, expiry, who completed it, key,
priority. The job type, payload and result hash take part in no decision except
the conflict on a reused key, which changes nothing.

### Refresh

The three actors are separate processes, so each repository call is a step.
`sched.seen` is the list of status rows a pass reads before its first task,
`worker.seen` the row `record_worker_refresh` reads before it writes. Times are kept
as what an actor can tell by comparing: whether `next_run_at_ms` has come, whether
a delay or lease has elapsed, whether the current slot's idempotency key is used.
One worker runs, as the loop script starts one; recovery, selection and claims of
its lease call are one step, since `JobQueue` covers what can happen in between.
Failures before a run is opened, kills, overlong leases and manual runs are
faults, bounded by `MaxFaults`. Left out: the quality check and retrieval sync after
the last task, the error category, the coverage ratio and the cursor copied into
the status row, none of which any actor decides on.

### CatalogSync

`steam[a]` is the time app `a` last changed (0: not listed). `PageFor` is what Steam
answers together with what `parse_app_list_page` makes of it. `IngestPage` and
`SaveCursor` are two steps because they are two writes (`main.rs:1476` and
`main.rs:1497`); `DEVELOPMENT.md:94` speaks of a single transaction, and
`CursorIsJustified` shows that the order chosen makes the difference harmless: a
crash in between repeats a page. `Upgrade` is a new adapter version, which makes
`StartRun` begin a new pass from the stored watermark. `atStart` and `slipped` are
history: what Steam listed when the pass began, and the apps that changed behind
the cursor of a pass under way.

### FeedbackQueue

JavaScript runs to the next `await`, so an action is the code between two of them.
`Proceed` runs `runFlush` from an entry to its next request, or through the
seven-day filter to the end. `posts` and `undos` hold every request ever sent: the
server may process one at any later time and more than once, also after the
client gave up on it or the page was closed. `PostAnswered` is enabled only when
the server has the event. A retryable failure breaks the loop (`FlushBreaks`), a
permanent one marks the entry (`PostRefused`, `FlushUndoRefused`). `undo()` calls run
beside the flush (`undoing`). `Reload` restarts from local storage and flushes.

All entries are about one game, which is the case where order matters. One
account and one service address; `setItem` is synchronous as in the browser, and
a full storage is not modelled.

### Sessions

A row's number stands for its access and refresh token, which are random and never
repeat. `root` is the sign-in a session descends from through refreshes; the table
has no such column, the properties need it. `page[p]` is `ApiClient.session`,
`disk[d]` the storage that the pages of a device share and read only when they are
loaded. `refresh[p]` is the one bootstrap that all calls of a page wait for
(`sessionPromise`), `calls[k]` a call from `rawResponse` to its answer. `Authorise` and
`Perform` are the two transactions of a handler: `require_account`, then the
operation. `Denied` is the retry after a first 401. `RefreshSession` is one
transaction of the server; a page that gives up on a refresh leaves its token in
`late`, and the server may still rotate it. Events (failed requests, reloads,
expiries) are bounded by `MaxEvents`; once `MaxSessions` rows exist every request may
fail, so that the bound does not stop the client.

One account; being signed out and holding an anonymous session are the same value.
A sign-in presents the right password; a password change may present a wrong one.
A call that fails before the server handled it is not handled later, a refresh
may be. Registration creates a session as a sign-in does; the merge of anonymous
data, profiles and avatars touch no session.

### Avatars

An upload is cut at its awaits: read the row (`BeginPut`), encode on a blocking
thread (`Encode`), write the file (`WriteFile`), store the row (`StoreRow`), remove the
old file (`RemoveFile`). `Drop` is a client that goes away. Files are named after
account and content, so accounts share nothing. `overlapped` and `dropped` are
history: two uploads at once, or one that was dropped, can leave files without a
row (`api.rs:1345`), and `FilesMatchRow` says exactly which of its parts survive that.

### Listings

Both handlers take the versions first (`BeginRequest`) and read the page in a later
transaction (`ReadFeed`, `ReadCommunity`); the feed compares its ETag before, the
community list after it. `SetPlayIntent` and `DeleteVoter` change votes and revision
in one transaction. A
catalog refresh stamps its rows with the time at which it began (`StartWrite`,
`CommitWrite`), and `data_updated_at` is a maximum: rows committed with an older stamp
do not move the tag. `unseen` records that, `shifted` a refresh during the walk.
Order is by votes; the feed's other terms are functions of the catalog. `page=`
bypasses the cursor's check and is left out.

### Membership

Every call is one transaction. `Login` carries the three merge choices of
`accounts.rs`, row by row for feedback, votes and preferences, with ids that grow as
SQLite's do. `PutPrefs` writes under the version its client read. Two facts the model
showed and no property forbids: a merged-away subject that registers has no
preferences row and gets 404 from then on, and after a merge a version number can
stand for another content than the one a client read.

### AiBudget, AiRouter, AiRank

`AiBudget` is `consume_budget` of `router.rs` and `gateway.rs`, one atomic operation a
step. `AiRouter` is a call's walk over the models of a task, each with its protocols
and its circuit, under one deadline; `Succeed`, `FailModel`, `RejectProtocol` and
`ExpireAttempt` are what an attempt's await can end with. The registry is empty until
a discovery fills it. `AiRank` is recommendation and AI search: admission (permit,
charge of the daily quota), the model's await, validation against the base list,
cache, and the background task behind a progressive analysis. `ClientLeaves` drops a
request at its await, `RestartServer` drops the permits and the tasks. The cut of the
answer to its output limit is left out, as are the two other users of the same
admission (comparison, summary) and the intent parse that may precede a ranking;
that parse and the background part of AI search call the built-in model without
charging the account's quota (`api.rs:4272`).

### Curation and Releases

`Curation` has one column of each kind: derived from labels (`dominant_mode`), a fact
Steam can only affirm (`online_coop`), and a list Steam states (`platforms`). Each action
is one transaction of `ingest.rs` or `curation.rs`: evidence replaced, the column
rewritten if trust allows, overrides first. `RevokeOverride` takes the newest evidence
whatever its confidence, and `RestoreAvailability` (the repair command) looks at no
override, as in the code. `Releases` is the row and the log; `ListApp` is what a catalog
or search page does to both, which is to reset the state to `unknown`.

### Enrichment and CandidateSearch

An enrichment pass picks (`BeginPicking`), takes each game in turn (`BeginTarget` counts
the gallery attempt before Steam is asked), keeps what each request answers, and
moves the rotating cursor at the end. Two processes may run one at once and die
anywhere. Freshness is kept per kind, `ComesDueAgain` takes it away. Nothing bounds how
long a game that always fails stays ahead of others in the picking order; that is a
remark, not a property. `CandidateSearch` walks Steam's search: ingest and offset are
two writes, `Shuffle` changes Steam's list under the walk. One collector.

### RateLimits

A request is counted against a device or token, an address and everybody, then a
login name against its own table. A check holds the mutex throughout, so it is one
step; what is hard is the all-or-nothing count, the window arithmetic and the two
sweeps. A full table refuses identities it already knows as well.

### Retrieval

`BeginSync` reads the catalog, `SyncStep` writes one document with its full-text row and
its local vector, `BeginEmbedding` and `StoreVector` are `embed-documents` with the
provider's await between. `current` is the history of games that a synchronisation
covered which nothing overtook. Overlapping synchronisations can write an older text
over a newer; the next one repairs it. The scheduler's one starts at id 0 and covers
a bounded number of games (`scheduler.rs:237`), which `After` and `SyncLimit` stand for.

### Migrations

`Open` reads the version, `RunScript` commits one script with its row or fails because
another process had committed it, `AssertReady` is the check a server makes before it
serves. Backup and restore copy a file in two steps and may die between
(`ToolDies`); a file that exists in part is `torn`, and `integrity_check` rejects it. An
empty file that a backup killed at its start leaves passes that check, and restoring
it gives an empty, migrated database; the model has it and no property forbids it.

### MCServer

These thirteen share no variable, so their product would only multiply states.
The initial state picks the part that moves (`focus`), the rest stay where they are:
the state space is the sum of the thirteen, one run checks all their properties, and
every invariant of a part is also evaluated while others move, where it says
nothing new. Parts that do interact are modelled in one module (server events and
client queue in `FeedbackQueue`, jobs and worker in `Refresh`).

## Runs

| Run | Question | Instance | Result |
|---|---|---|---|
| `JobQueueOneProcess` | Are leases exclusive, reports safe, attempts bounded, and is the life cycle implemented, when all calls go through one process? | 2 workers, 2 jobs, 2 attempts, lease of 2 ticks, clock to 3 | holds, 1.2 million states |
| `JobQueueTwoProcesses` | The same safety of reassignment with a worker process beside the server | 1 job | violated, see findings |
| `RefreshCycle` | One active job per task, truthful status rows, and what may take a success back | 2 tasks, batch of 2, 1 fault | holds, 2.6 million states |
| `RefreshLive` | Does collection go on for ever, are abandoned runs closed, is a superseded run ever completed? | 1 scheduled task beside 1 that is not, 2 faults, 1 manual command | holds, 430 thousand states |
| `RefreshLostSuccess` | Does scheduling keep the last success, as the acceptance note says? | 1 task, no faults | violated, see findings |
| `CatalogSyncWalk` | Is the cursor justified, is the watermark monotonic, do passes end, does the catalog catch up? | 3 apps, pages of 1, runs of 2 pages, 3 time units, 1 crash, 1 upgrade | holds, 1.1 million states |
| `CatalogSyncMissed` | Does a finished pass bring in what was listed when it began? | 3 apps, no crash, no upgrade | violated, see findings |
| `FeedbackSync` | Do client and server agree once nothing is pending, and does the queue drain? | 2 entries, 3 faults | holds, 50 thousand states |
| `FeedbackDropped` | Does the seven-day filter drop settled entries only? | 1 entry, 2 faults | violated, see findings |
| `Sessions` | Is a token honoured once, does an ended sign-in stay ended, is a sign-out real, does a page keep its session and learn of its end? | 2 pages of one device, one call each, 2 sessions, 2 events | holds, 1.3 million states |
| `SessionsFalseAlarm` | Does only a rotated token, presented again, end the other sessions? | the same, without fairness | violated, see findings |
| `ServerParts` | The properties of the other thirteen parts, one part at a time | as below; two interchangeable actors `p1`, `p2` | holds, 900 thousand states |

Why the bounds are enough for the cases that matter:

- *JobQueue*: two workers and two jobs give every race of two calls over one row
  and over a batch; a clock of 3 with leases of 2 lets a lease expire, be
  recovered and be granted again while the first worker still reports; two
  attempts reach the limit and go beyond it through lapses. The proofs remove
  the bounds.
- *Refresh*: two tasks are enough for a batch whose second lease ages while the
  first job runs, and for a pass that is stale for its second task. Faults are
  counted because with unlimited ones nothing is live.
- *CatalogSync*: three apps with pages of one make passes longer than a run, so
  the walk stops and resumes within a pass; three time units let one app change
  before, during and after another. Since Steam stops changing when its clock
  stops, `CatchesUp` says that the catalog catches up afterwards.
- *FeedbackQueue*: two entries about one game decide which is newest; three
  faults allow a lost answer, a reload and a refusal in one behaviour. Three
  entries with two faults were checked as well and hold.
- *Sessions*: two sessions are a sign-in and its replacement, or two sign-ins; two
  events let a page reload into another's session and let it expire, or lose an
  answer and have the refresh arrive late. One page is given the sign-out,
  password change and deletion, the other the sign-out everywhere, so that each
  meets refreshes and sign-ins of the other page. Three sessions with one event
  were checked for safety as well and hold; the proofs remove the bounds.
- *ServerParts*: `p1` and `p2` are two uploads, preference clients, callers, ranking
  tasks, enrichers or synchronisers. Avatars: two images, three versions, one
  moderation. Listings: two games, two voters, pages of one, so every walk
  crosses a page boundary. Membership: two subjects, one with anonymous belongings,
  one key that both may use, five events. AiBudget: three callers, a budget of one
  per minute and two per day, so both limits and both turns are met. AiRouter: two
  calls with a chain of two models that share one, a circuit that opens after two
  failures and closes after one tick. AiRank: one account with each mode and an
  anonymous visitor, one permit, a quota of one. Curation: every value of each
  column, two golden entries. Releases: four days and a date in words.
  Enrichment: one game, two processes, two attempts. RateLimits: three kinds of
  requests, a window of two ticks, a table of four keys, fewer than are asked for.
  CandidateSearch: three games, pages of two, the list changing twice. Retrieval: one
  game with two documents, two texts, two edits. Migrations: three releases that
  start at once, a tool of any release. `p1` and `p2` occur in no other constant and
  no liveness is checked in this run, so the symmetry is sound.

### Properties worth a comment

- `NoDoubleLease` speaks of what the workers hold, not of the table: the row
  cannot show two owners, two workers can.
- `RetryBudget` says exactly what `max_attempts` bounds: failures reported. A lease
  that expires costs an attempt and is never compared with the limit.
- `SafeReassignment` forbids a report to change a lease that is not its own,
  `ImplementsLifecycle` says the same abstractly and adds that nothing else happens.
- `OnlyStalePassLosesSuccess` holds and says when a recorded success may vanish;
  `SuccessIsKept` is the documented claim, which that one case breaks.
- `CursorIsJustified` excludes `slipped` apps, those that change behind the cursor.
  `CatchesUp` excludes them too: `CatalogSyncMissed` shows they can be lost.
- `InSync`, `LatestAgrees` and `Drains` exclude entries whose undo the server refused
  for good (`stuck`). Such an entry can end with `undone = false` and
  `syncError = "undo_pending"`, or with flags that differ from the server, when
  `undo()` and the flush both sent the request and got different answers.
- `UndoneForCause` allows for permanently rejected entries: `MustPost` sends a
  cancelled entry again if it was ever attempted, so a rejected entry is posted
  with every flush and undone at once when it is accepted after all.
- `SignOutIsReal` rests on `revoke_current_session` counting the row it changed: when
  another page refreshed the session since `require_account`, the answer is a 401
  and the client retries with what it has, instead of believing that it signed out.
- `KeepsSession` is the comment at `client.ts:215`. Its exceptions are real: a page that
  signs in while an anonymous bootstrap is under way has its account session
  overwritten when that bootstrap is answered.
- `OneLivePerSignIn` has a price: a refresh whose answer was lost is repeated with a
  rotated token, and every session of the account is revoked. The identity that
  the client preserves "so a later retry can" recover is then gone.
- `FilesMatchRow` holds for uploads that do not overlap; overlapping ones can leave an
  account whose row names a file that is gone.
- `NotModifiedIsTrue` and `WalkIsExact` name their exceptions in history variables: the
  catalog's tag is a maximum of time stamps, and a feed's last page may come from a
  later catalog than the first.
- `FeedbackFollows` is the promise a merge makes; its last part says why `undone_by`
  values that point nowhere do no harm: ids are never used again.
- `BudgetHolds` gives the most the counters may let through, not the limit: each call
  that met another one counting can cost one call more, although a late store can
  even put an old window back. One call at a time gets exactly the budget. An
  earlier form of the property allowed a whole budget for each such call; the proof
  showed that one call is enough.
- `HangLeavesRoom` is the comment at `router.rs:282`.
- `CallsWithinQuota` relates three places: permits in memory, the charge in the
  database and the calls made, through abandoned requests and restarts.
- `ProfileExplained` holds only while no golden entry lifted the profile's trust; then
  a column may outlive its evidence. That bound on the property was found by TLC.
- `ReleaseRemembered` says what is remembered (the first date) and what is not (the
  state, which every catalog page resets).
- `GalleryAsksEnd`: the attempt is counted before the request, so each further process
  can add one beyond the policy.
- `QuotasHold` compares a counter with the history of what passed, so a refusal that
  charged a key on its way, or a sweep that forgot an open window, would show.
- `ExhaustedIsTrue` needs `steady`: a list that moved may hide a game for ever.
- `IndexFollowsCatalog` speaks of reads as well: a search by the old text must not find
  the game.
- `ScriptsRunOnce` rests on each script committing with its row: the loser of a race
  fails at the row's key, rolls back and exits.

## Fairness

- `Refresh`: weak fairness of the scheduler's steps, of the worker's steps and of
  time. The scheduler is a ticker in the server (`scheduler.rs:71`), the worker an
  endless loop with a sleep (`mpgs-worker-loop.sh`). Nothing is assumed of the
  manual command, of faults or of the outcome of a collection: `KeepsCollecting`
  counts a job that ends dead as collected.
- `CatalogSync`: weak fairness of the collector, which the worker loop starts again
  and again. None for Steam, crashes or upgrades.
- `FeedbackQueue`: the client flushes again (`online` event, settings page, start,
  next submit), a server reached by a request handles it, and an answer arrives
  unless a fault takes it. Faults are bounded, so requests cease to fail.
- `Sessions`: requests are answered unless an event takes the answer, and every page
  goes on making calls that need the account. `LearnsFate` excuses a table that is
  full, where the bound and not the code stops refreshes.
- `JobQueue` is checked for safety only; its liveness is that of `Refresh`, where the
  workers' behaviour is known.

## Proofs

`JobQueueProofs` proves, for any number of workers, processes, jobs, keys and any
limits:

| Theorem | Says | Assumes |
|---|---|---|
| `TypeCorrect` | `Spec => []TypeOK` | the named assumptions on the constants |
| `InductiveInvariant` | `Spec => []IInv` | one process, distinct owner names |
| `LeasesAreExclusive` | `Spec => []NoDoubleLease` | same |
| `RetryBudgetKept` | `Spec => []RetryBudget` | same |
| `ReassignmentIsSafe` | `Spec => SafeReassignment` | same |
| `QueueImplementsLifecycle` | `Spec => ImplementsLifecycle` | same |
| `TimelyReassignmentIsSafe` | `Spec /\ [][SettlesInTime]_vars => SafeReassignment` | distinct owner names |
| `TimelyQueueImplementsLifecycle` | the same, for `NoDoubleLease`, `RetryBudget`, `ImplementsLifecycle` | distinct owner names |

`SingleProcess` and `DistinctNames` are the deployment of `ARCHITECTURE.md` 6.2:
collectors call the server's API under names of their own.
`JobQueueTwoProcesses` shows the first is needed.

The argument. `NoDoubleLease` is not inductive: a step may claim a row that another
worker believes it still holds. `IInv` adds what rules that out.
`LockExclusive`: at most one worker is between the statements of a call.
`NowIsPast`: a captured `now` is never ahead of the clock, so whatever recovery
takes for expired is expired. `LeasesCurrent`: an unexpired held lease is the
row's lease, and a row leased under a worker's name carries that worker's lease
(attempt number and expiry). `NoLeaseWhileLeasing`: a worker that asks for a batch
holds none from before, so a claim cannot duplicate a lease. `ReportsCurrent`: what
`CheckComplete` and `CheckFail` saw is still true when `WriteSettle` acts on it.
`AbsentIsBlank` and `RetryBudget` complete it. Exclusion then follows: two unexpired
leases on a job would put two owner names in one row. Safety of reassignment
follows from `ReportsCurrent`, and the refinement maps each step to `Submit`, `Grant`,
`Lapse`, `Settle` or a stutter. The lemmas state what each row update builds and
leaves alone, so that the step lemmas need not open them.

The last two theorems drop `SingleProcess` and say how far the failure of
`JobQueueTwoProcesses` reaches. With several processes `LockExclusive` and
`ReportsCurrent` are false, because calls interleave between their statements.
`SettlesInTime` asks one thing of the steps: a closing `UPDATE` runs before the lease it
settles has expired. `TimelyInv` is `IInv` without the lock and with `ReportedLeaseHeld` in
place of `ReportsCurrent`: a worker whose report was found good still has the lease it
reports on. By `LeasesCurrent` an unexpired lease is the row's, so the `UPDATE` meets the
lease that was checked. The step lemmas of the first theorems are shared; they assume
`StepFacts`, which both invariants give.

`SessionsProofs` proves, for any number of pages, devices, calls, sessions and events
and any assignment of calls to pages and pages to devices:

| Theorem | Says |
|---|---|
| `TypeCorrect` | `Spec => []TypeOK` |
| `HonouredOnce` | `Spec => []OneLivePerSignIn` |
| `EndedForGood` | `Spec => EndedStaysEnded` |
| `SignOutReal` | `Spec => []SignOutIsReal` |
| `SessionKept` | `Spec => KeepsSession` |

The argument. Every step does one of three things to the table (`TableStep`): it
inserts nothing and revives nothing, it replaces one live session by another of
the same sign-in, or it begins a new sign-in. `Rooted` (a session's sign-in has been
inserted) makes a new sign-in different from all earlier ones; with it
`OneLivePerSignIn` is inductive (`TableInv`) and `EndedStaysEnded` follows. `SignOutInv`
adds that the token a handler works on is inserted: then a sign-out that counted
its row ended the only live session of its sign-in, and a sign-in without live
session stays so (`GoneForGood`). `KeepInv` says what the client names is inserted and
that a bootstrap about to give a session up has been told, or can tell, that the
session is unusable (`Justified`); then only a sign-out, a reload, or a bootstrap begun
with another session can make a page forget a usable one.

`FeedbackQueueProofs`, for any number of entries and faults: `NothingUndoneWithoutCause`
(`[]UndoneForCause`) and `SettledMeansInSync` (`[]InSync`), from `QueueInvariant`. Its
invariant `QueueInv` says of memory *and* of storage that each entry is `Sound` (an id
names an event of its own key, an entry taken back has a cause, one with nothing left
to sync was undone), that both know of every POST sent and every undo sent, that
storage is behind memory only where a restart from it repeats work (`Consistent`), that
an event is the only one of its key and answers a POST (`Keyed`), and that what awaits
an answer still wants it (`Awaited`). Storage must be in it because `Reload` starts from
there. All ways a flush can go on are one lemma (`MovedInv`), used by every action.

`NewestIsNewest` (`[]LatestAgrees`) is about the order of the whole queue and needs a
second invariant, `OrderInv` (`QueueKeepsOrder`). When the POST of an entry is sent the older
entries have been dealt with; an entry is forgotten only after the older ones were, or if
they are taken back; and an event that comes after the event of a younger entry is taken
back (`Ordered`). To keep that, a pass that awaits has dealt with all entries before the one
it is at (`PassOK`), and what is old enough to be dropped is a beginning of the queue
(`AgedOK`). The newest active event is then the event of the newest entry shown.

`FilterDropsForCause` (`[][DropsForCause]_vars`) is what is left of the comment that
`FeedbackDropped` refutes. `DropInv` adds to the two invariants what a pass leaves behind it:
an entry that is not acknowledged was never sent, and the undo of a cancelled one was
answered (`Through`), unless a request about it failed for good (`Told`); and memory and
storage both know what the user took back (`Remembered`). So feedback that was taken back
while it counted is forgotten for two causes only: a permanent failure the client was told
of, or a retryable one that broke the pass off before it came past the entry.

`RefreshProofs`, for any number of tasks, limits and faults: `OneJobAtATime`,
`SuccessEarned`, `CompletedRunSucceeded` and `OnlyAStalePassLoses`, from `RefreshInvariant`.
`OneActiveJob` needs `JobsKnow`: a pass about to enqueue found no active job of the
task and only a pass adds one. The successes need `SuccessKnow`: what a pass read is
still true of its row, and what the worker is about to write covers the row it
replaces. `SuccessKeptOutsidePasses` proves the documented claim, `SuccessIsKept`, of the
behaviours in which no worker records the first success of a task while a pass holds
the old row (`RecordedOutsidePass`): crashes, failures, superseded runs and lost leases
take nothing back.

### The catalog (`CatalogProofs`)

| Theorem | Says | For any |
|---|---|---|
| `CursorJustified`, `WatermarkRises` | `Spec => []CursorIsJustified`, `WatermarkOnlyRises` | list, page size, clock, crashes, upgrades |
| `PassesBringAll` | `Spec => [][PassBringsAll]_vars` | same |

- *Walk.* The cursor alone says nothing of the page in hand: `FetchedKnows` and
  `IngestedKnows` say what the catalog will hold, and holds, for everything the next cursor
  promises (`Promised`), `RunKnows` that the collector works from the stored cursor.
- *Passes.* `PassIsComplete` is false (`CatalogSyncMissed`). What a pass must bring in was
  listed when it began (`atStart`). `StartKnows`: Steam dates nothing back, and what the
  pages reach is in the catalog, or on the page in hand, at least as it was at the start.
  So everything listed then is in the catalog at the end, but for what changed behind the
  cursor: `PassBringsAll` names the one cause there is.

### Search, AI and the data of a game (`SearchAiProofs`)

| Theorem | Says | For any |
|---|---|---|
| `ExhaustionIsTrue` | `SearchSpec => []ExhaustedIsTrue` | list, page size, crashes |
| `IndexIsFaithful` | `RetrievalSpec => []IndexFollowsCatalog` | games, texts, synchronisers, limit |
| `HangingLeavesRoom` | `RouterSpec => []HangLeavesRoom` | models, chains, calls, thresholds, timeouts |
| `RankingsKeepTheirList`, `CallsAreCharged` | `RankSpec => []RankingKeepsList`, `[]CallsWithinQuota` | accounts, tasks, lists, permits, quota |
| `BudgetIsKept` | `BudgetSpec => []BudgetHolds` | callers, budgets, lengths of the windows |
| `ReleaseIsRemembered` | `ReleaseSpec => []ReleaseRemembered` | set of days |
| `ProfilesAreExplained` | `CurationSpec => []ProfileExplained` | features, rulings, sources, golden entries |
| `GalleryAsksAreBounded` | `EnrichSpec => []GalleryAsksEnd` | games, processes, attempts |

- *Candidate search.* While the list holds still (`SteadyInv`), all games before the stored
  offset are known, and all before the page in hand.
- *Retrieval.* For every game that was synchronised, or that a synchronisation which
  nobody overtook has scanned, the index is right about each document or the steps that
  make it right are still in the list (`Coming`); the steps agree with the catalog
  (`StepsAgree`), and one that was overtaken does not run beside one that was not
  (`OneFreshness`).
- *Router.* Until its second attempt a call has time left (`CallInv`), because the first one
  may use half of it: a call that answers `Deadline` has asked twice.
- *Rankings.* A permit count is the number of tasks that hold one, and the calls made plus
  those that charged tasks are still to make are within the charges (`RankInv`). The list of
  a task is its base in another order (`TaskInv`), through validation, cache and
  background.
- *Budgets.* Every call that overlaps another is paid for by the one that `racers` counted
  for it; what is left is the first call of each batch. A window goes through four
  situations: no such call was of it (`Early`), a batch of its own calls is the first and may
  clear the count more than once (`Opening`), the count stands and fills (`Filling`), and the
  clock has moved on (`Finished`). `Accounted` says that every window is in one of them, with
  what it may still let through.
- *Releases.* The row and the log together name exactly the days the game was ever dated
  (`ReleaseInv`).
- *Curation.* An overridden column holds its ruling, and while the trust is that of a
  store answer a column that is set has the value of some active evidence. Each writer
  is shown to replace log and column together; what filtering keeps of a log is a
  lemma about `Among`.
- *Enrichment.* `attempts <= MaxAttempts + processes - 1` is not inductive. `AsksBounded`
  adds to the attempts the passes that still *will* ask for the gallery of the game
  (`Askers`): a pass is such only if it found attempts below the limit when it picked, it
  asks for a game once (`PassOK`), and the count goes up as it leaves the set.

### The service (`ServiceProofs`)

| Theorem | Says | For any |
|---|---|---|
| `AvatarFilesMatch` | `AvatarSpec => []FilesMatchRow` | images, requests, versions |
| `FeedbackIsKept` | `MemberSpec => []FeedbackFollows` | subjects, keys, titles, events |
| `QuotasAreKept` | `LimitSpec => []QuotasHold` | requests, identities, quotas, windows, capacity |
| `NotModifiedStandsForThePage`, `WalksShowTheList` | `ListSpec => NotModifiedIsTrue`, `WalkIsExact` | apps, accounts, page size |
| `EveryScriptRunsOnce` | `MigrationSpec => []ScriptsRunOnce` | processes, releases |
| `ServerIsItsParts` | `ServerSpec` implies the specifications of the thirteen parts | all of the above |
| `PartsTyped` | `ServerSpec => []TypesOK` | all of the above |

- *Avatars.* Until two requests overlap, the one under way finds the row as it read it and
  will not remove the file shown (`RequestKnows`), and a file without a row is one it will
  still use or remove (`Expected`).
- *Membership.* Rows have an id of their own and, among their user's, a key of their own, and
  an undo link leads to the undo row of that very id (`RowsOK`). Every row that counts was
  given by somebody who did not take it back, every one that does not was taken back
  (`HistoryOK`). A subject without an account has all of its rows in one place (`OwnersOK`):
  a merge that skips keys the account has already would otherwise leave some behind. What
  a merge does is one lemma about the table, row by row, that needs no order of the rows.
- *Rate limits.* For every key there is the start of its last window (`KeyOK`): the table
  counts from there unless that window is over and was swept, and no window of the
  history, wherever it begins, holds more than the two that it may touch.
- *Lists.* A tag names versions that were (`Past`), so a change of the votes makes it differ from
  every later one; a handler that reads has the votes of the revision it names
  (`RequestOK`); a page kept under the present tag is the page the server would send
  (`CacheOK`); and the pages so far are the beginning of the list up to the cursor, for the
  votes of the cursor and for those of the handler at work (`WalkOK`). That a page continues
  what was sent is `PageFacts`, that joining pages is joining lists `FlattenAppend`.
- *Migrations.* A file's scripts and rows always count up together (`Ordered`), and no process
  believes in a version that its file has not reached (`OpenerKnows`, `RestorerKnows`).
- *The server.* In a step of `MCServer` the part that has the focus takes a step of its own
  and the others stutter (`AvatarMoves`, `ListMoves` and so on), and the focus stays
  (`FocusStays`). Hence `ServerIsItsParts`, and every theorem about a part holds in the
  run. The type invariants of the parts (`AvatarTypesHold`, `ListTypesHold` and so on)
  then give `PartsTyped`.

The type invariants of the five protocols are part of their inductive invariants.

### What the proofs assume

Only the named assumptions of the modules, which TLC evaluates on every run. Most say
that a limit is a positive number or a set finite. The others:

- `MembershipAssumption`: no key of a client is the key of an undo. A client's key is a
  random UUID (`feedbackQueue.ts:121`), the server's is `undo:` and an id
  (`feedback.rs:135`).
- `LimitAssumption`: a request counts at most two identities beside everybody, and no
  route uses the bucket of the login limiter (`rate_limit.rs:252`).
- `RankAssumption`: the lists that are ranked repeat no game, and only an account asks for
  its own model.
- `RouterAssumption`: a route's deadline is at least two ticks, so that half of it is a time.
- `SingleProcess` and `DistinctNames` of the job queue, above.

The bounds of the models (`MaxClock`, `MaxEvents`, `MaxRevision` and the like) stay in the
guards, and the theorems hold for every value of them.

### What is only model-checked

Liveness (`KeepsCollecting`, `RunsAreClosed`, `CatchesUp`, `PassesFinish`, `Drains`,
`LearnsFate`): the prover has neither liveness under fairness nor `ENABLED`. Every invariant
and every action property that a passing run checks is a theorem. The property of each
violation run is false, as TLC's trace shows; of the first four a theorem says that the
named cause is the only one.

`Among`, `InOrder` and the sequences of `FlattenSeq` are recursive functions. The library's
induction theorems take an operator and cannot be used; `CommonLemmas` does induction with
the smallest element of a set of numbers (`SmallestOf`) and with iterations of a function.

## Findings

1. *A late report can settle somebody else's lease* (`jobs.rs:176`, run
   `JobQueueTwoProcesses`). The check and the closing `UPDATE` are two statements
   and the second names the row by id alone. With every closing `UPDATE` before the
   expiry of its lease the claim holds for any number of processes
   (`TimelyReassignmentIsSafe`).
2. *A scheduler pass can take back a recorded success* (`scheduler.rs:199`, run
   `RefreshLostSuccess`). The pass writes the row it read before its first task. Nothing
   else takes one back (`SuccessKeptOutsidePasses`).
3. *An app can be skipped by every later pass* (`cursor.rs:48`, run
   `CatalogSyncMissed`). It is first listed, or changes, below `last_appid`, and a
   later page raises the watermark above its time. A finished pass has everything else
   (`PassesBringAll`).
4. *A cancelled entry can be dropped before the server heard of it*
   (`feedbackQueue.ts:226`, run `FeedbackDropped`). Its POST was committed without
   an answer, the user took it back, and a flush breaks after seven days. Unless it
   was told of a permanent failure, the client drops active feedback that was taken back
   in no other way (`FilterDropsForCause`).
5. *Refreshing any ended session signs every device out* (`accounts.rs:358`, run
   `SessionsFalseAlarm`). The comment speaks of a rotated token that is used again;
   the test is true of every revoked one, also one ended by a sign-out whose answer
   was lost or by another device's password change.

Beside these the model met behaviour that contradicts a comment in a corner no run
is about, or that a maintainer may want to know:

- `api.rs:2964` sorts games without a date "always last regardless of direction", but
  the descending order is a reversal, which puts them first.
- `ingest.rs:44` calls the capsule of a catalog page a fallback for an answer without
  one; the statement overwrites whatever a store answer gave.
- `gateway.rs:117`: a success clears the failure count and leaves an open circuit open,
  so one that began before the circuit opened starts the count afresh.
- `main.rs:133` (server) says that after a failed model discovery "routes stay
  optimistically open"; the first call that succeeds makes a registry of its one
  model, and from then on every other model of every chain is turned away.
- `migrate.rs:142`: of two processes that start together the slower one exits with an
  error; nothing is lost.

## Not modelled

- *Scoring and ranking* (`crates/recommender`): floating point, covered by golden
  tests; TLC has no reals. Distances and ranking weights of the retrieval likewise.
- *Intent parsing and merging* (`intent.rs`), *field extraction of the Steam parsers*,
  *the quality report*: pure functions of one input.
- *Web screens, desktop shell, CORS, JSON shapes*: no state that several actors share.
- *Comparison, summary and group advice by a model, web discovery*: users of the same
  admission as `AiRank` without state of their own beyond a cache.
- *The optimistic vote map of the web client* (`playIntentStore.ts`): one map of one page;
  its hazard is an identity that changes during a request (`playIntentStore.ts:132`).
- Within the modelled parts: failure of the client's storage, the desktop's queued
  writes (`storage.ts:104`), several accounts on one client's queue, several workers in
  `Refresh`, several collectors in `CandidateSearch`, display names, the rotation of
  anonymous tokens, what RateLimits puts into Retry-After.

## What would come next

The optimistic vote map composed with `Listings`; `Refresh` composed with `JobQueue`
rather than with its summary of it; a second account in `FeedbackQueue`; the sessions of
finding 5 under the conditions in which an alarm is never false.
