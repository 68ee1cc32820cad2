# thread-snap in TLA+

Specifications of thread-snap, their model-checking configurations and their proofs.
thread-snap extracts posts from three car forums into a SQLite database. Its backend
(`src/src/threadsnap`) is one process of several threads: a worker visits the sources of *runs*,
a second worker has the posts judged by a language model, a scheduler creates runs, a coordinator
carries out daily reputation inspections, screenshots are rendered from the pages seen, and old
data is deleted; a command line does maintenance while it is stopped. Its web console
(`src/frontend/src`) is a single-page application that shows and edits all of this, kept up to
date by a stream of events. *Candidate B* (`src/poc/candidate-b/src`) is a set of commands that
measure a second way of collecting: a browser crawl, a recovery of lost sessions within limits,
and probes.

Paths below without a directory are under `src/src/threadsnap`, `.tsx` files and
`event-refresh.ts` under `src/frontend/src`, and the other `.ts` files under
`src/poc/candidate-b/src`.

## Inventory

| component | state | operations | hard about it | correct when |
|---|---|---|---|---|
| storage gate (`storage_activity.py`, `app.py`, `cli.py`) | user count, maintenance flag, file lock | lease, release, maintenance, middleware, start, stop | threads and requests interleave; a stop that does not wait; two processes | a deletion is alone; every lease is given back once; every request answered |
| post extraction queue (`worker.py`, `services.py`) | `CircleTask.status/checkpoint/completed_count`, `ExtractionRun.status`, lanes in memory | claim, progress, results, cool-down, session wait, resume, end of wait, restart | lanes in parallel, rounds over platforms, flags that outlive restarts | order between runs, rounds, careful recovery, nothing lost or repeated, the queue drains |
| run transactions (`worker.py`, `services.py`, `db.py`) | the same rows | a transaction reads in autocommit until its first write | stale reads between lanes, user and recovery | a run ends with its tasks; final is final |
| visit to one source (`worker.py`, `collectors/`) | frozen candidates, failures by kind, pending segments | freeze, report, flush, refresh, classify | crash between segments; retries by candidate and by source | no candidate is dropped or asked again after it was final |
| validation jobs (`worker.py`, `services.py`) | `ValidationJob.status`, `Circle.validation_status` | create, run, wait, resume | created twice, deleted circle | a circle is verified by its newest job |
| run creation (`services.py`) | runs, tasks, `queue_sequence`, idempotency keys | manual, scheduled, retry, delete | two requests with one key | one run per key; sequences unique and contiguous |
| post scheduler (`scheduler.py`) | last tick, `ScheduleEvent` | tick | clock jumps, edits, restarts | at most once per trigger |
| sentiment analysis (`sentiment.py`) | `SentimentAnalysis.status`, accounts, claims, cool-downs | enqueue, claim, success, failure, pause, resume, orphan recovery, delete account | slots, stale configuration revisions, restart | limits respected; no analysis lost or judged under a deleted account |
| reputation inspection (`reputation.py`, `reputation_scheduler.py`) | `ReputationRun`, results, evidence, events, reports | schedule, baseline, execute, persist, report, retry, recover | capacity shared with lanes, restart in the middle, two report attempts | one official run a day; capacity; results survive restarts |
| reputation deletion (`reputation.py`) | delete jobs, quarantine, tombstones | delete, restore, retry cleanup | crash between file and row | rows and files go together in the end |
| platform sessions (`auth.py`, `session_store.py`, `auth-dialog.tsx`) | tasks with browser, lock and expiry, profile, encrypted session; the window's task and socket | create, stream, export, save, end, expire, import, refresh; open, rejoin, try again, close | coroutines that lose the task at an await; late answers to a window closed and opened again; refresh beside login | no browser without an owner; the stored session is the newest |
| screenshots (`screenshots.py`) | evidence, groups, versions, dirty flag | persist page, link post, complete, rebuild, refresh, delete | rendering outside the transaction | the current version shows the newest input in the end |
| retention (`retention.py`, `backup_retention.py`) | plan files, rows, files | preview, delete, resume | crash points, chain used again | no row without file and, in the end, no file without row |
| events (`events.py`, `event-refresh.ts`, `event-bridge.tsx`) | numbered events, the page's cursor, marks on cached answers | publish, deliver, drop, reconnect, mark, round, read, cancel | notices that cross answers; pages left and shown again; restarts | what is shown becomes current |
| configuration forms (`config-page.tsx`, `reputation-page.tsx`) | draft, revision, marks of editing, saves under way | fill, edit, save, conflict, reload, discard, restore | other users, refreshes and own saves cross the editing | no draft lost, nobody's change overwritten unseen |
| run page (`run-detail-page.tsx`) | post shown, verdict being entered | open, step to a neighbour, judge | late answers below an open window | a verdict goes to the post it was entered for |
| new extraction (`new-extraction-sheet.tsx`) | platform, circles, links, submission | choose, submit, late answer | platforms that come and go | what is sent belongs to the platform it is sent for |
| bounded session recovery (`bounded-session-recovery.ts`, `contract.ts`) | URLs left, results, session, events | segment, gate, new login, give up | a URL refused again and again, deadline, logins that fail | each URL has one result or is still left; the report is right; it ends |
| browser crawl (`throughput.ts`, `access-diagnostic.ts`) | rows of a file, requests, profile directories | visit, retry, give up, deadline, resume, promote | handlers that cannot be stopped; kills | one row a URL; no session lost |
| probes (`smoke.ts`, `http-throughput.ts`, `diagnose.ts`, `login.ts`) | queue of requests, attempts | passes over HTTP and with a browser | one queue for two crawlers, repeated lines | the report tells what was read |
| collectors, adapters, captcha, exports, dashboard, API handlers, migrations, widgets and lists of the console | none of their own | | input and output | outside these models |

How they interact: every background loop and every HTTP request passes the storage gate;
scheduler and API create runs; the worker takes their tasks, stores posts, hands each post to the
sentiment queue and each finished task to the screenshots; a login resumes the worker's waiting
tasks; an official reputation run takes platform capacity from the worker's lanes; retention
deletes finished chains under the gate's exclusive right; all publish events, on which the
console's pages read again what they show. The commands of candidate B share nothing with the
rest but the sites they read.

The hazards, each at its line and with the properties that watch it, are in `PROJECT.json`.

## Plan

Written: `ExclusiveGate`, `StorageActivity` and `PlatformQueue`; `RunTransactions` and
`SentimentQueue`; for candidate B `SessionRecovery`, `Throughput` and `BatchProbe`; for the
console `EventRefresh`, which `ConfigForms` and `PostReader` extend, `ExtractionSheet` and
`AuthSession`; and `SourceVisit` and `Retention`. Each has its MC module and its proofs, in a module
whose name ends in `_proofs`: every invariant a passing run checks is a theorem, and so is the
safety of every other property; their liveness is model-checked.

Modules still worth writing:

1. `ReputationRun` and `CapacityGate` (composed with the lanes), `ReputationDeletion`.
2. `Screenshots` (versions, the dirty flag, rendering outside the transaction).
3. `RunCreation` with accounts and with `Scheduler`, `ValidationQueue`.
4. In `SourceVisit`, the tasks whose list is read again at every visit, and lists of links.

Abstract specifications stated so far: `ExclusiveGate` for the gate.

## Modules

`ExclusiveGate` is the abstract readers-writer gate: sets of readers and writers, one action to
get in each way, one to leave, one for the death of a process.

`StorageActivity` is the gate as built. `users` and `maintaining` are the fields of
`StorageActivity`, `lockHolder` the file lock, `procState` the life of a process, `pc` where a
thread is and `tries` the middleware's loop variable. Each method of `StorageActivity` holds one
mutex and is one step. `BackgroundEnter` is `@storage_operation`; `CleanerEnter` is
`RetentionService` and the command line; `RequestArrives`, `RequestEnter`, `RequestBlocked` are
the middleware; `Start`, `BeginStop`, `ReleaseProcessLock`, `ProcessEnds` are `Container.start`,
`Container.stop` and the operating system. Four commands (import-session and the three of
reputation, cli.py:104-128) build their container and read, write and delete in the data directory
with neither the file lock nor a lease: they are the processes in `Unlocked`, whose threads
(`Commands`) are inside without asking (`CommandWorks`). materialize-screenshot-packages takes the
lock and no lease. `MCStorageActivity` gives it a backend with five threads, the command line that
takes the lock and one of those that do not.

`PlatformQueue` is the worker's queue. `status` and `cp` are `CircleTask.status` and what the
queue reads of `CircleTask.checkpoint`; `saved` is whether results were saved; `runStatus` is
`ExtractionRun.status`; `lanesRun` is how far `process_once` is with its lanes. `EnterLane` is the
claim of `_process_platform_head` with everything it computes (`Candidates` are the tasks of the
head run in the round all its active tasks have reached; `Taken` the probe, the limited one, or
all that are due); `FinishLane` the storing of all results of the lane with
`_release_auth_recovery` and `aggregate_run`; `Progress` and `HomeRedirect` are what a visit saves
on the way; `Resume` is `resume_platform`, `EndAuthWait` `end_auth_wait`, `Restart`
`recover_interrupted`. A visit to a source is abstracted to how it ends (`Kinds`); instants are
abstracted to whether they are past (`due`, `CoolDown`). Each transaction is one step.

`RunTransactions` looks at one run through the transactions that write it. `db.py` builds
sessions that do not flush before they query, on an engine that begins a SQLite transaction at
its first write, so a handler's queries read without a lock whatever is committed just then.
Each handler is therefore two steps: `ClaimRead`, `StoreRead`, `ProgressRead`, `EndRead` and
`ResumeRead` read and decide (`tx`), `Commit` writes the columns that changed, the status of the
run only if it differs from the one loaded (`seen`). A transaction that has flushed new posts
holds the lock when it counts the tasks (`"later"`). The queries of one handler are one step, a
lane saves the segments of its visits one at a time and takes any queued tasks in one wave (which
it takes is `PlatformQueue`'s matter), and `partial_success` counts as `failed`. `Break` is a lane
that does not come back from its collector or its second transaction, `Restart` the end of the
process. Ends of waits and logins run on the event loop and take turns (`Others = {"loop"}`); the
import of a session, an endpoint for development, has a thread of its own (`"import"`) and is not
in the runs: with it an end of a wait and a resumption can overlap and a given-up task may run on.

`SentimentQueue` is the queue of posts to be judged. `an` and `shown` are
`SentimentAnalysis` and the copy of its status in `PostSnapshot`; `state`, `revision` and `model`
and `limit` are the accounts; `slot` is what a thread does, `lock` is `claim_lock`. A claim reads and commits
under the lock (`ClaimRead`, `ClaimCommit`), a request ends with a verdict or a failure that is
its own (`Judged`), with status 429 (`RateLimited`), with an error of its account (`ConfigError`
reads the account, `ConfigErrorCommit` is what `_record_failure` writes), or its thread is lost
(`LoseThread`). A claim is registered before its transaction ends; when the commit fails
(`CommitFails`) the lock is free and the row still queued, and the thread goes on to call the task
failed, whatever its row says by then (`RecordFailure`); `overwritten` remembers, for the properties,
the posts of which another thread had the task or a verdict was stored. `WatchdogLook` and `WatchdogRecover` are `recover_orphaned`; `SaveRead` and
`SaveStore` are `update_config`, `TestStart`, `TestAnswer` and `TestStore` `test_connection`, cut
where another transaction may come in between, as in `RunTransactions`; `Enqueue` is
`enqueue_for_post`, which runs in a transaction that has written before. `enabled` of an account
is true exactly while its status is valid and is not kept twice. The retries within a request,
the number of threads and whether an answer covers all media are left out; `analysis_partial`
counts as failed; `analysis_disabled` is never queued and not there.

`SessionRecovery` is `executeRecoveryControl`. `remaining` and `final` are its `remaining` and
`finalByUrl`, `answered` the segment under way, `pending` is `pendingTriggerUrl`, `refreshes` the
`session_refresh` events, `at` where the loop is. An answer is the class `contract.ts` gives its
document; the login, the cookies' expiry and the deadline are steps of the environment. The gate
asks for the first URLs of the input under every new session.

`Throughput` is a crawl and the making of a browser profile with a text message. `rows` is the
file by URL, `request` the crawler's request of each URL, `strays` the handlers it gave up on,
`sampled` and `samples` the diagnostics counted and written, `profile` the three directories. The
crawler library is modelled from what the command relies on: handlers run beside each other, are
tried again after an error, and are given up on after a while without being stopped. `Killed` and
`Again` are the process's end and the next call for the same directory.

`BatchProbe` is four commands of one shape (`tool`): a list of lines, passes over it by the
crawlers of one queue, which knows requests by their `Key`, and a report from the attempts.
diagnose.ts minds only whether a page came; milliseconds matter only to http-throughput.ts, which
names the refusal that came first. `MCCandidateB` lets one command run in each behaviour.

`EventRefresh` is the way from a change in the server to the page. `bus` and `cursor` are the
events of `events.py` and the `Last-Event-ID` of the stream, `invalidated` the query cache's
mark, `pending` and `timer` those of `event-refresh.ts`; `fetching` and `answer` cut a request
where it is read at the server and where it settles. TanStack Query is modelled from its use: an
answer replaces what is held, whatever is older; a query that is shown again is read when it is
marked, and may be when it is old; leaving a page cancels its requests. Three marks say which
losses the page cannot notice: `failed`, `outrun` (the answer of a save replaced a newer one) and
`cut` (a round was consumed and its request then cancelled). The requests of a form do not take
the signal that cancels them; the page with the forms is shown all the time in the model.

`ConfigForms` extends it with one form (`kind`): the plan, an AI account, the platforms, the
circles, or the window for a vehicle of the reputation scope. `draft` is what the form holds with
the revision it goes with, `touched` the forms' own mark of being edited, `save` and `restore`
the requests under way. How a form is filled when an answer comes differs between them and is
`PlanFilled`, `AccountFilled` and so on. Which fields stay open during a request does too
(`Editable`): the lists and the vehicle's window during a save, the plan while a rule is restored
or the plan is read again, and what is typed there is as much the user's as the rest. Vehicles are
saved against the revision the page holds at that moment, whatever it held when the window was
filled. In the server a save is two steps, `ServerChecks` and `ServerStores`, with nothing that
makes the second conditional on the first; the transactions of others may likewise have read an
earlier version than the one they replace (`Reads`, `RowsRead`), and only what differs from the row
they loaded is written (`Written`). A revision is therefore not a version: `revisions` says which
one each version in `versions` carries, and two may carry the same. `mine`, `basis` and `misled` are
kept for the properties.

`PostReader` extends it with the sheet of posts and the window for a verdict: `reading` is the
post in the address, `seen` what the sheet goes on showing until it has come, `entered` what the
fields were filled for. The neighbours of a post are abstracted to any post, and of two posts one
changes; an event about one concerns both, since a notice about a run has every post of it read.

`SourceVisit` is what `_execute_task` and `_apply_result` do for one task of Autohome, whose
candidates are frozen before the first is asked for. `task` is `CircleTask.status` with the keys
of its checkpoint, `saved` the candidates with a `PostSnapshot`, `verified` whether the circle
is; `visit` holds the locals of `_execute_task` and where it is. `BeginVisit` is the beginning up
to the collector; `Validate`, `ReadList` (with `freeze_candidates`) and `Ask` are the collector's
requests, each with what `report_progress` stores at once; `Refresh` is what a lost session sets
off, after which `half` is 2. `finalize_payload`, `collector_failure_result` and `_apply_result`
are `StoreCall`, `StoreSourceRetry`, `StoreLost` and `StoreFailed`, one for each kind of result.
The platform has one request at a time (autohome.py:282). Waiting and order are `PlatformQueue`'s;
`last` and `unnamed` are kept for the properties.

`Retention` is how extraction runs are deleted: chains of them by `RetentionService`, single ones
by the user. `run` and `parent` are `ExtractionRun` with `related_run_id`; `group`, `home` and
`contributors` are `ScreenshotArtifactGroup` with `chain_root_run_id` and its contributions;
`evidence` and `artifacts` are the files of runs and groups, `plan` the files
`extraction-<root>.json`, `completed` whether `state.json` names today. `cleaner` is where
`_process_once` is, with what is left of its snapshot: between two items the gate is open and a
user may retry, judge or delete. `BeginPass` is the beginning up to the snapshot, `TakePending`
`_resume_plan`, `TakeCandidate` an item of the snapshot with its second look, `DeleteChain` the
transaction of `delete_chain`, `CheckCommitted`, `RemovePath` and `DropPlan` the finish. `manual`
is `DELETE /runs/{run_id}`: `DeleteRow` the transaction, `UnlinkFiles` the files, `KeepGroup` and
`DropGroup` one transaction of `reconcile_after_run_delete` each. Instants are abstracted to
whether the fourteen days are over (`Age`); analyses count as part of the run. A run has one
source, so `_get_or_create_group` finds a group by the root alone; runs are visited in their
order, which `PlatformQueue` shows. `abandoned` is kept for the properties. `MCExtractionRuns`
lets either the transactions of a run, the visits to one source or the deletion of runs happen in
each behaviour: the gate keeps the last apart, and the visits write rows of their own.

`ExtractionSheet` is the sheet for a new extraction; a circle or a link stands for its platform.

`AuthSession` is the browser tasks of `auth.py` for one platform with the window of
`auth-dialog.tsx`. Requests and streams are coroutines, each step what happens from one await to
the next; `browser` of a task is where its browser is, `ready` that input is taken, `driver` that
the driver was started. Closing is two awaits, of the context and then of whatever driver the task
has by then (`ContextClosed`, `DriverTaken`, `DriverStopped`), and the first may fail: then the
driver is not stopped (`CloseFails`, `ClosingFails`). A finish that finds its connection broken
leaves a running browser not ready (`broken`), and the next stream to enter starts another over it:
`astray` records that a task has lost a running browser so, which nothing in the server leads to any
more. A context whose closing failed is taken for gone, and no page or browser dies of itself. A
message to the window arrives at once. `MCWebConsole` shows one page in
each behaviour.

Definitions marked "Slip:" are mistakes the properties must notice; they are part of no
specification, and each is exchanged for the definition after it to see that the run fails.

## Runs

| run | specification | what it shows |
|---|---|---|
| `storage_gate` | `FairSpec` | `CountersMatch`, `Exclusion`, `OverlapOnlyAfterRelease`, `EveryRequestAnswered`, and `ImplementsGate` |
| `storage_bypass` | `Spec` | `NoBypassOfLeases` fails: the lock is given back while a thread still works |
| `queue_safety` | `Spec` | `ServedInOrder`, `RoundBarrier`, `NothingRunsUnauthenticated`, `ProbeGoesFirst`, `LimitedGoesAlone`, `RunEndsWithTasks`, `FinalIsFinal` |
| `queue_drain` | `FairSpec` | `QueueDrains` |
| `queue_cooldown` | `Spec` | `CooldownIsQuiet` fails: sources in front of a limited one are visited while it cools down |
| `extraction_runs` | `RunsSpec` | `NoLaneWhileWaiting`, `EndedRunHasEnded`, `FinalIsFinal` hold although what was read is stale; `CandidatesAccounted` and `AskedOnce` of the visits to a source; `FilesGoWithRows` and `ChainsGoWhenOld` of the deletion of runs |
| `run_stays_open` | `Spec` | `RunIsEnded` fails: two lanes that finish together leave the run running |
| `sentiment_queue` | `FairSpec` | `WorkedOnOnce`, `LimitsKept`, `PostsAgree`, `JudgedIsFinal`, `QueueIsWorked` |
| `sentiment_left_paused` | `Spec` | `PausedMeansUnusable` fails: a late failure pauses a task of a valid account |
| `candidate_b` | `CommandSpec` | `UrlsExplained` (`UrlsAccounted` of the recovery and `RowsExplained` of the crawl), `ReportsTellAll` (of the probes), `SessionSurvives`, `EachCommandEnds` |
| `web_console` | `ConsoleSpec` | `DraftsAreTheUsers`, `SentAsMeant` (`SentAsShown` and `StartedForItsPlatform`), `BrowsersAccounted`, `OverwritesExplained`, `RefreshedInTheEnd` |
| `events_after_restart` | `RestartSpec` | `RefreshedAfterRestart` fails: events numbered from one again are held back behind the old cursor |

Bounds. The middleware tries 100 times; two (`MaxTries`) show waiting, entry on a later turn and
refusal. Two runs over two platforms, three sources of one run of which two share a platform and
one of another behind them, are the least in which a run can overtake, a round can span
platforms and a recovery has both a probe and a task held back. `HOMEPAGE_MAX_RETRY_ROUNDS` is 3
in the code and 1 here, enough for a round to be entered and for the last one to be final.
`MaxTrouble` bounds visits that end without a verdict and restarts together: three in
`queue_safety`, two in `queue_drain` (a lost session, a retry and a restart in any pair). The
kinds of ends differ between the runs to keep the state spaces small: `queue_safety` has missing
lists, rate limits and lost sessions, `queue_drain` missing lists, network failures and lost
sessions. `Saving` and `WithHome` say which tasks may save results and be redirected. Deadlock
is checked in the runs of the queue, whose loop never stops, and not in those of
`StorageActivity`, whose processes end, and `RunTransactions`, where nothing is left to do once
the run is over. `RunTransactions` has two tasks on one platform and one on another, the least
with two lanes and a lane that takes its tasks in two goes, and at most three unfinished visits,
broken lanes or restarts: a wait on each platform and a restart, or a wait, its end and another.
`SentimentQueue` has two posts, two slots and two accounts, one of a hosted model with room for
two requests, which the user may lower to one (`Limits`), and one of the local model, which has room
for one; a post of the first account and one of either (`Given`): enough for two slots to want one
task, for both accounts to want the local model, for a limit to sink below what is under way, and
for one task to wait while the other is paused, lost or judged. `Managed` is the account the user
saves once (`MaxSaves`), to the local model or as it is, and tests as often as he likes;
`MaxTrouble` allows two lost threads, failed commits, restarts and saves together, so that a task
can be orphaned for the second time or a failed claim meet a save. Its queue never deadlocks: tests
can always be made.

`candidate_b` has three URLs of which two are gate URLs and two recoveries (three gates in the
program): a URL can be refused at the gate and behind it, under a session that was renewed before.
Four classes of answers stand for those that are results, those a new session may cure and those
none cures. The crawl has two pages, two attempts, two at a time, one sample for a class (three in
the program), three calls and two mishaps, enough for a stray handler to write after a retry and for
a kill between the two renames to be followed by a call. `SessionSurvives` has one exception: an old
session that an earlier mishap left aside is given up for a new one being promoted, and a second
mishap just then leaves none. Probes have up to three lines over two sites and a malformed one, so
lines repeat. `web_console` has two sections of a form, one of which another user changes too, three
versions, two edits, two posts, no overlap between transactions of others (`MaxOverlap`), and
`MaxIncidents` of one for what is rare on a page (a failed or
lost request, a stream that breaks, a return of the focus, a restored rule); two platforms,
submissions and changes of the platforms; two tasks, requests and sockets, enough for one task to
replace another whose stream still works. The user's save overlaps with others all the same, its
check and its writing being apart; others among themselves would only leave two versions with one
revision, which takes two versions to make and a third to be saved against, so that it shows at the
fourth. With four versions and `MaxOverlap` of one the forms take longer than a run should; their
invariant was checked with an overlap on a million states, and the theorems hold for any. Neither
run checks deadlock: the commands end, and a page whose bounds are used up stands still.

`SourceVisit` has two candidates and one round of three, as in `PlatformQueue`, and three
setbacks (`MaxSetbacks`: restarts, lost sessions, failures of the source or of its circle's
validation): a session lost twice in one visit and then a restart. Three candidates with two
rounds pass as well and are too many beside the liveness of the deletion. Trouble with single
candidates is not bounded.

`Retention` has three runs (and room for three groups), the least in which an original leaves two
chains with a group in common, and one incident (`MaxIncidents`): a crash anywhere, a file that
cannot be removed, a transaction that fails, a pass broken off, or a verdict that makes an old
run recent again; each property is about what one of these does, at every point it can come.
Deadlock is not checked: when all runs are deleted nothing is left to do.

What some properties say is as much in their exceptions, which are what the code does.

- `OverlapOnlyAfterRelease` allows overlaps with a process that has given the lock back while
  stopping, and with the commands that never take it. docs/design/technical-route.md:508 says of
  the lock that it covers the command line of a stopped service; cli.py:104-128 does not take it.
- `WorkedOnOnce` and `JudgedIsFinal` allow what follows when a thread whose commit failed calls a
  task failed which another thread has or has judged (`overwritten`): sentiment.py:2323 writes the
  row outside of `claim_lock` without a look at it, although docs/design/technical-route.md:145 has
  claims serialised so that no task is claimed twice. `LimitsKept` speaks of the limit the claim
  read: requests that were sent go on when a limit is lowered (product-design.md:249), and one save
  more may be stored between the reading and the commit of a claim, which does not look again,
  although the same lines have later claims obey the new value at once. Requests for overwritten
  rows are not counted.
- `OverwritesExplained` allows four ways to overwrite unseen, although
  docs/design/product-design.md:591 has the revision against conflicts of this kind. The server
  reads the revision and stores later, with no look at it in between (sentiment.py:1430 and 1475,
  services.py:329 and 627, reputation.py:3037 to 3093): what was stored in between is overwritten
  (`Raced`), two versions can come to carry one revision and the check then passes for either
  (`Ambiguous`), and the answer of such a save has the form show what its user never saw, as a late
  answer does that puts an older version in the cache (`misled`). And a vehicle is saved from a
  window that was filled before the page read the newer scope (`WindowOutdated`).
- `DraftsAreTheUsers` allows the answer of a save, of a restored rule or of a reload to overwrite
  what was typed after it was asked for, in the forms whose fields are open then
  (config-page.tsx:446 with 197-200, 575, 682), although docs/design/product-design.md:347 has the
  fields of a tab locked while it is saved and no restored rule overwrite what is being edited.
- `BrowsersAccounted` allows one way to lose a browser that runs: the connection is found broken
  when the session is to be saved (auth.py:612-613, 487-488), the task stays active and not ready,
  and the next stream, not finding it ready (auth.py:321), clears the profile in use and puts a new
  driver and context in the place of those that run (auth.py:329-330).
- `RefreshedInTheEnd` allows what was `failed`, `outrun` or `cut`; without any of them it fails.
- `CandidatesAccounted` allows two ways out of sight. A failure of the source stores an empty
  `retry_urls` (worker.py:1248) and keeps the frozen candidates. Once they are frozen such a
  failure needs a validation of the circle, that is, a job that failed since (worker.py:425) and
  a restart, a retry or a new session. The next visit then has nothing to ask for (worker.py:698)
  and the task ends as a success without the rest, although docs/design/product-design.md:183 has
  frozen candidates visited again at the same URL. And a wait for a session the user ends
  (services.py:1935) leaves the failures of the last call in `failed_urls`; when there are any,
  `RunService.retry` (services.py:1627) takes those alone, without the candidates not asked for
  yet, although docs/design/product-design.md:185 lets what is missing be extracted later.
- `FilesGoWithRows` allows the files of a user's deletion that broke off (`abandoned`).
  `DELETE /runs/{run_id}` commits the deletion of the rows and then unlinks files (app.py:648)
  with nothing written that would name them, and screenshots.py:1159 ignores failures, although
  docs/design/technical-route.md:180 has failures with files recorded and tried again.
- `ChainsGoWhenOld` allows chains with a group of screenshots in common, and plans for which such
  a chain, or a group a broken-off deletion has left, still has a row. `related_run_id` is emptied
  when the parent is deleted (models.py:202), so the retries of an original the user deletes become
  chains of their own with a group in common, and `_inspect` (retention.py:336) refuses each
  because of the other, every day, although docs/design/product-design.md:187 keeps every chain
  fourteen days.

`KeepGroup` has a deletion that fails: the home of a group is unique with the source
(models.py:401), and after the original of two retries is deleted while the second goes on in a
group of its own, the deletion of the first retry would give the common group the same home. The
request fails at screenshots.py:1170, its rows and files gone, and the group goes on showing the
deleted run. No property of a run speaks of what a group shows.

Fairness. In `StorageActivity` the event loop turns every waiting request again and every operation
ends; nothing obliges a thread to ask. In `PlatformQueue` the loop of `worker.py:295` calls
`process_once` again and again, visits end (each has timeouts) and cool-downs pass; there is no
fairness for `Resume` and `EndAuthWait`, which are the user's, so `QueueDrains` allows a platform
that waits for a session. Validation jobs and official reputation runs, which go first in
`process_once` and in a lane, are finite and left out. In `SentimentQueue` the slots and the
watchdog loop (`sentiment.py:1943`), requests have deadlines, a limited request is tried once more
and no oftener (so `Judged` is strongly fair against cool-downs others cause), and a save or a test
that was begun ends; the user need not begin any. In `Retention` the service polls every minute
(`retention.py:108`) and goes on with what it began, a request that was begun goes on, days pass,
and runs end, strongly fair because one pass after another may be in the way. Nothing temporal is
claimed of `SourceVisit`. In candidate B each request and each step of a login has a timeout and the
deadline comes; nothing is asked of a stray handler or of a kill. In the console the timer fires and
the browser opens the stream again and reads it; requests reach the server and their answers come
back, strongly fair because a query may be asked anew while the request before is under way, over
and over, and one of these is answered in the end. Users, other users and the server's own changes
are free, and so are the steps of `ExtractionSheet` and `AuthSession`, about which nothing temporal
is claimed.

## Proofs

`StorageActivity_proofs` proves, for any processes, threads and `MaxTries`, `CountersCorrect`,
`ExclusionHolds`, `TakingTurns` and `Refinement`. The inductive invariant `IInv` adds to `TypeOK`
and `CountersMatch` that a waiting request has turns left, that the flag is only raised when the
count is zero (exclusion is not inductive without it), that a running process holds the file
lock (unless it never asks for it), and that a dead process has no thread at work. The assumptions are that the threads are
finitely many, that each belongs to one process and that the kinds of threads are disjoint.

`PlatformQueue_proofs` proves every safety property of `queue_safety`, `FinalIsFinal` among
them, for any finite set of tasks, any runs, platforms, kinds of ends and bounds. They are one
inductive invariant `IInv` with three additions. `LaneAtWork` says that what runs was taken by a
lane that has not been asked again: without it a lane could be entered on top of its own work.
`FlagsApart` says that no task is both probe and held back, so that the marked probe is one a
lane may run. `RoundsLeft` says that a redirect is only noted while a round is left, which keeps
the rounds within their limit. Every step but a lane's is `Calm`: it starts nothing, and what
runs on keeps the keys it was taken by; `CalmPreserves` shows once that this keeps the order, the
barrier and the care, and each such action is shown to be calm. `EnterLaneStep` is the one
action that starts tasks and is argued on its own: `FirstIsLeast` (a set of tasks has a first
one), `TakenIsCandidate` (what the choice guarantees) and `TakenFromFirstRun` carry it. The
assumptions are that a run has a task (`services.py` refuses an empty run; without it an empty
run could never look finished), that sequence numbers are distinct, and that those of a run are
contiguous, because `create_manual` takes them in one transaction under the write lock.

`StorageActivity_proofs`' invariant also gives `GateTyped`: no request ever has more turns than
`MaxTries`.

`RunTransactions_proofs` is in two layers. `LaneInv` says what a party that has read and not yet
written is about to write: a lane only rows of its platform, and only the transitions its
transaction may make. It is inductive whoever else writes (`Others`) and gives
`NoLaneWhileWaiting`. `RunInv` adds that nobody else changes a row somebody is about to write
(`Fresh`), that what a lane waits for is running, and that whoever has counted all tasks as final
still counts right when he commits (`Verdicts`). `WritesApart` carries it: lanes have their own
platforms, and only one of the others can be between its reading and its writing. Hence the
hypothesis `"import" \notin Others` of `RunEndsLast` and `FinalStays`. It is needed: with an import
that has a thread of its own TLC finds thirteen steps after which an end of a wait and a
resumption have both decided on the same waiting task while a lane stores, and the run ends with a
task that is queued again.

`SentimentQueue_proofs` adds to the properties what the claim lock guards: between choice and claim
a slot has the lock, its post is nobody's unless overwritten and its account has the room it found
(`ChosenUnderLock`, `ChosenHasRoom`), since nobody else makes a row running; whoever works while the
watchdog has the lock worked when it looked (`WatchdogKnows`, without which the watchdog could take
back work just begun); and the one local predictor has one running row (`OneLocal`). `LimitsHold` is
about the step that begins a request: what is under way is running, and what was running left room.
That posts are finitely many numbers and limits are not zero are its assumptions.

`SourceVisit_proofs` proves `CandidatesAccounted` and `AskedOnce`, for any list of candidates and
any number of rounds and setbacks. The property says nothing while a call is under way; `VisitInv`
says what holds then. `Answers` ties the checkpoint to the last answer about each candidate,
`CallKnows` ties the failures the call has in memory to those it has already stored, `CallAsks`
says that what is left to ask for is all that is not known. `Kept` and `FailuresApart` are what a
break at any point leaves behind.

`ExtractionRuns_proofs` proves `FilesGoWithRows` and the safety half of `ChainsGoWhenOld`
(`OnlyWholeOldChainsGo`). `DeletionInv` says for each stage of the service's deletion what its
look under the gate still guarantees (`CleanerAlone`), for the user's deletion what it has still to
remove, and of each file without a row who is going to remove it. The original of a chain is
a recursive function of the number of steps; `NumbersByInduction` is induction for a set of
numbers, from the well-foundedness of `<`, and `RootIsTop` uses it to show that the climb ends at
an original. With that `ChainsStay` needs no further induction. The module then joins its proofs to
those of the run's transactions and of the visits: a step of `RunsSpec` is one of each part's
specification or leaves that part as it is (`Parts`), so `RunsSpec` has what each of them has
(`RunsTyped`, `RunsSafe`).

`WebConsole_proofs` proves all safety of the console, page by page. `EventsInv` says that no answer
is newer than the server, which gives the types. `ReaderInv` says that the window for a verdict is
open only on what the sheet shows. `FormInv` has six parts beside the types: what was typed is in no
version of the server, so that its section stays different from any answer the form is compared with
(`TypedOnce`); a list's mark stands while anything in it is the user's (`MarkKept`); which form has
which questions open (`DialogsByKind`); what a save under way contains of the user's, and that what
it does not contain was typed later (`SavesMine`); that during a restore all that is the user's was
typed after it was asked for (`RestoresMine`); and that the question about a conflict comes when the
save is over (`AskedAfterwards`). `DraftsStay` then goes over the actions once (`FormLeaves`): what
leaves the form was saved, given up, or typed while the answer that replaces it was on its way.
`AuthInv` says that a task's lock has one stream inside (`OneInside`); what that stream may count on
at each await although the requests do not take the lock (`StreamsWork`: while it sets up a browser,
one that still runs was left by a finish whose connection broke; one it works is an active task's;
one it gives up is gone); and of a task nobody is inside of, that a browser it runs takes input or
was left by such a finish (`TasksKept`, `TasksLeft`). The assumptions are that each event concerns
its own key at least, that a version of everything exists, and that the answer the forms show is
not a post.

`NothingOverwrittenUnseen` is the theorem about optimistic locking over all kinds of form, an action
property: `OverwritesExplained`. Its invariant `SeenInv` compares what the user was shown with the
version a save will be checked against. Until the page was `misled`, no form is newer than the cache
(`NotAhead`), so a form on the newest revision shows the newest version; whatever is edited there
was edited from that version (`EditsSeen`), which a save takes along when it is sent (`SentSeen`)
and leaves true of what it does not save (`OthersSeen`). A vehicle's window shows the version it was
opened on (`WindowSeen`). The server accepts only the newest revision (`CheckedSeen`), so when no
other version carries it and none is stored before the writing, the version a save replaces is the
one that was shown. Each exception in the property is a link of this chain that the code leaves open.

`CandidateB_proofs` proves the safety of the recovery, of the crawl and of the probes. In the
recovery the URLs not dealt with are the last ones of the input in their order (`InOrder`), so that
one number, `Gone`, tells which have a result. That a recovery counts as one just when the refused
URL got another answer is an argument by counting: refreshes that are marked and refused URLs that
were answered grow together (`Counted`), and when a refused URL is answered some refresh for it is
still unmarked, because there are at most as many refused URLs as refreshes. In the crawl only
handlers that were given up on can have written a row of a URL that is still open (`OpenRequests`),
which makes each further row a stray one's; samples written and samples held are together no more
than those counted (`SamplesCounted`); and while a profile is promoted its source holds a session,
while the old one is aside the target is absent, and a backup at any other time means an earlier
mishap (`ProfilesInv`).

The probes build their queue with a fold, which the library defines by recursion over sets and
states no facts of. `QueuesExist` shows by induction that a function with that recursion exists
(the induction is over a set of numbers, `NumbersByInduction`, so it needs no operator parameter),
`EnqueuedInTurn` that the fold then takes the requests up one after the other, and `EnqueuedIs` what
it makes of them: the wanted requests, each once, the first and the last in their places.
`ReportTellsAll` speaks of what is written at the end, so the invariant (`ProbeInv`) keeps what the
log will be made of: no request is in two places or made twice (`Once`); those ended, under way and
queued are together what the passes so far ask for (`Passes`), the browser being asked for exactly
what HTTP did not read; all over HTTP comes before anything with a browser (`HttpFirst`); and
diagnose.ts's browser makes one visit at a time, with home as its first (`HomeFirst`) and the first
URL again as its last (`RevisitLast`). When a pass is over the log is then all that was asked for,
and the report follows: the last attempt of a line is the browser's just where there is one
(`TwoTries`), the first refusal is the least of a non-empty set (`FirstIsEarliest`), and the visits
between the first and the last are as many as the URLs (`TourSeen`).

Each invariant was checked by TLC as one of a run before it was proved, most on the bounds of the
runs above: `RunInv` on 75 thousand states, `LaneInv` with both others on 2.3 million, the invariant
of `SentimentQueue` on 468 thousand, `VisitInv` on 122 thousand, `DeletionInv` on 383 thousand, those
of the console, `SeenInv` among them, on 954 thousand, the recovery's on 52 thousand and `ProbeInv` on
another 52 thousand.

Only model-checked: `EveryRequestAnswered`, `QueueDrains`, `QueueIsWorked`, `EachCommandEnds`,
`RefreshedInTheEnd` and the liveness half of `ChainsGoWhenOld` (liveness under fairness, out of the
prover's reach); and the five findings. `EndedRunHasEnded` is not claimed where sessions are
imported: there it does not hold.

## Not modelled

Parsing and fetching of pages, rendering, exports and the HTTP handlers are input and output.
The contents of posts, names and messages are left out everywhere. In `PlatformQueue` a
transaction is one step; `RunTransactions` has its halves, without order, rounds and recovery.

Of the backend, validation jobs, creation of runs, the scheduler, reputation runs and their
deletion, and the rendering of screenshots are still to be modelled (Plan). Of the visits to a
source, tasks with a list of links, the platforms whose list is read anew at every visit, reuse of
records and page evidence are left out. Of retention, chains of reputation runs (which go through
their deletion), backups, and the checks that paths lie where they should are left out. Of the
sessions, what is stored in files, the refresh by a worker and the import are left out; so is that a
browser nobody comes back to runs on past its expiry, which only a stream or the next request for a
task looks at. Of the console, polling at an interval is left out (it would hide what events alone
miss; `RefreshedInTheEnd` holds without it), as are the tests, choice, creation and deletion of
accounts, the polling of validation jobs, history and templates, the reputation pages but for the
vehicle's window, and the widgets. The window of a thousand events is not bounded. The JavaScript
that answers captchas imitates a browser and has no protocol.
