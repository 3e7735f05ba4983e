# Snake arena in TLA+

The arena lets users write agents for multi-player snake. Code is saved, built
into an image, tested, submitted, and then played in ranked matches for ever;
Postgres holds all shared state, Docker runs the agents. This directory models
the parts where several processes, threads or requests act on shared state,
checks them with TLC and proves part of it with TLAPS. There are four models:

| model | question | top module |
|---|---|---|
| ranked pipeline | does every submitted version get its matches, once? | `RankedPipeline` |
| development pipeline | is what is submitted what was saved, built and tested? | `DevPipeline` |
| match execution | does one match end, blame the right agents and leave nothing behind? | `MatchExecution` |
| API process | do limits, ownership and the event loop survive requests that interleave? | `ApiServer` |

Contents: [inventory](#1-the-system), [plan](#2-plan),
[modules and code](#3-modules-and-the-code-they-stand-for), [runs](#4-runs),
[proofs](#5-proofs), [findings](#6-where-code-and-documentation-disagree),
[what is left out](#7-abstractions-and-what-is-not-modelled).

## 1. The system

Paths are below `src/services/` unless they start with `migrations/`.

### How the parts interact

```
 browser --HTTP--> api ------+                        +---> scheduler ----+
                             |   (tables; triggers    |                   | INSERT job
 operator CLIs --------------+-->  pg_notify)         |                   v
                             |     Postgres  ---------+---> match runner x N
                                                      |        | run_match (Docker, gRPC)
                                                      +---> test runner x N (builds, run_match)
                                                               |-- redis --> live viewers
```

Nothing talks to anything directly: a process writes a row, a trigger notifies,
a listener thread in another process sets an event, that process wakes up and
looks at the tables. Each statement, or small group of statements, is a
transaction; nearly every decision is therefore taken on data that may have
changed by the time it is acted on.

### Components

| component | state it keeps | operations | what is hard | what makes it correct |
|---|---|---|---|---|
| ranked job queue (`sa_common/db/match_jobs.py`) | `match_jobs` rows: status, mode, projects | enqueue, claim (`SKIP LOCKED`), mark success / failure, cancel, cancel with an erased user | several claimers; rows that are locked, but still queued; updates by id that never look at the status; dead claimers; erasure of running rows | a row has one owner; only the owner settles it; the oldest that nobody has locked goes first |
| wakeups (`sa_common/db/notify.py`, `migrations/001.sql`) | LISTEN sessions, notifications under way, `threading.Event` | notify at commit, receive, (re)connect with flush, clear, wait | notifications before LISTEN or during an outage; clear-then-drain; which writes notify at all | no daemon waits while there is work it should do |
| matchmaker (`orchestrator/matchmaker.py`) | none: reads `projects`, `match_jobs`, `matches` | underplayed versions, a seed, a group | jobs name projects, matches name versions; two queries that must agree | nobody gets more matches than the target, everybody gets the target |
| scheduler (`orchestrator/scheduler_daemon.py`) | locals of a tick | count queues once, walk the modes, insert up to the cap | counts and lists are used long after they were read; no timer | queue cap; no job without need; no sleep over due work |
| match runner (`orchestrator/runner_daemon.py`, `agents.py`) | the claimed job, the resolved versions | claim, resolve, play, quarantine, record or fail | the match runs outside any transaction, for minutes; crash at any point | match row, participants and status agree; the right version is quarantined |
| project lifecycle (`sa_common/db/projects.py`, `api/.../projects.py`) | dev code, version, status, image; submitted version, crashed flag | save, build status, test verdict, submit, delete, quarantine | save during a build, save during a test, submit during a match | what is submitted is what was built and tested |
| modes (`db/modes.py`, `db/mode_groups.py`) | enabled, target, seats | create, edit, enable, group | which edits wake the scheduler | an enabled mode is served |
| results (`db/matches.py`, `runner/match_results.py`) | `matches`, `match_participants` | insert, prune, place the players | pruned while counted | a match counts for the version that played it |
| builder (`builder/build.py`) | build status, image tags | build, record, collect old images | collects tags read before the build | the submitted image exists |
| test queue and daemon (`db/test_match_jobs.py`, `test_runner_daemon.py`, `redis_observer.py`) | `test_match_jobs`, redis streams, bundles | enqueue, claim, stop, verdict, reset stale, prune | a stale reset against a live owner; prune against pins | one outcome per job; a verdict for the code tested |
| test API and live stream (`api/.../test_matches.py`, `api/redis.py`) | requests, websockets | enqueue, cancel, pin, stream | check-then-act limits; subscribe against publish | limits hold; every viewer sees the end |
| match execution (`runner/match.py`, `router.py`) | Docker networks and containers of a match | set up, probe, run, clean up, sweep | failure of any step; sweep against live matches | nothing leaks, nothing live is removed |
| container manager (`agent_container_manager.py`) | CPU and wall windows, banks, kill reasons | baselines, four observer callbacks, poll thread, kill | poll thread against callbacks against late events; containers that are gone | killed for cause and once; a hung agent does not hold up the match |
| quotas and guests (`api/rate_limit.py`, `db/quotas.py`, `db/guest_sessions.py`) | counters per window, guest sessions | peek, consume, claim, expire | peek-then-consume; expiry against use | limits hold; a claimed guest survives |
| scoring, leaderboard (`sa_common/scoring.py`, `db/agent_scores.py`, ...) | none | compute scores | numeric edges | order agrees with results |
| bundles (`bundler.py`) | files behind keys | write, read, delete | leak on crash | a stored key has its file |
| API process and accounts (`api/main.py`, `api/db.py`, `api/auth.py`, `db/users.py`, `api/.../webhooks.py`) | `users`; requests with their transactions, the event loop | authenticate, handle, commit or roll back, erase a user, clean up guests | blocking calls in the loop; row locks; deletes that cascade | every request is answered; nobody loses a project without cause |
| submitter, match policy, harnesses, frontend, scripts | settings | sequential tools and presentation | little that interleaves | - |

### Hazards

`PROJECT.json` lists each hazard at the line where it bites, with the
properties that watch it, or the reason why none does. By model:

* ranked: exclusive ownership under crash, restart and erasure, rows locked by a claim that
  may never commit, lost wakeups, counts and lists that are stale when used,
  versions resolved late, matches pruned while counted, a quarantine written long after
  the fact;
* development: saves, submits and uploads during builds and tests, files deleted before
  the rows are, exceptions where no handler is, image collection by what was read before,
  the stale reset against a live runner, prune against pins, snapshot against subscription, four writes of an outcome
  of which any may fail;
* match: an error at any step of set-up and clean-up, the sweep against live
  peers, the poll thread against callbacks that run behind, an agent that
  hangs or is gone;
* API: limits checked before they are used, quotas in two windows across a
  Redis that fails, a claim against the guest's own requests, the cleanup
  against sessions that come back, calls that stop the event loop.

## 2. Plan

Done, in this order, each step resting on what the one before established:

1. **Ranked pipeline**, with the abstract `JobBoard`: what the arena exists for.
2. **Development pipeline**, with the abstract `TestBoard`: the other queue, and the image that stands behind
   a version. It takes from the API that one owner's requests are serialised.
3. **Match execution**: what `MatchSucceeds`, `MatchFails`, `SeatsDropOut` of the
   ranked runner and `Plays`, `PlayBreaks` of the test runner stand for.
4. **API process**: locks, transactions and the event loop; it justifies that the
   other models take a request of one owner as one step.
5. **Proofs**: every safety property that a passing run checks, on the ranked side,
   in the development pipeline, in match execution and in the API process, and the
   refinements of `JobBoard` and `TestBoard`.

Left for later, in order of worth: the test queue's claim as lock and commit, as the
ranked one is; modes that are edited while they are scheduled; the general request
limiter; the places in `match_results.py` as a pure algorithm.

Parameters are constants with named assumptions, there is one action per
operation, invariants are conjunctions of named parts, and no module uses
`RECURSIVE`, so that all of it can be proved about.

## 3. Modules and the code they stand for

| module | code | state |
|---|---|---|
| `MatchJobs` | `db/match_jobs.py` | `job[j]`: status, mode and seats of row j |
| `Notify` | `db/notify.py`, triggers of `migrations/001.sql` | `listening`, `pending`, `wakeup` per daemon |
| `Matchmaker` | `matchmaker.py`, the submitted side of `projects`, `matches` | `ver`, `crashed`, `deleted`, `result[j]` (the match row of job j) |
| `Processes` | `orchestrator/cli.py` | which daemons there are |
| `Scheduler` | `scheduler_daemon.py` | `enabled`, `sched` (program counter and the locals of a tick) |
| `Runner` | `runner_daemon.py`, `agents.py` | `runner[r]` (program counter, job in hand, versions resolved, seats the sim began without, seats to blame) |
| `RankedPipeline` | API and CLI calls that touch the pipeline, process crashes; composition and properties | all of the above |
| `JobBoard` | (abstract) what a job queue promises | `phase`, `hand`, `void` (jobs that lost a player) |
| `MCRanked` | values of the constants for TLC | |
| `RankedProofs`, `RankedSupplyProofs` | theorems about `RankedPipeline` and `Matchmaker` | |
| `DevProject` | `db/projects.py`, image tags of `build.py` | `project` (the row; `leaving` while a delete is not committed), `made` and `images` (built, and still in docker), `saving`, `uploading` |
| `TestJobs` | `db/test_match_jobs.py` | `test[j]` (the row), `bundles` |
| `LiveStream` | websocket of `routers/test_matches.py`, `redis_observer.py` | `viewer` |
| `Builder` | `builder/build.py` | `worker[w]`: program counter and locals of an iteration; `past` (history) |
| `TestRunner` | `test_runner_daemon.py`, `resolve_test_agents`, `cli.py` | `opponent` |
| `TestBoard` | (abstract) what the queue of test matches promises | `phase`, `hand`, `expired` |
| `DevPipeline` | `routers/projects.py`, `routers/test_matches.py`; composition and properties | `scenario` |
| `MatchDocker` | labels and sweep of `runner/match.py` | `docker`, `alive` runner ids, `me`; ghosts `strays`, `leftovers`, `newcomers` |
| `SimRun` | snake_sim and agents, as the runner sees them (external) | `box` (processes), `sim`, `queue` (events not yet delivered), `used` |
| `ContainerManager` | `agent_container_manager.py` | `tracker[s]`, `poller`, `delivery`, `timed`; ghosts `spared`, `blind` |
| `MatchRun` | `run_match`, helpers and `_cleanup` | `main`: program counter, what it holds, the result |
| `MatchExecution` | the threads together; properties | `scenario`, `faults` |
| `RateLimit` | `api/rate_limit.py` | `used[u]`: the windows' counters |
| `Accounts` | `db/users.py`, `db/guest_sessions.py`, ownership in `projects` | `account`, `session`, `owner`, `active`, `images` (the committed rows) |
| `ApiServer` | routers, `auth.py`, `db.py`, `main.py`, `webhooks.py`; properties | `req[r]` (stage, locks), `litter`, `cleaning` |
| `MCDev`, `MCMatch`, `MCApi` | values of the constants for TLC | |
| `ApiProofs`, `ApiLocks` | theorems about `ApiServer` | |
| `DevProofs`, `DevImages`, `TestJobProofs` | theorems about `DevPipeline` | |
| `MatchProofs` | theorems about `MatchExecution` | |

The correspondence, definition by definition, is the `map` of `PROJECT.json`.
In outline:

* **A tick of the scheduler** is `SchedClear` (the event is cleared *before*
  the work), `SchedCount` (one `GROUP BY` for all queues), `SchedWalk(m)` for
  each enabled mode, then `SchedSolo` once per insert, or `SchedMultiList` and
  `SchedMultiPick` / `SchedNoGroup` once per insert, and `SchedTickDone`. Anything
  may happen in between. `plan` and `tally` are the list of underplayed versions
  as it was read, with the weights it was sorted by.
* **The claim of a job** is two steps. `RunnerPicks` is the statement: the row is locked and,
  for everybody else, still `queued`. `RunnerClaims` is the commit. In between, peers pass
  over the row (`Locked`, `Claimable`): they may take a younger one, or find nothing
  (`RunnerFindsNothing`) and go to sleep. If the claimer dies there, the row is back in the
  queue and nobody is told. `Cancel` and `EraseUser` wait for the lock.
* **An iteration of a runner** is `RunnerClear`, the claim or `RunnerFindsNothing`,
  `RunnerDispatch` (the versions of *now*), the match (`MatchSucceeds`, `MatchFails`,
  `SeatsDropOut`), `Quarantine` once per seat to blame, and `RunnerRecord` or
  `RunnerFail`. Seats that drop out do not decide the outcome: the job may still
  succeed, and its match row then has no participant for them (a 0 in `result[j]`).
  `RunnerRecord` is one transaction: match, participants, status, the status by id. A
  deleted project makes its foreign key fail (`RunnerRecordRefused`).
* **An erasure** (`EraseUser`) deletes a user's projects, cancels their jobs, also those
  a runner has in its hands, and drops matches that nobody else played. The runner is
  not told: it plays on and writes its outcome over `cancelled`.
* **Counting.** A job carries project ids and counts for whatever version is
  current; a match row carries versions. `Appearances` is the union of the two,
  as `matches_played` is in the query.
* **Notifications.** `NotifyAll` occurs exactly in the actions whose statements
  a trigger covers: insert of a job (runners), a job leaving `queued`, a new
  match, a new submitted version, a mode switched on (scheduler).
  `running -> failure`, `running -> cancelled` (an erasure), a delete and a mode switched off
  notify nobody.
* **Crashes** (`SchedCrash`, `RunnerCrash`) may strike in every state, take
  listener and event along, and leave a claimed row `running`, or `queued` if the claim
  was not committed.

`Events` selects what users and the environment may do in an instance: `crash`,
`drop` (a listener's connection), `fail` (a match), `initfail` (the start-up
probe, or of the sim's), `escape` (an exception that ends an iteration early), `cancel`,
`delete`, `erase` (a user), `toggle` (a mode), `rollback` (an erasure or a cancel whose
transaction comes to nothing; `PassOver` is what runners did while it had rows locked).
Submitting is always possible. It keeps
instances small and says under which conditions a property holds.

**Development pipeline.** A test runner's iteration is `Claims`, `ChecksBuild`, the
build (`BuildLooksUp`, `BuildStarts`, `BuildCompiles` or `BuildBreaks`, the
status write, `BuildCollects`), `Resolves`, `Plays`, the verdict of the callback inside
`run_match` (`Judges`), `Blames`, `Stores`, `Finishes` or `RecordsFailure`, `Purges` and
`Announces`; each is one transaction or one outside call, and anything may happen
in between. `Stumbles` is an exception after the claim and before the `try`: the loop
logs it and goes on, the row stays `running`. `Overlooks` is a claim that is rolled back, or a
row that a runner passed over: it stays `queued` and no notification is under way
for it. `SaveBegins` and `SaveCommits` are apart because `updated_at` is the
time the transaction *began*: `saving.overtaken` and `project.stale` are all that
the comparison `dev_built_at >= updated_at` can tell. `OwnerIsFree` is the row lock that
the authentication takes (model 4). A delete is two steps: `DeleteBegins` is the handler,
which removes the bundles and deletes the rows; then `get_db` commits (`DeleteCommits`) or the
rows stay (`DeleteRollsBack`), while the bundles are gone. Until then the rows are
locked (`project.leaving`). An upload is two steps, since it collects
images before its transaction commits or is rolled back by the quota.

**Match execution.** `main.pc` walks through `run_match`; each docker call
that can fail is a step with its error branch (`MakesNothing`, `ProbeRefused`, `ProbeBreaks`,
`WaitBreaks`, `LogsBreak`, removals that leave something), and every way out passes
`CleansContainers`, `CleansNetworks`, `StopsObserving`. `Poll` is one pass of the poll
thread over the trackers, `NotifyStart` ... `NotifyStop` are the callbacks,
each under the manager's lock and therefore one step. The sim's events wait in
`queue`; the sim's own rules are external and only what the runner relies on is kept.
Time and CPU are ticks: `Tick` advances the windows the poll thread looks at.

**API process.** A request goes `Arrives`, `Authenticates` (the upsert that locks
its principal), its handler, `Leaves`, then `Commits` or `RollsBack`; the
committed tables change only in `Commits`, and in the two deletions that commit
by themselves. `locks` are the rows a transaction holds, and what waits for
one is not enabled. `LoopIsFree` guards whatever the event loop has to do, thread
hand-over included; a coroutine inside a blocking database call has it.

`Scenarios` is what `Events` is on the ranked side, as a set of sets: a behaviour
picks one set of user actions and accidents, so that they add up rather than multiply.

## 4. Runs

| run | instance | shows |
|---|---|---|
| `RankedClaims` | 2 runners, 1 project, solo, target 2, 2 rows, both may be queued; crash, fail, cancel, erase | `TypeOK`; `OneOwnerPerJob`; `MatchesBackedByJobs`; `QueuedWorkHasARunner`; `ImplementsJobBoard` |
| `RankedSupply` | 2 projects x 2 versions, solo, target 1, 3 rows; fail, toggle, erase | `NoOverplay`; `DueWorkIsLeftOnlyByFailure` |
| `RankedModes` | 2 projects, solo and two-player mode, 2 rows; initfail, delete, escape, rollback | `QueueWithinCap`; `JobsOnlyWhenDue` |
| `RankedLiveness` | 2 projects x 2 versions, two-player mode, 4 rows; drop | `SchedulerSleepsOnlyWhenNothingIsDue`; `EveryJobIsSettled`; `EveryVersionReachesTarget` |
| `DevPipeline` | 1 project, 2 test runners, 2 archives, 2 images, 1 submission, 3 tests, limit 2, 1 pin; 10 scenarios | `TypeOK`; `SubmittedImageMatchesCode`; `SubmittedImageWasValidated`; `ImagesInUseExist`; `KeysHaveBundles`; `NoMissedEnd`; `SuccessIsRecordedFirst`; `StoredBundlesBounded`; `OutcomesAreFinal`; `ImplementsTestBoard`; `EveryTestIsSettled` |
| `MatchRuns` | 2 seats, 2 steps, lag 2, 1 fault, a peer; 6 scenarios | `TypeOK`; `EverythingIsAccountedFor`; `NobodyWhoPlayedIsBlamed`; `SweepSparesTheLiving`; `KilledForCause`; `KillReasonsAreFinal`; `SuccessCanBeScored`; `EveryMatchEnds` |
| `ApiRequests` | 2 users, 1 guest, 2 projects, 2 requests, limits 1, hourly 1, daily 2; 7 scenarios | `TypeOK`; `OneActiveTest`; `NoSubmitIsOvercharged`; `SubmitNeverStalls`; `CreationsKeepTheLimit`; `ProjectsAreLostForCause`; `CleanupSparesTheLiving`; `EveryRequestEnds` |
| `RankedFailureLeavesWork` | one version; fail | violated: `SchedulerSleepsOnlyWhenNothingIsDue` |
| `RankedWrongQuarantine` | one project, two versions; initfail | violated: `QuarantineHitsTheVersionThatCrashed` |
| `RankedQuarantinedFiller` | three projects, two-player mode; initfail | violated: `NoQuarantinedVersionFillsASeat` |
| `RankedSelfPairing` | two projects, two versions, two-player mode | violated: `NobodyPlaysItself` |
| `MatchHangs` | as `MatchRuns`; one agent exits | violated: `HungAgentsAreKilled` |

What the properties say and why they could fail:

* `OneOwnerPerJob` - a job is in one runner's hands at most; it is `queued` until the
  claim commits, then `running`, or `cancelled` if a user in it was erased. Completion
  updates are by id alone, so exclusiveness rests on the row lock of the claim and on
  nobody reviving a row.
* `MatchesBackedByJobs` - a match row belongs to a job that succeeded, has that job's
  seats, and nobody in it with a version that the project never had, with crashes around
  the write, erasures during the match and prunes in between.
* `QueuedWorkHasARunner`, `SchedulerSleepsOnlyWhenNothingIsDue` - no lost
  wakeup. While a job is queued, not *all* runners are asleep with nothing on its way to
  them. Of a single runner more cannot be said: it may have passed over a row
  that a peer had locked, and hears nothing when that peer dies. This rests on
  clear-before-drain, on the flush at connect, and on a restarted runner's first look
  at the queue. The scheduler's property needs, besides, that *every* write that makes work
  due has a trigger. Failing matches have none, nor has the cancelling of a running job;
  `DueWorkIsLeftOnlyByFailure` is what remains: idle work lies only in a mode where a job
  failed, or was cancelled with an erased user.
* `QueueWithinCap` - the queues are counted once per tick, yet the cap holds
  during the inserts of all modes, since nobody else inserts.
* `NoOverplay` - a solo version never has more than its target, finished and
  under way together, although jobs count by project, matches by version, and the
  list is stale when used. (In a mode with more seats a version may be seated
  as an opponent beyond its target: that is how the code means it.)
* `JobsOnlyWhenDue` - a job is inserted only if a version in it still lacks
  matches, for any number of seats.
* `ImplementsJobBoard` - table and runners implement `JobBoard`: a runner reaches for the
  oldest job that nobody else reaches for, has one job at a time, and alone settles it. A
  job that was taken is withdrawn only when it is void (it lost a player), and only then
  is an outcome written over a cancellation.
* `EveryJobIsSettled`, `EveryVersionReachesTarget` - under fairness each queued
  job ends, and each version that stays current in an enabled mode with
  enough opponents gets its target of matches.

Development pipeline:

* `SubmittedImageMatchesCode` - the submitted image was built from the archive
  submitted with it, unless a save overlapped the build. Saves, builds, verdicts
  and uploads all overwrite the status without looking; only the timestamps
  of `Submittable` keep old images from going with new code.
* `SubmittedImageWasValidated` - and it was seen to reach a match's start. `ready` is
  written to the row, not to the image: this fails as soon as two iterations, or an
  iteration and an upload, overlap, and the property says so.
* `ImagesInUseExist` - nobody collects an image the row points at, though collectors
  keep a tag they read earlier; not with overlap, nor with an upload that is
  rolled back after its collection.
* `KeysHaveBundles`, `StoredBundlesBounded` - a key is set after the put, and pruned before
  the file, whichever of the steps fails; excepted are the bundles that a delete of the project
  took, which does it before it commits. And the transaction that adds a key keeps the
  limit, pins included.
* `NoMissedEnd`, `SuccessIsRecordedFirst` - a live viewer gets the terminal frame or
  it is still to come, because it subscribed before it looked; and the frame
  comes after the row.
* `ImplementsTestBoard` - rows and runners implement `TestBoard`: one active job, one
  runner per job, no outcome but by that runner. A crash drops the job; a boot may
  fail one over its runner's head, and only then is an outcome written twice.
* `OutcomesAreFinal`, `EveryTestIsSettled` - an outcome is rewritten only by the late
  writer of a job that was failed as stale; every test ends, unless its runner died or
  stumbled before its `try`, or every runner passed over it.

Match execution:

* `EverythingIsAccountedFor` - whatever step fails, what is left on the host is in
  the lists the cleanup goes by, or was made or kept by a call that raised, or
  lies there from an earlier life of the daemon under the same id.
* `SweepSparesTheLiving` - a boot never removes a live peer's match, except of a
  peer that booted after the ids were listed.
* `KilledForCause` - with no event outstanding, a `per_step` kill is of CPU used in
  this decision, a `wall_clock` kill of a seat the sim waits for: the windows of poll
  thread and callbacks do not run into each other.
* `KillReasonsAreFinal` - the first reason stays: it is what banner, scoring
  and quarantine go by.
* `NobodyWhoPlayedIsBlamed` - a seat that made it into the game is never reported
  as an init failure, hence never quarantined.
* `SuccessCanBeScored` - a success has a time series of every player, except of
  one killed before its first step (see findings).
* `EveryMatchEnds` - however the agents behave, if every kill gets through and no
  thread has stumbled over a container that is gone.

API process:

* `OneActiveTest`, `CreationsKeepTheLimit` - count-then-insert holds against
  concurrent requests because the principal's row is locked since the
  authentication, and against a claim, which deletes the session and so waits.
* `NoSubmitIsOvercharged` - a slot seen free at the check is still free at the charge,
  for the same reason, although the counters are in Redis.
* `SubmitNeverStalls` - a user's own requests never make `submit` wait in the event loop.
* `ProjectsAreLostForCause` - a project goes by its owner's delete, erasure or expiry,
  or in the gap of a claim (see findings).
* `CleanupSparesTheLiving` - the cleanup removes images of projects that are gone, or
  whose session came back between its statements.
* `EveryRequestEnds` - every request is answered, or the loop waits for a transaction
  that waits for the loop (`Stalled`; see findings).

**Bounds.** `MaxJobs` caps the rows ever inserted, `MaxVersion` the submissions
of a project; when they are used up the system can only drain, so deadlock
is not checked. Two runners are enough for races between claims (a third
would repeat one of two); in `RankedClaims` two rows are queued at once, so that a runner may
pass over a locked row and take the younger one, or find nothing; three rows follow a
version through a failure, an erasure and another try; two versions for everything that relates
an old and a new one,
two projects for opponents, three where one of them is the quarantined third.
`QueueCap = 1` makes the cap bite with the rows available (2 where two rows are to
queue); target 2 puts two jobs of one version under way. In `RankedLiveness` four rows exceed what
two versions each of two projects can need with target 1, so the bound never
is what keeps a version from its target. Runners and projects are
interchangeable (`Sym`) in the safety runs; liveness is checked without symmetry.

In `DevPipeline` two workers are what overlap, stale reset and image collection
need; two archives make "the other code", two images an old and a new one; limit 2,
one pin and three tests let the prune meet a pinned row. In `MatchRuns` two seats
give one to blame and one to spare, two steps a window that is reset, lag 2 events
that are late; one fault is what a call-by-call error analysis asks about, and pairs
of faults are left out. `PerStepCpu = 0`, `PerStepWall = 3` and `MaxWall = 4` let
either rule fire, or neither. In `ApiRequests` two requests are enough for every
conflict of two transactions, one with the loop included; limits of 1 make
the second request the refused one, a daily limit of 2 lets an hour pass in between.

**Fairness** (`FairSpec`). Weak fairness of each daemon's main loop and of each
listener's thread: they are loops without conditions, and Docker restarts a
process that dies. Nothing is assumed of users, crashes or dropped connections.
`MatchGoesWrong` is unfair and `MatchSucceeds` part of the main loop: a match has
a step limit and agents have time budgets, so it ends. With failing matches the
liveness properties do not hold (see findings), nor with crashes, which
leave a row `running` for ever; `RankedLiveness` leaves those events out.

In `DevPipeline` each test runner's loop is strongly fair, its reboot included
(`restart: unless-stopped`): a write that waits for the lock of a delete under way is next in
that lock's queue, so that deletes that begin and fail for ever cannot starve it. A delete
that has begun commits, unless it fails (`DeleteCommits` is weakly fair); users, viewers and
accidents are not fair. In `MatchExecution`
the threads and the sim together are weakly fair, and the clock is; the agents are not,
which is the point of `EveryMatchEnds`. In `ApiServer` the requests are strongly fair: a
lock or the loop may be had by others again and again before it is a request's turn,
and both Postgres and asyncio queue who waits. The cleanup task is weakly fair.

Each property comes with a mutant in `PROJECT.json`: a plausible bug (a claim without
the row lock, or without `ORDER BY`, a reconnect without the flush, a submit that
notifies nobody, a count without jobs under way, a record in two transactions,
...), under which the same run finds the property violated. They stand in the
modules, marked `Mutant:`, beside the definitions they replace.

## 5. Proofs

TLAPS checks these for all values of the constants that satisfy the named assumptions,
which TLC evaluates in the runs: `JobsAssumption` (finitely many projects, at least one
seat), `ModesAssumption` (seats within `MaxSeats`, targets positive),
`DaemonsAssumption` (the daemons are the scheduler and the runners),
`QueueCapAssumption`, `EventsAssumption` on the ranked side; `DevAssumption` (code ids,
bounds), `TestsAssumption` (bounds and limits are naturals) and `ScenariosAssumption`
for the development pipeline; `SeatsAssumption` (a seat at least), `SimAssumption` (a
step at least, a bound on the events queued), `BudgetAssumption` (budgets are naturals)
and `ScenariosAssumption` for match execution; `LimitsAssumption` (positive quotas),
`AccountsAssumption`, `LocksAssumption` (the lock on `matches` is no row) and
`ScenariosAssumption` for the API.

**Ranked pipeline**

| theorem | statement | argument |
|---|---|---|
| `RankedProofs!Invariance` | `Spec => []IInv` | `IInv` is inductive, one step per action |
| `RankedProofs!TypeCorrect` | `Spec => []TypeOK` | part of `IInv` |
| `RankedProofs!OwnershipIsExclusive` | `Spec => []OneOwnerPerJob` | part of `IInv` |
| `RankedProofs!Refinement` | no `rollback` in `Events`: `Spec => ImplementsJobBoard` | each action maps to a step of `JobBoard` or a stutter, from `IInv` |
| `RankedProofs!NoLostWakeup` | there are runners, no `escape`, `rollback` in `Events`: `Spec => []QueuedWorkHasARunner` | itself inductive next to `IInv` |
| `RankedProofs!CapIsKept` | `Spec => []QueueWithinCap` | strengthened to `CapInv` |
| `RankedSupplyProofs!SupplyHolds` | `Spec => []SupplyInv` | inductive next to `IInv`, one lemma per conjunct |
| `RankedSupplyProofs!MatchesAreBacked` | `Spec => []MatchesBackedByJobs` | part of `SupplyInv` |
| `RankedSupplyProofs!NobodyIsOverplayed` | `Spec => []NoOverplay` | `WithinTarget` of `SupplyInv` |
| `RankedSupplyProofs!NoChurn` | not both `erase` and `initfail` in `Events`: `Spec => JobsOnlyWhenDue` | `PlansAreDue` of `SupplyInv` |
| `RankedSupplyProofs!GroupsExist` | with as many submitted versions as seats, `Groups(m, plan, tally) # {}` | seat by seat, from a first element of the order |
| `RankedSupplyProofs!DueWorkNeedsAnExcuse` | `"escape" \notin Events => (Spec => []DueWorkIsLeftOnlyByFailure)` | `TickInv`, inductive next to `SupplyInv` |
| `RankedSupplyProofs!NoWakeupIsLost` | no `escape`, `fail`, `initfail`, `delete`, `erase` in `Events`: `Spec => []SchedulerSleepsOnlyWhenNothingIsDue` | `AllIsWell`: nothing can have failed |

`OneOwnerPerJob` is not inductive alone. `IInv` adds `RowsFilled` (a row that
exists has its mode and seats, so the types of what runners read from it
hold), `HandsMatchPc` (a runner has a job in hand exactly between the lock of its claim and
the outcome: without it a claiming runner might already have one, and a settling
runner none) and `ModeChosen` (the scheduler knows its mode inside a mode's loop,
so what it enqueues is well formed). `CapInv` says why one count per tick is
enough: for a mode still to be walked the count bounds the queue, for the mode at
hand queue and remaining room together stay within the cap, and only the
scheduler, one process, makes a queue longer.

For `Refinement` a job is void on the board when a project in it is deleted: from the insert on,
if the project went after the tick's list was read. Nobody but an erasure cancels a job in
hand, and an erasure waits for rows that a claim has locked: that is why a `cancelled` job in
hand is void, and why a claim that commits always finds its row `queued`.

`NoLostWakeup`: whoever finds nothing to claim although a row is queued has passed over it,
so another runner has it in hand; that one either commits, or dies and looks at the
queue when it starts again. The theorem excludes `escape`, an exception between claim and
outcome, outside the handler's `try`, which sends a runner to sleep without draining the
queue, and `rollback`, where the row was locked by somebody who is no runner. The statement
is false with either. `Refinement` excludes `rollback` too: the rows passed over are
neither withdrawn nor in hand, so a younger one is taken out of turn.

`SupplyInv` is about lists and versions that are old when they are used. That a match
row has no version its project never had needs `Resolved` (the versions a runner
resolved were reached, or the project is gone) and that versions only grow until the
project goes; seats that the sim began without count as 0. That the list of a tick is
not stale where it counts is `PlansAreDue`: once a version lacks matches it lacks them
until a job is inserted for it, because no other step makes a count grow. A new
submission empties the count, a recorded match replaces its job's appearance, or loses
the seats that dropped out, a prune, a cancel or a failure takes some away; only the
scheduler, one process, inserts, and `PlansFitMode` (a solo list names nobody twice)
keeps its inserts apart. From this follow both `NoOverplay`, with `WithinTarget` said of
every project that is there so that it is inductive, and `JobsOnlyWhenDue`. There is one
exception: a job that was cancelled with an erased player stops counting, and if its
runner records it as a success all the same, it counts again for its other players. That
takes an erasure and, as the foreign key would refuse the record otherwise, the erased
player's seat missing from the game: `NoChurn` is therefore stated for instances without
one of the two. A solo mode has no other players, so `NoOverplay` needs no such
condition. `SeatsAccounted` says that no seat is absent without `initfail`, and no job
in hand cancelled without `erase`.

The scheduler's wakeups are harder than the runners', since its work is not a row but a
count. The argument is a contrapositive: as long as the scheduler has no news (`Quiet`),
nothing that happens makes work (`NoNewWork`), except a failure, which leaves the failed
job as an excuse, or an erasure, which leaves a cancelled one. `TickInv` follows a tick
without news: the modes behind it are rested, those ahead have the queue that was
counted, the one at hand is rested or has both room and versions to insert for. The
multi loop may also end because no group was found; `GroupsExist` says that this happens
only when the mode has too few versions for any to be due. A delete makes no work
because the prune spares every match that a current version played. `escape` is excluded
again: a tick that ends in an exception sleeps on what it had left to do. With `fail`,
`initfail`, `delete` or `erase`, jobs can fail or be cancelled while they run, and that
is enough to leave work behind (finding 1).

**Development pipeline**

| theorem | statement | argument |
|---|---|---|
| `DevProofs!Typing`, `TypeCorrect` | `Spec => []TInv`, `[]TypeOK` | types, and a runner has a job exactly while it is neither down nor idle |
| `DevImages!ImagesHold` | `Spec => []DInv` | inductive, one lemma per kind of step |
| `DevImages!SubmissionsBelongTogether` | `Spec => []SubmittedImageMatchesCode` | `Paired` of `DInv` |
| `DevImages!SubmissionsWerePlayed` | `Spec => []SubmittedImageWasValidated` | `Validated` of `DInv` |
| `DevImages!ImagesStay` | `Spec => []ImagesInUseExist` | `Kept` of `DInv` |
| `TestJobProofs!JobsHold` | `Spec => []JInv` | inductive, one lemma per kind of step |
| `TestJobProofs!KeysLead` | `Spec => []KeysHaveBundles` | `KeysAreSettled` of `JInv` |
| `TestJobProofs!StreamsEnd`, `TableFirst` | `Spec => []NoMissedEnd`, `[]SuccessIsRecordedFirst` | `Watching` of `JInv` |
| `TestJobProofs!OutcomesStay` | `Spec => OutcomesAreFinal` | `Held` of `JInv` |
| `TestJobProofs!TestRefinement` | `Spec => ImplementsTestBoard` | each action maps to a step of `TestBoard` or a stutter, from `Held` of `JInv` |
| `TestJobProofs!BundlesAreBounded` | `Spec => StoredBundlesBounded` | cardinalities, below |

`SubmittedImageMatchesCode` speaks of a version that was submitted long ago; why it
holds lies in the builds under way. `DInv` says: a build that no save raced
is of the code of now (`Current`), which survives a save because the save marks
it as raced; an image not yet written to the row is nobody else's (`Fresh`), so
that this mark reaches no other image; hence an image that the timestamps
call current is of the code of now or raced (`Paired`), also when a save commits
with a time older than the build. `Alone` (without overlap, one iteration or upload
handles the dev image) is what makes a verdict, written to the row, a verdict
on the row's image (`Validated`), and a tag read earlier the tag of now (`Kept`).

`JInv` follows a test job through its runner: while it is held it is running, gone, or
was failed by a boot (`Held`), which is why the final writer rewrites nothing else; no
two runners hold one (`Single`); a running row has its runner or lost it (`Tracked`);
what is purged is out of the table first (`PurgedLast`), and what a row points at was
stored first (`StoredFirst`), where `Stored` is what is in storage or was taken by a
delete of the project. For the viewer it has to begin before the loop over messages:
between snapshot and loop (`told`) the frame may already have come. The bound on bundles
counts: of the unpinned rows that the prune leaves, the oldest has fewer than `room`
newer ones, so there are at most `room`, and with the pinned ones at most the limit.

Onto `TestBoard` a row maps as its status, and a runner's hand as its job until the
outcome is committed or it stumbles: what it purges and announces afterwards is no
longer an outcome. Code, image, viewer and bundle steps are stutters; a runner that
cannot even record the failure and exits, or that crashes, is a `Drop`.

**Match execution**

| theorem | statement | argument |
|---|---|---|
| `MatchProofs!AlwaysMatchInv` | `Spec => []MatchInv` | inductive, one lemma per thread and part |
| `MatchProofs!MatchTypes` | `Spec => []TypeOK` | types, and `Quiet` for the bound on the queue |
| `MatchProofs!NothingAccumulates` | `Spec => []EverythingIsAccountedFor` | `DockerInv` |
| `MatchProofs!SweepSpares` | `Spec => SweepSparesTheLiving` | `Listed` of `DockerInv` |
| `MatchProofs!BlameIsJust` | `Spec => []NobodyWhoPlayedIsBlamed` | `Absentees` of `GameInv` |
| `MatchProofs!CauseOfKills` | `Spec => KilledForCause` | `BooksInv` |
| `MatchProofs!FirstReasonStays` | `Spec => KillReasonsAreFinal` | every step that writes a tracker |
| `MatchProofs!ScoresForAll` | `Spec => SuccessCanBeScored` | `Scored` of `BooksInv` |

`MatchInv` has five parts. `Typed`, and `Phases`: where the main thread is tells where
the sim can be, and when there is a result. `DockerInv` accounts for every
labelled resource: a stranger's belongs to somebody listed or to a newcomer (`Swept`), the
daemon's own is in one of `run_match`'s lists, is the probe, or was left by an error
(`OwnHeld`), and the networks' turn comes when only networks are left (`NetsLast`).
`GameInv` describes the queue of events between the sim and the delivery thread: nothing
before the game (`Quiet`), the start at its head (`StartFirst`), and a last step that tells
who is left (`LastStep`). `BooksInv` is what the trackers know of a game that they see
late: each of its parts speaks of the time when no step, or no start, is
outstanding, since before that the trackers may say anything. `CpuOfThisTurn` and `Turn`
together are `KilledForCause`: a window that is charged, or a clock that runs, belongs to
the decision the sim is waiting for. `Scored` is what `build_participants` needs of
everybody in the game.

**API process**

| theorem | statement | argument |
|---|---|---|
| `ApiProofs!Invariance`, `TypeCorrect` | `Spec => []IInv`, `[]TypeOK` | inductive, one step per stage of a request |
| `ApiProofs!ChargesFollowChecks` | `Spec => []NoSubmitIsOvercharged` | part of `IInv` |
| `ApiLocks!ReadsHold` | `Spec => []LInv` | inductive next to `IInv` |
| `ApiLocks!OneTestAtATime` | `Spec => []OneActiveTest` | part of `LInv` |
| `ApiLocks!SubmitsDoNotStall` | `Spec => []SubmitNeverStalls` | `OneInLoop`, and whose locks a submit waits for |
| `ApiLocks!LimitsHold` | `Spec => CreationsKeepTheLimit` | `Relies` at the commit |
| `ApiLocks!LossesHaveCause` | `Spec => ProjectsAreLostForCause` | the commits that delete, one by one |
| `ApiLocks!CleanupSpares` | `Spec => CleanupSparesTheLiving` | `Collected` |

`IInv` is types, row locks that are held by one request at a time (`Exclusive`), and,
per request, that it holds its principal's row from the authentication on, so that
a slot seen free is free when it is charged. `LInv` adds what each request *relies on*
at each stage: the count it read is still the count, because whoever
could change it needs the lock it holds. Serialisability of one owner's requests,
which `DevPipeline` assumes as `OwnerIsFree`, is this invariant.

Each of the inductive invariants was also checked with TLC on the instances
of section 4 before it was proved.

**Model-checked only**: liveness (`EveryJobIsSettled`, `EveryVersionReachesTarget`,
`EveryTestIsSettled`, `EveryMatchEnds`, `EveryRequestEnds`): properties under fairness
and `ENABLED` are out of the prover's reach, as are induction over data and `RECURSIVE`
operators, of which there are none here. The properties of the runs that expect a
violation are false; `SchedulerSleepsOnlyWhenNothingIsDue`, one of them, is proved
above for the instances in which nothing fails.

## 6. Where code and documentation disagree

`PROJECT.json` quotes the lines. In short:

1. A **failed match wakes nobody** (`RankedFailureLeavesWork`). Its versions are due
   again, but no trigger fires on `running -> failure`; the scheduler sleeps
   until something unrelated happens. The documentation says it wakes whenever
   something happens that might change what should be queued.
2. The **quarantine hits the wrong version** (`RankedWrongQuarantine`) when a
   project submits during the match: the flag is set by project id.
3. **Quarantined versions still play** (`RankedQuarantinedFiller`): seats beside
   the seed are filled from all submitted versions.
4. A **project may meet itself** (`RankedSelfPairing`): a submission between the
   two reads of a tick makes the seed's new version a candidate.
5. An **agent that exits stops the watch over the others** (`MatchHangs`). Its cgroup
   is gone, reading it raises in the poll thread or in a callback, and a seat
   that hangs afterwards is not killed by its wall-clock budget.

Noticed while reading and modelling, without a run of their own (the properties say so
where one of them is an exception they have to make):

*Ranked pipeline*
* An erasure cancels running jobs "so the scheduler can re-fill" (`users.py:159-163`), but no trigger
  fires on `running -> cancelled`: opponents of the erased user stay due until something
  else wakes the scheduler (the exception in `DueWorkIsLeftOnlyByFailure`). The runner,
  which is not told, later writes `success` or `failure` over `cancelled`, by id.
* A runner that dies between lock and commit of a claim, or an erasure or a cancel that is rolled
  back, leaves a queued row that others passed over and are not told of, although
  `runner_daemon.py` drains everything queued on each wakeup. In the first case the restart
  makes up for it (`QueuedWorkHasARunner`).
* A match in which seats dropped out inside the sim is recorded as a success with fewer
  participants than seats.
* If such a match was cancelled with an erased player, the success counts again for its other
  players, who may meanwhile have been listed as due: a job without need (`JobsOnlyWhenDue`
  is false with both `erase` and `initfail`).

*Match execution*
* A seat that is killed at start-up or in its first step has no time series; then
  `build_participants` raises, a match that was played counts as failed, its
  versions are neither recorded nor quarantined and are queued again.
* A runner that restarts in place keeps its id, so the sweep never takes its own
  leftovers, which the comments at `test_runner_daemon.py:379-381` and
  `runner_daemon.py:227-229` expect. A peer that boots after the ids were listed
  may lose its match to the sweep.
* When the probe cannot be asked at all, every seat is reported and every version
  quarantined; the docstring at `match.py:813-817` has it for single seats.
* `containers.run` that raises after the container exists leaves one that no list has; a
  kill that is refused still marks the seat as killed, so no rule looks at it again.
* With events that arrive late, seats can be killed for a window that is over
  (`KilledForCause` requires none outstanding). `cpu_observer.close()` is never
  called: without a stop event the poll thread outlives its match. The class
  comment's rule of less than 1 ms is a ratio below 0.5 in the code.

*API process*
* Coroutines that call the database in the event loop (`clerk_webhook`, the cleanup,
  submit's prune) stop the API for good when the row they wait for is locked by a
  request whose commit needs the loop (`Stalled`).
* A claim moves projects and then deletes the session; a project created in between
  is lost, though the docstring says that all are migrated. It looks at neither
  limit nor expiry, and locks in the other order than the guest's requests.
* The cleanup collects image tags before it deletes: a session that comes back in
  between loses its images.
* A Redis failure between the hour's and the day's charge rolls the submission
  back and keeps the hour's slot.
* A token that is still valid re-creates a user after `user.deleted`.
* `migrations/002.sql:12` says guests are capped at 48 hours from their creation; the
  expiry is refreshed instead.

*Development pipeline*
* A save during a build pairs new code with the old image; a save during a test is
  overwritten by `ready`, which `test_runner_daemon.py:154-156` excludes (the
  timestamps still refuse its submission); an upload during a test makes an
  untested image `ready`.
* An external project leaves `build_project` as `building` (docstring, `build.py:68-70`).
* An upload undone by its quota has collected the image that the row points at.
* The job of a runner that crashed and boots within 15 minutes stays `running`, and
  with it every further test of its project is refused.
* An opponent that does not come up counts as a crash of the owner's build.
* A cancelled job publishes no terminal frame; a row may say `success` where the stream
  said `failure` (the result was not ok, the outcome was recorded).
* An exception between claim and `try` (`test_runner_daemon.py:106-116`, caught at 394-396)
  leaves the row `running` under a runner that is alive and goes on (`Stumbles`); with it
  every further test of the project is refused until a boot fails it as stale.
* A queued test that every runner passed over, since a claim or a delete that had it locked was
  rolled back, waits for the next notification (`Overlooks`).
* A delete removes the bundle files in the handler, before `get_db` commits
  (`api/db.py:49-59`), although the comment at `projects.py:652` says that the row is already
  gone: if the commit fails, keys are left without their files.

## 7. Abstractions, and what is not modelled

**Ranked pipeline**

* The queries of one decision are one step where nothing is done between them
  that depends on their order: the underplayed list of a solo mode is read in
  the step of its capacity check, candidates are read in the step of the insert,
  the projects of a job are resolved in one step. What lies *between* decisions (the
  count, the list, each insert, the claim, the dispatch, the outcome) interleaves.
* The statements of one transaction are one step where nobody can tell: an erasure, a
  cancel. What they do while they hold locks and are then rolled back is `PassOver`.
* Sort keys: the last key of the underplayed list (`submitted_at`) is left open
  and random choices are free, so the model allows every order the code can
  produce, and more.
* Targets and seats of a mode are constants; creating, deleting and editing
  modes, and the insert of jobs by the operator's command line, are left out.
* A match is one step with the outcomes that `MatchExecution` has; replays, one-shot
  mode and graceful shutdown (which acts like a crash between two iterations)
  are left out.

**Development pipeline**

* One project and its owner. What docker makes of an archive is one step with two
  outcomes; names, sizes and limits of files are left out.
* How a test runner is woken is left out (it is `Notify` again, with another
  channel): an idle runner claims as soon as there is a row, except one that was
  overlooked. The window between lock and commit of a claim shows only in
  `Overlooks`, since a project has one active test, so no order is at stake.
* The stream has its terminal frame only; frames of the game before it, their
  Redis stream and its expiry are left out.

**Match execution**

* One match at a time, one peer. The simulation and the agents are external: who is
  asked, who answers, who hangs or exits is a choice, and what the runner relies on
  (the order of the callbacks) is kept.
* CPU and wall time are a few ticks; which seats overdraw a sustained bank is a choice.
* The log streamer, resource limits, network addresses and host rules are left out.
* A behaviour has at most `MaxFaults` errors of docker.

**API process**

* The tables are the rows that the limits count; the ranked jobs that an erasure cancels are
  in `RankedPipeline` (`EraseUser`). Requests are the handlers that check
  and then act, or delete; handlers that only read are left out, as are tokens,
  profile edits, `user.created` and `user.updated`.
* The general request limiter and the upload quota (the submit quota's functions
  with another key), and pools that run dry, are left out.
* A behaviour has the actions of one of the sets in `Scenarios`.

**Not modelled at all**: scoring and leaderboard are computed on demand without
state, with real-valued formulas TLC does not evaluate; places, lengths and metrics
of a match are data; bundles as files; the submitter, an earlier design's tool;
match policy, settings, schemas and maps; frontend, harnesses and scripts, which
are presentation or sequential. Agents' code is the users' own. `PROJECT.json` gives the
status of each component.
