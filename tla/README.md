# A TLA+ verification of the DNSFox v2 workers

The repository is one Go program (`src/main.go`) that starts seven background
workers. They share a Postgres database, a Redis server and a context that is
cancelled on SIGTERM, and have no other connection: they interact through rows.
Several instances of the program may run on one database (rows are claimed
"atomically", `worker_id` exists "for distributed claiming"). This directory
models the workers in TLA+, checks the models with TLC on small instances, and
proves with TLAPS what holds for all sizes. `PROJECT.json` lists the runs, the
source lines behind each definition, the hazards and the findings.

## 1. Inventory

| Component | State it keeps | Operations | Hard because |
|---|---|---|---|
| provisioning (`workers/provisioning/worker.go`) | rows of `provisioning_jobs` (status, attempt, retry_after); `instances.status`; in memory: the rows of a poll, one goroutine per claimed job, a semaphore per server | `poll`, `claimJob`, `dispatch` (`acquireSem`, `execute`, `markRunning`, `markCompleted`, `markFailed`, `releaseSem`) | processes race for rows; rows are stale when claimed; Warden works on its own and reports through the API; calls time out after they were accepted; crashes |
| payload encryption (`encryptor.go`) | none | AES-GCM of a payload | not on the job path |
| health probes (`workers/health/worker.go`) | `instances.status`; Redis counter and dedup key per site; in memory: the list of a cycle and its goroutines | `runProbes`, `probeAndReact`, `enqueueRestart` | decisions on a stale status; unconditional writes; the counter outlives the process |
| HTTP checker (`checker.go`) | one client with one redirect counter; rows of `uptime_checks` | `Probe`, `persist` | the counter is shared by all probes of a process |
| uptime and metrics roll-up (`aggregator.go`, `workers/metrics/worker.go`) | raw rows, hourly and daily summaries | roll up, prune | windows that begin in mid-hour, re-runs, ordering of the two roll-ups |
| billing (`workers/billing`) | rows of `stripe_events` and `subscriptions`; `instances.status`; in memory: the rows of a pass | `processEvents`, `claimEvent`, five handlers, `Advance`, `escalate`, `suspend` | at-most-once handling, order of events, a two-week time line in steps, handlers of several statements |
| malware (`workers/malware`) | Redis dedup key, `agent_jobs`, `instances.status`, incidents | `startWindow`, `scanSite`, `ProcessScanResult`, `Delays` | check and set are apart; windows overlap; results come late |
| backup (`workers/backup`) | rows of `backups`, `agent_jobs`, files in B2 | `runSchedule`, `enqueueBackup`, `PruneExpired` | several statements without a transaction; the rows are also the "in flight" marks |
| cleanup (`workers/cleanup`) | expired rows | three daily statements | little |
| process life cycle (`main.go`) | the context | start, cancel, exit | `main` returns without waiting for the workers |

How they interact: `instances.status` is written by health (active, error),
billing (suspended), malware (quarantined), provisioning (failed) and the API,
and read by health, malware and backup to choose their sites. Provisioning,
health, malware and backup hand work to Warden agents, by an RPC or through
`agent_jobs`; the results come back through the API's `ReportJobResult`, which
is not in this repository. Stripe's webhook stores the events billing reads.

What makes each component correct:

- provisioning: a job is worked on by one goroutine at a time, is retried a
  bounded number of times, fails only when its retries are used up, is not run
  twice by Warden unless an answer was lost; the semaphore leaks no slot; no
  claimed job is dropped; all comes to rest.
- site status: error means a row of failed probes; a site that answers leaves
  error; a site that does not is noticed; one reload job per window.
- billing: an event is handled once, and none is passed over unless a statement failed or
  a process stopped; a stage is written only over the one it was decided on; everybody
  who does not pay is suspended.
- backup: no scheduled backup beside one in flight; a row is not forgotten before
  its file; every request for a site with a server is taken.
- roll-ups and cleanup: a fault costs an hour's rows or a day's summary and no more;
  a daily summary lacks one hour at most; what is old goes in time.
- malware: a site is scanned once per gap and not less often than every other window;
  two windows never deal with one site at a time.
- HTTP checker: a probe may follow as many redirects as the cap says.

## 2. Modules

| Module | Models |
|---|---|
| `ClaimQueue` | the abstract queue: at most one holder, at most `Limit` claims, closed for good |
| `Provisioning` | the provisioning worker; implements `ClaimQueue` |
| `ProvisioningProofs` | theorems about `Provisioning`: one dispatcher, the semaphores, type correctness |
| `ProvisioningRetryProofs` | retries, repeated executions, no dropped job |
| `ProvisioningQueueProofs` | the bound on claims and the refinement of `ClaimQueue` |
| `Sites` | `instances.status` and all its writers, with the probe cycle in full |
| `Billing` | the event queue and dunning |
| `SitesProofs` | theorems about `Sites`: types, one reload job per window, what an error takes |
| `BillingProofs` | theorems about `Billing`: at most once, and a fault for each event passed over |
| `Backup` | scheduled and requested backups, and their pruning |
| `BackupProofs` | theorems about `Backup`: no forgotten file, no second backup in flight |
| `Malware` | the scan windows, their delays and the key of a site |
| `MalwareProofs` | theorems about `Malware`: the delays, one goroutine per site, one job per gap, scanned in time |
| `Upkeep` | what a process does by the clock: both roll-ups, the pruning and the cleanup |
| `UpkeepProofs` | theorems about `Upkeep`: what a fault costs, what summaries hold, deletion in time |
| `MCProvisioning`, `MCSites`, `MCBilling`, `MCBackup`, `MCMalware`, `MCUpkeep` | small instances for TLC |

### Provisioning

`jobs` is the table, `batch[p]` the rows process `p` has polled and not yet
handled, `dispatches` the set of goroutines of all processes with their program
counter (`pc`), `slots[p][s]` the length of the semaphore channel, `warden` the
accepted calls and the reports of each job. Each statement or call of the code
is one action named after it; a call that can fail has a second action for the
failure. `attempt` of a dispatch is the value the poll scanned, which is what
`markFailed` decides on; the row's own attempt is one higher. `retry_after` is
a flag: the back-off has elapsed (`due`) or not; a back-off of attempt^2 minutes
is none for attempt 0. `ReportJobResult` and the acceptance by Warden are
external. Abstracted: payloads, error messages, priorities (a poll with a limit
may pick any of the eligible rows), the choice of RPC among the asynchronous
types.

A shutdown is a crash: `main` returns when the context is cancelled, and the
cancelled context makes the later statements of the goroutines fail. So
`Restart` drops a process's memory and leaves the database as it is.

### Sites

`listed` and `probes` are the cycle: the rows loaded and not yet started, and
the goroutines, each with the status it was given (`seen`). The next cycle loads
only when both are empty (`wg.Wait`). Redis keeps `failures` and `dedup` over a
`Restart`. `streak`, `restarts` and `uncleared` are history variables, read by
properties only; `uncleared` are the sites whose counter a successful probe owes a DEL,
because the call failed or the process stopped before it. A call that fails does nothing
or, for `INCR` and `SetNX`, has its effect while the answer is lost; in the other calls
that is the call followed by a crash. The counters stop one above the threshold. The
other writers are actions with the conditions of their statements; they are bounded by
`MaxWrites`. One process probes: the Redis keys are shared between processes in the code,
but nothing else of the cycle is.

The HTTP checker is part of this module, because one counter of redirects serves all
probes of a process: `redirects` is that counter, capped one above the limit, and the
sites in `Redirecting` are those whose healthy answer is one redirect. The counter is
incremented without a lock, so `Probe` reads it and `CheckRedirect` writes back one more
than was read; of two probes at a time one increment may be lost, which is one of the
outcomes the race has. `FollowsRedirect` compares the count a goroutine has written, as
compiled code that keeps it in a register does; that the comparison reads the other
goroutine's increment is an outcome left out. Apart from that the result of a probe is a
free choice.

### Billing

One goroutine per process alternates between `processEvents` and `Advance`, so
a process has either rows in `todo` or rows in `plan`; several processes work on the same
tables. A row carries what is done with it next, which makes the statements of one handler
separate steps. Of the dates of a subscription the code asks only whether the next one has
come, so `timer` is off, set or due, and `DateComes` says that it comes: at any moment,
also between the reading of a row and its escalation. How long the stages last is not in
the model. `handled` counts the starts of an event's handler. Left out: audit
log, invoices' contents (the upsert is a step without effect on the model's
state), plan and period columns.

### Backup

`backups` is the table, as a sequence in the order of `created_at`; a row's index
is its id. Requests are rows with `on_demand` set; the worker's own rows are
`pending` until Warden's result is stored (`in_progress`, which the scheduler treats
like `pending` and nobody in the code writes, is left out). `worker[p]` is the one
goroutine of a process: the pass it is in, the sites or rows its query returned and
not yet handled, and the statement it stands before. Each statement of
`enqueueBackup` and of `PruneExpired` is a step; an INSERT that is applied while its
answer is lost is the INSERT followed by `EnqueueError`. Ages are three classes
(within the interval, within retention, past it), the same for all plans. The retries
of a B2 call are one step that succeeds or gives up. Every completed row has a file.

A site that is not in `Placed` has no server (`server_id` is NULL). Its row goes into
`backups` like any other, and the INSERT of the job then fails every time (`JobRefused`):
the pending row stays, a request is not marked, and the next pass takes it up again and
leaves another row. The database grows without end there; in the model a row is refused
from `MaxRows` on (`RefusedAgain`). `MaxRows` stops what begins something new: sites come
due and requests are stored only below it. What has begun is finished above it, so a
request whose first try failed is tried again with the table at the bound.
`instances.customer_id` is taken to be set.

### Malware

`loading` are the `startWindow` goroutines that have not read the sites yet, `scans`
the goroutines of a window with what is left of their sleep (`wait`), how late they are
(`late`) and the call they stand before. The query has no ORDER BY, so a window gives
its delays out in any order. `dedup` is the life the key in Redis has left. Unlike the
other modules this one counts time, since everything here is about lengths: the window
(60 minutes), its cap (55) and the life of the key (30). `WindowAssumption` says that
the calls of a window end within the five minutes between cap and window, which the
comment at `stagger.go:12` gives as their purpose and nothing in the code enforces.
`ProcessScanResult` is an action of `Sites`; it is what writes the status. One process scans.

### Upkeep

Time is counted in halves of an hour, and one raw row per unit stands for the rows of
that time. A summary is the set of raw rows it was computed from, which is all the
properties need to tell a full one from a partial one; the averages are left out. The
channel of a ticker holds one tick (`pending`), so a loop that is held up misses the
ones after it. A loop's statements are steps, `at[l]` is the one it stands before.
`health` and `metrics` have the same statements over tables of their own and differ
in the daily trigger: a 24-hour ticker from the start of the process, or the clock of
each minute with the date of the last run in memory. The first five minutes after
midnight are the unit that begins at midnight; a process that starts in it may have
missed them. The cleanup runs in one hour of the day; its third statement only logs.
Units pass while the loops are at rest, unless a fault holds one up (a cycle of probes
runs in the same goroutine as health's roll-up). A restart is instantaneous. The
statement of `pruneOldJobs` passes an integer for the text of `$1 || ' days'`
(`cleanup/worker.go:96`); whether the driver, which is outside this repository, encodes
it is not modelled: the statement is taken as it is meant. `UpkeepAssumption` asks for
what the properties need of the lengths and the code's own have: a day of at least three
hours, raw rows kept for a day (the code keeps them 48 hours) and hourly summaries for
two (30 days), a horizon of a day at least.

## 3. Runs

| Run | Instance | Shows |
|---|---|---|
| `provisioning_race` | 3 processes (symmetric), 1 asynchronous job, `maxRetries` 3, 2 faults | `TypeOK`, `SingleDispatcher`, `NoPrematureFailure`, `ExecutionsPaidByFaults`, and that `Provisioning` implements `ClaimQueue` with `Limit = maxRetries + |Procs|` |
| `provisioning_slots` | 1 process, 3 jobs (asynchronous, synchronous, unknown type) on a server with 1 slot, 2 retries, 2 faults | `SlotsMatchHolders`, `ClaimedHasDispatcher`, `Quiesces` |
| `provisioning_overtaken` | 1 process, 1 job, no fault | violation of `RunningFromClaimed` |
| `sites` | 2 sites of one customer, one of which redirects, 1 redirect allowed, 1 probe at a time, error at 2 and reload at 1 failures, 1 outside write, 1 fault | `TypeOK`, `OneRestartPerWindow`, `ErrorNeedsStreak`, `SelfHealing`, `DownIsNoticed` |
| `sites_stale` | 1 site, 1 outside write, no fault | violation of `RestoredFromError` |
| `sites_redirects` | 1 site that redirects once, 3 redirects allowed, no fault | violation of `OwnRedirectsCapped` |
| `billing` | 2 processes, 1 subscription, 3 events, read 2 at a time, 1 fault | `TypeOK`, `HandledOnce`, `OvertakenPaidByFaults`, `UnpaidIsSuspended` |
| `billing_stale` | 2 processes, 2 events, no fault | violation of `ChecksCurrentStage` |
| `backup` | 1 process, 2 sites of which one has no server, 2 rows and those of what has begun, 1 fault | `TypeOK`, `NoPileUp`, `OrphansWereRefused`, `RequestsAreTaken` |
| `backup_request` | 1 process, 1 site, 3 rows, no fault | violation of `OnlyTriggeringMarked` |
| `malware` | 2 sites, a window of 5 units with a cap of 4, a key of 3, 1 unit late, 1 change, 1 fault | `TypeOK`, `OneScanPerSite`, `RescansWereUnmarked`, `ScannedInTime`, `KeepsScanning` |
| `upkeep` | days of 3 hours of 2 units, 22 units, every start within a day, 1 fault | `TypeOK`, `RowsLost`, `SecondPartIsKept`, `DaysLost`, `DailyLacksOneHour`, `DeletedInTime` |

Why the bounds are enough. Races for a job are between processes, so three
processes and one job cover them with the real number of retries; contention
for a slot is between jobs of one process, since the semaphore is in its memory,
so one process and one job of each kind cover it. One slot makes the third job
wait behind the second. Two faults allow a lost answer and then a crash or a
failed statement. In `Sites` two sites share a customer (one `suspend` writes
both) and the one place of the probe semaphore; low thresholds keep the two
comparisons (reload before error) and their order. In `Billing` two processes read lists
that overlap and handle events while the other one escalates; three events allow failure,
payment and failure again; two at a time makes the oldest two of three a real choice.
Subscriptions do not influence each other. In `Backup` two sites make the list of due
sites go stale, and one of them is refused its job. Two rows before the last pass, with
those a pass adds above them, allow a scheduled backup, a request, a try of it that
fails half-way and the one that takes it, or two expired rows in one pruning.

In `Malware` two sites have two delays and two orders, and the key outlives the rest of
a window that begins late, so that scans are skipped; with one site out of service a
window of one site has another delay than one of two. In `Upkeep` two units make the
ticker fire in mid-hour or at its start; three hours give a day a first, an inner and a
last one; 22 units are three days and a half, so that all retentions pass.

One probe at a time keeps the increments of the redirect counter apart. With two at a
time, both sites redirecting and one fault an increment can be lost; all properties of
`sites` hold there as well (3.4 million states, which is why it is not a listed run).

`CHECK_DEADLOCK FALSE` stands in every configuration: a system that has handled
all its work, with its faults used up, rests; `Upkeep` ends at its horizon.

### Fairness

`Provisioning`: the poll loop of each process, the goroutines of each process
and job, and the passing of a back-off are weakly fair. Go schedules runnable
goroutines, the ticker fires, and calls end (`jobTimeout` bounds an RPC). Waiting
for a slot needs no strong fairness, because every job is dispatched a bounded
number of times. Nothing is assumed of Warden, so `Quiesces` does not ask that a
running job ends. `Sites`: the cycle and the goroutines of each site. The other
writers, the expiry of keys and the results of probes are not fair; `SelfHealing`
and `DownIsNoticed` assume of one site that its probes succeed (fail) from some
time on. `Billing`: the dunning ticker, the current row and the coming of dates; nothing is
assumed of the events' ticker or of Stripe, since `UnpaidIsSuspended` does not need
them. `Backup`: the
steps of `runSchedule`, and those of a pruning that has begun; requests, Warden, ages
and the status of the sites are not fair. `Malware`: time, the ticker and the goroutines.
`Upkeep` needs none: what must happen there has a date, so it is an invariant. Faults
are never fair and bounded by `MaxFaults`.

### Findings

1. `provisioning_overtaken`: Warden finishes a short job before the dispatch has
   written `running`. `markRunning` looks at the id alone and overwrites
   `completed`; no later report comes and the row stays `running`. The same
   statement pattern lets a lost answer re-pend a job that was reported.
2. `sites_stale`: a quarantine during a probe cycle is overwritten with `active`.
3. `sites_redirects`: "maxRedirects caps how many HTTP redirects the probe will follow"
   (`checker.go:18`), but the count is a variable of the one client (`checker.go:44`) and
   is never reset. Three probes of a site that redirects once use it up, and the fourth
   fails although the page answers; the site ends in error until the process restarts.
4. `billing_stale`: with two processes an escalation is written over a stage it
   was not decided on. In the trace the same step is taken twice; the same lack
   of a condition suspends a customer whose payment is handled in between.
5. `backup_request`: the UPDATE that marks a request as queued matches every open
   request of the site, so one stored after the query is marked too. If Warden has
   already taken the backup, that request gets none.

Three more places say what the code does not do. They have no run of their own, because a single path
through the code shows them, and no property is built on either reading:

- "maxConcurrentPerServer caps how many jobs can run in parallel against a single Warden
  server" (`provisioning/worker.go:32-33`), but the slot is released when an asynchronous job
  is accepted (`worker.go:172`), so the cap limits the calls in flight and not the jobs.
- `dunningTimeline` has the final warning on day 7 and the suspension on day 14
  (`dunning.go:16-26`, also 136 and 142). The first date is 3 days after the failure, and
  `advance` adds 3 and 7 days (lines 132 and 138), so they come on days 6 and 13.
- "The upsert lets it be re-run safely" (`aggregator.go:24`) and "ON CONFLICT allows safe
  re-runs" (`metrics/worker.go:76-78`). Each hour is summed twice, the second time over
  what is left of it in a window of two hours, and that replaces the full summary: the part
  of the hour before the ticker's offset is lost. `SecondPartIsKept` is what remains true.

Other observations are in the hazards: the daily roll-up comes minutes after midnight, when
the last hour of the day may not have been summed, and `DailyLacksOneHour` shows that the
day lacks this one at most and one more per fault; nothing in the code ends a request's
`queued` row, which the scheduler counts as in flight; a site without a server leaves a
pending row with each try and its request is never taken; two processes enqueue the same
scheduled backup (`NoPileUp` holds for one); two billing processes may handle a payment
before the failure that precedes it; a row stays `claimed` after a crash; more
than `maxRetries + 1` attempts are possible with several processes.

## 4. Proofs

Of `Provisioning`, for every finite set of processes and jobs and every value of the
limits:

| Theorem | Establishes |
|---|---|
| `SingleDispatcherHolds` | `Spec => []SingleDispatcher` |
| `SlotsMatchHoldersHolds` | `Spec => []SlotsMatchHolders` |
| `TypeCorrect` | `Spec => []TypeOK` |
| `NoPrematureFailureHolds` | `Spec => []NoPrematureFailure` |
| `ExecutionsPaidByFaultsHolds` | `Spec => []ExecutionsPaidByFaults` |
| `ClaimedHasDispatcherHolds` | `Spec => []ClaimedHasDispatcher` |
| `ClaimsBounded` | no job is claimed more than `maxRetries + |Procs|` times |
| `ImplementsQueueHolds` | `Spec => ImplementsQueue`, the refinement of `ClaimQueue` |

The assumptions are `TablesAssumption` and `LimitsAssumption` of `Provisioning`.
Everything rests on `TypeInv`, the type invariant in which `slots` may be negative,
and on lemmas that say what the three ways of changing a row leave (`ClaimRowEffect`,
`SetStatusEffect`, `RetryEffect`) and what a move of a goroutine leaves (`GotoEffect`).

- `SingleDispatcher` is inductive with `TypeInv`. The claim is the only step that
  adds a goroutine, its condition (`pending`) excludes another live one by the first
  half of the property, and it ends that condition; the only step of a goroutine
  that makes a row pending takes it out of the live ones.
- `SlotsMatchHolders` counts a set of goroutines, so two of them must never become
  equal. `ClaimsInv` adds that (job, claim) identifies a goroutine and that no claim
  is later than its row's; then acquiring adds one to a count, releasing removes one,
  and every other move replaces one element by another. `TypeOK` follows, since a
  count is not negative.
- `NoPrematureFailure` needs `AttemptsInv`: a number scanned by a poll is at most the
  row's, and the claim of a goroutine is later than its scan. Attempts never
  decrease (`AttemptsGrow`), so the witness stays.
- `ExecutionsPaidByFaults` needs `PaidInv`: a job that may still be handed to Warden
  has been accepted at most once per fault. An acceptance uses this up, and with one
  dispatcher nobody else can still hand the job over; only a fault restores it.
- The bound on claims needs `BoundInv`: once the retries are used up, a job is kept
  open by rows scanned before. Each process has at most one, uses it once and gets
  no new one; claims so far plus the processes with a stale row, plus one, stay
  within the bound. With it each step maps to `Claim`, `Requeue`, `Close` or a stutter.

Of the other workers, for every value of the constants their named assumptions admit:

| Theorem | Establishes |
|---|---|
| `SitesProofs`: `TypeCorrect` | `Spec => []TypeOK`, with it the bound on probes in flight |
| `OneRestartPerWindowHolds`, `ErrorNeedsStreakHolds` | `Spec => []OneRestartPerWindow`, `Spec => ErrorNeedsStreak` |
| `BillingProofs`: `TypeCorrect`, `HandledOnceHolds`, `OvertakenPaidByFaultsHolds` | for any number of processes |
| `BackupProofs`: `TypeCorrect`, `OrphansWereRefusedHolds` | for any number of processes |
| `NoPileUpHolds` | with `OneProcess`: it fails with two |
| `MalwareProofs`: `DelaysSpread` | the delays of `n` sites begin at 0, are `windowCap \div n` apart and stay below the cap |
| `TypeCorrect`, `OneScanPerSiteHolds`, `RescansWereUnmarkedHolds`, `ScannedInTimeHolds` | `Spec => []` of each |
| `UpkeepProofs`: `TypeCorrect` | `Spec => []TypeOK` |
| `RowsLostHolds`, `DaysLostHolds` | a fault costs a table one hour of rows and one day at most |
| `SecondPartIsKeptHolds` | what the re-run leaves of an hour when nothing fails |
| `DailyLacksOneHourUntilFault` | `DailyLacksOneHour` as long as nothing has failed |
| `DeletedInTimeHolds` | everything due is deleted in time, an hour or a day later per fault |

- `Sites`: a site is listed or in the hands of one goroutine (`OneProbePerSite`), so
  what a goroutine has counted stays true until it acts. The goroutine that took the key
  has not inserted its job (`WindowInv`). For `ErrorNeedsStreak` the counter in Redis
  must not be ahead of the failures in a row: it is only between a success and its DEL,
  while the same goroutine still holds the site, or once that DEL is owed (`StreakInv`).
- `HandledOnce`: a row that is not claimed has not been handled, a claimed one is on at
  most one list as "to be handled", and then not handled yet (`ClaimInv`). `TypeOK`
  bounds a list by the query's limit: `OldestFew` counts the rows below each row.
- `OvertakenPaidByFaults`: besides the events overtaken already, `Passed` counts those that
  will be: an event counts when it is neither handled nor in hand and is claimed itself,
  has a later one claimed, or is missing on a list that holds a later one. A process claims
  the first of its list (`LineInv`), and the query takes the oldest rows, so steps without
  a fault add no such event; a claim or handler that fails and a restart add one at most.
- `OrphansWereRefused`: a job belongs to a row nobody has answered (`JobsInv`), only
  answered rows are pruned, so no file comes back between the B2 delete and the
  soft-delete (`PruneInv`).
- `NoPileUp`: nothing but the pass itself puts a site of its list in flight (`StillDue`).
- `Malware`: a goroutine began less than a cap after its window (`WindowsInv`), which
  with `WindowAssumption` empties the set before the next tick. The key covers the rest
  of the gap since the last job, or is about to be set (`KeyCovers`).
- `ScannedInTime`: when a window has dealt with a site, its last job is no older than what
  the key may have left out, plus the time of the window; until then a window more
  (`InTimeInv`). A scan is dealt with by the offset `Longest` of its window (`LastDelay`).
  That bound has the least step there can be, the one with all sites in service: the last
  of fewer sites may be given a later delay than the last of all, with three sites, a cap
  of two and one of the sites out of service for instance.
- `Upkeep`: the conditions of the clock are restated as times (`NextTick`, `NextDaily`,
  `NextCleanup`), each the next moment something is due, and `ClockInv` says that it is not
  far off. Every step of the system is one of nine kinds for each table (`StepKind`): it
  prunes, sums up, fails, is held up, starts again and so on. The invariants are proved
  kind by kind.
  - `RowsLost`: the rows of an hour that is over by the next tick, and are in no summary,
    are missing (`RowsInv`). A fault puts that tick off by an hour at most, so it adds the
    rows of one hour (`OneHourLate`); raw rows are there as long as a tick reads them (`RawInv`).
  - `SecondPartIsKept`: without faults the ticks stay at the offset (`OnTimeInv`), and
    `KeptInv` tells the three phases of an hour apart: not yet summed, summed in part,
    summed over what is left of it.
  - `DailyLacksOneHour`, until the first fault: `DailyInv` follows the same rows into the
    daily summary, which reads hourly ones that are final but for the day's last hour
    (`LastHourLacks`). That a fault adds one hour at most is model-checked only.
  - `DaysLost`: a day counts as lost as soon as its next daily run would come too late for
    it (`Lost`). Steps without a fault add no such day, because there is a summary of one of
    its hours when it is summed; a fault adds at most the one it puts off
    (`PutOffLosesOne`).
  - `DeletedInTime`: what is kept past its time is kept until the next deletion at most,
    and this is an hour or a day away; each fault moves it by another (`TimesPerFault`).

With these every invariant and every action property of a passing run, and the refinement,
is a theorem, `DailyLacksOneHour` up to the first fault. For the rest, only model-checked is
what must eventually happen: `Quiesces`,
`SelfHealing`, `DownIsNoticed`, `UnpaidIsSuspended`, `RequestsAreTaken`
and `KeepsScanning`. Their proofs need fairness and `ENABLED`, which are outside the
prover. The violations are TLC's too.

## 5. Plan

1. Done: `ClaimQueue`, `Provisioning`, `Sites`, `Billing`, the first theorem.
2. Done: all safety properties of `Provisioning` as theorems; `Backup`.
3. Done: `Upkeep` (both roll-ups and the cleanup), `Malware`, the HTTP checker in `Sites`.
4. Done: all safety properties of `Sites`, `Billing`, `Backup` and `Malware` as theorems.
5. Done: all invariants of `Upkeep` as theorems.
6. Open: the safety that the liveness properties rest on as theorems of its own, such as
   that a wait has a holder which can move, so that TLC is left with fairness alone.

## 6. Not modelled

Encryption (pure, unused on the path), reading the environment in `main.go`, HTTP and TLS,
log lines (the disk warnings of the cleanup are nothing else), averages and the other
columns of summaries, `schema_workers.sql` (its columns are the models' variables),
database indexes. Connection pool limits are not modelled: statements fail or end, they
do not wait for each other. What remains in the workers' files beyond the mapped lines is
that, the types of rows and payloads, and SQL text whose effect a definition states.
