# A TLA+ verification of netpath (magicalbeans)

netpath is a network monitor that runs as one Python process: it polls devices
over SNMP, traces paths, receives NetFlow, syslog and traps, keeps everything in
SQLite files, raises alerts and mails them, and serves a web interface. Its hard
part is not any single algorithm but what dozens of threads do to shared state
between two locks, two commits or two ticks. This directory holds TLA+ modules
for the parts where that decides what an operator is told, TLC configurations
that check them on small instances, and TLAPS proofs about all eight of the detailed ones.

All paths are below `src/`; `ae` stands for `netpath/alertengine.py`.

Contents: [1 The system](#1-the-system) · [2 The modules](#2-the-modules) ·
[3 The runs](#3-the-runs) · [4 Fairness](#4-fairness) ·
[5 The proofs](#5-the-proofs) · [6 Where code and documents disagree](#6-where-code-and-documents-disagree) ·
[7 Not modelled](#7-not-modelled) · [8 The plan](#8-the-plan)

## 1 The system

| component | state it keeps | operations | talks to | hard behaviour | what makes it correct |
|---|---|---|---|---|---|
| **Alert engine** (`ae`) | one thread; cursors, streaks, dirty carry, roll-up memos and covers, the queue of system occurrences; all in memory except cursors and alert rows | one tick: snapshot resolves, drain events, evaluate thresholds, drain held occurrences, read mutes, apply, flush cursors, sweep | reads the nodes, trap and syslog stores; writes the alert store; called back by the mailers and the poller | snapshots and memos taken at different moments of a tick; every alert row its own commit; a stage that raises is skipped, the tick goes on; crash between two commits | an outage is reported once, under the device that explains it, and ends; no breach is missed; nothing queued is lost |
| **Alert rules and store** (`alertrules.py`, `alertsdb.py`) | rules, alerts by dedup key, parked occurrences, mutes, rule generation, dirty set | open or increment, resolve, acknowledge, mute, park and drop, edit rule | engine, web API | hand resolves and edits during a tick | an edit and a resolve reach the next judgement |
| **Node poller** (`nodepoll/`) | `_next_run`, the markers `_queued` and `_started`, the pool, pools left to drain | scheduling pass, poll now, resize the pool, stop, start, one poll (SNMP, record status, record event, record samples) | nodes store, engine's system occurrences, web API | pool swapped under a submit; stop against polls on their way; two loops after a restart | no device marked for ever; never two polls of one device; every device polled again and again |
| **Notification queues** (`alertmail.py`: mail, SMS, webhooks) | queue of jobs, sender thread; mail and SMS a circuit breaker | submit, send, breaker open / half-open / close, stop | engine (result callback and breaker callback) | the probe against the cooldown, stop against a slow send, full queue | a notice is sent or reported as failed, once; one sender; the alert row agrees with the breaker |
| **Nodes store** (`nodesdb.py`, `nodesseriesdb.py`) | devices, upstream pointers, events, metrics, dirty set | record poll, event and samples; walk up and down the tree; purge | poller, engine, web | several commits per poll; walks bounded differently | the two walks agree; a sample marks its device |
| **SQLite base** (`sqlitebase.py`) | connection, lock, closing flag | begin close, close, transaction | all stores | close against a writer | no commit after close, no torn transaction |
| **Service and workers** (`worker.py`, `web/service.py`) | threads, stop events, live settings, restart pool, response cache | settings save, restart of a component, two-phase teardown, `cached_poll` | all | `_join` gives up after 2 s; a save against the teardown; start and stop from several threads | a save is kept and takes effect; every worker told to stop before any store closes |
| **Trace monitor** (`monitor.py`, `tracer.py`) | schedule, pool | pass, trace now | path store | as the node poller | as the node poller |
| **NetFlow** (`collector.py`, `flowdb.py`) | socket thread, batch; per summary tier a watermark, a floor and a dirty mark | receive, flush, seed, build, redo, backfill, prune, query | flow store; three threads without a common lock | late rows behind the watermark, a mark taken while rows land, a crash between two commits, raw rows pruned under a rebuild | every stored flow is counted once, or its bucket is owed a rebuild |
| **Traps, syslog** (`snmptrapd.py`, `syslogd.py`) | socket thread, batch, index backfill | receive, insert, prune | stores; the engine drains them by cursor | prune against cursor | each row drained once |
| **IPAM, wireless** (`ipam_worker.py`, `fortipoll.py`) | schedules | scan, poll | own stores | one writer | - |
| **ConfigRX** (`configrx.py`) | jobs per device | back up on schedule and on change | own store | two triggers, stop | one backup per device at a time |
| **Authentication** (`auth.py`, `appdb.py`) | accounts, sessions, lock-outs | log in, renew, expire | web API | expiry against renewal | a revoked session stays revoked |
| **Self-update** (`selfupdate.py`) | job thread, restart thread, the flags of both; on disk the package, one backup, three markers in app.db | check, download, mark, tear down, swap, restore, restart | file system, service, whoever closes the process (`__main__.py`, `console.py`) | a kill or failure between two steps; a press or a closing while it runs | a whole version on disk and told truly; nothing runs under the swap; one replacement, and it starts |
| **SSH, relays** (`sshterm.py`, `webrelay.py`) | session registries | open, close, idle sweep | web | limit and idle timeout | limit kept, all closed at stop |
| **Discovery** (`nodediscover.py`, `discovery_mixin.py`) | one job | start, cancel, accept | poller | cancel against completion | one job |
| Mapper, reports, MIBs, secrets, event log, console, web server, front end, demo | - | - | - | little of their own | - |

How they interact in what is modelled: poll threads write status, event and
samples to the nodes store, in separate commits. The engine thread reads past
its cursor, judges, and opens and resolves rows in the alert store. Operators
resolve, mute and edit through web threads, which write to the alert store and
start, stop and resize the poller, and save settings, which restarts workers from
a pool of one thread. The mailers and the poller call the engine's
`system_occurrence` from their own threads. The flow collector, the roll-up
thread and the maintenance thread share the flow store commit by commit.

## 2 The modules

| module | of | abstract specification | proofs | runs |
|---|---|---|---|---|
| `AlertOutage` | the engine's tick over outages, with poller and operators | - | `AlertOutage_proofs` | `outage`, `outage_faults`, `outage_mute_lapse` |
| `ThresholdDirty` | judging only the devices that changed | - | `ThresholdDirty_proofs` | `threshold_dirty` |
| `SystemQueue` | occurrences about the application, composed of reporters and tick | `AtLeastOnce` | `SystemQueue_proofs` | `system_queue` |
| `MailQueue` | a notification queue, its sender and breaker, with the callers that start and stop it | `Courier` | `MailQueue_proofs` | `mail_queue` |
| `PollScheduler` | markers, pools, scheduling loop, clicks, resizes, stop and start | - | `PollScheduler_proofs` | `poll_scheduler` |
| `FlowRollup` | the minute and hour summaries of flows | - | `FlowRollup_proofs` | `flow_rollup`, `flow_rollup_lost` |
| `SettingsRestart` | a settings save, the restart it queues, the worker, the teardown | - | `SettingsRestart_proofs` | `settings_restart` |
| `SelfUpdate` | an update of the application by itself, against kills and the closing of the process | - | `SelfUpdate_proofs` | `self_update`, `self_update_exit` |

The modules `MCAlertOutage`, `MCThresholdDirty`, `MCSystemQueue` and
`MCPollScheduler` only give the bounds constants of their own: in those
components `Budget` bounds how often each kind of outside event (a device
failing, an operator acting, a fault, a crash) may happen; the others have a
constant per bound. What the code itself does is not bounded. Variables
documented as "history" are read by no guard and change no other variable: they
say which exception a property makes, and which step earns it.

Definitions whose comment begins with "Mutant" are not part of a specification:
each is a plausible mistake in the definition below it, and is used to confirm
that the property about it notices.

### AlertOutage: one tick over outages

The tick of the engine (`_tick`, `ae:323` on) over `device_down` and one metric rule,
`loss`, which stands for every rule that rolls up under it (`ROLLED_UP_BY`).

| code | model |
|---|---|
| `record_poll` then `record_device_event` (`poll_mixin.py:254-331`) | `PollStatus` with the `Verdicts` a poll may come to, then `PollEvent`; the transition in between is in `owed` |
| samples flushed after both | `PollSample` |
| web handlers for resolve, mute and the upstream pointers, the 7-day window over resolves, the new-device grace | `ResolveByHand`, `Mute`, `Unmute`, `Rewire`, `ResolveWindowEnds`, `LeaveGrace` |
| top of `_tick`: `_operator_resolves` | `TickStart` |
| `_drain_device_events` / `_drain_from` | `ReadEvents`, `DrainUp`, `DrainDown`, `DrainOther`, `DrainDone`; `DrainRaises` for `_stage` swallowing an exception |
| `CLEARS`, `_replay_downstream_outages` | in `DrainUp` |
| `_evaluate_thresholds`, as far as outages need it | `EvaluateThresholds` |
| reads outside any stage | `RulesRaise`, `MutesRaise` |
| `_drain_pending`, `_still_true` | `DrainPending` |
| `_hold_for_new_device`, `_muted` | `Hold`, `Silence` |
| `_upstream_outage` with its memo, `_parent_still_failing` (`Standing`, `Seen`), `_parent_operator_resolved`, `_parent_covers` | `Upstream`, `AskUpstream`, `Covering`, `Asked`, `CoversAfter`, `OwnCoverOrOpen` |
| `_apply`, `_absorb_children_of`, `_absorb_subordinates`, `_absorb_downstream` | `RollUpDown`, `OpenDown`, `AbsorbChildren`, `AbsorbDownstream`, `AbsorbDone`, `RollUpLoss`, `SuppressLoss` |
| exception of one apply | `ApplyRaises` |
| `_flush_cursors` | `FlushCursors` |

A device is `up`, `down`, `unsupported` (it answers the ping and its SNMP does not
work out) or `unknown` (no longer unsupported, and not yet down). Each of the
first three has an event on its transition; only `up` resolves `device_down` and
replays what is down behind the device, and `unknown` has no event. So a core
device that goes from down to unsupported keeps its row, nothing behind it is
reported again, and nothing says so: the history variable `stranded` holds the
devices that were down behind it at that moment, until a recovery above them or
an event of their own reports them, and `LeftOpen` the rows of devices that are
no longer down (section 6).

Abstractions. The settings are the defaults (roll-up and both rules on). What a
tick clears at its top is cleared when the previous one ends, since nothing
reads it between. Devices have been polled before, so the first status is
known. Samples are fresh (no stale-sample rule), a breach counts at once
(`for_polls` and streaks are ThresholdDirty's), and there are neither published
limits nor baselines. Rows of the `device_up` rule are left out: they are never
rolled up and nothing reads them. A stage that only reads is one step with its
read. The upstream pointers are a forest of at most 8 levels, in which
`upstream_chain` and `downstream_ids` are inverse to each other. Operators change
them as a whole, within `Topology`, at any time (`Rewire`, `set_upstream_ids`;
deleting a device clears the pointers to it in the same way, its rows are not
modelled).

### ThresholdDirty: judging only what changed

`_evaluate_thresholds` and `_scan_thresholds` for one rule and one metric per
device. Pollers commit a sample and then mark the device (`WriteSample`,
`MarkDirty`); operators edit the rule and resolve (`EditRule`,
`ResolveByHand`); seven days after a resolve it is no longer among those the tick
asks for (`ResolveWindowEnds`, `OPERATOR_RESOLVE_WINDOW_S`; it is then in `aged`, which
the snapshot of `TickStart` leaves out); the roll-up resolves on its own account
(`Absorb`). A device may be `gated`: between the scan that found its breach and
the row stand the new-device hold, the mute, the rule read again and the roll-up
under its own or an upstream outage (`ae:396-401`, `ae:2921-2975`). Any of them
may stop the breach, and they begin and end at any time (`Gate`). The tick
reads one snapshot after the other (`TickStart`: resolves, `ReadRules`,
`TakeWork`: generation and dirty sets, `ReadMetrics`), scans device by device
(`ScanDevice`, with `Entry` the streak and `OperatorResolved` the test whether
a hand resolve covers the run), and applies (`Apply`, or `TurnAway` where a gate
stops it, after which nothing marks the device). `ScanRaises`,
`TickAborts`, `ApplyRaises` and `Crash` are its failures. Overrides per device,
templates and profiles are part of the effective limit; `for_seconds`,
baselines, stale samples and a rule that is switched off when the scan reads it
are left out. A breach the hold parks is turned away here; that the engine brings
it back is AlertOutage's.

### SystemQueue, and the abstract AtLeastOnce

The queue of occurrences about the application itself (`ae:420-480`) with its
reporters. `Flip` and `SystemOccurrence` / `ClearSystemOccurrence` are the
condition changing and the callback that reports it, `Drain`, `ResolveClear`,
`ClearsDone` the stage, `RulesRead` the enabled rules as this tick reads them, `Apply`
the loop (`PassOver` for an item no enabled rule is about), `CommitSystemDrain` the
removal at the end of a tick that succeeded. Operators switch rules
(`SwitchRule`) and resolve rows, as does the sweep of old ones (`ResolveRow`). `TickAborts`, `DrainRaises`, `ApplyRaises` and
`Crash` are its failures.

`AtLeastOnce` says what such a queue promises without saying how: items wait in
order and leave from the front, only after they were handled, to make room, or
in a restart. Its `slack` is the part a reader of `_commit_system_drain` does
not expect. The commit removes as many items as were handed out, by count. A
report that finds the queue full between the drain and the commit has already
taken one of those away, so each costs one later item its turn; and after a
drain that raised on top of an aborted tick the count is an earlier tick's, and
may cost any. `SystemQueue!Promise` is the abstract specification under
`queued <- occurrences`, `handled <- applied`, `slack <- IF stale THEN Cap ELSE
displaced`: the theorem says that this is all the code ever loses.

### MailQueue, and the abstract Courier

The queue `MailQueue` of `alertmail.py`, from which `SmsQueue` inherits all but the
delivery, with the calls the engine and the service make of it. `WebhookQueue` is a
class of its own (`alertmail.py:740-836`): the same queue and thread, started and
stopped in the same way, without a breaker. It is not modelled.

| code | model |
|---|---|
| `submit()`: `start()` unless running, then `put_nowait` | `Submit`, `StartReturns`, `StartClears`, `Spawn`, `Put` |
| `stop()`: forget the thread, set `_stopping`, join with a timeout | `StopTakes`, `StopSets`, `StopReturns` |
| `AlertEngine.start()`, which begins with a stop (`ae:263`) | `Stop` with `then = "start"` |
| the service's teardown | `BeginStop`, `FinishStop` |
| `_run`, `_deliver`, one sender thread | `Top`, `Get`, `GetTimesOut`, `BreakerVerdict`, `SendFails`, `SendWorks`, `FireBreaker`, `Finish` |
| `_record_failure`, `_record_success`, the cooldown | `SendFails`, `SendWorks`, `CooldownEnds` |

No lock spans a call, so each read of `_thread` or `_stopping` that a write
follows is a step of its own, and the callers interleave as the threads do. A
send is the transport, that is, a success or a failure; the clock is two states
of an open breaker, `cooling` and `ripe`. `Courier` is what a caller may rely on:
accepted or refused at once, begun in order, by one carrier, at most one verdict.

### FlowRollup: the summaries

`insert_flows` and `record_sampling_rates` of the collector's writer (`Insert`,
`Announce`, `WriterReads`, `WriterWrites`); `compact_rollup` for one tier and then
for the other (`Seed`, `SeedFloor`, `Open`, `Advance`; `Take`,
`RedoEnds`, `RedoStops`, `MarkReads`, `MarkWrites` for `_redo_dirty` and
`_mark_dirty`); `backfill_rollup` (`Backfill`, `LowerFloor`); `prune`; a crash
anywhere, and one between the two commits of an insert's marks. The loops of all
three hand their buckets to `_compact_bucket`, which is as many steps as it has
commits of a kind: `Check` settles under the lock what the bucket is built from, or
`LeaveBuilt` leaves it (`_raw_short`); `Rows` replaces its rows, `Spans` its span, which the
next check will count. The lock is free between them, and a prune, a flush or a
crash may come there. `Rows` stands for the commit of any one dimension and scope.
The plan of a query (`_rollup_plan`, `_minute_tail`) is the operator `Answer`. It is
a snapshot: the code reads the bounds and then the rows, in a later statement
(`flowdb.py:1721-1722`, `1743-1744`), and what may come between is not modelled.

A tier's rows are the set of flows they add up, with whether at the announced
sampling rate: sums over a set that lacks or repeats a flow are what is wrong
when a chart is wrong. A bucket is named by its first minute. Left out: what tells
the tables per scope and interface apart, the top-K truncation, the budgets of a
pass (a pass may stop at any bucket), the retention by age and `_trim_more`, which remove whole ranges
from every table.

### SettingsRestart: a save and what it starts

`apply_settings` on a request thread (`Merge`, `TakeLock`, `Commit`, `Read`,
`Update`, `Queue`, `RestartInline`; `SaveFails` once the store is closed); the collector strip of the wireless page,
which starts and stops the worker directly (`StripTurns`, `StripCalls`); the
restart pool's one thread (`Restart`); `stop()`, `start()` and `_restart` on
whichever thread calls (`SetStop`, `TakeThread`, `Joined`, `JoinTimesOut`,
`Decide`, `ClearStop`, `Spawn`); the worker's loop (`LoopEnds`); `shutdown()`
(`CloseRestarts`, `SignalStop`, `AwaitRestarts`, `AwaitGivesUp`, `SignalAgain`,
`FinishStop`, `CloseStores`). A save takes the store's lock and commits in a
later step, so that the store may close under the open transaction: `close()`
waits two seconds for the lock and closes the connection in either case. Two
switches stand for the settings: the one that
decides whether the worker runs, and one more, so that a lost update can be seen.

### SelfUpdate: replacing the running code

The request (`Press`, `StartJob`), `_run_job` and `apply` on the job's thread:
`_resolve_target` to the unpacked archive (`Fetch`, `NothingToInstall`), the
markers (`MarkCommit`, `MarkTag`, `MarkFails`), the teardown (`RunHook`,
`HookDone`; `HookRaises` for an exception of the hook, which is logged and
swallowed), `_swap_in` with its ways to fail (`Sweep`, `RenameAway`, `MoveIn`;
`SwapEscapes`, `RenameFails`, `MoveFails`, `MoveFailsInPart`), `_restore_meta`
(`Restore`, `RestoreGivesUp`) and `schedule_restart`, called by `apply` or by the
job's `finally` (`Schedule`, `JobEnds`). The restart's thread: `Relaunch`, then
`TakesOver`, the replacement, or `SpawnFails` (Windows) or `ExecFails` (POSIX).
Who closes the process: a signal when headless (`run_headless`, `main`), the
window on the desktop (`run_teardown`, `_force_quit`); both end in `wait_for_job`
(`Look`, `WaitEnds`, `WaitTimesOut`) and `Exit`, and differ in whether they stop
the service before or after it. `Crash` is a kill at any step; `Start` is a
service manager or the operator. `shutdown()` returns when everything has stopped
(`closed`) or, at its deadlines, with the stores closed and a worker, a sweep or a
request still running (`overrun`, until `StragglerEnds`).

Abstractions. A version is a number; a release is a version with a tag. What is
downloaded and checked before anything on the host changes is one step. The
marker of the time of installation goes with that of the commit. What survives
the process is the package, its backup and the two markers.

### PollScheduler: markers and pools

`_loop` and `_schedule_pass` (`PassStart`, `Consider`, `PassDone`, `LoopEnds`),
`_submit` and `poll_now` (`Consider` or `PollNow` under the lock, then `LookUp`,
`Hand` or `Refused` outside it), `_run_one` (`Take`, `RunOne`, `PollEnds`),
`_apply_pool_size` by the autoscaler and by a settings save (`ReadPrevious`,
`Swap`, `ShutPrevious`, `KeepDraining`), `begin_stop`, `stop` and `start`
(`AskStop`, `CancelCurrent`, `ClearMarkers`, `Stopped`, `Start`). The pools are
Python's `ThreadPoolExecutor`, modelled by what the code relies on: first come
first served, `shutdown` refuses new work, `cancel_futures` drops what waits. A
worker that has taken a poll from the queue has not entered `_run_one` yet:
between the two neither a cancel nor a marker can tell.

Abstractions. The unlocked pending test of a pass is merged with the locked one
of `_submit`, which repeats it. `_join` gives up after two seconds, so `Start`
may come while the old pass runs; there are then two scheduling threads. The
set of devices is fixed.

## 3 The runs

| run | instance | question | answer |
|---|---|---|---|
| `outage` | a core device and one behind it; 3 transitions between the four statuses, 1 hand resolve, 1 change of the pointers; both with or without grace | does every order of transitions, resolves, holds and tick steps end with each outage reported, rolled up and ended as intended, and is a device that stays down always reported? | yes, but for what hides behind the row of a device no longer down (`raced`; `unsupported` or `unknown`) or was behind it when it became so (`stranded`), and a device moved from behind an outage that covered it (`moved`), with what it in turn covers |
| `outage_faults` | the same with 2 transitions, a loss sample, a mute, a fault and a crash, and no change of the pointers | what may a failure cost, and is a device's own outage ever shown beside its loss? | beside the exceptions above, a transition a mute or failure discarded (`lost`), an open row together with its children (`torn`) |
| `outage_mute_lapse` | 1 transition, 1 mute | is a device still down when its mute ends reported? | no (finding 1) |
| `threshold_dirty` | 1 device, 2 limits, 2 values, 2 polls to fire, 3 samples; an edit, resolve, end of its window, roll-up, gate, fault, crash, up to three of these kinds in one behaviour; fair | does judging only dirty devices miss a breach or a recovery? does a resolved run stay closed? does every edit reach every device? | only one lost or turned away before its row (`skipped`); yes, for seven days; yes, by the minute's full pass |
| `system_queue` | 2 conditions, a queue of 2; 5 changes, 2 faults, a crash, a rule switched, a row taken | does the queue implement AtLeastOnce, and do rows follow conditions? | yes: what an overflow during a tick, a stale copy, a raise handed out with its clear, a restart, a rule that is off and a row taken while its condition holds cost is named (`skipped`, `stuck`) and nothing else is lost |
| `poll_scheduler` | 1 device, 2 workers; a click, a resize, a stop or restart, a failing pass; fair | is a device ever marked for ever or polled twice at once? is it polled for ever? | no, except by a restart, as `orphaned` names; yes, unless stopped for good |
| `mail_queue` | 2 sender threads, 3 jobs, a queue of 2, a breaker that opens at 1; a stop, restart or teardown; fair | is every accepted notice settled once, by one sender, with the reports in the breaker's order? does the queue implement Courier? | yes until it is stopped; two senders at once, and a stranded job, only after the interleavings `overlapped`, `crowded` and `doomed` name |
| `flow_rollup` | 2 minutes of one hour, 2 flows or a flow and an announcement, a crash | is a bucket that lacks a flow always owed a rebuild? does a query count each flow once? does a rebuild lose flows that were pruned? | the buckets in `astray` are not owed one; yes; only those pruned between the check of a bucket and its rebuild (`aged`), or of a bucket whose span was behind its rows (`Loose`) |
| `flow_rollup_lost` | the same without a crash | is a late flow always counted in the end? | no (finding 2) |
| `settings_restart` | 2 request threads and the pool, 2 requests, 2 loops; fair | is a save kept, does it take effect, is there one loop, does none outlive the teardown, does the teardown end whatever a transaction does? | yes, but for what `crossed`, `collided`, `gaveUp` and `overran` name |
| `self_update` | 3 versions, 2 presses, 2 failing calls, one of which may be a kill; headless or desktop; fair | do the markers tell what is installed? is a whole version on the disk? is the shutdown over when the package is swapped? does one replacement start, and does it? | yes, but for what `abandoned`, `broken`, `early`, `raised` and `late` name, and a process ended from outside (`killed`) |
| `self_update_exit` | 2 versions, 1 press; no failure, no kill | does who waits for the update wait for its restart? | no (finding 3) |

Why the bounds are enough to be of interest. *Two devices* are both ends of
every roll-up; one chain of two has the device's own row, an upstream row, a
cover and a replay. *Three transitions* give down-up-down of one device, an
outage of both and one recovery, or an outage of both and the core device
becoming unsupported. That a metric row and an outage row exclude each other needs
a sample and two transitions only, and is a question of the run with faults. *One device* suffices for ThresholdDirty and
PollScheduler because devices share nothing there but the rule, its generation,
the kind of pass, the pools and the loop, and each of these is moved by other
actors anyway. *Values* 0 and 2 with limits 2, 3 and the clear level one below
the limit are a recovery, a breach of the one limit and the hysteresis band of the
other, so that 2 changes sides under an edit. *Three kinds* of outside event in
one behaviour (`Kinds`) are what each exception of the properties takes and one more. *One resize* of the pool at a time is
what the run has room for beside its liveness; that two at once break neither
invariant is proved (section 5). *A queue of two* is full after
two reports, overflows during a tick with the third and still has two to come;
*two faults* are an aborted tick and a drain that raises, the pair a stale copy
takes. *Two senders* are what a stop that did not wait can leave; a breaker that
opens at one failure visits all its states with three jobs. *Two minutes and one
hour* give both tiers a bucket and the hour tier a choice of source; every step
of `_redo_dirty` can meet every writer there. *Two requests and two loops* are
two saves, a save and a strip, or either against the teardown. *Two presses and
three versions* are an update, a kill in it and the next one over what it left, or
a press that outlives the first; *two failing calls* are a swap that fails and a
restore that gives up, or a kill and what fails in the update after it (`Faults`
bounds both together, `Crashes` the kills among them). The two conditions of `system_queue`
are symmetric, and its properties are safety; no other run uses symmetry.

Deadlock is checked except where the system may rightly end: the poller or the
mail queue stopped for good, the service shut down, all flows of the bound
stored, counted and pruned, the last version installed or the process ended.

How strong the properties are: each property of a passing run was tried against
a plausible mistake in the modelled code (a reset left out, an off-by-one in the
cursor, a marker kept when the pool refuses, the carry forgotten, ...), and TLC
found it violated each time.

## 4 Fairness

- `AlertOutage`, `ThresholdDirty`: weak fairness of the engine's tick as a whole.
  The engine loop runs `_tick` for ever and swallows its exceptions, and exactly
  one tick step is enabled at a time (or a choice among equal ones).
- A poller that committed a status or sample goes on to commit the event or to
  mark the device; grace periods end and minutes pass.
- `PollScheduler`: each scheduling loop, each submitting thread, each pool
  handing work to a free thread, each worker thread, each resize and each stop or
  start in progress goes on. A poll ends because every exchange has a timeout.
- `MailQueue`: a call that began goes on, a sender thread goes on (a `get` and a
  send both have timeouts), a cooldown ends. Nobody has to submit, stop or start.
- `SettingsRestart`: a request, a queued restart, a stop or start in progress and
  the teardown go on, but a transaction may take for ever to commit; a loop that was told to stop ends.
- `SelfUpdate`: the job's thread and the restart's go on: every download and the
  shutdown have timeouts. Nobody has to press, publish, close or start anything.
- Nothing makes a device fail or recover, an operator act, or a fault happen or
  stop happening, except that the bounds let faults happen finitely often.
- `SystemQueue`, `FlowRollup`: safety only.

## 5 The proofs

`AlertOutage_proofs` proves, for any finite set of devices, any forests
the upstream pointers may be changed between (`TopologyAssumption`), and any
bounds (`BoundAssumption`):

- **TypeCorrect**: `Spec => []TypeOK`. `TypeOK` is not inductive alone: the step
  that ends an absorption takes the first occurrence off the batch, and must know
  there is one. The invariant `Absorbing` says so: at the positions `children`
  and `downstream` the batch is not empty.
- **OwnOutageSilencesLossHolds**: `Spec => []OwnOutageSilencesLoss`. Inductive
  relative to `TypeOK` and `Absorbing`: a loss row opens only where `OwnRow` was
  just looked up, an outage row opens only with the position `children` following,
  and every exit from there either resolves the row or enters it in `torn`.
- **OutageRowNeverVanishesHolds**: `Spec => OutageRowNeverVanishes`, an action
  property. The step that matters is `AbsorbDownstream`: that what it resolves is
  behind an active or hand-resolved outage needs the invariant `Opener`: the
  device whose occurrence is at the head of the batch has its row or was told,
  and what is left to sweep is below it, or was when the sweep began.
- **RecoveryClears**, `Spec => []RecoveryClearsUnlessRaced`. The property speaks of
  an engine that has caught up; the invariant `Chase` says at every step which
  recovery is still on its way. `Reading`: what is left to drain is the end of what
  was read, and a recovery read behind its own outage is `raced`. `Recorded`: the
  log ends, for a device that owes it nothing, with the transition to its status.
  `Chased`: a device that is up and has a row, had one resolved by hand, or is
  about to get one from the batch, has its recovery in the log or among the rows
  to drain.
- **OutageAccountedHolds**, `Spec => []OutageAccounted`: suppression never swallows an
  outage. The invariant `Account` has three parts. `Accounted`: for each device that
  is down, it or one upstream of it is `Anchored`: known of (an active or
  hand-resolved row, or a report on its way through log, rows, batch or hold),
  recovering (its recovery, still to be drained, reports again what is behind it)
  or dropped. `Remembered`: a cached answer "covered" stays true for the rest of the
  tick, in that something upstream is anchored, and an ancestor the memo has as
  down is down or recovering. `Origins`: what the batch holds is brought back, if
  the tick ends without its cursor, by the rows it came from. A step may take an
  anchor away only where it leaves another, at the device or above it (`Kept`);
  that this carries every device behind it is transitivity of the forest (`Carry`,
  `Chains`), and that a cover found by `_upstream_outage` is such an anchor is
  `AskedElsewhere`. An attempt at this proof corrected the property: with three
  devices, one moved from behind an outage while its own was resolved by hand hides
  the next device behind it, which itself was never moved. So `Dropped` asks of the
  devices above as well whether they were moved. It also showed how little the
  order of two transitions excuses: a row that two read the wrong way round left
  (`LeftOpen`) hides what is behind its device while that device is up (`Shadowed`),
  and nothing else. Of the third status it needs `stranded`: with three devices, the
  cover of one may be a batch still to be applied when the device above turns
  unsupported, so that no row is left open and the outage behind it is dropped
  all the same.
- **UndisturbedSeesTheTruth**, `Spec => []SeesTheTruth`: the exceptions of the two
  theorems before are not a way out of them. `Paid` says of each what must have
  happened first: a device is `lost` only by a failure or a crash, `moved` only by a
  change of the pointers, a row `torn` only by a failure between two commits. So
  where no pointer was changed, nobody was muted, and no write failed and no
  process died, a settled engine shows every device that is down, at its own row
  or at one upstream, and has a row of no device that is not down, save the two
  exceptions that need no disturbance: a down and an up read by one tick, and a
  device that went from down to unsupported.

`MailQueue_proofs` proves, for any submitters, number of threads, jobs, capacity,
threshold and number of stops:

- **TypeCorrect**. A thread between `Get` and `Finish` carries a job (`Carrying`),
  without which `Finish` would write the verdict of no job.
- **JobsAreInOnePlace** and **Refinement**, `Spec => Promise`. Every job has one
  place: with its submitter, in the queue, with one sender, or settled
  (`OnePlace`, `Numbered`: numbers not handed out yet are nowhere). It holds
  however many senders drain the queue, because `get` and `put_nowait` are atomic.
- **DrainedByOne**, `OneSenderUntilStopped`: a running thread is the attached one
  as long as nobody has stopped it or crowded into `start()` (`OneAttached`).
- **StartedAgainHasSender**, `StrandedOnlyIfDoomed`: follows the operator's call
  through its steps (`Operating`, `StopIsClean`, `StartedAgain`).
- **AttemptsAreSpaced** and **ReportsAreKept**: with one sender, at most one
  attempt is under way (`OneAttempt`), and its report comes before the next.

`SystemQueue_proofs` proves, for any conditions, cap and budget:

- **TypeCorrect**, which includes that the queue is gapless and never above its
  cap. The invariant `Newest` gives each position its number: the queue is the
  last `Len(occurrences)` of what was raised.
- **Refinement**, `Spec => Promise`. Everything rests on the commit: `Aligned` says
  how far the copy in flight and the queue have shifted against each other
  (by `displaced`), and `Handed` that what has left the copy was applied; position
  `k` of the queue is then position `k + displaced` of the copy, and was applied,
  for all but the last `displaced` removed.
- **RowsFollow**, `Spec => []RowsFollowConditions`. The property speaks of empty
  queues; the invariant `Truth` says at every step where the last word on each
  condition is. `Begun`: a condition that holds, was reported and not `skipped` has
  its last occurrence queued, or its row and no clear that could take it. `Ended`:
  a condition that ended and is not `stuck` has its clear still queued as long as it
  has a row or one is about to be raised, behind the copy in flight if that copy is
  going to be removed. `Followed`: an occurrence and the clear behind it are not
  parted by a drain or a commit. `Delivered`: what the commit is about to count off
  was applied, by the alignment of the refinement. `Copies` says of what the copies
  are copies.
- **UndisturbedShowsEveryCondition**, `Spec => []ShowsEveryCondition`: as in
  AlertOutage, `Paid` says what each exception costs. Until a step fails, the
  application restarts, a rule is switched, a row is taken or more is reported than
  the cap, no occurrence leaves
  unapplied and no condition that holds is without its row. A row of one that ended
  may remain even then: the clear handed out together with its raise is the code's
  own doing.

`PollScheduler_proofs` proves, for any finite set of devices and of resizing
threads (`ResizerAssumption`), any pool size and any bounds:

- **TypeCorrect**. Whether another pool may be made needs a count: the pools made,
  those a resize or a start is about to make and those still allowed never exceed
  the bound (`Counted`). That the current pool is not left to drain needs
  `Latest`: the pool made last is the current one.
- **MarkersHaveAPoll**, `Spec => []MarkerMeansPoll`, which is inductive with the
  types: a marker follows its poll from the call to the queue to the worker.
- **OnePollAtOnce**, `Spec => []OnePollUnlessOrphaned`. The invariant `Single` says
  that a device no stop has orphaned has at most one poll, in one place (a call, a
  queue or a worker), and that `_queued` and `_started` say where.
- **ResizesDoubleNothing**, `Spec => []ResizesAreSafe`: only a stop, or a start that
  begins with one, makes an exception (`Paid`). Until then resizes, clicks and failed
  passes double no poll and leave no marker behind.

`SelfUpdate_proofs` proves, for any number of versions, presses, failing calls
and kills:

- **TypeCorrect**, in two parts, what holds values and what holds truths, because
  the solver takes the one and not always the two together.
- **MarkersAreTrue**, `Spec => []MarkersTell`. `Written` says which markers the job
  has set at which step, `Remembered` that those it overwrote named the directory
  it will put back.
- **AWholeVersionStays**, `Spec => []OldOrNew`. `Whole` follows the whole version
  through the steps of the swap. A job may only tear down a process whose package
  is whole unless it was started too late, for which `Stages` relates the job's step
  to the hook.
- **SwapIsQuiet**, `Spec => []QuietSwap`: a shutdown that has come to its end stays
  there (`TornDown`), and a hook that has run leaves a service up only if it raised.
- **ReplacedOnce**, `Spec => []OneReplacement`: a restart on its way is the scheduled
  one (`OneScheduled`).

`SettingsRestart_proofs` proves, for any finite set of request threads and any
number of requests and loops, the module's four safety properties. Three of them
have exceptions, each a history variable; the invariant behind each says what
holds at every step as long as none of its exceptions has happened.

- **TypeCorrect**. That no more restarts are pending than requests were made needs
  a count of those on their way to the pool (`Counted`).
- **TheStopIsTheLastWord**, `Spec => []LastWord`. `Last`: once the pool is no longer
  awaited, what is pending is what is running, and nobody else may call the
  worker, so nobody takes the second signal back.
- **SavesAreKept**, `Spec => []NoSaveLost`. `Kept` says, for each step of a save,
  which of the dict, the database and the copy are equal to what was asked for;
  a strip's goal stays what it turned the key to, because a request thread is
  never in a save and in a call at once (`Last`).
- **NoSecondLoop**, `Spec => []OneLoop`. `Single` says, for each step of a call, who
  can be in the loop. The case that is hard to see is `finish_stop`, which joins
  the thread it found while a restart may have attached another: it forgets
  that other thread, and nobody is left who could start a second.

`ThresholdDirty_proofs` proves, for any finite set of devices, any limits, values
and `for_polls`, and any number of edits, resolves, roll-ups, faults and crashes:

- **TypeCorrect**, numbers and sets in two parts, as a streak's count and a set of
  devices ask for different provers.
- **ResolvedStaysClosed**, `Spec => ResolvedRunStaysClosed`. Only `Apply` opens a row,
  and the invariant `Runs` ties a resolved run to the streak the scan will compare
  the resolve with.
- **NothingIsMissed**, `Spec => []NothingMissed`. The property speaks of a settled
  engine; `Watch` says of every device nobody has marked what is known of it at each
  position of the tick, `Pass` which devices the pass will come to, `Order` that the
  rule and generation a tick works with are the stored ones unless they were edited
  since. Two exceptions of the module come from attempts at these proofs: in larger
  instances than the run's, a full pass that raises loses a breach it had found, and
  forgets a run that began in it.
- **UndisturbedSeesEveryBreach**, `Spec => []SeesEveryBreach`: a breach is lost only to
  a failure or a gate, and the reads of a tick are crossed only by an edit (`Paid`).
  Without them, `NothingMissed` has no exceptions, however many restarts there were.

`FlowRollup_proofs` proves, for any horizon, width of an hour, number of flows and
touches and number of crashes:

- **TypeCorrect**. The marks stay within the minutes there are, and on the starts of
  buckets (`Shape`): a redo ends at the watermark the pass began with, and backfill
  not below the bucket of the oldest flow.
- **WrongIsOwed**, `Spec => []StaleIsOwed`. A tier answers for a bucket a step after it
  was built, and not every thread that has a bucket in hand will still come to it:
  `Watched` says who will (`ByWriter`, `ByThread`), of the buckets answered for and
  those about to be (`Answers`). That the step from one bucket to the next skips none
  is arithmetic of multiples (`Apart`).
- **ChartsCountOnce**, `Spec => []AnswerCountsOnce`: from `WrongIsOwed`, and from `Ids`, by
  which a flow has the same minute in all three tables and one row in each.
- **CountedStaysCounted**, `Spec => NothingUncounted`: a rebuild replaces the flows of
  its bucket alone, all of them finite (`Finite`), by at least as many as its span
  counted at the check, as long as raw has lost none of them since (`Checked`, `aged`).

Assumptions are the named ones of each module; TLC evaluates them in every run
of it. Lemmas on sequences, on types of what a step reads and on helpers come
first in each proof module.

Only model-checked: all liveness (`StillDownIsReported`, `EditsReachEveryDevice`,
`EveryDevicePolled`, `AcceptedIsSettled`, `TakesEffect`, `ShutdownEnds`, `ComesBack`),
which is out of the prover's reach. So are the three properties whose runs expect
a violation. Every invariant, action property and refinement that a run checks is
proved.

## 6 Where code and documents disagree

Three are runs that TLC refutes:

1. `outage_mute_lapse`: INTERNALS.md:9602-9604 says nothing has to un-suppress
   when a mute ends because a still-down device keeps recording events. It records
   one, on the transition (`poll_mixin.py:328`), and the mute dropped it.
2. `flow_rollup_lost`: `flowdb.py:314-318` says a flow that lands later still is
   not lost, because every writer marks how far back it reached. A flow that lands
   in a bucket this very pass has built, before `_redo_dirty` takes the mark, has
   its mark cleared by a redo that ends below the bucket (`flowdb.py:1168-1176`).
3. `self_update_exit`: `wait_for_job` says it tells whether "the job thread AND any
   restart it scheduled" finished (`selfupdate.py:857`), and `main` relies on it not
   to "install the update and leave nothing running" (`__main__.py:326-328`). It looks
   both threads up before it joins the first (`selfupdate.py:867`), when the restart
   that the job will schedule does not exist yet, and returns with it asleep. A
   signal, or the window closed, while an update runs ends the process then.

The others are exceptions that a passing property makes, each named by a history
variable or in the property itself, so that the run shows nothing else goes wrong:

| in | by | what |
|---|---|---|
| AlertOutage | `raced` | A down and an up read by one tick: the resolve happens at the drain (`ae:993`), the opening after it, and the row stays, although `ae:2764-2765` says `device_up` resolves `device_down`. |
| AlertOutage | `moved` | "A device the engine has stopped alerting about must not stay silent once the excuse for the silence is gone" (`ae:2846-2847`): it does when the excuse goes by a change of its upstream, which re-raises nothing; and a device behind it can be rolled up under its hand resolve and stay as silent, which takes three devices (section 5). |
| AlertOutage | `LeftOpen`, `stranded` | The same promise, without anybody acting: a device that goes from down to unsupported (`poll_mixin.py:254-255`, `330-331`) sends no "up", so its row stays open over a device that is not down, and what is still down behind it is rolled up under that row, or dropped, and is not reported again. From "unsupported" it may go on to "unknown", which has no event at all. A row ends when the device is next seen up. |
| AlertOutage | `cache` | The memo of `_upstream_outage` (`ae:2487-2493` says the answer cannot change within a tick) does not see an upstream row that the same batch opens later; the absorption afterwards makes it good for outages. |
| ThresholdDirty | `skipped`, `crossed` | A breach whose opening raised, that a full pass had found when it raised or was aborted, or that a hold, a mute or an outage turned away, and an edit between the tick's two reads of the rule, wait for the minute's full pass or the next sample: nothing marks the device, and the end of a mute does not either. |
| ThresholdDirty | `late` | A resolve during a tick is not in the snapshot that tick compares runs with, and one during a full pass that raises is forgotten with the run that began in it: the alert opens again. |
| ThresholdDirty | `aged` | A run that outlasts the seven days in which a resolve is remembered (`ae:68-74`) opens its alert again though nothing has changed; declared by the code. |
| SystemQueue | `stale` | INTERNALS.md:9030-9033 says a failed tick's items are handed out again; after an aborted tick and a tick whose drain raises they are removed unapplied (`ae:458-466`). |
| SystemQueue | `skipped` | "While the condition holds the events keep arriving and the alert stays current" (`alertsdb.py:1024-1031`): the poller reports a saturated pool once an episode (`nodepoll/poller.py:1099-1101`), and the breaker when it opens, so a row that its fifteen minutes or a hand resolve has closed comes back only with the next episode, and so does one whose rule was off when it was reported. |
| SystemQueue | `displaced` | "Anything queued since is left untouched" (`ae:472`): not if the queue was full, for the commit counts. |
| PollScheduler | `orphaned` | FEATURES.md:1694-1695 and `poller.py:695-696` say a second poll of a device cannot start; after a stop and start that met a poll on its way it can. |
| MailQueue | `overlapped`, `crowded` | "Drained by one worker thread": two, when a stop gave up on a slow send and a submit followed, or two calls were inside `start()` at once. |
| MailQueue | `doomed` | A stop between a start's check and its spawn sets `_stopping` under the new sender, which ends with the job queued. |
| FlowRollup | `astray` | Besides finding 2: an hour rebuilt from minutes whose own redo ran out of budget, its mark cleared; one unlocked `_mark_dirty` overwriting a lower mark; rows that raw no longer covers; a crash between rows and marks. An hour may shrink when it comes to be rebuilt from minutes backfilled after a prune (`NothingUncounted`), and a crash between the two commits that seed a tier leaves it without a floor for good. |
| FlowRollup | `aged`, `Loose` | "A redo after a flush from a lagging clock: rebuilt from the rows left, every scope would lose what raw no longer holds" (`flowdb.py`, in `_compact_bucket`): it does when prune removes raw rows after `_raw_short` has released the lock and before the rows are summed, and when the span that `_raw_short` counts was committed after such a prune, or not at all before a crash (`flowdb.py:895-924`, `1105-1149`). |
| SettingsRestart | `crossed` | Two saves at once: the read-back of one puts the other's change out of the live dict before it is stored, and both are answered 200. |
| SettingsRestart | `collided`, `gaveUp` | The strip's or an inline restart's stop and start against another thread's, or a join that timed out (`worker.py:74-76` says a second loop cannot start): two loops, or none. |
| SelfUpdate | `abandoned` | "failing here costs nothing" (`selfupdate.py:726-727`): a second marker that cannot be written leaves the first naming the new version. So does a kill between the markers and the swap, or a restore that gives up, as its own message says. |
| SelfUpdate | `broken` | "_swap_in already restored the previous netpath/" (`selfupdate.py:760`): not when the move had to copy and failed half way, for the backup cannot be renamed over a directory. A kill between the two renames leaves none either. |
| SelfUpdate | `early` | "Nothing of ours runs while the files change" (`selfupdate.py:748`): `shutdown()` returns at once when another thread has begun it (`web/service.py:937`). |
| SelfUpdate | `raised` | The same sentence: an exception of the hook is logged and swallowed (`selfupdate.py:526-529`), and the package is swapped under a service that was stopped in part or not at all. |
| SelfUpdate | `overrun` | And again: `shutdown()` returns at its deadlines with workers, a maintenance sweep or a request still running (`web/service.py:991-997`, `1016-1020`; `sqlitebase.py:622-626`). `QuietSwap` therefore says that the shutdown is over, not that nothing runs. |
| SelfUpdate | `late` | "Exactly-once" (`selfupdate.py:533`): a request let through before the teardown starts a job after it, which takes the flag away and, with the hook run, schedules a second restart. |
| SettingsRestart | `overran` | A restart that outlives the deadline of the teardown starts its worker after the last signal. |

## 7 Not modelled

- Parsing, decoding, rendering, SNMP and SSH exchanges, encryption, the front
  end, the demo fleet and the API handlers, which make up most of the source:
  data or pure I/O, where a test on an example says as much as a model. What they
  change of a modelled component appears as its operators' actions.
- Mapper, MIB tables, reports: no concurrency of their own.
- Within the modelled parts: trap and syslog rules (same cursor discipline as the
  device events), the renotify and auto-resolve sweeps, first notices, profile
  inheritance, the walk pool of the poller (same markers), purge of devices,
  chains deeper than 8;
  of the flows what section 2 names; of the stores' close their backfill threads; of an update the
  staging directories and the files copied along.
- Everything the plan lists.

PROJECT.json names a status and a reason for every component, and the hazards,
with the ones no property covers yet.

## 8 The plan

Ordered by what an operator loses if it is wrong.

| | module | what it models | abstract specification | properties and theorems |
|---|---|---|---|---|
| done | AlertOutage | tick over outages | - | sections 3, 5 |
| done | ThresholdDirty | change-driven judging | - | sections 3, 5 |
| done | SystemQueue | system occurrences at their cap | AtLeastOnce | sections 3, 5 |
| done | PollScheduler | markers and pools | - | sections 3, 5 |
| done | MailQueue | submit, breaker, stop and start of the sender | Courier | sections 3, 5 |
| done | FlowRollup | marks, late rows, backfill, prune, crash | - | sections 3, 5 |
| done | SettingsRestart | save, restart, teardown | - | sections 3, 5 |
| done | SelfUpdate | markers, swap, restart, closing, kills | - | sections 3, 5 |
| 1 | Notices | the engine's first notice, result callback and renotify sweep over a Courier (`_notify` with `renotify=True` returns without `mark_notified` when mail is over its limit after a webhook went out) | - | no reminder twice for one interval except after a crash |
| 2 | StoreClose | the backfill threads of two stores, their `begin_close` and join, and the trimming | a store as a set of committed transactions | no commit after close |
| 3 | AlertOutage extended | purge of a device with its rows; the walk bounded by 8 | - | suppressed outages stay accounted for |
| 4 | CachedPoll | one computation per key, expiry, invalidation | a register with bounded age | an answer is never older than its invalidation |
| 5 | Backups, Sessions, Relays, Discovery | as section 1 | - | as section 1 |

Every safety property of the runs is proved; each module above comes with its
theorems.
