# NAV: a TLA+ model of the alert pipeline

This directory holds TLA+ modules that model Network Administration Visualized
(NAV), TLC configurations that model-check them, and TLAPS proofs about them.
The models follow the code under `src/`; each definition's lines are in
`PROJECT.json` (`map`).

NAV's own core is a pipeline of daemons that talk through database tables:

    pping, servicemon, ...  --eventq-->  eventengine  --alertq-->  alertengine  --accountalertqueue, smsq-->  mail, smsd
                                             ^
    maintengine (cron), snmptrapd, thresholdmon, ipdevpoll

## 1. Inventory

### Event engine (`python/nav/eventengine/`)

*State.* In the database: `eventq`, `alerthist` (a row is open while its
`end_time` is infinity), `alertq`, and the inventory states `netbox.up`,
`module.up`, `service.up`. In memory: `_unfinished`, `__waiting_for_resolve` of
each plugin class, the tasks of `sched.scheduler`, the map of unresolved alerts.

*Operations.* `load_new_events` (one transaction over the new rows), a `handle`
for each event type, the delayed callbacks `_make_down_warning` and
`_make_down_alert`, `deschedule`.

*Interactions.* Every other subsystem inserts rows in `eventq`, addressed to the
engine; `alertengine` reads `alertq`; pping and servicemon read the inventory
states when they start.

*Hard behaviours.* An end event may come before, between and after the
callbacks of its start event; the process may die at any statement; a callback
or a handler may raise half way and the exception is swallowed; a queue check may
be rolled back while the memory stays.

*Correct when* no outage is forgotten or declared twice, an end event leaves
nothing behind, warnings precede declarations, only declared outages are
announced as over, and what the inventory shows is accounted for.

### pping and the database thread (`bin/pping.py`, `python/nav/statemon/db.py`)

*State.* `netboxmap`, a circular buffer of replies for each box, `down`; the
in-memory event queue; the cached list of hosts.

*Operations.* `update_host_list`, a round of pings, `generate_events`;
in the thread: take an event, insert it, insert its variable, put it back.

*Hard behaviours.* Two threads and a third process (the engine) advance at their
own pace; statements and commits fail; SIGTERM drops what is in memory; a box may
leave and re-enter the list; each change of state is reported once.

*Correct when* pping's `down` agrees with the inventory but for what is under
way, every lasting change reaches the inventory, and no box is reported down
without `nrping` losses in a row.

### servicemon (`bin/servicemon.py`, `python/nav/statemon/RunQueue.py`, `abstractchecker.py`)

*State.* A pool of worker threads, a FIFO queue and a timer queue under one lock
with one condition variable; for each checker `status` and `runcount`; the
controller's list of checkers.

*Operations.* `enq`, `deq`, recycling, `terminate`; `AbstractChecker.run` with
its retries; `get_checkers`.

*Hard behaviours.* Wake-ups that may be lost between the two queues; the signal
handler runs `terminate` on the main thread, maybe inside `enq`; the same checker
may be queued and waiting for a retry at once, and two threads may be between its event
and its assignment together; a checker whose arguments change
starts from UP (only the first `get_checkers` uses the status in the database).

*Correct when* runnable work is never left to an idle pool, the pool keeps its
bound, termination ends, a service's reported states alternate and end in what
is true.

### alertengine (`python/nav/alertengine/`)

*State.* `alertq`, `accountalertqueue`, `alertpreference.last_sent_day/week`,
filters and profiles. *Operations.* `check_alerts`: match new alerts, queue them
for accounts, send what is due, delete alerts nobody has queued. *Hard
behaviours.* A crash between sending and deleting; a digest whose
`last_sent_day` is saved after the messages went out; profiles that change under
queued alerts, subscriptions that are deleted with the rows they put in the queue,
profiles that are deactivated. *Correct when* every matched alert is sent, or dropped as
resolved, and none is deleted while it is queued or while a subscription that matched
it waits for it.

### smsd (`bin/smsd.py`, `python/nav/smsd/`)

*State.* `smsq` with its `sent` column, the list of dispatchers, retry counter
and delay. *Operations.* fetch, format, dispatch with failover, set the status.
*Hard behaviours.* The message is sent before its status is stored; a dispatcher
removed while the list is walked; back-off and final give-up. *Correct when* no
message is lost, each is tried with every dispatcher, and duplicates are bounded
by the failures.

### maintengine (`python/nav/maintengine.py`)

*State.* maintenance tasks and their states; the maintenance alert states.
*Operations.* from cron, and from the web server when a user puts a netbox on
maintenance until it is up again (`web/maintenance/views.py:393`,
`web/status2/views.py:174`): schedule, close open-ended tasks, post start and end
events. *Hard behaviours.* it runs again before the event engine has handled its
events; no lock keeps a run of cron and one of the web server apart, and users edit
tasks between the parts of either. *Correct when* a device is on maintenance exactly while a task covers it.

### ipdevpoll (`python/nav/ipdevpoll/`)

*State.* In the master: for each job the set of netboxes as last loaded, one
`NetboxJobScheduler` (a *handler*) per netbox, counters, a queue per job and a
global one. With `--multiprocess`: a pool of worker processes with the jobs each
has under way. In a worker: the jobs it runs and whether it was told to stop.

*Operations.* The periodic reload from the database; `run_job`, `_done`,
`cancel`, `unqueue`; handing a job to a worker, replacing, pinging and killing
workers.

*Hard behaviours.* A reload cancels handlers that wait in a queue or were just
woken; two limits with two queues and counters that different callbacks keep; a
worker that dies, freezes or has had its share of jobs, in any order with the
answers in its pipe.

*Correct when* each netbox has one handler for each job, which is polled again
and again, no limit is exceeded, the pool keeps its size, and every job comes to
an end.

### Others

snmptrapd, thresholdmon, arnold, logengine, the topology and reporting jobs,
process control, the database schema and the web interface. `PROJECT.json` lists
each with the reason it is left out.

## 2. Plan

| order | module | models | composes with | proved in | status |
|---|---|---|---|---|---|
| 1 | `EventEngine` | the engine with its delayed and direct handlers | `GracePeriod` (abstract) | `EventEngineProofs` | done |
| 2 | `Pping` | the pinger, the poster thread, the engine's view of a box | | `PpingProofs` | done |
| 3 | `RunQueue` | servicemon's thread pool | `WorkPool` (abstract) | `RunQueueProofs` | done |
| 4 | `Checkers` | controller, checkers and retries, with a pool that takes anything | | `CheckersProofs` | done |
| 5 | `AlertEngine`, `Smsd` | alert queue, account queue, digests; dispatch and failover | `Delivery`, through `smsq` | `DeliveryProofs` | done |
| 6 | `Maintengine` | tasks and the events they post | the engine's `maintenanceState`, as one action | `MaintengineProofs` | done |
| 7 | `JobSchedule` | ipdevpoll's schedule and reload | | `JobScheduleProofs` | done |
| 8 | `WorkerPool` | ipdevpoll's worker processes | | `WorkerPoolProofs` | done |
| 9 | link states | `linkstate.py`, `aggregatelinkstate.py` | extends the delayed handlers | | left |
| 10 | thresholdmon | start and end events against the open states | `EventEngine` | | left |

Every invariant and action property that a run checks, and both refinements, are
proved. Theorems left: the two modules above; what remains of `WaitingAgrees` and
`StartNeverLost` when handlers raise, and of `Agreement` when statements fail, where
the properties as they stand are false.

## 3. The modules

### `EventEngine`, `GracePeriod`, `MCEventEngine`

A *target* is what `EventMixIn.get_key()` identifies: netbox, subid and event
type. The module's state is one variable per table or attribute:

| variable | code |
|---|---|
| `eventq`, `nextid`, `alertq` | the tables; `alertq` keeps only the alert types, in order |
| `open` | how many `alerthist` rows of the target have `end_time` infinity |
| `up` | `netbox.up`, `module.up`, `service.up` |
| `unfinished`, `waiting`, `tasks` | `_unfinished`, `__waiting_for_resolve`, the scheduler's delayed tasks |
| `batch`, `inTx`, `saved` | the events of the current queue check and its transaction |

`PostEvent` is any monitor. `BeginLoad`, one `Handle` per event in the order of
ids, and `CommitLoad` are `load_new_events`. `HandleStart`, `HandleEnd` and
`HandleStrange` are `DelayedStateHandler.handle`, with the differences of the
four delayed types in the operators before them; `HandleDirect` is
`serviceState`, `thresholdState`, `maintenanceState` and every type without a
handler of its own. `MakeDownWarning` and `MakeDownAlert` are the callbacks. The
engine has one thread, so a callback never runs inside a queue check.

Faults are actions of their own: `Crash`, `Restart`; `CallbackStops`, a callback
that ends after any of its statements because it raised or the process died;
`HandlerFails`, with the partial effects that its own exception handling keeps;
`LoseConnection`, a queue check that is rolled back.

Abstracted: the wait times (a task may run at any time after it was scheduled),
severities, message texts, `boxDown`/`boxShadow` (a choice, since the topology is
not modelled), whether a BGP peer or a module is unreachable.

`GracePeriod` is what a user sees of one box: `up`, `grace`, `down`, and a log of
announcements. A box's phase is derived from what other database sessions see,
so that an open transaction shows nothing. `MCEventEngine` gives each target its
type by name.

### `Pping`, `MCPping`

Three processes: pping's main thread (`UpdateHosts`, `GenerateEvents`, `Stop`,
`Start`), the poster thread (`Take`, `InsertEvent`, `InsertVar`, and their
failures), and the engine, of which only the effect of a handled event on
`netbox.up` is kept (`HandleEvent`; what it does with alerts is in
`EventEngine`). Boxes answer or not (`Flip`) and enter or leave the ping list
(`Regroup`) at will. A circular buffer is the number of its newest slots that
hold -1, which is all that `circbuf == -1` asks. `lost` is auxiliary: the losses
in a row, counted independently of pping's own state.

### `RunQueue`, `WorkPool`, `MCRunQueue`

servicemon's thread pool. A worker's critical sections are single steps; the
main thread's are three (`Acquire`, `Enq`, `Release`), as the signal handler runs
between any two of its bytecodes. `waiters` is the FIFO inside
`threading.Condition`; `timed` and `expired` tell which waits have a limit and
which of these are over: such a thread is still in the FIFO until it gets the
lock, and a notification may be spent on it. Runnables are counted, not told
apart, which is all the pool does with them; retries share one delay, so that the
time of the first comes first (`Tick`).

`WorkPool` is the promise: what is submitted is taken once, by at most
`MaxThreads` threads, until the pool is closed.

### `Checkers`, `MCCheckers`

What runs on that pool. `Reload` is `get_checkers`, `Enq` the main loop, and a
run of a checker by a thread is four steps, because two threads may run the same
object: `Test` (what `execute` returns is any result), `Decide` (retry or report,
from `status` and `runcount` as they are by then), `Post` and `SetStatus`, with
`Settle` for `runcount`. A checker is a service with a number, so that the old
object of an edited service, which a thread may still run, is another one.
`streak`, `shared` and `estranged` are history. `streak` is what a checker's last
tests gave, `shared` whether two threads ran it at a time. A service is `estranged`
from the moment that a thread reports it while another one is between its own event
and its assignment with the same checker (`Post`), or that it gets another checker
while it is reported down, or while the one replaced may still report (`Reload`).
No assignment of a status looks at it: that two threads that run one checker at other
moments keep `status` and `reported` together is what `StatusIsReported` says.

### `AlertEngine`, `Smsd`, `Delivery`, `MCDelivery`

`AlertEngine` is `check_alerts`: `Begin` reads the queues, `HandleNew` matches
the new alerts in one transaction, then each queued row is `Skip`ped, or `Send`
puts its text in `smsq` and `DeleteRow` and `DeleteAlert` follow as steps of
their own, because each is committed by itself; `EndWalk` and `Clean` count and delete what
nobody is waiting for. `Post`, `Resolve`, `Unsubscribe`, `Deactivate`, `Activate` and `Tick` (the day's
dispatch time) are the world. An account's profile may be inactive (`enabled`): its
subscriptions match nothing, and what they had queued is sent at once and never
ignored. `last_sent_day` is the account's (`AccountOf` the address). `matched` is
history: the pairs of alert and subscription that an alert matched when it was matched
last; the properties measure with it who an alert was for. `Smsd` is the daemon's loop: `GetUsers`,
`NextUser` with `formatsms`, one attempt at a dispatcher after the other, and
`Store` row by row. `Delivery` composes the two over `smsq` and `faults`, and
holds the properties, which are about the whole way from alert to phone.

### `Maintengine`, `MCMaintengine`

A run in its parts, one of cron or of a web request, each with its own `phase`: invalid states are repaired (`Schedule`), endless
tasks are found (`FindEnding`) and saved (`SaveEnding`) as they were read, tasks
move through their states (`Transitions`), the active ones are compared with the open states
(`Differences`) and events are posted one by one. Between the parts users
`Edit` and `Cancel`, and the parts of other runs come in between; `HandleEvent` is the event engine. Cron's runs follow
each other, a request has one. Times are windows:
before, within or after the task.

### `JobSchedule`, `MCJobSchedule`

A handler is job, netbox and generation. `Execute` and `RunJob` are `run_job` with its
four outcomes (it runs, `WaitForJob`, `WaitForAny`, `ExecuteFails`), `Finish` is
`_done` with everything that it calls: the counters, `unqueue` from both queues,
the adjusted global limit, the reschedule. `Load` is the thread that reads the
netboxes, `Process` the callback that cancels and creates. The reactor makes
each of them one step.

### `WorkerPool`, `MCWorkerPool`

The master's actions (`Execute`, `Cancel`, `Spawned`, `Answered`, `Lost`,
`Euthanize`) and the worker's (`Receive`, `JobDone`, `Exit`), with two pipes for
each worker that keep their order. `Fault` lets a worker die, freeze, or miss a
ping.

## 4. The runs

| run | instance | properties | shows |
|---|---|---|---|
| `engine_crash` | a box, its SNMP agent and their maintenance state, 3 events, a crash anywhere, fairness | `TypeOK`, `OneOpenState`, `WaitingAgrees`, `DownIsAccounted`, `OpenIsMarkedDown`, `StartNeverLost`, `EndDeschedules`, `ImplementsGracePeriod`, `EveryEventDisposed`, `OutageIsDeclared` | memory, queue, open states and inventory agree; an end event leaves nothing behind; no outage is forgotten; each box goes through the grace period; every event is disposed of; an outage is declared or its end was handled |
| `engine_faults` | a box and a service, 3 events, exceptions and rollbacks | `DownIsAccounted` | a box marked down is accounted for, whatever fails |
| `pping_live` | two boxes, nrping 2, the list of hosts cannot be read once, fairness | `Agreement`, `RecoveryReported`, `OutageReported` | pping and the inventory agree; lasting changes are reported |
| `pping_faults` | a box, nrping 3, two failures, a restart | `FrozenIsKnownDown`, `DownNeedsLosses` | no lookup of an unknown box, no down report without losses |
| `pool` | three threads, recycled after two checks, a signal inside `enq` or outside, fairness | `WorkersAreAlive`, `NoWakeupLost`, `ImplementsWorkPool`, `RetriesAreRun`, `TerminationEnds` | no lost wake-up, the bound, retries run, termination ends if the signal came outside `enq` |
| `checkers` | a service, two threads, one retry, one edit, fairness | `StatusIsReported`, `ChangeIsConfirmed`, `NoRepeatedReport`, `ReportsSettle` | what is reported is confirmed, not repeated, and in the end true; but for the exceptions of section 5 |
| `delivery` | an alert and the text of an earlier one, three subscriptions of two accounts, two phones, two dispatchers, one fault or one deleted subscription or deactivated profile, fairness | `NotifiedOnce`, `LostOnlyWithItsRow`, `StatusIsTrue`, `EveryAlertIsSettled` | each alert reaches its phones, once but for faults, and is lost only with the subscription it was queued for |
| `maint` | two tasks with a subject in common, runs of cron and one of a request, one change by users, fairness | `OnlyCurrentTasks`, `Converges`, `EndlessTasksEnd` | maintenance ends up on what the active tasks name |
| `jobs` | two jobs, one of them limited, two netboxes, at most two at a time, one change, fairness | `InOnePlace`, `OnePerNetbox`, `LimitsKept`, `PolledForEver` | no handler is lost or doubled, no limit exceeded, polling goes on |
| `workers` | two workers of two jobs each, three jobs, one fault, fairness | `TargetKept`, `ActiveAgrees`, `NoJobLost`, `EveryJobEnds` | the pool keeps its size; every job ends |
| `sms_first` | two texts of the longest length, one phone | `NoHollowSms` | **violation**: the SMS holds neither |
| `alert_lost` | the instance of `delivery` | `NoneLost` | **violation**: an alert is lost for a subscription that matched it and is still there |

*Bounds.* Three events on one key are enough for: start, repeated start and end, or
start, end and the start of the next outage, with every callback and the crash between any two
of them; a crash and a restart re-handle a held start event, which is the only
thing a restart does differently. A second target of the same device is needed
for maintenance and for the SNMP agent's question about the box; targets of
different devices do not share state. `nrping` 2 and 3 tell one loss from an
outage. In `pping_live` the queues hold two rows each, one per box: `GenerateEvents`
waits when the bound would be exceeded, which only delays it. Three threads are
needed for a wake-up to be given to the wrong one while another waits without a
limit; a second pending item in a queue adds no new kind of wake-up. Beyond
`MaxQueue` an `enq` adds nothing but still wakes a thread. `SignalInside` lets the signal
come between any two steps of `enq`, so that some behaviours of this run hang for good.

Two threads are all that `Checkers` needs for two runs of one checker; services
share nothing but the threads. `MaxRetry` 1 tells a confirmed change from an
unconfirmed one. In `Delivery` one phone has an immediate and a daily
subscription to the same alert, so that duplicates are possible, and another
phone has a daily one, so that one number can stand in the way of the other; the
earlier text makes two messages for one SMS (`Earlier`, which `EarlierAssumption` makes a past without
faults: one text for each phone, heard if it is stored as sent). Two tasks that share a subject are
needed for one to end while the other still holds it; two runs at a time for one to see what the
other is half way through. One event in the queue at a time delays the posts of both runs, so that
they are handled long after the comparison they come from. Two handlers of a limited
job, with two of an unlimited one and a limit of two in all, fill both queues.
Two workers with two jobs each reach their share while others wait; four
identities leave room for those that are done but not gone.

*Deadlock* is checked except where a bound, or the end of what users and
monitors do, ends a behaviour: the events of `EventEngine`, the hanging pool of `RunQueue`, the alerts of
`Delivery`, the jobs of `WorkerPool`; and in `JobSchedule`, where
nothing is left to run when no netbox is in the database, or all handlers wait for
a global limit that has become 0.

*Fairness.* `EventEngine`: the scheduler runs the periodic queue check and each
delayed task at its time, a check goes through its batch, and a dead daemon is
restarted by its operator; nothing is assumed of monitors and faults. `Pping`:
both threads and the engine run, a stopped daemon is started. `RunQueue`: each
thread runs, a check ends because it has a timeout, time passes; the lock is
strongly fair to the workers, because the main loop sleeps between two checkers
without it. No fairness is assumed of the signal or of retries, and none helps a signal that came
inside `enq`.
`Checkers`: the main loop goes on, runs end, and what is queued is taken, strongly
because the pool does so in order. `Delivery`: both loops go on and the dispatch
time of the day comes; whether a dispatcher sends is left open. `Maintengine`: cron
starts run after run, a request that has started one goes on with it, the event engine handles what
is queued, time passes. `JobSchedule`:
the reactor makes what calls are pending and jobs end; `Execute` is strongly fair,
because a handler that was woken is called in the next round of the reactor,
before the timers of others come again. `WorkerPool`: both reactors run, pings go
on, and a job ends unless its process is frozen or dead.

## 5. What the runs found

`sms_first`: the longest text that `smsq` holds is 145 characters, 142 and three
dots (`models/profiles.py:1290`), and `formatsms` takes the first of several
messages only when it is shorter than 160 - 15 = 145 (`dispatcher.py:235`). When
the most severe message of a phone was cut, none fits: the SMS says that there
are so many more, and all of them are stored as ignored.

`alert_lost`: an alert goes to an address once, through the first of its matching
subscriptions (`alertengine/base.py:300`). When that subscription is deleted before the
row was sent, the row goes with it (`models/profiles.py:1302`), and the other
subscriptions of the address, which matched as well, have none. The alert is matched
again only if no row of it is left at all (`base.py:73`). The run's behaviour: the
alert is queued for phone 10 through the immediate subscription 2 and not through
the daily 1, and for phone 20 through 3; its user deletes 2; the row of phone 20 keeps
the alert from being new, is sent, and takes the alert with it. Subscription 1 never
gets it, against the documentation's "dispatches alerts according to the individual
users' active alert profiles". `LostOnlyWithItsRow`, which holds and is proved, says that this
is the only way an alert is lost.

Seen while modelling, each in the model as the code has it:

* `_get_up_alert` reads `netbox.up` after `_handle_end` has set it to `y`
  (`delayedstate.py:133`, `boxstate.py:51`): a box back from "in shadow" is
  announced as `boxUp`, never as `boxSunny`.
* After a callback raised, its plugin stays in `__waiting_for_resolve`;
  `deschedule` then fails on the cancel (`delayedstate.py:239`).
* A handler that raises loses its event (`engine.py:282`). After a restart
  that can be the start event that was held for a box which is marked down
  already: the box stays down in the inventory, with no open state and no event, so
  that `DownIsAccounted` is false where crashes and exceptions come together.
* `_DB.execute` swallows the exception of a failed commit (`db.py:206`), so that
  the event is not put back as `db.py:157` says.
* An event put back (`db.py:160`) goes behind newer ones of the same box; the box
  is left in the wrong state until it changes again.
* A signal that interrupts `enq` makes `terminate` wait for workers that need the
  lock (`RunQueue.py:211`): both wait for ever, so that `TerminationEnds` is stated for
  a signal that comes outside `enq` and is false without that condition. `terminate`
  also skips workers, because they remove themselves from the list it walks
  (`RunQueue.py:210`).
* Two threads that run one checker may both be between `new_event` and the assignment of
  the status (`abstractchecker.py:144-158`): the first to report may be the last to assign, and
  `status` then differs from what was reported, until the service changes again. Any
  other overlap of two runs is harmless: `StatusIsReported`, `NoRepeatedReport` and
  `ReportsSettle` except this one.
* Only the first `get_checkers` starts from the status in the database
  (`bin/servicemon.py:65`): a service that is edited while it is down starts as up,
  and its recovery is not reported. And a checker that is replaced while a thread runs
  it, or while its retry waits, may report after its successor. These are the other
  exceptions of those three properties.
* A handler that was woken and is cancelled before it is called leaves the next
  one in its queue asleep (`schedule.py:103`, `schedule.py:323`), until another of
  the job ends. The global limit may be adjusted to 0 and is never raised
  (`schedule.py:184`).
* A worker that is done and then freezes is never killed (`pool.py:311`). One
  whose last job ends before the order to stop arrives has no job left to end, and
  lingers (`pool.py:99`).
* maintengine saves an endless task as it was read, over a user's cancellation
  (`maintengine.py:85`); the task is passed, not cancelled. Another run that compares
  between the two parts takes it for active and posts a start event for a task that
  was cancelled, which the next comparison takes back. `OnlyCurrentTasks` without this exception
  is true of a single run and false of two.
* smsd gives a round up at the first phone that no dispatcher can serve, so that
  higher numbers wait for it (`bin/smsd.py:251`), and after it culled a dispatcher it
  skips the next (`dispatcher.py:136`).

## 6. The proofs

All proofs hold for every value of the constants that satisfies the named
assumptions of the module. Where a theorem names fewer faults than the module
has, that is an assumption of the theorem.

`EventEngineProofs`
* `TypeCorrect`: `TypeOK` is inductive as it stands. One lemma per action.
* `OneOpenStateHolds`: at most one open alert state per problem (other than
  `serviceState`), when `"rollback"` is not among the faults. `OneOpenState` is
  not inductive: the callback inserts its row without looking. The inductive
  `OneOpenInv` adds that every task belongs to the start event its plugin waits
  for and that no row of its problem is open (`TaskIsHeld`), that a target has one
  task at most (`TaskIsUnique`), and that the copy a crash restores is as good
  (`SavedOneOpen`). A handled start event waits only if nothing is open, so that
  the row inserted by its callback is the only one. A rollback breaks the
  argument: it reopens a resolved row while the memory has moved on.
* `HeldInvHolds`, under all faults: ids are given once, a plugin that waits waits for
  an unfinished start event in the queue, and tasks belong to the plugin that waits
  for their event (`RowsAreDistinct`, `TasksAreHeld`, `WaitsForRow`).
* `DownIsAccountedHolds`, from `HeldInv` and `AccountInv`, unless crashes and
  exceptions are both among the faults. `AccountInv` says of the database, and of
  what a rollback would bring back, that a box marked down has an open state or a
  start event; where handlers may raise, one that was handled, because only that
  is safe from being deleted unhandled. A crash forgets what was handled, hence
  the hypothesis.
* `EndDeschedulesHolds`, from `HeldInv`, unless `"exception"` is among the faults:
  each plugin that waits then has its task, so that the cancel cannot fail, and each
  task of a target belongs to the start event its plugin waits for, so that none is left.
* `OpenIsMarkedDownHolds`, unless `"rollback"` is: with one open row at most, the end
  event that marks a box up resolves all there is (`MarkInv`).
* `GracePeriodImplemented`, the refinement, unless `"rollback"` is, from `EngineInv`:
  `OneOpenInv`, `HeldInv`, and `SeenAgrees`, how the state inside a transaction
  may differ from what other sessions see.
* `WaitingAgreesHolds` and `StartNeverLostHolds`, when the only fault is a crash.
  `WaitInv`: rows are numbered and read in that order (`RowsAreNumbered`,
  `BatchIsNew`), memory, tasks and queue agree (`MemoryAgrees`), and start events
  in the queue are newer than the ends that were handled, in what a crash goes
  back to as well (`StartsAreCurrent`). `HeldIsOlder`: what is held is older than
  what was not handled yet.

The hypotheses on faults are sharp: TLC finds each of these properties violated with
the faults that its theorem leaves out. An exception in a callback leaves a plugin
waiting without a task; a rollback takes the queue and the inventory back without
the memory.

`PpingProofs`
* `FrozenIsKnownDownHolds`, from `BuffersInv`: every box that is pinged has a
  buffer, and a buffer full of losses belongs to a box in `down`. It holds under
  all faults, because it is about the main thread only.
* `ReportedIsKnown`: what a round reports as down is in `netboxmap`.
* `DownNeedsLossesHolds`, from `CountInv`: a buffer that is not full of losses
  has no more of them than were counted apart from it.
* `AgreementHolds`, when the only fault is that the list of hosts cannot be read.
  `Agreement` speaks of the end of a round; the inductive `AgreeInv` holds inside
  one too and for boxes that left the list but are still in `down`, and adds
  that nothing is under way about a box that pping will see anew. Lemmas say what
  the last report of a sequence is after appending to it and taking its head off.
  Each of the other faults makes `Agreement` false: a report that is put back goes
  behind a newer one, a commit whose failure is swallowed loses it, a restart starts
  from a stale inventory, and so does a box that comes back too early.

`RunQueueProofs`
* `TypeCorrect`, `WorkersAreAliveHolds`, from `PoolInv`: `self.workers` and
  `_waiters` list the living and the waiting threads, each once. Lemmas about
  removing and appending in sequences without repetition carry the steps.
* `WorkPoolImplemented`: the refinement. The step that needs the invariant is
  `Deq`: the thread that takes a runnable is itself in the list, so that fewer than
  `MaxThreads` execute (`RoomForTheIdle`).
* `NoWakeupLostHolds`, from `WatchInv`. That somebody is awake is not inductive: one
  thread may be awake for two runnables. The invariant counts: behind every
  worker that waits without a limit there are as many workers that are
  awake, or wait behind it in `_waiters` and will wake by themselves, as there are
  runnables and retries that are due (`WorkWatched`), and one at least while a retry
  waits for its time (`RetriesWatched`). A notification goes to the first of the
  FIFO, which is why the place in it matters.

`CheckersProofs`
* `TypeCorrect`, with `ObjectsInv`: numbers never run out, an object is created
  once, and threads, queues and the controller hold only objects that exist.
* `StatusIsReportedHolds` and `NoRepeatedReportHolds`, from `ReportInv`: a service has
  one checker in use (`OneInUse`), what a thread between event and assignment has
  reported is what was reported last, and no other thread is there with the same
  checker (`PostedIsLast`); so the assignment puts `status` right again
  (`KnowsReported`). Each part excepts estranged services; the threads may share the
  checker at all other moments.
* `ChangeIsConfirmedHolds`, from `ConfirmInv`: while a checker is not shared,
  `runcount` never exceeds the tests in a row that gave another result than
  `status`.

`DeliveryProofs`
* `LostOnlyWithItsRowHolds`, from `WaitInv`: rows of the account queue name alerts that are
  in `alertq` and the first subscription of their phone that the alert matched
  (`RowsAreQueued`); of an alert that may leave, each phone that it matched has a row, or a
  text, or the very subscription that it was queued for is gone (`LeavingIsCovered`,
  `RowIsServed`); and what the walk still has to do is queued (`TodoIsQueued`). That a
  phone has a row at all needs a first among its subscriptions (`Smallest`, `FirstServes`). Any
  number of crashes, failures, deleted subscriptions and deactivated profiles.
* `NotifiedOnceHolds`, from `OnceInv` and `SmsInv`. Both count: of an alert that may
  still become a text for a phone (`Open`) there are no more texts than faults, and
  otherwise one more (`TextBudget`); a text whose status is neither stored nor
  waiting to be was heard no more often than there were faults, and otherwise once
  more (`HeardBudget`). Whoever spends the one that is allowed closes what was open;
  whoever reopens it is a fault.
* `StatusIsTrueHolds`, from `SmsInv`: the status that waits to be stored is true
  (`PendingIsTrue`), only unsent texts are tried, each once in a round (`Serving`), and
  no status waits when nobody is served (`NobodyWaits`).

`MaintengineProofs`
* `OnlyCurrentTasksHolds`, from `TasksInv`, for any number of runs at a time: a cancelled
  task is active only while some run is between `SaveEnding` and `Transitions`, and is past
  its end by then; a run that compares is not that run. The other runs' steps disturb
  neither (`OnePhase`).

`JobScheduleProofs`
* `OnePerNetboxHolds`, from `HandlersInv`: handlers are numbered, those that
  are active were created and not cancelled, there is one for each netbox that is
  loaded, and the sets that are yet to be processed are the difference between
  those handlers and what was loaded.
* `InOnePlaceHolds` adds `ApartInv`: calls, queues and running handlers are
  disjoint, and no queue holds a handler twice.
* `LimitsKeptHolds`, from `LimitsInv`: each counter is the number of running handlers of
  its job, and the total that `Execute` compares with the limit is that of all.
  The total is a fold over the counters. `SumExists` and `TotalIsRunning` relate it to
  the set of running handlers by induction over the sizes of sets of jobs, which
  `AllNumbers` provides: a set that holds 0, and with each number the next,
  holds all numbers, because what it lacks would have a least element. The number
  of jobs has to be finite (`JobAssumption`).

`WorkerPoolProofs`
* `TargetKeptHolds`, from `PoolInv`: a worker that becomes done is replaced
  once, one that dies only if it was not.
* `NoJobLostHolds`, from `PipeInv`: the order to stop is the last message of its
  pipe, only a worker that is done was told, and each job is under way.
* `ActiveAgreesHolds`, from `OnceInv` and `CountInv`: each job is in one place of
  its worker and there once, so that each answer takes one off.

Only model-checked: what holds under fairness (`EveryEventDisposed`,
`OutageIsDeclared`, `RecoveryReported`, `OutageReported`, `RetriesAreRun`,
`TerminationEnds`, `ReportsSettle`, `EveryAlertIsSettled`, `Converges`,
`EndlessTasksEnd`, `PolledForEver`, `EveryJobEnds`), because `ENABLED` is beyond these
provers; and `NoHollowSms` and `NoneLost`, which are false.

## 7. What is not modelled

* The topology search behind "in shadow", wait times, severities, message texts.
* Link states and aggregates: their handlers copy events and ask about redundancy.
* Database errors that roll back one statement's savepoint and leave memory changed
  in the middle of a handler; an event object whose `id` was cleared by a deletion
  that is then rolled back.
* A restart of pping while an event of it is unprocessed: it then starts from a
  stale `netbox.up`. `Agreement` fails in that case, and in the one where a box re-enters the
  list too early (fault `"return"`). The restart is listed as a hazard that no property covers.
* The filters, time periods and weekly digests of alertengine; e-mail, Jabber and
  Slack; the delays and the autocancel of smsd.
* What ipdevpoll's plugins collect and how it is stored; the reload on a signal or
  on a change of a netbox's type.
* Most of the repository is data (compiled MIB modules, enterprise numbers), web
  views and collectors that share no protocol with the pipeline: nothing in them
  waits, retries or interleaves in a way that a model would show.
* The components marked `not_modelled` in `PROJECT.json`, each with its reason.
