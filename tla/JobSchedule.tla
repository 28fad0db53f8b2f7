------------------------------- MODULE JobSchedule -------------------------------
(***************************************************************************)
(* The job scheduler of ipdevpoll (ipdevpoll/schedule.py): for every job   *)
(* and every netbox one NetboxJobScheduler, a handler, that runs the job,  *)
(* is rescheduled when it ends, and waits in a queue while the job's own   *)
(* intensity limit or the limit on all jobs is reached; and for every job  *)
(* the periodic reload that reads the netboxes from the database in a      *)
(* thread and afterwards cancels and creates handlers.                     *)
(*                                                                         *)
(* The reactor runs one callback at a time, and each callback is a step.   *)
(* Delays are abstracted: a pending call may be made at any time.          *)
(***************************************************************************)
EXTENDS Naturals, FiniteSets, SequencesExt

CONSTANTS
  Job,            \* the [job_...] sections of ipdevpoll.conf
  Netbox,
  Intensity,      \* the limit of each job, 0 for none
  MaxConcurrent,  \* max_concurrent_jobs
  MaxChanges      \* bound: changes of the netboxes in the database

ASSUME JobAssumption       == IsFiniteSet(Job)
ASSUME IntensityAssumption == Intensity \in [Job -> Nat]
ASSUME LimitAssumption     == MaxConcurrent \in Nat \ {0}
ASSUME BoundAssumption     == MaxChanges \in Nat

Absent     == 0
Details    == 1..2                 \* two states of what is_netbox_changed compares
Generation == 1..(MaxChanges + 1)  \* the handlers a netbox has had, one by one
Handler    == Job \X Netbox \X Generation

JobOf(h) == h[1]

VARIABLES
  inline,       \* jobs run in this process (the default), not in workers
  db,           \* the netboxes in the database
  changes,      \* how often those have changed
  netboxes,     \* each scheduler's NetboxLoader, the netboxes as last loaded
  reload,       \* of each job: the loaded sets that are yet to be processed
  active,       \* active_netboxes: of each job, the current handlers
  calls,        \* the handlers whose _next_call is active
  jobQueue,     \* job_queues
  globalQueue,  \* global_job_queue
  running,      \* the handlers that are running
  cancelled,    \* the handlers that are cancelled
  counters,     \* job_counters
  limit         \* global_intensity

world  == <<inline, db, changes>>
loader == <<netboxes, reload, active>>
vars   == <<inline, db, changes, netboxes, reload, active, calls, jobQueue,
            globalQueue, running, cancelled, counters, limit>>

Idle == [new |-> {}, removed |-> {}, changed |-> {}]

Queued(j) == Range(jobQueue[j])
Waiting   == (UNION {Queued(j) : j \in Job}) \cup Range(globalQueue)
Created   == calls \cup Waiting \cup running \cup cancelled

Total(c) == FoldFunction(LAMBDA a, b : a + b, 0, c)

JobLimitReached(j, c)    == Intensity[j] > 0 /\ c[j] >= Intensity[j]
GlobalLimitReached(c, l) == Total(c) >= l

--------------------------------------------------------------------------------
(* NetboxJobScheduler *)

\* Mutant: what could not be executed is not tried again.
NeverAgain(c, h) == c

\* reschedule, when c are the handlers that have a next call.
Reschedule(c, h) == IF h \in cancelled THEN c ELSE c \cup {h}

\* run_job for a handler whose job has as many running as it may.
WaitForJob(h) ==
  /\ JobLimitReached(JobOf(h), counters)
  /\ jobQueue' = [jobQueue EXCEPT ![JobOf(h)] = Append(@, h)]
  /\ calls' = calls \ {h}
  /\ UNCHANGED <<globalQueue, running, counters>>

WaitForAny(h) ==
  /\ ~JobLimitReached(JobOf(h), counters)
  /\ GlobalLimitReached(counters, limit)
  /\ globalQueue' = Append(globalQueue, h)
  /\ calls' = calls \ {h}
  /\ UNCHANGED <<jobQueue, running, counters>>

MayRun(h) == /\ h \in calls
             /\ ~JobLimitReached(JobOf(h), counters)
             /\ ~GlobalLimitReached(counters, limit)

\* A handler that runs has no next call, so that run_job never finds it running.
Execute(h) ==
  /\ MayRun(h)
  /\ running' = running \cup {h}
  /\ counters' = [counters EXCEPT ![JobOf(h)] = @ + 1]
  /\ calls' = calls \ {h}
  /\ UNCHANGED <<world, loader, jobQueue, globalQueue, cancelled, limit>>

\* execute_job raises, as no worker is ready: another try in a minute.
ExecuteFails(h) ==
  /\ ~inline /\ MayRun(h)
  /\ calls' = Reschedule(calls \ {h}, h)
  /\ UNCHANGED <<jobQueue, globalQueue, running, counters>>

RunJob(h) ==
  /\ h \in calls
  /\ WaitForJob(h) \/ WaitForAny(h) \/ ExecuteFails(h)
  /\ UNCHANGED <<world, loader, cancelled, limit>>

\* Mutant: the number of running jobs is not taken down.
KeepCount(j) == counters

Uncount(j) == [counters EXCEPT ![j] = Max({@ - 1, 0})]

\* The places in the global queue whose job's own limit is not reached.
Ready(c) == {i \in DOMAIN globalQueue : ~JobLimitReached(JobOf(globalQueue[i]), c)}

\* unqueue_next_job, after a handler of job j ended
Unqueue(j, c) == IF jobQueue[j] # <<>> /\ ~JobLimitReached(j, c)
                 THEN <<{Head(jobQueue[j])}, Tail(jobQueue[j])>>
                 ELSE <<{}, jobQueue[j]>>

\* Mutant: nobody is woken from the global queue.
NobodyWoken(c, l) == <<{}, globalQueue>>

\* unqueue_next_global_job, with the limit l
UnqueueGlobal(c, l) ==
  IF ~GlobalLimitReached(c, l) /\ Ready(c) # {}
  THEN LET i == Min(Ready(c)) IN <<{globalQueue[i]}, RemoveAt(globalQueue, i)>>
  ELSE <<{}, globalQueue>>

\* _adjust_intensity_on_snmperror: h could not open its session; of the others that
\* run, any number may have one.
Adjusted == {(9 * k + 9) \div 10 : k \in 0..(Cardinality(running) - 1)}

\* The job ended, well or not: _reschedule_on_..., then _unregister_handler.
Finish(h) ==
  /\ h \in running
  /\ limit' \in {limit} \cup {l \in Adjusted : inline /\ l < limit}
  /\ LET j    == JobOf(h)
         next == Unqueue(j, Uncount(j))
         any  == UnqueueGlobal(Uncount(j), limit')
     IN /\ counters' = Uncount(j)
        /\ jobQueue' = [jobQueue EXCEPT ![j] = next[2]]
        /\ globalQueue' = any[2]
        /\ calls' = Reschedule(calls, h) \cup next[1] \cup any[1]
  /\ running' = running \ {h}
  /\ UNCHANGED <<world, loader, cancelled>>

--------------------------------------------------------------------------------
(* JobScheduler *)

\* A netbox is added, deleted, or edited, or changes its state (up, snmp_up).
Change(n) ==
  /\ changes < MaxChanges
  /\ \E d \in ({Absent} \cup Details) \ {db[n]} : db' = [db EXCEPT ![n] = d]
  /\ changes' = changes + 1
  /\ UNCHANGED <<inline, loader, calls, jobQueue, globalQueue, running, cancelled,
                 counters, limit>>

Differences(old) ==
  [new     |-> {n \in Netbox : old[n] = Absent /\ db[n] # Absent},
   removed |-> {n \in Netbox : old[n] # Absent /\ db[n] = Absent},
   changed |-> {n \in Netbox : old[n] # Absent /\ db[n] # Absent /\ old[n] # db[n]}]

\* load_all_s in a thread, started by the periodic loop; it does not start another
\* one before the result was processed.
Load(j) ==
  /\ reload[j] = Idle /\ netboxes[j] # db
  /\ reload' = [reload EXCEPT ![j] = Differences(netboxes[j])]
  /\ netboxes' = [netboxes EXCEPT ![j] = db]
  /\ UNCHANGED <<world, active, calls, jobQueue, globalQueue, running, cancelled,
                 counters, limit>>

HandlersOf(j, ns) == {h \in active[j] : h[2] \in ns}

\* A new NetboxJobScheduler, told apart from those the netbox had before.
NewHandler(j, n) ==
  <<j, n, 1 + Cardinality({h \in Created : h[1] = j /\ h[2] = n})>>

\* Mutant: only what was removed is cancelled; a changed netbox gets one more handler.
RemovedOnly(r) == r.removed

Outdated(r) == r.removed \cup r.changed

\* _process_reloaded_netboxes: cancel does not look into the queues.
Process(j) ==
  /\ reload[j] # Idle
  /\ LET r     == reload[j]
         gone  == HandlersOf(j, Outdated(r))
         fresh == {NewHandler(j, n) : n \in r.new \cup r.changed}
     IN /\ cancelled' = cancelled \cup gone
        /\ calls' = (calls \ gone) \cup fresh
        /\ active' = [active EXCEPT ![j] =
             (@ \ HandlersOf(j, r.new \cup r.removed \cup r.changed)) \cup fresh]
  /\ reload' = [reload EXCEPT ![j] = Idle]
  /\ UNCHANGED <<world, netboxes, jobQueue, globalQueue, running, counters, limit>>

--------------------------------------------------------------------------------
Init ==
  /\ inline \in BOOLEAN
  /\ db \in [Netbox -> {Absent, 1}]
  /\ changes = 0
  /\ netboxes = [j \in Job |-> [n \in Netbox |-> Absent]]
  /\ reload = [j \in Job |-> Idle]
  /\ active = [j \in Job |-> {}]
  /\ calls = {} /\ running = {} /\ cancelled = {}
  /\ jobQueue = [j \in Job |-> <<>>] /\ globalQueue = <<>>
  /\ counters = [j \in Job |-> 0]
  /\ limit = MaxConcurrent

Next ==
  \/ \E n \in Netbox : Change(n)
  \/ \E j \in Job : Load(j) \/ Process(j)
  \/ \E h \in calls : Execute(h) \/ RunJob(h)
  \/ \E h \in running : Finish(h)

Spec == Init /\ [][Next]_vars

(***************************************************************************)
(* The reactor makes every call that is pending, the periodic loop goes    *)
(* on, and a job ends, as its plugins have timeouts.  Execute is strongly  *)
(* fair: a handler that is woken is called in the next round of the        *)
(* reactor, and it would take a job that always outlasts its interval for  *)
(* the timers of others to get ahead of that call every time.  Nothing     *)
(* makes a netbox change.                                                  *)
(***************************************************************************)
Fairness ==
  /\ \A j \in Job : WF_vars(Load(j)) /\ WF_vars(Process(j))
  /\ \A j \in Job, n \in Netbox : /\ SF_vars(\E g \in Generation : Execute(<<j, n, g>>))
                                  /\ WF_vars(\E g \in Generation : Finish(<<j, n, g>>))

FairSpec == Spec /\ Fairness

--------------------------------------------------------------------------------
(* Properties. *)

\* Every variable keeps its shape.
TypeOK ==
  /\ inline \in BOOLEAN
  /\ db \in [Netbox -> {Absent} \cup Details] /\ changes \in 0..MaxChanges
  /\ netboxes \in [Job -> [Netbox -> {Absent} \cup Details]]
  /\ reload \in [Job -> [new : SUBSET Netbox, removed : SUBSET Netbox,
                         changed : SUBSET Netbox]]
  /\ active \in [Job -> SUBSET Handler]
  /\ calls \subseteq Handler /\ running \subseteq Handler /\ cancelled \subseteq Handler
  /\ globalQueue \in Seq(Handler)
  /\ \A j \in Job : jobQueue[j] \in Seq({j} \X Netbox \X Generation)
  /\ DOMAIN jobQueue = Job
  /\ counters \in [Job -> Nat]
  /\ limit \in 0..MaxConcurrent

\* In how many places a handler waits or runs.
Places(h) == Cardinality({h} \cap calls) + Cardinality({h} \cap running)
             + Cardinality({i \in DOMAIN globalQueue : globalQueue[i] = h})
             + Cardinality({i \in DOMAIN jobQueue[JobOf(h)] : jobQueue[JobOf(h)][i] = h})

\* A handler in use is never forgotten and never there twice: it has a next call, or
\* waits in one of the queues once, or runs, through every reschedule, wake-up,
\* failure and reload; and nothing but a handler in use or a cancelled one is there.
InOnePlace == \A h \in Handler :
  /\ h \in UNION {active[j] : j \in Job} => Places(h) = 1
  /\ h \notin UNION {active[j] : j \in Job} => Places(h) <= IF h \in cancelled THEN 1 ELSE 0

\* Each netbox that was loaded has exactly one handler per job that is not cancelled,
\* once the result of the load was processed: none that nobody can cancel any more is
\* left behind to run the job next to its successor, and no netbox is left out.
OnePerNetbox == \A j \in Job : \A n \in Netbox :
  LET valid == {h \in Created \ cancelled : h[1] = j /\ h[2] = n} IN
    /\ Cardinality(valid) <= 1
    /\ reload[j] = Idle => (valid = {} <=> netboxes[j][n] = Absent)

\* The counters tell how many run: they never drift, through cancellations and
\* failures, so that no job exceeds its intensity, nor all the process its limit.
LimitsKept ==
  /\ \A j \in Job : counters[j] = Cardinality({h \in running : JobOf(h) = j})
  /\ \A j \in Job : Intensity[j] > 0 => counters[j] <= Intensity[j]
  /\ Cardinality(running) <= MaxConcurrent

\* The lost wake-ups the code has: a handler that was woken is cancelled before it
\* is called, and nobody of its job is left to wake the next; and the limit is 0.
Abandoned(h) ==
  \/ limit = 0
  \/ /\ h \in Queued(JobOf(h))
     /\ \A o \in calls \cup running \cup Range(globalQueue) : JobOf(o) # JobOf(h)
  \/ h \in Range(globalQueue) /\ calls \cup running = {}

\* A netbox that stays in the database is polled again and again by a handler in use,
\* whatever waits for the limits, but for the lost wake-ups, and unless the limit on all
\* jobs has become 0.
PolledForEver == \A j \in Job, n \in Netbox :
  \/ []<>(db[n] = Absent)
  \/ []<>(\E h \in HandlersOf(j, {n}) : h \in running \/ Abandoned(h))
================================================================================
