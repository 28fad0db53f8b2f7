------------------------------- MODULE WorkerPool --------------------------------
(***************************************************************************)
(* The worker processes of ipdevpoll's multiprocess mode (ipdevpoll/       *)
(* pool.py): the pool in the master process hands jobs to its workers,     *)
(* replaces a worker that has had its share of jobs or that died, and      *)
(* kills one that does not answer a ping in time; a worker runs its jobs   *)
(* and stops when it was told to and has none left.  Between the two are   *)
(* pipes, which keep their order.                                          *)
(***************************************************************************)
EXTENDS Naturals, FiniteSets, SequencesExt

CONSTANTS
  MaxWorkers,   \* bound: workers at a time, with those that are done
  TargetCount,  \* --multiprocess
  MaxJobs,      \* --max-jobs-per-worker, 0 for any number
  MaxSerial,    \* bound: jobs in all
  MaxFaults     \* bound: workers that crash, freeze or are too slow for a ping

ASSUME TargetAssumption == TargetCount \in Nat \ {0} /\ MaxJobs \in Nat
ASSUME BoundAssumption  == MaxWorkers \in Nat /\ MaxSerial \in Nat /\ MaxFaults \in Nat

Worker  == 1..MaxWorkers  \* the lowest that is free is given to a new process
Serial  == 1..MaxSerial
Message == [type : {"job", "cancel"}, serial : Serial] \cup {[type |-> "shutdown"]}

JobMsg(s) == [type |-> "job", serial |-> s]
CancelMsg(s) == [type |-> "cancel", serial |-> s]
Shutdown == [type |-> "shutdown"]

VARIABLES
  workers,     \* WorkerPool.workers
  spawning,    \* how many workers are being started
  activeJobs, totalJobs,  \* of each Worker
  serial,      \* WorkerPool.serial
  jobs,        \* WorkerPool.jobs: the serials under way, with their workers
  requests,    \* the pipe to each worker
  answers,     \* and the pipe from it: serials of jobs that ended
  state,       \* of the process: "none", "up", "frozen", "stopping" or "dead"
  tasks,       \* JobHandler.jobs in the worker
  told,        \* JobHandler.done in the worker
  faults

pool    == <<workers, spawning, activeJobs, totalJobs, serial, jobs>>
process == <<state, tasks, told>>
vars    == <<workers, spawning, activeJobs, totalJobs, serial, jobs, requests,
             answers, state, tasks, told, faults>>

\* Worker.done: it takes no more jobs.
Done(w) == MaxJobs > 0 /\ totalJobs[w] >= MaxJobs

ReadyWorkers == {w \in workers : ~Done(w)}
JobsOf(w)    == {s \in Serial : <<s, w>> \in jobs}

Init ==
  /\ workers = {} /\ spawning = TargetCount
  /\ activeJobs = [w \in Worker |-> 0] /\ totalJobs = [w \in Worker |-> 0]
  /\ serial = 0 /\ jobs = {}
  /\ requests = [w \in Worker |-> <<>>] /\ answers = [w \in Worker |-> <<>>]
  /\ state = [w \in Worker |-> "none"]
  /\ tasks = [w \in Worker |-> {}] /\ told = [w \in Worker |-> FALSE]
  /\ faults = 0

--------------------------------------------------------------------------------
(* The pool. *)

\* _spawn_worker, once the process is there
Spawned(w) ==
  /\ spawning > 0 /\ state[w] = "none" /\ \A v \in 1..(w - 1) : state[v] # "none"
  /\ spawning' = spawning - 1
  /\ workers' = workers \cup {w}
  /\ state' = [state EXCEPT ![w] = "up"]
  /\ UNCHANGED <<activeJobs, totalJobs, serial, jobs, requests, answers, tasks, told,
                 faults>>

\* Mutant: the worker is told to shut down before it gets its last job.
ShutdownFirst(s, last) == (IF last THEN <<Shutdown>> ELSE <<>>) \o <<JobMsg(s)>>

\* What Worker.execute sends; last if the worker will then be done.
Orders(s, last) == <<JobMsg(s)>> \o (IF last THEN <<Shutdown>> ELSE <<>>)

\* _execute, on the worker with the fewest jobs; with none ready it raises.
Execute(w) ==
  /\ w \in ReadyWorkers
  /\ \A v \in ReadyWorkers : activeJobs[w] <= activeJobs[v]
  /\ serial < MaxSerial
  /\ serial' = serial + 1
  /\ activeJobs' = [activeJobs EXCEPT ![w] = @ + 1]
  /\ totalJobs' = [totalJobs EXCEPT ![w] = @ + 1]
  /\ requests' = [requests EXCEPT ![w] = @ \o Orders(serial', Done(w)')]
  /\ spawning' = IF Done(w)' THEN spawning + 1 ELSE spawning
  /\ jobs' = jobs \cup {<<serial', w>>}
  /\ UNCHANGED <<workers, answers, process, faults>>

\* cancel: the scheduler no longer wants the job.
Cancel(s) ==
  /\ \E w \in workers :
       /\ <<s, w>> \in jobs
       /\ ~Contains(requests[w], CancelMsg(s))
       /\ requests' = [requests EXCEPT ![w] = Append(@, CancelMsg(s))]
  /\ UNCHANGED <<pool, answers, process, faults>>

\* Mutant: a job that was answered still counts as active.
Kept(w) == activeJobs

Released(w) == [activeJobs EXCEPT ![w] = @ - 1]

\* A job's result, or its failure, comes in; _cleanup.
Answered(w) ==
  /\ answers[w] # <<>> /\ w \in workers
  /\ jobs' = jobs \ {<<Head(answers[w]), w>>}
  /\ activeJobs' = Released(w)
  /\ answers' = [answers EXCEPT ![w] = Tail(@)]
  /\ UNCHANGED <<workers, spawning, totalJobs, serial, requests, process, faults>>

\* Mutant: every worker that died is replaced, even if it was before.
AlwaysReplaced(w) == TRUE

Replaced(w) == ~Done(w)

\* Mutant: the jobs of a lost worker are left waiting.
NoneFails(w) == {}

\* The jobs whose remote calls fail with the connection.
FailedJobs(w) == {<<s, w>> : s \in JobsOf(w)}

\* connectionLost: what was under way fails; then _worker_died.
Lost(w) ==
  /\ w \in workers /\ state[w] = "dead" /\ answers[w] = <<>>
  /\ jobs' = jobs \ FailedJobs(w)
  /\ workers' = workers \ {w}
  /\ spawning' = IF Replaced(w) THEN spawning + 1 ELSE spawning
  /\ activeJobs' = [activeJobs EXCEPT ![w] = 0]
  /\ totalJobs' = [totalJobs EXCEPT ![w] = 0]
  /\ requests' = [requests EXCEPT ![w] = <<>>]
  /\ state' = [state EXCEPT ![w] = "none"]
  /\ tasks' = [tasks EXCEPT ![w] = {}] /\ told' = [told EXCEPT ![w] = FALSE]
  /\ UNCHANGED <<serial, answers, faults>>

\* _euthanize_unresponsive_worker: what is done is not killed.
MayBeKilled(w) == state[w] = "frozen" /\ ~Done(w)

Euthanize(w) ==
  /\ w \in workers /\ MayBeKilled(w)
  /\ state' = [state EXCEPT ![w] = "dead"]
  /\ UNCHANGED <<pool, requests, answers, tasks, told, faults>>

--------------------------------------------------------------------------------
(* The worker process. *)

\* JobHandler.execute_job, cancel and shutdown: a cancelled job stops at its next step.
Receive(w) ==
  /\ state[w] = "up" /\ requests[w] # <<>>
  /\ LET m == Head(requests[w]) IN
       /\ tasks' = [tasks EXCEPT ![w] = IF m.type = "job" THEN @ \cup {m.serial} ELSE @]
       /\ told' = [told EXCEPT ![w] = @ \/ m = Shutdown]
  /\ requests' = [requests EXCEPT ![w] = Tail(@)]
  /\ UNCHANGED <<pool, answers, state, faults>>

\* job_done: is this the end, when the tasks left are these
Stops(w, left) == told[w] /\ left = {}

\* A job ends: its result, or its failure, is sent.
JobDone(w, s) ==
  /\ state[w] = "up" /\ s \in tasks[w]
  /\ tasks' = [tasks EXCEPT ![w] = @ \ {s}]
  /\ answers' = [answers EXCEPT ![w] = Append(@, s)]
  /\ state' = [state EXCEPT ![w] = IF Stops(w, tasks[w] \ {s}) THEN "stopping" ELSE @]
  /\ UNCHANGED <<pool, requests, told, faults>>

\* reactor.stop, three seconds later
Exit(w) ==
  /\ state[w] = "stopping"
  /\ state' = [state EXCEPT ![w] = "dead"]
  /\ UNCHANGED <<pool, requests, answers, tasks, told, faults>>

\* The process dies, or no longer answers; it may also just be slow, so that the
\* answer to the ping comes after the timeout, and be killed all the same.
Fault(w) ==
  /\ state[w] = "up" /\ faults < MaxFaults
  /\ \/ state' = [state EXCEPT ![w] = "dead"]
     \/ state' = [state EXCEPT ![w] = "frozen"]
  /\ faults' = faults + 1
  /\ UNCHANGED <<pool, requests, answers, tasks, told>>

--------------------------------------------------------------------------------
Next ==
  \/ \E w \in Worker : \/ Spawned(w) \/ Execute(w) \/ Answered(w) \/ Lost(w)
                       \/ Euthanize(w) \/ Receive(w) \/ Exit(w) \/ Fault(w)
                       \/ \E s \in tasks[w] : JobDone(w, s)
  \/ \E s \in Serial : Cancel(s)

Spec == Init /\ [][Next]_vars

(***************************************************************************)
(* Both reactors run what is ready, the pings go on, and a job ends unless *)
(* its process is frozen or dead.  Nothing makes a job or a fault come.    *)
(***************************************************************************)
Fairness ==
  /\ WF_vars(\E w \in Worker : Spawned(w))
  /\ \A w \in Worker :
       /\ WF_vars(Answered(w)) /\ WF_vars(Lost(w)) /\ WF_vars(Euthanize(w))
       /\ WF_vars(Receive(w)) /\ WF_vars(Exit(w))
       /\ WF_vars(\E s \in tasks[w] : JobDone(w, s))

FairSpec == Spec /\ Fairness

--------------------------------------------------------------------------------
(* Properties. *)

\* Every variable keeps its shape; a worker never gets more than MaxJobs jobs.
TypeOK ==
  /\ workers \subseteq Worker /\ spawning \in 0..TargetCount
  /\ activeJobs \in [Worker -> Nat]
  /\ totalJobs \in [Worker -> IF MaxJobs = 0 THEN Nat ELSE 0..MaxJobs]
  /\ serial \in 0..MaxSerial
  /\ jobs \subseteq Serial \X Worker
  /\ requests \in [Worker -> Seq(Message)] /\ answers \in [Worker -> Seq(Serial)]
  /\ state \in [Worker -> {"none", "up", "frozen", "stopping", "dead"}]
  /\ tasks \in [Worker -> SUBSET Serial] /\ told \in [Worker -> BOOLEAN]
  /\ faults \in 0..MaxFaults

\* The pool neither shrinks nor grows: the workers that take jobs, with those that
\* are being started, are as many as were asked for, however workers reach their
\* share, die, or both.
TargetKept == Cardinality(ReadyWorkers) + spawning = TargetCount

\* activeJobs, by which the next worker is chosen, is the number of its jobs under way.
ActiveAgrees == \A w \in workers : activeJobs[w] = Cardinality(JobsOf(w))

\* Where the job with serial s of worker w may be.
Underway(s, w) == \/ Contains(requests[w], JobMsg(s)) \/ s \in tasks[w]
                  \/ Contains(answers[w], s)

\* Every job under way is on its way to its worker, is run by it (or was when
\* it died), or is answered: a worker that is told to stop, however late the order
\* comes, has got all its jobs before and answers them before it stops.
NoJobLost == \A s \in Serial, w \in Worker : <<s, w>> \in jobs =>
  /\ w \in workers /\ Underway(s, w)
  /\ state[w] = "stopping" => Contains(answers[w], s)

\* Every job ends for the scheduler, whose counts wait for that, however workers
\* crash, freeze or are replaced; but a worker that has had its share of jobs and
\* then freezes is neither killed nor given up.
EveryJobEnds == \A s \in Serial :
  s \in {j[1] : j \in jobs} ~>
    \/ s \notin {j[1] : j \in jobs}
    \/ \E w \in workers : <<s, w>> \in jobs /\ Done(w) /\ state[w] = "frozen"
================================================================================
