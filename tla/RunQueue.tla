-------------------------------- MODULE RunQueue --------------------------------
(***************************************************************************)
(* The thread pool of servicemon (statemon/RunQueue.py): a FIFO queue and  *)
(* a queue of retries ordered by time, under one reentrant lock with one   *)
(* condition variable; worker threads that are started on demand and       *)
(* recycled after a number of checks; and terminate, which a signal runs   *)
(* on the main thread.                                                     *)
(*                                                                         *)
(* A worker's critical sections are one step each.  The main thread's are  *)
(* not, as the signal handler may run in the middle of them.  Runnables    *)
(* are counted, not told apart, and every retry has the same delay.        *)
(***************************************************************************)
EXTENDS Naturals, SequencesExt

CONSTANTS
  Worker,        \* thread identities; that of a dead thread may be used again
  NoWorker,
  MaxThreads,    \* servicemon.conf, maxthreads
  MaxRunCount,   \* servicemon.conf, recycle interval (0: never)
  MaxQueue,      \* bound: runnables in each of the two queues
  SignalInside   \* may the signal arrive while the main thread is inside enq

ASSUME WorkerAssumption == NoWorker \notin Worker
ASSUME ThreadAssumption == MaxThreads \in Nat \ {0} /\ MaxRunCount \in Nat
ASSUME BoundAssumption  == MaxQueue \in Nat \ {0}
ASSUME SignalAssumption == SignalInside \in BOOLEAN

VARIABLES
  queue,      \* how many runnables are in the FIFO queue
  scheduled,  \* how many retries wait for their time
  due,        \* how many retries' time has come
  workers,    \* self.workers, a list
  waiters,    \* the condition's _waiters, a FIFO
  timed,      \* the waiters that wait until the time of the first retry
  expired,    \* those of them whose wait is over: they still need the lock
  pc,         \* "none", "ready" (about to look at the queues), "wait", "run",
              \* "ran" (the checker has scheduled its retry) or "leave"
  runs,       \* _runcount of each worker, up to MaxRunCount + 1
  stop,       \* self.stop
  main,       \* "loop", "enq", "release", "terminate", "join", "joining" or "exit"
  held,       \* is the lock held by the main thread between two steps
  index,      \* how far terminate's loop over self.workers has come
  target      \* the worker that is being joined

queues  == <<queue, scheduled, due>>
cond    == <<waiters, timed, expired>>
threads == <<workers, pc, runs>>
join    == <<index, target>>
vars    == <<queue, scheduled, due, workers, waiters, timed, expired, pc, runs,
             stop, main, held, index, target>>

Alive     == {w \in Worker : pc[w] # "none"}
Executing == {w \in Worker : pc[w] \in {"run", "ran"}}

\* list.remove, of an element that may be missing.
Removed(s, w) == IF \E i \in DOMAIN s : s[i] = w
                 THEN RemoveAt(s, CHOOSE i \in DOMAIN s : s[i] = w)
                 ELSE s

--------------------------------------------------------------------------------
(* enq.  p is pc as the caller leaves it. *)

HasRoom == Len(workers) < MaxThreads

\* Condition.notify: the first waiter wakes up and will look at the queues.
Notify(p) ==
  /\ waiters # <<>>
  /\ LET w == Head(waiters) IN
       /\ timed' = timed \ {w}
       /\ expired' = expired \ {w}
       /\ pc' = [p EXCEPT ![w] = "ready"]
  /\ waiters' = Tail(waiters)
  /\ UNCHANGED <<workers, runs>>

StartWorker(p) ==
  /\ waiters = <<>> /\ HasRoom
  /\ \E w \in Worker \ (Alive \cup {target}) :
       /\ workers' = Append(workers, w)
       /\ pc' = [p EXCEPT ![w] = "ready"]
       /\ runs' = [runs EXCEPT ![w] = 0]
  /\ UNCHANGED cond

AllBusy(p) == /\ waiters = <<>> /\ ~HasRoom
              /\ pc' = p
              /\ UNCHANGED <<cond, workers, runs>>

\* Mutant: while there is room a new thread is started, and who waits is not woken.
StartsAnyway(p) == \/ /\ HasRoom
                      /\ \E w \in Worker \ (Alive \cup {target}) :
                           /\ workers' = Append(workers, w)
                           /\ pc' = [p EXCEPT ![w] = "ready"]
                           /\ runs' = [runs EXCEPT ![w] = 0]
                      /\ UNCHANGED cond
                   \/ ~HasRoom /\ pc' = p /\ UNCHANGED <<cond, workers, runs>>

\* _start_worker_if_needed
StartWorkerIfNeeded(p) == Notify(p) \/ StartWorker(p) \/ AllBusy(p)

--------------------------------------------------------------------------------
(* The main loop enqueues checker after checker. *)

Acquire ==
  /\ main = "loop"
  /\ main' = "enq" /\ held' = TRUE
  /\ UNCHANGED <<queues, cond, threads, stop, join>>

\* Beyond the bound a checker is not added, but a worker is told all the same.
Enq ==
  /\ main = "enq"
  /\ main' = "release"
  /\ queue' = IF queue < MaxQueue THEN queue + 1 ELSE queue
  /\ StartWorkerIfNeeded(pc)
  /\ UNCHANGED <<scheduled, due, stop, held, join>>

Release ==
  /\ main = "release"
  /\ main' = "loop" /\ held' = FALSE
  /\ UNCHANGED <<queues, cond, threads, stop, join>>

--------------------------------------------------------------------------------
(* The workers. *)

\* A worker that was notified or whose wait is over; it needs the lock.
IsAwake(w) == pc[w] = "ready" \/ w \in expired

MayDeq(w) == IsAwake(w) /\ ~held /\ main # "exit"

NotWaiting(w) == /\ waiters' = Removed(waiters, w)
                 /\ timed' = timed \ {w}
                 /\ expired' = expired \ {w}

\* Mutant: retries are run when there is nothing else to do.
RetriesLast == \/ queue > 0 /\ queue' = queue - 1 /\ UNCHANGED due
               \/ queue = 0 /\ due > 0 /\ due' = due - 1 /\ UNCHANGED queue

\* A retry whose time has come goes before everything else.
Take == \/ due > 0 /\ due' = due - 1 /\ UNCHANGED queue
        \/ due = 0 /\ queue > 0 /\ queue' = queue - 1 /\ UNCHANGED due

\* Mutant: what is left in the queues is run first.
UntilEmpty == ~stop \/ queue + due > 0

Working == ~stop

\* deq
Deq(w) ==
  /\ MayDeq(w) /\ Working
  /\ Take
  /\ pc' = [pc EXCEPT ![w] = "run"]
  /\ runs' = [runs EXCEPT ![w] = IF @ <= MaxRunCount THEN @ + 1 ELSE @]
  /\ NotWaiting(w)
  /\ UNCHANGED <<scheduled, workers, stop, main, held, join>>

\* Condition.wait(wait) when there is a retry, else Condition.wait().
Limit(w) == IF scheduled > 0 THEN timed \cup {w} ELSE timed \ {w}

Wait(w) ==
  /\ MayDeq(w) /\ ~stop
  /\ due = 0 /\ queue = 0
  /\ pc' = [pc EXCEPT ![w] = "wait"]
  /\ waiters' = Append(Removed(waiters, w), w)
  /\ timed' = Limit(w)
  /\ expired' = expired \ {w}
  /\ UNCHANGED <<queues, workers, runs, stop, main, held, join>>

\* deq raises TerminateException.
Quit(w) ==
  /\ MayDeq(w) /\ stop
  /\ pc' = [pc EXCEPT ![w] = "leave"]
  /\ NotWaiting(w)
  /\ UNCHANGED <<queues, workers, runs, stop, main, held, join>>

Over == timed

\* Time passes: the first retry may run, and the waits for it are over.
Tick ==
  /\ scheduled > 0 /\ main # "exit"
  /\ scheduled' = scheduled - 1
  /\ due' = due + 1
  /\ expired' = Over
  /\ UNCHANGED <<queue, waiters, timed, threads, stop, main, held, join>>

\* AbstractChecker.run enqueues the checker again, to be run later.
Retry(w) ==
  /\ pc[w] = "run" /\ ~held /\ main # "exit"
  /\ scheduled + due < MaxQueue
  /\ scheduled' = scheduled + 1
  /\ StartWorkerIfNeeded([pc EXCEPT ![w] = "ran"])
  /\ UNCHANGED <<queue, due, stop, main, held, join>>

\* Mutant: a recycled thread stays in the list.
StillListed(w) == workers

\* self.workers.remove(w)
Without(w) == Removed(workers, w)

\* execute, after checker.run: the worker goes on, or is recycled.
Done(w) ==
  /\ w \in Executing /\ main # "exit"
  /\ LET recycle == MaxRunCount # 0 /\ runs[w] > MaxRunCount IN
       /\ pc' = [pc EXCEPT ![w] = IF recycle THEN "none" ELSE "ready"]
       /\ workers' = IF recycle THEN Without(w) ELSE workers
  /\ UNCHANGED <<queues, cond, runs, stop, main, held, join>>

\* run catches TerminateException.
Leave(w) ==
  /\ pc[w] = "leave" /\ main # "exit"
  /\ pc' = [pc EXCEPT ![w] = "none"]
  /\ workers' = Without(w)
  /\ UNCHANGED <<queues, cond, runs, stop, main, held, join>>

--------------------------------------------------------------------------------
(* SIGTERM or SIGINT: signalhandler calls terminate, and then sys.exit. *)

Signal ==
  /\ main = "loop" \/ (SignalInside /\ main \in {"enq", "release"})
  /\ main' = "terminate"
  /\ UNCHANGED <<queues, cond, threads, stop, held, join>>

\* Mutant: the workers that wait are not woken.
NobodyTold == UNCHANGED <<waiters, timed, expired, pc>>

\* Condition.notifyAll
NotifyAll == /\ waiters' = <<>> /\ timed' = {} /\ expired' = {}
             /\ pc' = [w \in Worker |-> IF pc[w] = "wait" THEN "ready" ELSE pc[w]]

\* The lock is reentrant: what enq holds stays locked when this gives it back.
SetStop ==
  /\ main = "terminate"
  /\ main' = "join"
  /\ stop' = TRUE
  /\ NotifyAll
  /\ index' = 1
  /\ UNCHANGED <<queues, workers, runs, held, target>>

\* for i in self.workers: i.join(), while the workers remove themselves.
NextToJoin ==
  /\ main = "join" /\ index <= Len(workers)
  /\ main' = "joining"
  /\ target' = workers[index]
  /\ UNCHANGED <<queues, cond, threads, stop, held, index>>

Joined ==
  /\ main = "joining" /\ pc[target] = "none"
  /\ main' = "join"
  /\ target' = NoWorker
  /\ index' = index + 1
  /\ UNCHANGED <<queues, cond, threads, stop, held>>

\* sys.exit: the workers that are left are daemon threads.
Exit ==
  /\ main = "join" /\ index > Len(workers)
  /\ main' = "exit"
  /\ UNCHANGED <<queues, cond, threads, stop, held, join>>

Terminated == main = "exit" /\ UNCHANGED vars

--------------------------------------------------------------------------------
Init ==
  /\ queue = 0 /\ scheduled = 0 /\ due = 0
  /\ workers = <<>> /\ waiters = <<>> /\ timed = {} /\ expired = {}
  /\ pc = [w \in Worker |-> "none"] /\ runs = [w \in Worker |-> 0]
  /\ stop = FALSE /\ main = "loop" /\ held = FALSE
  /\ index = 1 /\ target = NoWorker

Looks(w) == Deq(w) \/ Wait(w) \/ Quit(w)

Next ==
  \/ Acquire \/ Enq \/ Release
  \/ \E w \in Worker : Looks(w) \/ Retry(w) \/ Done(w) \/ Leave(w)
  \/ Tick
  \/ Signal \/ SetStop \/ NextToJoin \/ Joined \/ Exit
  \/ Terminated

Spec == Init /\ [][Next]_vars

(***************************************************************************)
(* Every thread runs; a check ends, as it has a timeout; time passes.  The *)
(* main loop sleeps between two checkers, so that a worker that wants the  *)
(* lock gets it.  Nothing makes a signal arrive or a check fail.           *)
(***************************************************************************)
Fairness ==
  /\ WF_vars(Acquire) /\ WF_vars(Enq) /\ WF_vars(Release) /\ WF_vars(Tick)
  /\ WF_vars(SetStop) /\ WF_vars(NextToJoin) /\ WF_vars(Joined) /\ WF_vars(Exit)
  /\ \A w \in Worker : SF_vars(Looks(w)) /\ WF_vars(Done(w)) /\ WF_vars(Leave(w))

FairSpec == Spec /\ Fairness

--------------------------------------------------------------------------------
(* Properties. *)

\* Every variable keeps its shape; there are never more than MaxThreads threads.
TypeOK ==
  /\ queue \in 0..MaxQueue
  /\ scheduled \in Nat /\ due \in Nat /\ scheduled + due <= MaxQueue
  /\ workers \in Seq(Worker) /\ Len(workers) <= MaxThreads
  /\ waiters \in Seq(Worker)
  /\ timed \subseteq Worker /\ expired \subseteq timed
  /\ pc \in [Worker -> {"none", "ready", "wait", "run", "ran", "leave"}]
  /\ runs \in [Worker -> 0..(MaxRunCount + 1)]
  /\ stop \in BOOLEAN /\ held \in BOOLEAN
  /\ main \in {"loop", "enq", "release", "terminate", "join", "joining", "exit"}
  /\ index \in Nat \ {0}
  /\ target \in Worker \cup {NoWorker}

\* self.workers lists exactly the threads that are alive, each once: a dead one
\* would take the place of a new one for ever, and terminate would skip others.
WorkersAreAlive ==
  /\ \A w \in Worker : w \in Alive <=> \E i \in DOMAIN workers : workers[i] = w
  /\ \A i, j \in DOMAIN workers : workers[i] = workers[j] => i = j

\* Whenever there is something to run and a worker that waits, a worker is awake
\* and will look at the queues: no wake-up is lost between the two queues, however
\* enq, notify, the retries' times and the recycling of threads interleave.
NoIdleWhileWork ==
  queue + due > 0 /\ waiters # <<>> => \E w \in Worker : IsAwake(w)

\* While a retry waits for its time and nobody is awake, a worker that waits does so
\* until that time only.
RetryIsWatched ==
  scheduled > 0 /\ waiters # <<>> => \E w \in Worker : w \in timed \/ IsAwake(w)

\* No wake-up is lost, for what is due or for what will be.
NoWakeupLost == NoIdleWhileWork /\ RetryIsWatched

\* Retries whose time has come are run: none stays for ever while nothing takes one,
\* unless the process is told to stop.
RetriesAreRun == \/ <>stop
                 \/ []<>(due = 0)
                 \/ []<><<due' < due>>_due

\* A process that is told to stop does, although workers wait, run checks, schedule retries
\* and remove themselves from the list that terminate walks: unless the signal came inside
\* enq, when the main thread keeps the lock that a worker needs to see stop, and may wait
\* for it for ever.  (terminate: "Terminates all worker threads".)
TerminationEnds == (main = "terminate" /\ ~held) ~> (main = "exit")

\* The pool as its users see it.
Pool == INSTANCE WorkPool WITH
  pending <- queue + scheduled + due,
  running <- Cardinality(Executing),
  open <- ~stop

\* Each runnable is taken once, by one of at most MaxThreads threads, and none is
\* taken any more once the pool was told to stop.
ImplementsWorkPool == Pool!Spec
================================================================================
