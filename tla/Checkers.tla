-------------------------------- MODULE Checkers --------------------------------
(***************************************************************************)
(* The service monitor above its thread pool: the controller, which reads  *)
(* the services from the database and enqueues their checkers round after  *)
(* round (bin/servicemon.py, statemon/db.py), and what a checker does when *)
(* a thread runs it (statemon/abstractchecker.py).                         *)
(*                                                                         *)
(* RunQueue has the pool itself; here a thread takes any checker that is   *)
(* queued, or whose retry waits.  A checker that is enqueued while it      *)
(* waits in a queue already is not told apart from one that is there once. *)
(* Pping has what may happen to an event between the monitor and the       *)
(* inventory; here it gets there at once.                                  *)
(***************************************************************************)
EXTENDS Naturals, FiniteSets

CONSTANTS
  Service,
  Thread,
  NoJob,      \* what a thread runs that runs no checker
  MaxRetry,   \* servicemon.conf, retry
  MaxEdits    \* bound: changes of the services in the database

ASSUME NoJobAssumption == NoJob \notin Service \X (1..(MaxEdits + 1))
ASSUME RetryAssumption == MaxRetry \in Nat
ASSUME BoundAssumption == MaxEdits \in Nat

VARIABLES
  args,      \* of each service in the database; 0 when it is not there or not active
  edits,     \* how often one of them was changed
  reported,  \* the state the last event gave each service
  dirty,     \* Controller.dirty
  checkers,  \* Controller._checkers
  toEnq,     \* those of them the main loop has not enqueued yet in this round
  argsOf,    \* the arguments of each checker, 0 before it is created
  status,    \* its status
  runcount,  \* its runcount
  queued,    \* the checkers in the run queue's FIFO
  waiting,   \* the checkers in its queue of retries
  pc,        \* of a thread: "idle", "tested", "decided", "posted" or "settle"
  job,       \* the checker it runs
  result,    \* what the test of that run gave
  streak,    \* how often the last result of a checker came in a row, until it is
             \* shared (history)
  shared,    \* the checkers that two threads have run at a time (history)
  estranged  \* the services that two threads have reported at a time, or that got
             \* another checker while they were reported down, or while the one that
             \* it replaces might still report (history)

world   == <<args, edits>>
control == <<dirty, checkers, toEnq>>
objects == <<argsOf, status, runcount>>
queues  == <<queued, waiting>>
threads == <<pc, job, result>>
history == <<streak, shared, estranged>>
vars    == <<args, edits, reported, dirty, checkers, toEnq, argsOf, status,
             runcount, queued, waiting, pc, job, result, streak, shared, estranged>>

None    == [result |-> "up", times |-> 0]
Args    == 0..(MaxEdits + 1)
State   == {"up", "down"}
Checker == Service \X (1..(MaxEdits + 1))

ServiceOf(c)  == c[1]
CheckersOf(s) == {s} \X (1..(MaxEdits + 1))
Busy(c)       == \E t \in Thread : job[t] = c

--------------------------------------------------------------------------------
(* The services. *)

\* A service is added, deleted, switched on or off, or gets other arguments.
Edit(s) ==
  /\ edits < MaxEdits
  /\ edits' = edits + 1
  /\ \E a \in {0, edits + 2} \ {args[s]} : args' = [args EXCEPT ![s] = a]
  /\ UNCHANGED <<reported, control, objects, queues, threads, history>>

--------------------------------------------------------------------------------
(* The main loop. *)

NextRound == toEnq = {}

\* A new object, told apart from those the service had before.
NewChecker(s) == <<s, 1 + Cardinality({c \in CheckersOf(s) : argsOf[c] # 0})>>

\* The checker of s that is equal to the one just read.
Same(s) == {c \in checkers : ServiceOf(c) = s /\ argsOf[c] = args[s]}

\* get_checkers: what is equal to a checker in use is replaced by it.
Wanted == {s \in Service : args[s] # 0}
New    == {NewChecker(s) : s \in {r \in Wanted : Same(r) = {}}}
Kept   == UNION {Same(s) : s \in Wanted}

\* Only the first call starts from the states in the database.
FirstStatus(s) == IF dirty THEN reported[s] ELSE "up"

\* A checker made in a later round starts as up although its service is reported down,
\* or while one that it replaces may still report.
IsEstranged(s) ==
  \/ ~dirty /\ reported[s] = "down"
  \/ \E c \in CheckersOf(s) : Busy(c) \/ c \in queued \cup waiting

Reload ==
  /\ NextRound
  /\ checkers' = New \cup Kept
  /\ toEnq' = New \cup Kept
  /\ dirty' = FALSE
  /\ argsOf' = [c \in Checker |-> IF c \in New THEN args[ServiceOf(c)] ELSE argsOf[c]]
  /\ status' = [c \in Checker |-> IF c \in New THEN FirstStatus(ServiceOf(c))
                                              ELSE status[c]]
  /\ estranged' = estranged \cup {s \in {ServiceOf(c) : c \in New} : IsEstranged(s)}
  /\ UNCHANGED <<world, reported, runcount, queues, threads, streak, shared>>

\* The query fails: the checkers stay the same, none at the start.
ReloadFails ==
  /\ NextRound
  /\ toEnq' = checkers
  /\ dirty' = FALSE
  /\ UNCHANGED <<world, reported, checkers, objects, queues, threads, history>>

Enq(c) ==
  /\ c \in toEnq
  /\ toEnq' = toEnq \ {c}
  /\ queued' = queued \cup {c}
  /\ UNCHANGED <<world, reported, dirty, checkers, objects, waiting, threads, history>>

--------------------------------------------------------------------------------
(* AbstractChecker.run *)

Goes(t, a, b) == pc[t] = a /\ pc' = [pc EXCEPT ![t] = b]

\* The end of the run: the thread is as it was.
Ends(t, a) == /\ Goes(t, a, "idle")
              /\ job' = [job EXCEPT ![t] = NoJob]
              /\ result' = [result EXCEPT ![t] = "up"]

\* What run leaves alone once the test is over.
Others == <<world, control, argsOf, queued, shared>>

NextStreak(c, r) ==
  [result |-> r,
   times  |-> IF streak[c].result # r THEN 1
              ELSE IF streak[c].times <= MaxRetry THEN streak[c].times + 1
              ELSE streak[c].times]

\* execute_test: a thread has taken c, and its test gives a result.
Test(t, c) ==
  /\ Goes(t, "idle", "tested")
  /\ \E r \in State :
       /\ result' = [result EXCEPT ![t] = r]
       /\ shared' = IF Busy(c) THEN shared \cup {c} ELSE shared
       /\ streak' = [streak EXCEPT ![c] = IF c \in shared' THEN None
                                                         ELSE NextStreak(c, r)]
  /\ job' = [job EXCEPT ![t] = c]
  /\ UNCHANGED <<world, reported, control, objects, estranged>>

TestQueued(t, c) ==
  c \in queued /\ Test(t, c) /\ queued' = queued \ {c} /\ UNCHANGED waiting

TestRetry(t, c) ==
  c \in waiting /\ Test(t, c) /\ waiting' = waiting \ {c} /\ UNCHANGED queued

\* Mutant: a check that is to be repeated is not counted.
NotCounted(c) == 0

Counted(c) == runcount[c] + 1

Changed(t)  == result[t] # status[job[t]]
MayRetry(t) == Changed(t) /\ runcount[job[t]] < MaxRetry

Retry(t) ==
  /\ Ends(t, "tested")
  /\ MayRetry(t)
  /\ runcount' = [runcount EXCEPT ![job[t]] = Counted(job[t])]
  /\ waiting' = waiting \cup {job[t]}
  /\ UNCHANGED <<Others, reported, status, streak, estranged>>

\* The check is not to be repeated; another thread may now change the status.
Decide(t) ==
  /\ Goes(t, "tested", "decided")
  /\ ~MayRetry(t)
  /\ UNCHANGED <<Others, job, reported, status, runcount, waiting, result, streak, estranged>>

\* Another thread has sent its event for c, and not set the status yet.
Reporting(c) == \E t \in Thread : pc[t] = "posted" /\ job[t] = c

\* new_event
Post(t) ==
  /\ Goes(t, "decided", "posted")
  /\ Changed(t)
  /\ reported' = [reported EXCEPT ![ServiceOf(job[t])] = result[t]]
  /\ estranged' = IF Reporting(job[t]) THEN estranged \cup {ServiceOf(job[t])}
                                      ELSE estranged
  /\ UNCHANGED <<Others, job, status, runcount, waiting, result, streak>>

\* Mutant: the new status is not kept.
StatusLost(t) == status

NewStatus(t) == [status EXCEPT ![job[t]] = result[t]]

\* A run that was overtaken by another one puts an old status back.
SetStatus(t) ==
  /\ Goes(t, "posted", "settle")
  /\ status' = NewStatus(t)
  /\ UNCHANGED <<Others, job, reported, runcount, waiting, result, streak, estranged>>

\* Mutant: runcount is not reset.
CountOn(c) == runcount

Reset(c) == [runcount EXCEPT ![c] = 0]

\* The run ends after its event, or because nothing changed.
Settle(t) ==
  /\ Ends(t, "settle") \/ (Ends(t, "decided") /\ ~Changed(t))
  /\ runcount' = Reset(job[t])
  /\ UNCHANGED <<Others, reported, status, waiting, streak, estranged>>

Run(t) == \/ Retry(t) \/ Decide(t) \/ Post(t)
          \/ SetStatus(t) \/ Settle(t)

--------------------------------------------------------------------------------
\* servicemon starts, and what it reported before is in the database.
Init ==
  /\ reported \in [Service -> State]
  /\ args \in [Service -> {0, 1}] /\ edits = 0
  /\ dirty = TRUE /\ checkers = {} /\ toEnq = {}
  /\ argsOf = [c \in Checker |-> 0]
  /\ status = [c \in Checker |-> "up"] /\ runcount = [c \in Checker |-> 0]
  /\ queued = {} /\ waiting = {}
  /\ pc = [t \in Thread |-> "idle"]
  /\ job = [t \in Thread |-> NoJob]
  /\ result = [t \in Thread |-> "up"]
  /\ streak = [c \in Checker |-> None]
  /\ shared = {} /\ estranged = {}

Next ==
  \/ \E s \in Service : Edit(s)
  \/ Reload \/ ReloadFails
  \/ \E c \in Checker : Enq(c) \/ \E t \in Thread : TestQueued(t, c) \/ TestRetry(t, c)
  \/ \E t \in Thread : Run(t)

Spec == Init /\ [][Next]_vars

(***************************************************************************)
(* The main loop goes on, a check ends, as it has a timeout, and the       *)
(* database answers again and again.  A checker that stays queued, or      *)
(* whose retry waits, is taken in the end: the pool takes them in order,   *)
(* and every retry waits for its delay, so that those of others do not     *)
(* keep it away.                                                           *)
(***************************************************************************)
Fairness ==
  /\ SF_vars(Reload)
  /\ WF_vars(\E c \in Checker : Enq(c))
  /\ \A c \in Checker : SF_vars(\E t \in Thread : TestQueued(t, c) \/ TestRetry(t, c))
  /\ \A t \in Thread : WF_vars(Run(t))

FairSpec == Spec /\ Fairness

--------------------------------------------------------------------------------
(* Properties. *)

\* Every variable keeps its shape.
TypeOK ==
  /\ reported \in [Service -> State]
  /\ args \in [Service -> Args] /\ edits \in 0..MaxEdits
  /\ dirty \in BOOLEAN
  /\ toEnq \subseteq checkers /\ checkers \subseteq Checker
  /\ argsOf \in [Checker -> Args] /\ status \in [Checker -> State]
  /\ runcount \in [Checker -> Nat]
  /\ queued \subseteq Checker /\ waiting \subseteq Checker
  /\ pc \in [Thread -> {"idle", "tested", "decided", "posted", "settle"}]
  /\ job \in [Thread -> Checker \cup {NoJob}] /\ result \in [Thread -> State]
  /\ streak \in [Checker -> [result : State, times : 0..(MaxRetry + 1)]]
  /\ shared \subseteq Checker /\ estranged \subseteq Service

Posts(t) == pc[t] = "decided" /\ pc'[t] = "posted"

\* A change is reported only when so many checks in a row showed it, the first one and
\* MaxRetry more, whether the main loop or the queue of retries had them run: unless
\* two threads once ran the checker at a time, when they share runcount.
ChangeIsConfirmed == [][\A t \in Thread :
  Posts(t) /\ job[t] \notin shared =>
    streak[job[t]] = [result |-> result[t], times |-> MaxRetry + 1]]_vars

\* No service is reported up twice or down twice in a row, which the event engine would
\* take for another outage (ServiceStateHandler looks for no duplicates), even when
\* several threads run its checker at a time: unless two of them were once, this run
\* included, between the event and the assignment of the status at the same time, or the
\* service got another checker while it was reported down, or while the one that this
\* replaced might still report.
NoRepeatedReport == [][\A t \in Thread :
  LET s == ServiceOf(job[t]) IN
    Posts(t) /\ s \notin estranged' => reported[s] # result[t]]_vars

\* What a service's checker takes for its state is what was reported last, but for the
\* moment between the event and the assignment, although several threads run the checker
\* at a time and count and reset its retries: with the exceptions of NoRepeatedReport.
StatusIsReported == \A c \in checkers :
  \/ ServiceOf(c) \in estranged
  \/ Reporting(c)
  \/ status[c] = reported[ServiceOf(c)]

\* A test of service s that gives another result than r.
OtherResult(s, r) == \E t \in Thread :
  pc[t] = "idle" /\ pc'[t] = "tested" /\ ServiceOf(job'[t]) = s /\ result'[t] # r

\* A service that answers for good, or does not, is reported so in the end, even when
\* several threads run its checker at a time: with the exceptions of NoRepeatedReport,
\* after which what the checker takes for the state may be wrong until it changes again.
ReportsSettle == \A s \in Service, r \in State :
  \/ []<><<OtherResult(s, r)>>_vars
  \/ []<>(args[s] = 0)
  \/ <>(s \in estranged)
  \/ <>[](reported[s] = r)
================================================================================
