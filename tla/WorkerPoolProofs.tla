---------------------------- MODULE WorkerPoolProofs -----------------------------
(***************************************************************************)
(* Theorems about ipdevpoll's worker pool, for every target, every share   *)
(* of jobs per worker and every number of faults.                          *)
(***************************************************************************)
EXTENDS WorkerPool, FiniteSetTheorems, SequenceTheorems, TLAPS

\* What the count of workers needs to know of the variables.
PoolTypes ==
  /\ workers \subseteq Worker
  /\ spawning \in Nat
  /\ totalJobs \in [Worker -> Nat]
  /\ state \in [Worker -> {"none", "up", "frozen", "stopping", "dead"}]

\* There is a process for each worker in the list and for no other, and a new one starts
\* with no jobs.
ListedIsThere ==
  /\ \A w \in Worker : w \in workers <=> state[w] # "none"
  /\ \A w \in Worker \ workers : totalJobs[w] = 0

PoolInv == PoolTypes /\ ListedIsThere /\ TargetKept

--------------------------------------------------------------------------------
\* The ready workers can be counted.
LEMMA ReadyIsFinite ==
  ASSUME PoolTypes
  PROVE  /\ IsFiniteSet(ReadyWorkers)
         /\ Cardinality(ReadyWorkers) \in Nat
<1>1. IsFiniteSet(Worker)
  BY FS_Interval, BoundAssumption DEF Worker
<1>2. ReadyWorkers \subseteq Worker
  BY DEF ReadyWorkers, PoolTypes
<1> QED BY <1>1, <1>2, FS_Subset, FS_CardinalityType

\* One more ready worker is paid for by one that is no longer being started.
LEMMA OneMore ==
  ASSUME PoolTypes, TargetKept,
         NEW w, w \notin ReadyWorkers,
         ReadyWorkers' = ReadyWorkers \cup {w},
         spawning > 0, spawning' = spawning - 1
  PROVE  TargetKept'
<1>1. Cardinality(ReadyWorkers') = Cardinality(ReadyWorkers) + 1
  BY ReadyIsFinite, FS_AddElement
<1> QED BY <1>1, ReadyIsFinite, TargetAssumption DEF TargetKept, PoolTypes

\* One ready worker less is made up for by one that is started.
LEMMA OneLess ==
  ASSUME PoolTypes, TargetKept,
         NEW w, w \in ReadyWorkers,
         ReadyWorkers' = ReadyWorkers \ {w},
         spawning' = spawning + 1
  PROVE  TargetKept'
<1>1. Cardinality(ReadyWorkers') = Cardinality(ReadyWorkers) - 1
  BY ReadyIsFinite, FS_RemoveElement
<1> QED BY <1>1, ReadyIsFinite, TargetAssumption DEF TargetKept, PoolTypes

--------------------------------------------------------------------------------
\* At the start all workers are being started.
LEMMA InitPool == Init => PoolInv
<1> SUFFICES ASSUME Init PROVE PoolInv
  OBVIOUS
<1>1. PoolTypes /\ ListedIsThere
  BY TargetAssumption DEF Init, PoolTypes, ListedIsThere
<1>2. ReadyWorkers = {}
  BY DEF Init, ReadyWorkers
<1>3. TargetKept
  BY <1>2, FS_EmptySet, TargetAssumption DEF Init, TargetKept
<1> QED BY <1>1, <1>3 DEF PoolInv

\* Spawned: the new worker has had no jobs, and so is ready.
LEMMA SpawnedKeeps ==
  ASSUME NEW w \in Worker, PoolInv, Spawned(w)
  PROVE  PoolInv'
<1>1. w \notin workers /\ totalJobs[w] = 0
  BY DEF Spawned, PoolInv, ListedIsThere
<1>2. PoolTypes'
  BY DEF Spawned, PoolInv, PoolTypes
<1>3. ListedIsThere'
  BY DEF Spawned, PoolInv, PoolTypes, ListedIsThere
<1>4. ReadyWorkers' = ReadyWorkers \cup {w}
  BY <1>1, TargetAssumption DEF Spawned, ReadyWorkers, Done
<1>5. w \notin ReadyWorkers
  BY <1>1 DEF ReadyWorkers
<1>6. TargetKept'
  BY <1>4, <1>5, OneMore DEF Spawned, PoolInv
<1> QED BY <1>2, <1>3, <1>6 DEF PoolInv

\* Execute: the job may be the worker's last, and then another is started.
LEMMA ExecuteKeeps ==
  ASSUME NEW w \in Worker, PoolInv, Execute(w)
  PROVE  PoolInv'
<1>1. /\ w \in workers /\ workers' = workers /\ state' = state
      /\ totalJobs' = [totalJobs EXCEPT ![w] = @ + 1]
  BY DEF Execute, ReadyWorkers, process
<1>2. PoolTypes'
  BY <1>1 DEF Execute, PoolInv, PoolTypes
<1>3. ListedIsThere'
  BY <1>1 DEF PoolInv, PoolTypes, ListedIsThere
<1>4. \A v \in Worker \ {w} : Done(v)' <=> Done(v)
  BY <1>1 DEF PoolInv, PoolTypes, Done
<1>5. CASE Done(w)'
  <2>1. ReadyWorkers' = ReadyWorkers \ {w}
    BY <1>1, <1>4, <1>5 DEF ReadyWorkers, PoolInv, PoolTypes
  <2>2. TargetKept'
    BY <1>5, <2>1, OneLess DEF Execute, PoolInv
  <2> QED BY <1>2, <1>3, <2>2 DEF PoolInv
<1>6. CASE ~Done(w)'
  <2>1. ReadyWorkers' = ReadyWorkers
    BY <1>1, <1>4, <1>6 DEF Execute, ReadyWorkers, PoolInv, PoolTypes
  <2>2. TargetKept'
    BY <1>6, <2>1 DEF Execute, PoolInv, TargetKept
  <2> QED BY <1>2, <1>3, <2>2 DEF PoolInv
<1> QED BY <1>5, <1>6

\* Lost: the worker was replaced when it was done, or else it is now.
LEMMA LostKeeps ==
  ASSUME NEW w \in Worker, PoolInv, Lost(w)
  PROVE  PoolInv'
<1>1. /\ w \in workers /\ workers' = workers \ {w}
      /\ totalJobs' = [totalJobs EXCEPT ![w] = 0]
      /\ state' = [state EXCEPT ![w] = "none"]
      /\ spawning' = IF ~Done(w) THEN spawning + 1 ELSE spawning
  BY DEF Lost, Replaced
<1>2. PoolTypes'
  BY <1>1 DEF PoolInv, PoolTypes
<1>3. ListedIsThere'
  BY <1>1 DEF PoolInv, PoolTypes, ListedIsThere
<1>4. \A v \in Worker \ {w} : Done(v)' <=> Done(v)
  BY <1>1 DEF PoolInv, PoolTypes, Done
<1>5. ReadyWorkers' = ReadyWorkers \ {w}
  BY <1>1, <1>4 DEF ReadyWorkers, PoolInv, PoolTypes
<1>6. CASE Done(w)
  <2>1. ReadyWorkers' = ReadyWorkers
    BY <1>5, <1>6 DEF ReadyWorkers
  <2>2. TargetKept'
    BY <1>1, <1>6, <2>1 DEF PoolInv, TargetKept
  <2> QED BY <1>2, <1>3, <2>2 DEF PoolInv
<1>7. CASE ~Done(w)
  <2>1. w \in ReadyWorkers
    BY <1>1, <1>7 DEF ReadyWorkers
  <2>2. TargetKept'
    BY <1>1, <1>5, <1>7, <2>1, OneLess DEF PoolInv
  <2> QED BY <1>2, <1>3, <2>2 DEF PoolInv
<1> QED BY <1>6, <1>7

\* The other steps change no list and no count; a process that is there stays one.
LEMMA OthersKeepPool ==
  ASSUME PoolInv,
         /\ UNCHANGED <<workers, spawning, totalJobs>>
         /\ \/ UNCHANGED state
            \/ \E w \in Worker, q \in {"up", "frozen", "stopping", "dead"} :
                 state[w] # "none" /\ state' = [state EXCEPT ![w] = q]
  PROVE  PoolInv'
<1>1. PoolTypes'
  BY DEF PoolInv, PoolTypes
<1>2. ListedIsThere'
  BY DEF PoolInv, PoolTypes, ListedIsThere
<1>3. ReadyWorkers' = ReadyWorkers
  BY DEF ReadyWorkers, Done
<1>4. TargetKept'
  BY <1>3 DEF PoolInv, TargetKept
<1> QED BY <1>1, <1>2, <1>4 DEF PoolInv

\* The steps of OthersKeepPool.
LEMMA ProcessSteps ==
  ASSUME PoolInv, NEW w \in Worker,
         \/ Answered(w) \/ Euthanize(w) \/ Receive(w) \/ Exit(w) \/ Fault(w)
         \/ \E s \in tasks[w] : JobDone(w, s)
  PROVE  PoolInv'
<1>1. state[w] \in {"none", "up", "frozen", "stopping", "dead"}
  BY DEF PoolInv, PoolTypes
<1>2. CASE Answered(w) \/ Receive(w)
  BY <1>2, OthersKeepPool DEF Answered, Receive, pool, process
<1>3. CASE Euthanize(w) \/ Exit(w) \/ Fault(w)
  BY <1>3, OthersKeepPool DEF Euthanize, MayBeKilled, Exit, Fault, pool
<1>4. ASSUME NEW s \in tasks[w], JobDone(w, s)
      PROVE  PoolInv'
  <2>1. /\ UNCHANGED <<workers, spawning, totalJobs>>
        /\ state[w] = "up"
        /\ state' = [state EXCEPT ![w] = IF Stops(w, tasks[w] \ {s})
                                         THEN "stopping" ELSE "up"]
    BY <1>4 DEF JobDone, pool
  <2> QED BY <2>1, OthersKeepPool
<1> QED BY <1>2, <1>3, <1>4

\* The invariant behind TargetKept, kept by every step.
THEOREM PoolInvHolds == Spec => []PoolInv
<1>1. ASSUME PoolInv, [Next]_vars
      PROVE  PoolInv'
  <2>1. CASE UNCHANGED vars
    BY <1>1, <2>1, OthersKeepPool DEF vars
  <2>2. ASSUME NEW s \in Serial, Cancel(s)
        PROVE  PoolInv'
    BY <1>1, <2>2, OthersKeepPool DEF Cancel, pool, process
  <2> QED BY <1>1, <2>1, <2>2, SpawnedKeeps, ExecuteKeeps, LostKeeps, ProcessSteps DEF Next
<1> QED BY InitPool, <1>1, PTL DEF Spec

\* The pool neither shrinks nor grows (_spawn_worker, _execute and _worker_died keep the
\* balance), however many workers reach their share of jobs, crash, freeze or are killed.
THEOREM TargetKeptHolds == Spec => []TargetKept
BY PoolInvHolds, PTL DEF PoolInv

--------------------------------------------------------------------------------
(* No job is lost: the pipes keep their order, and a worker that is told to shut down *)
(* is sent nothing to do after that.                                                  *)

PipeTypes ==
  /\ serial \in 0..MaxSerial
  /\ jobs \subseteq Serial \X Worker
  /\ requests \in [Worker -> Seq(Message)]
  /\ answers \in [Worker -> Seq(Serial)]
  /\ tasks \in [Worker -> SUBSET Serial]
  /\ told \in [Worker -> BOOLEAN]

\* No job follows Shutdown in the pipe, nor is one left once it was received.
ShutdownIsLast(w) ==
  /\ told[w] => \A i \in DOMAIN requests[w] : requests[w][i].type # "job"
  /\ \A i, j \in DOMAIN requests[w] :
       i < j /\ requests[w][i] = Shutdown => requests[w][j].type # "job"

\* Only who has had its share is told.
OnlyDoneIsTold(w) == told[w] \/ Contains(requests[w], Shutdown) => Done(w)

\* What runs no process is sent nothing.
NothingForNobody(w) == w \notin workers => requests[w] = <<>> /\ ~told[w]

StopsWithNone(w) == state[w] = "stopping" => told[w] /\ tasks[w] = {}

EachWorker == \A w \in Worker : /\ ShutdownIsLast(w) /\ OnlyDoneIsTold(w)
                                /\ NothingForNobody(w) /\ StopsWithNone(w)

EachJob == \A s \in Serial, w \in Worker :
  <<s, w>> \in jobs => w \in workers /\ Underway(s, w)

PipeInv == PoolInv /\ PipeTypes /\ EachWorker /\ EachJob

\* Messages of different types differ.
LEMMA MessageTypes ==
  /\ Shutdown \in Message /\ Shutdown.type = "shutdown"
  /\ \A s \in Serial : /\ JobMsg(s) \in Message /\ CancelMsg(s) \in Message
                       /\ JobMsg(s).type = "job" /\ JobMsg(s).serial = s
                       /\ CancelMsg(s).type = "cancel"
BY DEF Shutdown, Message, JobMsg, CancelMsg

\* What Contains and the operators of pipes have to do with each other.
LEMMA PipeElements ==
  ASSUME NEW S, NEW q \in Seq(S), NEW x \in S
  PROVE  /\ \A y : Contains(Append(q, x), y) <=> Contains(q, y) \/ x = y
         /\ q # <<>> => /\ Head(q) \in S /\ Tail(q) \in Seq(S)
                        /\ Len(Tail(q)) = Len(q) - 1
                        /\ \A i \in 1..Len(Tail(q)) : Tail(q)[i] = q[i + 1]
                        /\ Head(q) = q[1]
                        /\ \A y : Contains(q, y) <=> Head(q) = y \/ Contains(Tail(q), y)
<1>1. ASSUME NEW y
      PROVE  Contains(Append(q, x), y) <=> Contains(q, y) \/ x = y
  <2>1. /\ Len(Append(q, x)) = Len(q) + 1 /\ Len(q) \in Nat
        /\ \A i \in 1..Len(q) : Append(q, x)[i] = q[i]
        /\ Append(q, x)[Len(q) + 1] = x
    BY AppendProperties, LenProperties
  <2>2. Contains(Append(q, x), y) => Contains(q, y) \/ x = y
    BY <2>1 DEF Contains
  <2>3. Contains(q, y) \/ x = y => Contains(Append(q, x), y)
    BY <2>1 DEF Contains
  <2> QED BY <2>2, <2>3
<1>2. ASSUME q # <<>>
      PROVE  /\ Head(q) \in S /\ Tail(q) \in Seq(S)
             /\ Len(Tail(q)) = Len(q) - 1
             /\ \A i \in 1..Len(Tail(q)) : Tail(q)[i] = q[i + 1]
             /\ Head(q) = q[1] /\ Len(q) \in Nat /\ Len(q) > 0
  BY <1>2
<1>3. ASSUME q # <<>>, NEW y
      PROVE  Contains(q, y) <=> Head(q) = y \/ Contains(Tail(q), y)
  <2>1. Contains(q, y) => Head(q) = y \/ Contains(Tail(q), y)
    <3> SUFFICES ASSUME NEW i \in 1..Len(q), q[i] = y, i # 1
                 PROVE  \E j \in 1..Len(Tail(q)) : Tail(q)[j] = y
      BY <1>2, <1>3 DEF Contains
    <3>1. i - 1 \in 1..Len(Tail(q)) /\ Tail(q)[i - 1] = q[i]
      BY <1>2, <1>3
    <3> QED BY <3>1
  <2>2. Head(q) = y \/ Contains(Tail(q), y) => Contains(q, y)
    BY <1>2, <1>3 DEF Contains
  <2> QED BY <2>1, <2>2
<1> QED BY <1>1, <1>2, <1>3

\* Init: there are no workers and no jobs.
LEMMA InitPipes == Init => PipeInv
<1> SUFFICES ASSUME Init PROVE PipeInv
  OBVIOUS
<1>1. PipeTypes
  BY BoundAssumption DEF Init, PipeTypes
<1>2. EachWorker
  BY DEF Init, EachWorker, ShutdownIsLast, OnlyDoneIsTold, NothingForNobody, StopsWithNone,
         Contains
<1>3. EachJob
  BY DEF Init, EachJob
<1> QED BY <1>1, <1>2, <1>3, InitPool DEF PipeInv

\* Spawned: the pipe to the new worker is empty.
LEMMA SpawnedPipes ==
  ASSUME NEW w \in Worker, PipeInv, Spawned(w)
  PROVE  PipeTypes' /\ EachWorker' /\ EachJob'
<1>1. /\ UNCHANGED <<totalJobs, serial, jobs, requests, answers, tasks, told>>
      /\ workers' = workers \cup {w} /\ state' = [state EXCEPT ![w] = "up"]
  BY DEF Spawned
<1>2. PipeTypes'
  BY <1>1 DEF PipeInv, PipeTypes
<1>3. EachWorker'
  BY <1>1 DEF PipeInv, PoolInv, PoolTypes, EachWorker, ShutdownIsLast, OnlyDoneIsTold, Done,
              NothingForNobody, StopsWithNone
<1>4. EachJob'
  BY <1>1 DEF PipeInv, EachJob, Underway
<1> QED BY <1>2, <1>3, <1>4

\* Execute: the worker was not done, so that nothing before its new job tells it to stop,
\* and Shutdown comes after it.
LEMMA ExecutePipes ==
  ASSUME NEW w \in Worker, PipeInv, Execute(w)
  PROVE  PipeTypes' /\ EachWorker' /\ EachJob'
<1> DEFINE q == requests[w]
           a == Append(q, JobMsg(serial'))
           b == Append(a, Shutdown)
<1>1. /\ w \in workers /\ ~Done(w)
      /\ serial' = serial + 1 /\ serial < MaxSerial
      /\ totalJobs' = [totalJobs EXCEPT ![w] = @ + 1]
      /\ requests' = [requests EXCEPT ![w] = q \o Orders(serial', Done(w)')]
      /\ jobs' = jobs \cup {<<serial', w>>}
      /\ UNCHANGED <<workers, answers, state, tasks, told>>
  BY DEF Execute, ReadyWorkers, process
<1>2. serial' \in Serial /\ serial' \in 0..MaxSerial
  BY <1>1, BoundAssumption DEF PipeInv, PipeTypes, Serial
<1>3. q \in Seq(Message) /\ ~told[w] /\ ~Contains(q, Shutdown)
  BY <1>1 DEF PipeInv, PipeTypes, EachWorker, OnlyDoneIsTold
<1>4. /\ a \in Seq(Message) /\ b \in Seq(Message)
      /\ Len(a) = Len(q) + 1 /\ Len(b) = Len(q) + 2
      /\ \A i \in 1..Len(q) : a[i] = q[i] /\ b[i] = q[i]
      /\ a[Len(q) + 1] = JobMsg(serial') /\ b[Len(q) + 1] = JobMsg(serial')
      /\ b[Len(q) + 2] = Shutdown
  BY <1>2, <1>3, MessageTypes, AppendProperties
<1>5. q \o Orders(serial', Done(w)') = IF Done(w)' THEN b ELSE a
  <2>1. q \o (<<JobMsg(serial')>> \o <<>>) = a
    BY <1>2, <1>3, MessageTypes
  <2>2. q \o (<<JobMsg(serial')>> \o <<Shutdown>>) = b
    BY <1>2, <1>3, MessageTypes
  <2> QED BY <2>1, <2>2 DEF Orders
<1>6. /\ requests'[w] = IF Done(w)' THEN b ELSE a
      /\ \A v \in Worker \ {w} : requests'[v] = requests[v] /\ (Done(v)' <=> Done(v))
      /\ requests' \in [Worker -> Seq(Message)]
  BY <1>1, <1>4, <1>5 DEF PipeInv, PipeTypes, PoolInv, PoolTypes, Done
<1>7. /\ Contains(requests'[w], JobMsg(serial'))
      /\ \A m : Contains(q, m) => Contains(requests'[w], m)
      /\ Contains(requests'[w], Shutdown) => Done(w)'
  <2>1. Len(q) \in Nat
    BY <1>3
  <2>2. \A m : /\ Contains(a, m) <=> Contains(q, m) \/ JobMsg(serial') = m
               /\ Contains(b, m) <=> Contains(a, m) \/ Shutdown = m
    <3>1. JobMsg(serial') \in Message /\ Shutdown \in Message
      BY <1>2, MessageTypes
    <3>2. \A m : Contains(a, m) <=> Contains(q, m) \/ JobMsg(serial') = m
      BY <1>3, <3>1, PipeElements
    <3>3. a \in Seq(Message)
      BY <1>4
    <3> HIDE DEF a
    <3>4. \A m : Contains(b, m) <=> Contains(a, m) \/ Shutdown = m
      BY <3>1, <3>3, PipeElements
    <3> QED BY <3>2, <3>4
  <2>3. JobMsg(serial') # Shutdown
    BY <1>2, MessageTypes
  <2> HIDE DEF a, b
  <2> QED BY <1>3, <1>6, <2>2, <2>3
<1>8. PipeTypes'
  BY <1>1, <1>2, <1>6 DEF PipeInv, PipeTypes
<1>9. ShutdownIsLast(w)'
  <2>1. Len(q) \in Nat /\ \A i \in 1..Len(q) : q[i] # Shutdown
    BY <1>3 DEF Contains
  <2>2. \A i \in 1..(Len(q) + 1) : a[i] # Shutdown /\ b[i] # Shutdown
    BY <1>2, <1>4, <2>1, MessageTypes
  <2>3. DOMAIN a = 1..(Len(q) + 1) /\ DOMAIN b = 1..(Len(q) + 2)
    BY <1>4
  <2> HIDE DEF a, b
  <2> QED BY <1>1, <1>3, <1>6, <2>1, <2>2, <2>3 DEF ShutdownIsLast
<1>10. EachWorker'
  <2>1. ASSUME NEW v \in Worker \ {w}
        PROVE  /\ ShutdownIsLast(v)' /\ OnlyDoneIsTold(v)'
               /\ NothingForNobody(v)' /\ StopsWithNone(v)'
    BY <1>1, <1>6 DEF PipeInv, EachWorker, ShutdownIsLast, OnlyDoneIsTold,
                      NothingForNobody, StopsWithNone
  <2>2. OnlyDoneIsTold(w)' /\ NothingForNobody(w)' /\ StopsWithNone(w)'
    BY <1>1, <1>3, <1>7 DEF PipeInv, EachWorker, OnlyDoneIsTold, NothingForNobody,
                            StopsWithNone
  <2> QED BY <1>9, <2>1, <2>2 DEF EachWorker
<1>11. EachJob'
  BY <1>1, <1>6, <1>7 DEF PipeInv, EachJob, Underway
<1> QED BY <1>8, <1>10, <1>11

\* Cancel: a cancellation is neither a job nor Shutdown.
LEMMA CancelPipes ==
  ASSUME NEW s \in Serial, PipeInv, Cancel(s)
  PROVE  PipeTypes' /\ EachWorker' /\ EachJob'
<1>1. PICK w \in workers : requests' = [requests EXCEPT ![w] = Append(@, CancelMsg(s))]
  BY DEF Cancel
<1> DEFINE q == requests[w]
           a == Append(q, CancelMsg(s))
<1>2. /\ w \in Worker
      /\ UNCHANGED <<workers, totalJobs, serial, jobs, answers, state, tasks, told>>
  BY DEF Cancel, pool, process, PipeInv, PoolInv, PoolTypes
<1>3. q \in Seq(Message) /\ CancelMsg(s) \in Message
  BY <1>2, MessageTypes DEF PipeInv, PipeTypes
<1>4. /\ a \in Seq(Message) /\ Len(q) \in Nat /\ Len(a) = Len(q) + 1
      /\ DOMAIN a = 1..(Len(q) + 1) /\ DOMAIN q = 1..Len(q)
      /\ \A i \in 1..Len(q) : a[i] = q[i]
      /\ a[Len(q) + 1] = CancelMsg(s)
  BY <1>3, AppendProperties
<1>5. \A m : Contains(a, m) <=> Contains(q, m) \/ CancelMsg(s) = m
  BY <1>3, PipeElements
<1>6. /\ requests'[w] = a /\ \A v \in Worker \ {w} : requests'[v] = requests[v]
      /\ requests' \in [Worker -> Seq(Message)]
  BY <1>1, <1>2, <1>4 DEF PipeInv, PipeTypes
<1> HIDE DEF a
<1>7. CancelMsg(s) # Shutdown /\ CancelMsg(s).type # "job"
  BY MessageTypes
<1>8. PipeTypes'
  BY <1>2, <1>6 DEF PipeInv, PipeTypes
<1>9. ShutdownIsLast(w)'
  <2>1. ShutdownIsLast(w)
    BY <1>2 DEF PipeInv, EachWorker
  <2>2. \A i \in 1..(Len(q) + 1) :
          \/ i \in 1..Len(q) /\ a[i] = q[i]
          \/ a[i] # Shutdown /\ a[i].type # "job" /\ i = Len(q) + 1
    BY <1>4, <1>7
  <2>3. /\ told'[w] => \A i \in 1..(Len(q) + 1) : a[i].type # "job"
        /\ \A i, j \in 1..(Len(q) + 1) : i < j /\ a[i] = Shutdown => a[j].type # "job"
    BY <1>2, <1>4, <2>1, <2>2 DEF ShutdownIsLast
  <2> QED BY <1>4, <1>6, <2>3 DEF ShutdownIsLast
<1>10. EachWorker'
  BY <1>2, <1>5, <1>6, <1>7, <1>9 DEF PipeInv, EachWorker, ShutdownIsLast, OnlyDoneIsTold,
                                      Done, NothingForNobody, StopsWithNone
<1>11. EachJob'
  BY <1>2, <1>5, <1>6 DEF PipeInv, EachJob, Underway
<1> QED BY <1>8, <1>10, <1>11

\* Answered: the job that is taken from the list is the one whose answer was read.
LEMMA AnsweredPipes ==
  ASSUME NEW w \in Worker, PipeInv, Answered(w)
  PROVE  PipeTypes' /\ EachWorker' /\ EachJob'
<1>1. /\ answers[w] # <<>>
      /\ jobs' = jobs \ {<<Head(answers[w]), w>>}
      /\ answers' = [answers EXCEPT ![w] = Tail(@)]
      /\ UNCHANGED <<workers, totalJobs, serial, requests, state, tasks, told>>
  BY DEF Answered, process
<1>2. answers[w] \in Seq(Serial)
  BY DEF PipeInv, PipeTypes
<1>3. Tail(answers[w]) \in Seq(Serial)
  BY <1>1, <1>2
<1>4. \A s : Contains(answers[w], s) <=> Head(answers[w]) = s \/ Contains(Tail(answers[w]), s)
  <2>1. Head(answers[w]) \in Serial
    BY <1>1, <1>2
  <2> QED BY <1>1, <1>2, <2>1, PipeElements
<1>5. PipeTypes'
  BY <1>1, <1>3 DEF PipeInv, PipeTypes
<1>6. EachWorker'
  BY <1>1 DEF PipeInv, EachWorker, ShutdownIsLast, OnlyDoneIsTold, Done, NothingForNobody,
              StopsWithNone
<1>7. EachJob'
  <2> SUFFICES ASSUME NEW s \in Serial, NEW v \in Worker, <<s, v>> \in jobs'
               PROVE  v \in workers' /\ Underway(s, v)'
    BY DEF EachJob
  <2>1. v \in workers /\ Underway(s, v) /\ ~(v = w /\ s = Head(answers[w]))
    BY <1>1 DEF PipeInv, EachJob
  <2>2. Contains(answers[v], s) => Contains(answers'[v], s)
    BY <1>1, <1>4, <2>1 DEF PipeInv, PipeTypes
  <2> QED BY <1>1, <2>1, <2>2 DEF Underway
<1> QED BY <1>5, <1>6, <1>7

\* Lost: none of the worker's jobs stays in the list, and nothing in its pipes.
LEMMA LostPipes ==
  ASSUME NEW w \in Worker, PipeInv, Lost(w)
  PROVE  PipeTypes' /\ EachWorker' /\ EachJob'
<1>1. /\ workers' = workers \ {w} /\ jobs' = jobs \ FailedJobs(w)
      /\ totalJobs' = [totalJobs EXCEPT ![w] = 0]
      /\ requests' = [requests EXCEPT ![w] = <<>>]
      /\ state' = [state EXCEPT ![w] = "none"]
      /\ tasks' = [tasks EXCEPT ![w] = {}] /\ told' = [told EXCEPT ![w] = FALSE]
      /\ UNCHANGED <<serial, answers>>
  BY DEF Lost
<1>2. PipeTypes'
  BY <1>1 DEF PipeInv, PipeTypes
<1>3. ASSUME NEW v \in Worker
      PROVE  /\ ShutdownIsLast(v)' /\ OnlyDoneIsTold(v)'
             /\ NothingForNobody(v)' /\ StopsWithNone(v)'
  <2>1. CASE v = w
    <3>1. requests'[w] = <<>> /\ ~told'[w] /\ state'[w] = "none"
      BY <1>1 DEF PipeInv, PipeTypes, PoolInv, PoolTypes
    <3> QED BY <2>1, <3>1 DEF ShutdownIsLast, OnlyDoneIsTold, Contains, NothingForNobody,
                              StopsWithNone
  <2>2. CASE v # w
    <3>1. /\ requests'[v] = requests[v] /\ told'[v] = told[v] /\ tasks'[v] = tasks[v]
          /\ state'[v] = state[v] /\ totalJobs'[v] = totalJobs[v]
          /\ v \in workers' <=> v \in workers
      BY <1>1, <2>2 DEF PipeInv, PipeTypes, PoolInv, PoolTypes
    <3> QED BY <3>1 DEF PipeInv, EachWorker, ShutdownIsLast, OnlyDoneIsTold, Done,
                        NothingForNobody, StopsWithNone
  <2> QED BY <2>1, <2>2
<1>4. EachJob'
  <2> SUFFICES ASSUME NEW s \in Serial, NEW v \in Worker, <<s, v>> \in jobs'
               PROVE  v \in workers' /\ Underway(s, v)'
    BY DEF EachJob
  <2>1. v # w /\ v \in workers /\ Underway(s, v)
    BY <1>1 DEF FailedJobs, JobsOf, PipeInv, EachJob
  <2> QED BY <1>1, <2>1 DEF Underway, PipeInv, PipeTypes
<1> QED BY <1>2, <1>3, <1>4 DEF EachWorker

\* Receive: a job goes from the pipe to the tasks; Shutdown was the last in the pipe to
\* ask for anything.
LEMMA ReceivePipes ==
  ASSUME NEW w \in Worker, PipeInv, Receive(w)
  PROVE  PipeTypes' /\ EachWorker' /\ EachJob'
<1> DEFINE q == requests[w]
           m == Head(q)
<1>1. /\ q # <<>> /\ state[w] = "up"
      /\ tasks' = [tasks EXCEPT ![w] = IF m.type = "job" THEN @ \cup {m.serial} ELSE @]
      /\ told' = [told EXCEPT ![w] = @ \/ m = Shutdown]
      /\ requests' = [requests EXCEPT ![w] = Tail(@)]
      /\ UNCHANGED <<workers, totalJobs, serial, jobs, answers, state>>
  BY DEF Receive, pool
<1>2. q \in Seq(Message)
  BY DEF PipeInv, PipeTypes
<1>3. /\ m \in Message /\ m = q[1]
      /\ Tail(q) \in Seq(Message) /\ Len(Tail(q)) = Len(q) - 1 /\ Len(q) \in Nat
      /\ Len(q) > 0
      /\ \A i \in 1..Len(Tail(q)) : Tail(q)[i] = q[i + 1]
  BY <1>1, <1>2
<1>4. \A x : Contains(q, x) <=> m = x \/ Contains(Tail(q), x)
  BY <1>1, <1>2, <1>3, PipeElements
<1>5. /\ requests'[w] = Tail(q)
      /\ told'[w] = (told[w] \/ m = Shutdown)
      /\ tasks[w] \subseteq tasks'[w]
      /\ m.type = "job" => m.serial \in tasks'[w]
      /\ \A v \in Worker \ {w} : /\ requests'[v] = requests[v] /\ told'[v] = told[v]
                                 /\ tasks'[v] = tasks[v]
  BY <1>1 DEF PipeInv, PipeTypes
<1> HIDE DEF m
<1>6. PipeTypes'
  <2>1. m.type = "job" => m.serial \in Serial
    BY <1>3 DEF Message
  <2> QED BY <1>1, <1>3, <2>1 DEF PipeInv, PipeTypes
<1>7. ShutdownIsLast(w)'
  <2> DEFINE z == Tail(q)
  <2>1. ShutdownIsLast(w) /\ DOMAIN q = 1..Len(q)
    BY <1>2 DEF PipeInv, EachWorker
  <2>2. \A i \in 1..Len(z) : i + 1 \in 1..Len(q) /\ z[i] = q[i + 1]
    BY <1>3
  <2>3. told'[w] => \A i \in 1..Len(z) : z[i].type # "job"
    <3>1. CASE told[w]
      BY <2>1, <2>2, <3>1 DEF ShutdownIsLast
    <3>2. CASE m = Shutdown
      <4>1. 1 \in 1..Len(q) /\ \A i \in 1..Len(z) : 1 < i + 1
        BY <1>3
      <4> QED BY <1>3, <2>1, <2>2, <3>2, <4>1 DEF ShutdownIsLast
    <3> QED BY <1>5, <3>1, <3>2
  <2>4. \A i, j \in 1..Len(z) : i < j /\ z[i] = Shutdown => z[j].type # "job"
    BY <1>2, <2>1, <2>2 DEF ShutdownIsLast
  <2>5. DOMAIN z = 1..Len(z)
    BY <1>3
  <2> HIDE DEF z
  <2> QED BY <1>5, <2>3, <2>4, <2>5 DEF ShutdownIsLast, z
<1>8. ASSUME NEW v \in Worker
      PROVE  /\ ShutdownIsLast(v)' /\ OnlyDoneIsTold(v)'
             /\ NothingForNobody(v)' /\ StopsWithNone(v)'
  <2>1. CASE v = w
    <3>1. w \in workers
      BY <1>1 DEF PipeInv, PoolInv, ListedIsThere
    <3>2. OnlyDoneIsTold(w)'
      BY <1>1, <1>4, <1>5 DEF PipeInv, EachWorker, OnlyDoneIsTold, Done
    <3> QED BY <1>1, <1>7, <2>1, <3>1, <3>2 DEF NothingForNobody, StopsWithNone
  <2>2. CASE v # w
    BY <1>1, <1>5, <2>2 DEF PipeInv, EachWorker, ShutdownIsLast, OnlyDoneIsTold, Done,
                            NothingForNobody, StopsWithNone
  <2> QED BY <2>1, <2>2
<1>9. EachJob'
  <2> SUFFICES ASSUME NEW s \in Serial, NEW v \in Worker, <<s, v>> \in jobs'
               PROVE  v \in workers' /\ Underway(s, v)'
    BY DEF EachJob
  <2>1. v \in workers /\ Underway(s, v)
    BY <1>1 DEF PipeInv, EachJob
  <2>2. Contains(q, JobMsg(s)) => Contains(Tail(q), JobMsg(s)) \/ s \in tasks'[w]
    BY <1>4, <1>5, MessageTypes
  <2>3. CASE v = w
    BY <1>1, <1>5, <2>1, <2>2, <2>3 DEF Underway
  <2>4. CASE v # w
    BY <1>1, <1>5, <2>1, <2>4 DEF Underway
  <2> QED BY <2>3, <2>4
<1> QED BY <1>6, <1>8, <1>9 DEF EachWorker

\* JobDone: the job goes from the tasks to the answers; the worker stops only if it was
\* told to and this was its last.
LEMMA JobDonePipes ==
  ASSUME NEW w \in Worker, NEW s \in tasks[w], PipeInv, JobDone(w, s)
  PROVE  PipeTypes' /\ EachWorker' /\ EachJob'
<1>1. /\ state[w] = "up" /\ s \in Serial
      /\ tasks' = [tasks EXCEPT ![w] = @ \ {s}]
      /\ answers' = [answers EXCEPT ![w] = Append(@, s)]
      /\ state' = [state EXCEPT ![w] = IF Stops(w, tasks[w] \ {s}) THEN "stopping" ELSE @]
      /\ UNCHANGED <<workers, totalJobs, serial, jobs, requests, told>>
  BY DEF JobDone, pool, PipeInv, PipeTypes
<1>2. answers[w] \in Seq(Serial)
  BY DEF PipeInv, PipeTypes
<1>3. \A x : Contains(Append(answers[w], s), x) <=> Contains(answers[w], x) \/ s = x
  BY <1>1, <1>2, PipeElements
<1>4. PipeTypes'
  BY <1>1, <1>2 DEF PipeInv, PipeTypes
<1>5. EachWorker'
  BY <1>1 DEF PipeInv, PipeTypes, PoolInv, PoolTypes, EachWorker, ShutdownIsLast,
              OnlyDoneIsTold, Done, NothingForNobody, StopsWithNone, Stops
<1>6. EachJob'
  <2> SUFFICES ASSUME NEW x \in Serial, NEW v \in Worker, <<x, v>> \in jobs'
               PROVE  v \in workers' /\ Underway(x, v)'
    BY DEF EachJob
  <2>1. v \in workers /\ Underway(x, v)
    BY <1>1 DEF PipeInv, EachJob
  <2>2. CASE v = w
    BY <1>1, <1>3, <2>1, <2>2 DEF Underway, PipeInv, PipeTypes
  <2>3. CASE v # w
    BY <1>1, <2>1, <2>3 DEF Underway, PipeInv, PipeTypes
  <2> QED BY <2>2, <2>3
<1> QED BY <1>4, <1>5, <1>6

\* The other steps change nothing but the state of a process, and make none stop.
LEMMA OthersKeepPipes ==
  ASSUME PipeInv,
         \/ UNCHANGED vars
         \/ \E w \in Worker : Euthanize(w) \/ Exit(w) \/ Fault(w)
  PROVE  PipeTypes' /\ EachWorker' /\ EachJob'
<1>1. /\ UNCHANGED <<workers, totalJobs, serial, jobs, requests, answers, tasks, told>>
      /\ \A v \in Worker : state'[v] = "stopping" => state[v] = "stopping"
  BY DEF Euthanize, Exit, Fault, pool, vars, PipeInv, PoolInv, PoolTypes
<1> QED BY <1>1 DEF PipeInv, PipeTypes, EachWorker, ShutdownIsLast, OnlyDoneIsTold, Done,
                    NothingForNobody, StopsWithNone, EachJob, Underway

\* The invariant behind NoJobLost, kept by every step.
THEOREM PipeInvHolds == Spec => []PipeInv
<1>1. PipeInv /\ [Next]_vars => PipeTypes' /\ EachWorker' /\ EachJob'
  BY SpawnedPipes, ExecutePipes, CancelPipes, AnsweredPipes, LostPipes, ReceivePipes,
     JobDonePipes, OthersKeepPipes DEF Next
<1>2. PoolInv' /\ PipeTypes' /\ EachWorker' /\ EachJob' => PipeInv'
  BY DEF PipeInv
<1> QED BY InitPipes, PoolInvHolds, <1>1, <1>2, PTL DEF Spec

\* Every job the scheduler waits for is on its way to its worker, run by it, or answered,
\* and a worker that stops has answered all of them: the order to shut down is sent after
\* the last job, and job_done looks for it only when no task is left.
THEOREM NoJobLostHolds == Spec => []NoJobLost
<1>1. PipeInv => NoJobLost
  <2> SUFFICES ASSUME PipeInv, NEW s \in Serial, NEW w \in Worker, <<s, w>> \in jobs
               PROVE  /\ w \in workers /\ Underway(s, w)
                      /\ state[w] = "stopping" => Contains(answers[w], s)
    BY DEF NoJobLost
  <2>1. w \in workers /\ Underway(s, w)
    BY DEF PipeInv, EachJob
  <2>2. ASSUME state[w] = "stopping"
        PROVE  Contains(answers[w], s)
    <3>1. tasks[w] = {} /\ \A i \in DOMAIN requests[w] : requests[w][i].type # "job"
      BY <2>2 DEF PipeInv, EachWorker, ShutdownIsLast, StopsWithNone
    <3>2. ~Contains(requests[w], JobMsg(s))
      BY <3>1, MessageTypes DEF Contains, PipeInv, PipeTypes
    <3> QED BY <2>1, <3>1, <3>2 DEF Underway
  <2> QED BY <2>1, <2>2
<1> QED BY PipeInvHolds, <1>1, PTL

--------------------------------------------------------------------------------
(* The count of active jobs, by which a worker is chosen, agrees with the list: no job is *)
(* in two places, so that it is answered once.                                           *)

JobMsgs == {JobMsg(s) : s \in Serial}

\* The elements of T that are in q are there once.
Differ(q, T) == \A i, j \in DOMAIN q : q[i] \in T /\ q[i] = q[j] => i = j

\* What is under way to, in or from a worker is one of its jobs, at one place of it.
JobIsOnce(w) ==
  /\ \A s \in Serial : Underway(s, w) => <<s, w>> \in jobs
  /\ \A s \in tasks[w] : ~Contains(answers[w], s)
  /\ \A s \in Serial : Contains(requests[w], JobMsg(s)) =>
       s \notin tasks[w] /\ ~Contains(answers[w], s)
  /\ Differ(answers[w], Serial) /\ Differ(requests[w], JobMsgs)

OnceInv == \A w \in Worker : JobIsOnce(w)

CountInv ==
  /\ activeJobs \in [Worker -> Nat]
  /\ \A w \in Worker : activeJobs[w] = Cardinality(JobsOf(w))
  /\ \A s \in Serial, w \in Worker : <<s, w>> \in jobs => s <= serial

\* What is there once stays so at the ends of a pipe.
LEMMA DifferStays ==
  ASSUME NEW S, NEW q \in Seq(S), NEW x \in S, NEW T, Differ(q, T)
  PROVE  /\ (x \in T => ~Contains(q, x)) => Differ(Append(q, x), T)
         /\ q # <<>> => /\ Differ(Tail(q), T)
                        /\ Head(q) \in T => ~Contains(Tail(q), Head(q))
<1>1. /\ Len(Append(q, x)) = Len(q) + 1 /\ Len(q) \in Nat
      /\ \A i \in 1..Len(q) : Append(q, x)[i] = q[i]
      /\ Append(q, x)[Len(q) + 1] = x
      /\ DOMAIN q = 1..Len(q) /\ DOMAIN Append(q, x) = 1..(Len(q) + 1)
  BY AppendProperties, LenProperties
<1>2. ASSUME x \in T => ~Contains(q, x)
      PROVE  Differ(Append(q, x), T)
  <2> DEFINE a == Append(q, x)
  <2> SUFFICES ASSUME NEW i \in 1..(Len(q) + 1), NEW j \in 1..(Len(q) + 1),
                      a[i] \in T, a[i] = a[j]
               PROVE  i = j
    BY <1>1 DEF Differ
  <2>1. \A k \in 1..Len(q) : x \in T => q[k] # x
    BY <1>2 DEF Contains
  <2>2. \A k \in 1..(Len(q) + 1) : k \in 1..Len(q) \/ k = Len(q) + 1
    BY <1>1
  <2> QED BY <1>1, <2>1, <2>2 DEF Differ
<1>3. ASSUME q # <<>>
      PROVE  /\ Differ(Tail(q), T)
             /\ Head(q) \in T => ~Contains(Tail(q), Head(q))
  <2>1. /\ Len(Tail(q)) = Len(q) - 1 /\ Head(q) = q[1] /\ Tail(q) \in Seq(S)
        /\ \A i \in 1..Len(Tail(q)) : Tail(q)[i] = q[i + 1]
    BY <1>3, PipeElements
  <2>2. /\ DOMAIN Tail(q) = 1..Len(Tail(q)) /\ 1 \in 1..Len(q)
        /\ \A i \in 1..Len(Tail(q)) : i + 1 \in 1..Len(q) /\ i + 1 # 1
    BY <1>1, <1>3, <2>1
  <2>3. Differ(Tail(q), T)
    <3> SUFFICES ASSUME NEW i \in 1..Len(Tail(q)), NEW j \in 1..Len(Tail(q)),
                        Tail(q)[i] \in T, Tail(q)[i] = Tail(q)[j]
                 PROVE  i = j
      BY <2>2 DEF Differ
    <3>1. i + 1 = j + 1
      BY <1>1, <2>1, <2>2 DEF Differ
    <3> QED BY <3>1
  <2>4. Head(q) \in T => ~Contains(Tail(q), Head(q))
    BY <1>1, <2>1, <2>2 DEF Differ, Contains
  <2> QED BY <2>3, <2>4
<1> QED BY <1>2, <1>3

\* The jobs of a worker can be counted.
LEMMA JobsAreFinite ==
  ASSUME NEW w
  PROVE  IsFiniteSet(JobsOf(w)) /\ Cardinality(JobsOf(w)) \in Nat
<1>1. IsFiniteSet(Serial)
  BY FS_Interval, BoundAssumption DEF Serial
<1> QED BY <1>1, FS_Subset, FS_CardinalityType DEF JobsOf

\* At the start there are no jobs.
LEMMA InitOnce == Init => OnceInv /\ CountInv
<1> SUFFICES ASSUME Init PROVE OnceInv /\ CountInv
  OBVIOUS
<1>1. OnceInv
  BY DEF Init, OnceInv, JobIsOnce, Underway, Contains, Differ
<1>2. \A w \in Worker : JobsOf(w) = {}
  BY DEF Init, JobsOf
<1>3. CountInv
  BY <1>2, FS_EmptySet DEF Init, CountInv
<1> QED BY <1>1, <1>3

\* A step about one worker's pipes and jobs leaves the others theirs.
LEMMA OtherOnce ==
  ASSUME OnceInv, NEW w \in Worker, JobIsOnce(w)',
         \A v \in Worker \ {w} : /\ requests'[v] = requests[v] /\ tasks'[v] = tasks[v]
                                 /\ answers'[v] = answers[v],
         \A v \in Worker \ {w}, s \in Serial : <<s, v>> \in jobs => <<s, v>> \in jobs'
  PROVE  OnceInv'
<1> SUFFICES ASSUME NEW v \in Worker, v # w PROVE JobIsOnce(v)'
  BY DEF OnceInv
<1> QED BY DEF OnceInv, JobIsOnce, Underway

\* Execute: the new job has a number of its own.
LEMMA ExecuteOnce ==
  ASSUME NEW w \in Worker, PipeInv, OnceInv, CountInv, Execute(w)
  PROVE  OnceInv' /\ CountInv'
<1> DEFINE q == requests[w]
           n == serial'
           a == Append(q, JobMsg(n))
           b == Append(a, Shutdown)
<1>1. /\ n = serial + 1 /\ serial < MaxSerial
      /\ requests' = [requests EXCEPT ![w] = q \o Orders(n, Done(w)')]
      /\ jobs' = jobs \cup {<<n, w>>}
      /\ activeJobs' = [activeJobs EXCEPT ![w] = @ + 1]
      /\ UNCHANGED <<answers, tasks>>
  BY DEF Execute, process
<1>2. n \in Serial /\ n \in Nat /\ serial \in Nat
  BY <1>1, BoundAssumption DEF PipeInv, PipeTypes, Serial
<1>3. /\ q \in Seq(Message) /\ JobMsg(n) \in Message /\ Shutdown \in Message
      /\ a \in Seq(Message)
  BY <1>2, MessageTypes, AppendProperties DEF PipeInv, PipeTypes
<1>4. requests'[w] = a \/ requests'[w] = b
  <2>1. q \o (<<JobMsg(n)>> \o <<>>) = a
    BY <1>3
  <2>2. q \o (<<JobMsg(n)>> \o <<Shutdown>>) = b
    BY <1>3
  <2> HIDE DEF a, b, n
  <2> QED BY <1>1, <2>1, <2>2 DEF Orders, PipeInv, PipeTypes
<1>5. <<n, w>> \notin jobs /\ ~Underway(n, w)
  BY <1>1, <1>2 DEF CountInv, OnceInv, JobIsOnce
<1>6. Shutdown \notin JobMsgs /\ \A s \in Serial : JobMsg(s) # Shutdown
  BY MessageTypes DEF JobMsgs
<1>7. \A m : /\ Contains(a, m) <=> Contains(q, m) \/ JobMsg(n) = m
             /\ Contains(b, m) <=> Contains(a, m) \/ Shutdown = m
  <2>1. \A m : Contains(a, m) <=> Contains(q, m) \/ JobMsg(n) = m
    BY <1>3, PipeElements
  <2> HIDE DEF a
  <2>2. \A m : Contains(b, m) <=> Contains(a, m) \/ Shutdown = m
    BY <1>3, PipeElements
  <2> QED BY <2>1, <2>2
<1>8. Differ(a, JobMsgs) /\ Differ(b, JobMsgs)
  <2>1. Differ(q, JobMsgs) /\ ~Contains(q, JobMsg(n))
    BY <1>5 DEF OnceInv, JobIsOnce, Underway
  <2>2. Differ(a, JobMsgs)
    BY <1>3, <2>1, DifferStays
  <2> HIDE DEF a
  <2>3. Differ(b, JobMsgs)
    BY <1>3, <1>6, <2>2, DifferStays
  <2> QED BY <2>2, <2>3
<1>9. JobIsOnce(w)'
  <2>1. /\ answers'[w] = answers[w] /\ tasks'[w] = tasks[w]
        /\ Differ(requests'[w], JobMsgs)
        /\ \A s \in Serial : Contains(requests'[w], JobMsg(s)) =>
             Contains(q, JobMsg(s)) \/ s = n
    <3>1. \A s \in Serial : JobMsg(s) = JobMsg(n) => s = n
      BY <1>2, MessageTypes
    <3> HIDE DEF a, b, n
    <3> QED BY <1>1, <1>4, <1>6, <1>7, <1>8, <3>1
  <2>2. JobIsOnce(w)
    BY DEF OnceInv
  <2>3. <<n, w>> \in jobs' /\ jobs \subseteq jobs'
    BY <1>1
  <2> HIDE DEF n, a, b
  <2> QED BY <1>5, <2>1, <2>2, <2>3 DEF JobIsOnce, Underway
<1>10. OnceInv'
  <2>1. /\ \A v \in Worker \ {w} : /\ requests'[v] = requests[v] /\ tasks'[v] = tasks[v]
                                   /\ answers'[v] = answers[v]
        /\ \A v \in Worker \ {w}, s \in Serial : <<s, v>> \in jobs => <<s, v>> \in jobs'
    BY <1>1 DEF PipeInv, PipeTypes
  <2> QED BY <1>9, <2>1, OtherOnce
<1>11. CountInv'
  <2>1. /\ JobsOf(w)' = JobsOf(w) \cup {n} /\ n \notin JobsOf(w)
        /\ \A v \in Worker \ {w} : JobsOf(v)' = JobsOf(v)
    BY <1>1, <1>2, <1>5 DEF JobsOf
  <2>2. Cardinality(JobsOf(w)') = Cardinality(JobsOf(w)) + 1
    BY <2>1, JobsAreFinite, FS_AddElement
  <2>3. activeJobs' \in [Worker -> Nat]
    BY <1>1 DEF CountInv
  <2>4. \A v \in Worker : activeJobs'[v] = Cardinality(JobsOf(v)')
    BY <1>1, <2>1, <2>2 DEF CountInv
  <2>5. \A s \in Serial, v \in Worker : <<s, v>> \in jobs' => s <= serial'
    <3> SUFFICES ASSUME NEW s \in Serial, NEW v \in Worker, <<s, v>> \in jobs'
                 PROVE  s <= serial + 1
      BY <1>1
    <3>1. s = serial + 1 \/ s <= serial
      BY <1>1 DEF CountInv
    <3> QED BY <1>2, <3>1 DEF Serial
  <2> QED BY <2>3, <2>4, <2>5 DEF CountInv
<1> QED BY <1>10, <1>11

\* Cancel: its message is no job.
LEMMA CancelOnce ==
  ASSUME NEW s \in Serial, PipeInv, OnceInv, CountInv, Cancel(s)
  PROVE  OnceInv' /\ CountInv'
<1>1. PICK w \in workers : requests' = [requests EXCEPT ![w] = Append(@, CancelMsg(s))]
  BY DEF Cancel
<1>2. w \in Worker /\ UNCHANGED <<workers, activeJobs, serial, jobs, answers, tasks>>
  BY DEF Cancel, pool, process, PipeInv, PoolInv, PoolTypes
<1>3. requests[w] \in Seq(Message) /\ CancelMsg(s) \in Message /\ CancelMsg(s) \notin JobMsgs
  BY <1>2, MessageTypes DEF PipeInv, PipeTypes, JobMsgs
<1>4. /\ \A x \in Serial : Contains(Append(requests[w], CancelMsg(s)), JobMsg(x))
                             <=> Contains(requests[w], JobMsg(x))
      /\ Differ(Append(requests[w], CancelMsg(s)), JobMsgs)
  <2>1. \A x \in Serial : JobMsg(x) \in JobMsgs
    BY DEF JobMsgs
  <2>2. Differ(requests[w], JobMsgs)
    BY <1>2 DEF OnceInv, JobIsOnce
  <2> QED BY <1>3, <2>1, <2>2, PipeElements, DifferStays
<1>5. JobIsOnce(w)'
  <2>1. requests'[w] = Append(requests[w], CancelMsg(s))
    BY <1>1, <1>2 DEF PipeInv, PipeTypes
  <2> QED BY <1>2, <1>4, <2>1 DEF OnceInv, JobIsOnce, Underway
<1>6. OnceInv'
  <2>1. \A v \in Worker \ {w} : requests'[v] = requests[v]
    BY <1>1, <1>2 DEF PipeInv, PipeTypes
  <2> QED BY <1>2, <1>5, <2>1, OtherOnce
<1>7. CountInv'
  BY <1>2 DEF CountInv, JobsOf
<1> QED BY <1>6, <1>7

\* Answered: the job leaves the list with its only answer.
LEMMA AnsweredOnce ==
  ASSUME NEW w \in Worker, PipeInv, OnceInv, CountInv, Answered(w)
  PROVE  OnceInv' /\ CountInv'
<1> DEFINE h == Head(answers[w])
<1>1. /\ answers[w] # <<>> /\ jobs' = jobs \ {<<h, w>>}
      /\ activeJobs' = [activeJobs EXCEPT ![w] = @ - 1]
      /\ answers' = [answers EXCEPT ![w] = Tail(@)]
      /\ UNCHANGED <<workers, serial, requests, tasks>>
  BY DEF Answered, Released, process
<1>2. answers[w] \in Seq(Serial) /\ h \in Serial
  BY <1>1 DEF PipeInv, PipeTypes
<1>3. /\ \A x : Contains(answers[w], x) <=> h = x \/ Contains(Tail(answers[w]), x)
      /\ Differ(Tail(answers[w]), Serial) /\ ~Contains(Tail(answers[w]), h)
  <2>1. Differ(answers[w], Serial)
    BY DEF OnceInv, JobIsOnce
  <2> QED BY <1>1, <1>2, <2>1, PipeElements, DifferStays
<1>4. <<h, w>> \in jobs /\ h \notin tasks[w] /\ ~Contains(requests[w], JobMsg(h))
  BY <1>2, <1>3 DEF OnceInv, JobIsOnce, Underway
<1>5. answers'[w] = Tail(answers[w]) /\ \A v \in Worker \ {w} : answers'[v] = answers[v]
  BY <1>1 DEF PipeInv, PipeTypes
<1> HIDE DEF h
<1>6. JobIsOnce(w)'
  BY <1>1, <1>3, <1>4, <1>5 DEF OnceInv, JobIsOnce, Underway
<1>7. OnceInv'
  BY <1>1, <1>5, <1>6, OtherOnce
<1>8. CountInv'
  <2>1. /\ JobsOf(w)' = JobsOf(w) \ {h} /\ h \in JobsOf(w)
        /\ \A v \in Worker \ {w} : JobsOf(v)' = JobsOf(v)
    BY <1>1, <1>2, <1>4 DEF JobsOf
  <2>2. /\ Cardinality(JobsOf(w)') = Cardinality(JobsOf(w)) - 1
        /\ Cardinality(JobsOf(w)') \in Nat
    BY <2>1, JobsAreFinite, FS_RemoveElement, FS_Subset, FS_CardinalityType
  <2>3. activeJobs[w] - 1 = Cardinality(JobsOf(w)')
    BY <2>2 DEF CountInv
  <2> QED BY <1>1, <2>1, <2>2, <2>3 DEF CountInv
<1> QED BY <1>7, <1>8

\* Lost: the worker has nothing left.
LEMMA LostOnce ==
  ASSUME NEW w \in Worker, PipeInv, OnceInv, CountInv, Lost(w)
  PROVE  OnceInv' /\ CountInv'
<1>1. /\ jobs' = jobs \ FailedJobs(w) /\ answers[w] = <<>>
      /\ activeJobs' = [activeJobs EXCEPT ![w] = 0]
      /\ requests' = [requests EXCEPT ![w] = <<>>]
      /\ tasks' = [tasks EXCEPT ![w] = {}]
      /\ UNCHANGED <<serial, answers>>
  BY DEF Lost
<1>2. JobIsOnce(w)'
  <2>1. requests'[w] = <<>> /\ tasks'[w] = {} /\ answers'[w] = <<>>
    BY <1>1 DEF PipeInv, PipeTypes
  <2> QED BY <2>1 DEF JobIsOnce, Underway, Contains, Differ
<1>3. \A v \in Worker \ {w}, s \in Serial : <<s, v>> \in jobs => <<s, v>> \in jobs'
  BY <1>1 DEF FailedJobs
<1>4. \A v \in Worker \ {w} : requests'[v] = requests[v] /\ tasks'[v] = tasks[v]
  BY <1>1 DEF PipeInv, PipeTypes
<1>5. OnceInv'
  BY <1>1, <1>2, <1>3, <1>4, OtherOnce
<1>6. JobsOf(w)' = {} /\ \A v \in Worker \ {w} : JobsOf(v)' = JobsOf(v)
  BY <1>1, <1>3 DEF JobsOf, FailedJobs
<1>7. CountInv'
  BY <1>1, <1>6, FS_EmptySet DEF CountInv
<1> QED BY <1>5, <1>7

\* Receive: a job that leaves the pipe was there once.
LEMMA ReceiveOnce ==
  ASSUME NEW w \in Worker, PipeInv, OnceInv, CountInv, Receive(w)
  PROVE  OnceInv' /\ CountInv'
<1> DEFINE q == requests[w]
           m == Head(q)
<1>1. /\ q # <<>>
      /\ tasks' = [tasks EXCEPT ![w] = IF m.type = "job" THEN @ \cup {m.serial} ELSE @]
      /\ requests' = [requests EXCEPT ![w] = Tail(@)]
      /\ UNCHANGED <<workers, activeJobs, serial, jobs, answers>>
  BY DEF Receive, pool
<1>2. q \in Seq(Message) /\ m \in Message
  BY <1>1 DEF PipeInv, PipeTypes
<1>3. m.type = "job" => m.serial \in Serial /\ m = JobMsg(m.serial) /\ m \in JobMsgs
  BY <1>2 DEF Message, JobMsg, JobMsgs
<1>4. /\ \A x : Contains(q, x) <=> m = x \/ Contains(Tail(q), x)
      /\ Differ(Tail(q), JobMsgs)
      /\ m \in JobMsgs => ~Contains(Tail(q), m)
  <2>1. Differ(q, JobMsgs)
    BY DEF OnceInv, JobIsOnce
  <2> QED BY <1>1, <1>2, <2>1, PipeElements, DifferStays
<1>5. /\ requests'[w] = Tail(q)
      /\ tasks'[w] = IF m.type = "job" THEN tasks[w] \cup {m.serial} ELSE tasks[w]
      /\ \A v \in Worker \ {w} : requests'[v] = requests[v] /\ tasks'[v] = tasks[v]
  BY <1>1 DEF PipeInv, PipeTypes
<1> HIDE DEF m
<1>6. JobIsOnce(w)'
  <2>1. JobIsOnce(w) /\ tasks[w] \subseteq Serial
    BY DEF OnceInv, PipeInv, PipeTypes
  <2>2. CASE m.type # "job"
    BY <1>1, <1>4, <1>5, <2>1, <2>2 DEF JobIsOnce, Underway
  <2>3. CASE m.type = "job"
    <3> DEFINE n == m.serial
    <3>1. /\ n \in Serial /\ Contains(q, JobMsg(n)) /\ ~Contains(Tail(q), JobMsg(n))
          /\ tasks'[w] = tasks[w] \cup {n}
      BY <1>3, <1>4, <1>5, <2>3
    <3> HIDE DEF n
    <3>2. /\ <<n, w>> \in jobs /\ ~Contains(answers[w], n)
          /\ \A s \in Serial : Contains(Tail(q), JobMsg(s)) => Contains(q, JobMsg(s)) /\ s # n
      BY <1>4, <2>1, <3>1 DEF JobIsOnce, Underway
    <3> QED BY <1>1, <1>4, <1>5, <2>1, <3>1, <3>2 DEF JobIsOnce, Underway
  <2> QED BY <2>2, <2>3
<1>7. OnceInv'
  BY <1>1, <1>5, <1>6, OtherOnce
<1>8. CountInv'
  BY <1>1 DEF CountInv, JobsOf
<1> QED BY <1>7, <1>8

\* JobDone: a job is answered where it leaves the tasks.
LEMMA JobDoneOnce ==
  ASSUME NEW w \in Worker, NEW s \in tasks[w], PipeInv, OnceInv, CountInv, JobDone(w, s)
  PROVE  OnceInv' /\ CountInv'
<1>1. /\ tasks' = [tasks EXCEPT ![w] = @ \ {s}]
      /\ answers' = [answers EXCEPT ![w] = Append(@, s)]
      /\ UNCHANGED <<workers, activeJobs, serial, jobs, requests>>
  BY DEF JobDone, pool
<1>2. answers[w] \in Seq(Serial) /\ s \in Serial /\ JobIsOnce(w)
  BY DEF PipeInv, PipeTypes, OnceInv
<1>3. /\ tasks'[w] = tasks[w] \ {s} /\ answers'[w] = Append(answers[w], s)
      /\ \A v \in Worker \ {w} : answers'[v] = answers[v] /\ tasks'[v] = tasks[v]
  BY <1>1 DEF PipeInv, PipeTypes
<1>4. /\ \A x : Contains(Append(answers[w], s), x) <=> Contains(answers[w], x) \/ s = x
      /\ Differ(Append(answers[w], s), Serial)
  <2>1. Differ(answers[w], Serial) /\ ~Contains(answers[w], s)
    BY <1>2 DEF JobIsOnce
  <2> QED BY <1>2, <2>1, PipeElements, DifferStays
<1>5. JobIsOnce(w)'
  BY <1>1, <1>2, <1>3, <1>4 DEF JobIsOnce, Underway
<1>6. OnceInv'
  BY <1>1, <1>3, <1>5, OtherOnce
<1>7. CountInv'
  BY <1>1 DEF CountInv, JobsOf
<1> QED BY <1>6, <1>7

\* The other steps touch neither pipes nor jobs.
LEMMA OthersKeepOnce ==
  ASSUME OnceInv, CountInv,
         \/ UNCHANGED vars
         \/ \E w \in Worker : Spawned(w) \/ Euthanize(w) \/ Exit(w) \/ Fault(w)
  PROVE  OnceInv' /\ CountInv'
<1>1. UNCHANGED <<activeJobs, serial, jobs, requests, answers, tasks>>
  BY DEF Spawned, Euthanize, Exit, Fault, pool, vars
<1> QED BY <1>1 DEF OnceInv, JobIsOnce, Underway, CountInv, JobsOf

\* The pool's count of a worker's active jobs is what it says, so that the worker with the
\* fewest gets the next one, however jobs are cancelled, workers die or are replaced.
THEOREM ActiveAgreesHolds == Spec => []ActiveAgrees
<1>1. PipeInv /\ OnceInv /\ CountInv /\ [Next]_vars => OnceInv' /\ CountInv'
  BY ExecuteOnce, CancelOnce, AnsweredOnce, LostOnce, ReceiveOnce, JobDoneOnce,
     OthersKeepOnce DEF Next
<1>2. PipeInv /\ CountInv => ActiveAgrees
  BY DEF CountInv, ActiveAgrees, PipeInv, PoolInv, PoolTypes
<1> QED BY InitOnce, PipeInvHolds, <1>1, <1>2, PTL DEF Spec
================================================================================
