----------------------------- MODULE RunQueueProofs -----------------------------
(***************************************************************************)
(* Theorems about RunQueue, for every set of threads and every bound.      *)
(***************************************************************************)
EXTENDS RunQueue, SequenceTheorems, FiniteSetTheorems, TLAPS

--------------------------------------------------------------------------------
(* Sequences without repetition, such as self.workers and _waiters. *)

Distinct(s)    == \A i, j \in DOMAIN s : s[i] = s[j] => i = j
Has(s, w) == \E i \in DOMAIN s : s[i] = w

\* What RemoveAt leaves, element by element.
LEMMA RemoveAtElements ==
  ASSUME NEW S, NEW s \in Seq(S), NEW k \in 1..Len(s)
  PROVE  /\ RemoveAt(s, k) \in Seq(S)
         /\ Len(RemoveAt(s, k)) = Len(s) - 1
         /\ \A i \in 1..(Len(s) - 1) :
              RemoveAt(s, k)[i] = IF i < k THEN s[i] ELSE s[i + 1]
  <1> DEFINE a == SubSeq(s, 1, k - 1)
             b == SubSeq(s, k + 1, Len(s))
  <1>1. /\ a \in Seq(S) /\ Len(a) = k - 1
        /\ \A i \in 1..(k - 1) : a[i] = s[i]
    BY SubSeqProperties
  <1>2. /\ b \in Seq(S) /\ Len(b) = Len(s) - k
        /\ \A i \in 1..(Len(s) - k) : b[i] = s[i + k]
    BY SubSeqProperties
  <1>3. RemoveAt(s, k) = a \o b
    BY DEF RemoveAt
  <1> HIDE DEF a, b
  <1>4. /\ a \o b \in Seq(S) /\ Len(a \o b) = Len(a) + Len(b)
        /\ \A i \in 1..(Len(a) + Len(b)) :
             (a \o b)[i] = IF i <= Len(a) THEN a[i] ELSE b[i - Len(a)]
    BY <1>1, <1>2, ConcatProperties
  <1>5. ASSUME NEW i \in 1..(Len(s) - 1)
        PROVE  RemoveAt(s, k)[i] = IF i < k THEN s[i] ELSE s[i + 1]
    <2>1. CASE i < k
      BY <2>1, <1>1, <1>2, <1>3, <1>4
    <2>2. CASE i >= k
      <3>1. i - Len(a) \in 1..(Len(s) - k)
        BY <2>2, <1>1
      <3>2. b[i - Len(a)] = s[i - Len(a) + k]
        BY <3>1, <1>2
      <3> QED
        BY <2>2, <3>1, <3>2, <1>1, <1>2, <1>3, <1>4
    <2> QED
      BY <2>1, <2>2
  <1> QED
    BY <1>1, <1>2, <1>3, <1>4, <1>5

\* Removing an element from a sequence without repetition leaves all the others,
\* each once.
LEMMA RemovedElements ==
  ASSUME NEW S, NEW s \in Seq(S), Distinct(s), NEW w
  PROVE  /\ Removed(s, w) \in Seq(S)
         /\ Len(Removed(s, w)) <= Len(s)
         /\ Distinct(Removed(s, w))
         /\ \A v : Has(Removed(s, w), v) <=> Has(s, v) /\ v # w
  <1> DEFINE k == CHOOSE i \in DOMAIN s : s[i] = w
             r == Removed(s, w)
  <1>1. CASE ~Has(s, w)
    BY <1>1 DEF Removed, Has
  <1>2. CASE Has(s, w)
    <2>1. k \in 1..Len(s) /\ s[k] = w
      BY <1>2 DEF Has
    <2>2. r = RemoveAt(s, k)
      BY <1>2 DEF Removed, Has
    <2> HIDE DEF k, r
    <2>3. /\ r \in Seq(S) /\ Len(r) = Len(s) - 1
          /\ \A i \in 1..(Len(s) - 1) : r[i] = IF i < k THEN s[i] ELSE s[i + 1]
      BY <2>1, <2>2, RemoveAtElements
    <2>4. Distinct(r)
      <3> SUFFICES ASSUME NEW i \in 1..Len(r), NEW j \in 1..Len(r), r[i] = r[j]
                   PROVE  i = j
        BY DEF Distinct
      <3>1. i \in 1..(Len(s) - 1) /\ j \in 1..(Len(s) - 1)
        BY <2>3
      <3>2. PICK m \in 1..Len(s) : m = IF i < k THEN i ELSE i + 1
        BY <3>1, <2>1
      <3>3. PICK n \in 1..Len(s) : n = IF j < k THEN j ELSE j + 1
        BY <3>1, <2>1
      <3>4. s[m] = s[n]
        BY <3>1, <3>2, <3>3, <2>3
      <3>5. m = n
        BY <3>4 DEF Distinct
      <3> QED
        BY <3>1, <3>2, <3>3, <3>5, <2>1
    <2>5. ASSUME NEW v, Has(r, v) PROVE Has(s, v) /\ v # w
      <3>1. PICK i \in 1..(Len(s) - 1) : r[i] = v
        BY <2>3, <2>5 DEF Has
      <3>2. PICK j \in 1..Len(s) : s[j] = v /\ j # k
        BY <3>1, <2>1, <2>3
      <3> QED
        BY <3>2, <2>1 DEF Distinct, Has
    <2>6. ASSUME NEW v, Has(s, v), v # w PROVE Has(r, v)
      <3>1. PICK j \in 1..Len(s) : s[j] = v /\ j # k
        BY <2>6, <2>1 DEF Has
      <3>2. CASE j < k
        BY <3>1, <3>2, <2>1, <2>3 DEF Has
      <3>3. CASE j > k
        <4>1. j - 1 \in 1..(Len(s) - 1) /\ r[j - 1] = v
          BY <3>1, <3>3, <2>1, <2>3
        <4> QED
          BY <4>1, <2>3 DEF Has
      <3> QED
        BY <3>1, <3>2, <3>3, <2>1
    <2>7. \A v : Has(r, v) <=> Has(s, v) /\ v # w
      BY <2>5, <2>6
    <2> QED
      BY <2>3, <2>4, <2>7 DEF r
  <1> QED
    BY <1>1, <1>2

\* Appending a new element to a sequence without repetition.
LEMMA AppendedElements ==
  ASSUME NEW S, NEW s \in Seq(S), Distinct(s), NEW w \in S, ~Has(s, w)
  PROVE  /\ Append(s, w) \in Seq(S)
         /\ Len(Append(s, w)) = Len(s) + 1
         /\ Distinct(Append(s, w))
         /\ \A v : Has(Append(s, w), v) <=> Has(s, v) \/ v = w
  BY AppendProperties DEF Distinct, Has

\* Taking the head of a sequence without repetition.
LEMMA TailElements ==
  ASSUME NEW S, NEW s \in Seq(S), Distinct(s), s # <<>>
  PROVE  /\ Head(s) \in S /\ Has(s, Head(s))
         /\ Tail(s) \in Seq(S)
         /\ Distinct(Tail(s))
         /\ \A v : Has(Tail(s), v) <=> Has(s, v) /\ v # Head(s)
  <1> DEFINE t == Tail(s)
  <1>1. /\ t \in Seq(S) /\ Len(t) = Len(s) - 1
        /\ \A i \in 1..Len(t) : t[i] = s[i + 1]
        /\ Head(s) = s[1] /\ 1 \in 1..Len(s)
    BY HeadTailProperties
  <1> HIDE DEF t
  <1>2. Distinct(t)
    <2> SUFFICES ASSUME NEW i \in 1..Len(t), NEW j \in 1..Len(t), t[i] = t[j]
                 PROVE  i = j
      BY DEF Distinct
    <2>1. /\ i \in Int /\ j \in Int /\ Len(s) \in Nat
          /\ i + 1 \in 1..Len(s) /\ j + 1 \in 1..Len(s)
      BY <1>1
    <2>2. s[i + 1] = s[j + 1]
      BY <1>1
    <2>3. i + 1 = j + 1
      BY <2>1, <2>2 DEF Distinct
    <2> QED
      BY <2>1, <2>3
  <1>3. ASSUME NEW v, Has(t, v) PROVE Has(s, v) /\ v # Head(s)
    <2>1. PICK i \in 1..Len(t) : t[i] = v
      BY <1>3 DEF Has
    <2>2. i \in Int /\ i + 1 \in 1..Len(s) /\ i + 1 # 1 /\ s[i + 1] = v
      BY <1>1, <2>1
    <2>3. Has(s, v)
      BY <2>2 DEF Has
    <2>4. s[i + 1] # s[1]
      BY <1>1, <2>2 DEF Distinct
    <2> QED
      BY <1>1, <2>2, <2>3, <2>4
  <1>4. ASSUME NEW v, Has(s, v), v # Head(s) PROVE Has(t, v)
    <2>1. PICK i \in 1..Len(s) : s[i] = v /\ i # 1
      BY <1>1, <1>4 DEF Has
    <2>2. i - 1 \in 1..Len(t) /\ t[i - 1] = v
      BY <1>1, <2>1
    <2> QED
      BY <2>2, <1>1 DEF Has
  <1>5. Has(s, Head(s))
    BY <1>1 DEF Has
  <1>6. \A v : Has(t, v) <=> Has(s, v) /\ v # Head(s)
    BY <1>3, <1>4
  <1> QED
    BY <1>1, <1>2, <1>5, <1>6 DEF t

--------------------------------------------------------------------------------
(* The inductive invariant. *)

\* _waiters lists exactly the threads that wait, each once.
WaitersWait ==
  /\ Distinct(waiters)
  /\ \A w \in Worker : Has(waiters, w) <=> pc[w] = "wait"
  /\ \A w \in timed : pc[w] = "wait"

PoolInv == TypeOK /\ WorkersAreAlive /\ WaitersWait

\* WorkersAreAlive in terms of this module's operators.
LEMMA AliveIsListed ==
  ASSUME workers \in Seq(Worker)
  PROVE  WorkersAreAlive <=>
           /\ Distinct(workers)
           /\ \A w \in Worker : pc[w] # "none" <=> Has(workers, w)
  BY DEF WorkersAreAlive, Alive, Distinct, Has

\* WorkersAreAlive in terms of lists without repetition.
LEMMA AliveIsListedNext ==
  ASSUME workers' \in Seq(Worker)
  PROVE  WorkersAreAlive' <=>
           /\ Distinct(workers')
           /\ \A w \in Worker : pc'[w] # "none" <=> Has(workers', w)
  BY DEF WorkersAreAlive, Alive, Distinct, Has

\* What a step that wakes a waiter or starts a thread leaves; p is pc as the
\* caller leaves it.
LEMMA StartKeeps ==
  ASSUME PoolInv, NEW p,
         p \in [Worker -> {"none", "ready", "wait", "run", "ran", "leave"}],
         \A w \in Worker : p[w] # pc[w] => pc[w] = "run" /\ p[w] = "ran",
         StartWorkerIfNeeded(p)
  PROVE  /\ workers' \in Seq(Worker) /\ Len(workers') <= MaxThreads
         /\ waiters' \in Seq(Worker)
         /\ timed' \subseteq Worker /\ expired' \subseteq timed'
         /\ pc' \in [Worker -> {"none", "ready", "wait", "run", "ran", "leave"}]
         /\ runs' \in [Worker -> 0..(MaxRunCount + 1)]
         /\ WorkersAreAlive' /\ WaitersWait'
  <1> USE ThreadAssumption
  <1>1. CASE Notify(p)
    <2> DEFINE w == Head(waiters)
    <2>1. /\ w \in Worker /\ pc[w] = "wait" /\ p[w] = "wait"
          /\ waiters' \in Seq(Worker) /\ Distinct(waiters')
          /\ \A v : Has(waiters', v) <=> Has(waiters, v) /\ v # w
      <3>1. waiters \in Seq(Worker) /\ Distinct(waiters) /\ waiters # <<>>
        BY <1>1 DEF PoolInv, TypeOK, WaitersWait, Notify
      <3>2. /\ w \in Worker /\ Has(waiters, w)
            /\ waiters' \in Seq(Worker) /\ Distinct(waiters')
            /\ \A v : Has(waiters', v) <=> Has(waiters, v) /\ v # w
        BY <3>1, <1>1, TailElements DEF Notify
      <3> QED
        BY <3>2 DEF PoolInv, WaitersWait
    <2>2. /\ timed' = timed \ {w} /\ expired' = expired \ {w}
          /\ pc' = [p EXCEPT ![w] = "ready"]
          /\ workers' = workers /\ runs' = runs
      BY <1>1 DEF Notify
    <2> HIDE DEF w
    <2>3. WaitersWait'
      BY <2>1, <2>2 DEF PoolInv, TypeOK, WaitersWait
    <2>4. WorkersAreAlive'
      <3>1. \A v \in Worker : pc'[v] # "none" <=> pc[v] # "none"
        BY <2>1, <2>2
      <3> QED
        BY <3>1, <2>2, AliveIsListed, AliveIsListedNext DEF PoolInv, TypeOK
    <2> QED
      BY <2>1, <2>2, <2>3, <2>4 DEF PoolInv, TypeOK
  <1>2. CASE StartWorker(p)
    <2>1. PICK w \in Worker \ (Alive \cup {target}) :
            /\ workers' = Append(workers, w)
            /\ pc' = [p EXCEPT ![w] = "ready"]
            /\ runs' = [runs EXCEPT ![w] = 0]
      BY <1>2 DEF StartWorker
    <2>2. pc[w] = "none" /\ p[w] = "none"
      BY <2>1 DEF Alive
    <2>3. /\ waiters' = waiters /\ timed' = timed /\ expired' = expired
          /\ Len(workers) < MaxThreads
      BY <1>2 DEF StartWorker, cond, HasRoom
    <2>4. /\ workers \in Seq(Worker) /\ Distinct(workers) /\ ~Has(workers, w)
          /\ \A v \in Worker : pc[v] # "none" <=> Has(workers, v)
      BY <2>1, <2>2, AliveIsListed DEF PoolInv, TypeOK
    <2>5. /\ workers' \in Seq(Worker) /\ Len(workers') = Len(workers) + 1
          /\ Distinct(workers')
          /\ \A v : Has(workers', v) <=> Has(workers, v) \/ v = w
      BY <2>1, <2>4, AppendedElements
    <2>6. WorkersAreAlive'
      <3>1. \A v \in Worker : pc'[v] # "none" <=> Has(workers', v)
        BY <2>1, <2>2, <2>4, <2>5
      <3> QED
        BY <3>1, <2>5, AliveIsListedNext
    <2>7. WaitersWait'
      BY <2>1, <2>2, <2>3 DEF PoolInv, TypeOK, WaitersWait
    <2>8. Len(workers') <= MaxThreads
      BY <2>3, <2>4, <2>5
    <2> QED
      BY <2>1, <2>3, <2>5, <2>6, <2>7, <2>8 DEF PoolInv, TypeOK
  <1>3. CASE AllBusy(p)
    <2>1. /\ pc' = p /\ waiters' = waiters /\ timed' = timed /\ expired' = expired
          /\ workers' = workers /\ runs' = runs
      BY <1>3 DEF AllBusy, cond
    <2>2. WaitersWait'
      BY <2>1 DEF PoolInv, TypeOK, WaitersWait
    <2>3. WorkersAreAlive'
      BY <2>1, AliveIsListed, AliveIsListedNext DEF PoolInv, TypeOK
    <2> QED
      BY <2>1, <2>2, <2>3 DEF PoolInv, TypeOK
  <1> QED
    BY <1>1, <1>2, <1>3 DEF StartWorkerIfNeeded

\* What waiters lists once w no longer waits.
LEMMA NotWaitingElements ==
  ASSUME PoolInv, NEW w
  PROVE  /\ Removed(waiters, w) \in Seq(Worker)
         /\ Distinct(Removed(waiters, w))
         /\ \A v \in Worker : Has(Removed(waiters, w), v) <=> pc[v] = "wait" /\ v # w
  <1>1. waiters \in Seq(Worker) /\ Distinct(waiters)
    BY DEF PoolInv, TypeOK, WaitersWait
  <1> QED
    BY <1>1, RemovedElements DEF PoolInv, WaitersWait

\* A thread that is alive and goes on changes neither list but by leaving the waiters.
LEMMA LooksKeeps ==
  ASSUME PoolInv, NEW w \in Worker, IsAwake(w), NEW q \in {"run", "leave"},
         NotWaiting(w), pc' = [pc EXCEPT ![w] = q], workers' = workers
  PROVE  /\ waiters' \in Seq(Worker)
         /\ timed' \subseteq Worker /\ expired' \subseteq timed'
         /\ pc' \in [Worker -> {"none", "ready", "wait", "run", "ran", "leave"}]
         /\ WorkersAreAlive' /\ WaitersWait'
  <1>1. pc[w] \in {"ready", "wait"}
    BY DEF IsAwake, PoolInv, TypeOK, WaitersWait
  <1>2. /\ waiters' \in Seq(Worker) /\ Distinct(waiters')
        /\ \A v \in Worker : Has(waiters', v) <=> pc[v] = "wait" /\ v # w
    BY NotWaitingElements DEF NotWaiting
  <1>3. WaitersWait'
    BY <1>2 DEF NotWaiting, PoolInv, TypeOK, WaitersWait
  <1>4. WorkersAreAlive'
    <2>1. \A v \in Worker : pc'[v] # "none" <=> pc[v] # "none"
      BY <1>1 DEF PoolInv, TypeOK
    <2> QED
      BY <2>1, AliveIsListed, AliveIsListedNext DEF PoolInv, TypeOK
  <1> QED
    BY <1>2, <1>3, <1>4 DEF NotWaiting, PoolInv, TypeOK

\* A thread that ends leaves the list, and the others stay.
LEMMA EndKeeps ==
  ASSUME PoolInv, NEW w \in Worker, pc[w] \in {"run", "ran", "leave"},
         pc' = [pc EXCEPT ![w] = "none"], workers' = Without(w), UNCHANGED cond
  PROVE  /\ workers' \in Seq(Worker) /\ Len(workers') <= MaxThreads
         /\ WorkersAreAlive' /\ WaitersWait'
  <1>1. /\ workers \in Seq(Worker) /\ Distinct(workers)
        /\ \A v \in Worker : pc[v] # "none" <=> Has(workers, v)
    BY AliveIsListed DEF PoolInv, TypeOK
  <1>2. /\ workers' \in Seq(Worker) /\ Len(workers') <= Len(workers)
        /\ Distinct(workers')
        /\ \A v : Has(workers', v) <=> Has(workers, v) /\ v # w
    BY <1>1, RemovedElements DEF Without
  <1>3. WorkersAreAlive'
    <2>1. \A v \in Worker : pc'[v] # "none" <=> Has(workers', v)
      BY <1>1, <1>2 DEF PoolInv, TypeOK
    <2> QED
      BY <2>1, <1>2, AliveIsListedNext
  <1>4. WaitersWait'
    BY DEF PoolInv, TypeOK, WaitersWait, cond
  <1>5. Len(workers') <= MaxThreads
    <2>1. Len(workers) \in Nat /\ Len(workers') \in Nat /\ Len(workers) <= MaxThreads
      BY <1>1, <1>2 DEF PoolInv, TypeOK
    <2> QED
      BY <2>1, <1>2, ThreadAssumption
  <1> QED
    BY <1>2, <1>3, <1>4, <1>5

\* A step that leaves the threads and the condition alone keeps both lists.
LEMMA OthersKeep ==
  ASSUME PoolInv, UNCHANGED <<workers, waiters, timed, pc>>
  PROVE  WorkersAreAlive' /\ WaitersWait'
  <1>1. WorkersAreAlive'
    BY AliveIsListed, AliveIsListedNext DEF PoolInv, TypeOK
  <1>2. WaitersWait'
    BY DEF PoolInv, TypeOK, WaitersWait
  <1> QED
    BY <1>1, <1>2

\* The pool starts empty.
LEMMA InitPoolInv == Init => PoolInv
  <1> SUFFICES ASSUME Init PROVE PoolInv
    OBVIOUS
  <1> USE ThreadAssumption, BoundAssumption
  <1>1. TypeOK
    <2>1. workers \in Seq(Worker) /\ waiters \in Seq(Worker) /\ Len(workers) = 0
      BY DEF Init
    <2>2. runs \in [Worker -> 0..(MaxRunCount + 1)]
      BY DEF Init
    <2>3. /\ queue \in 0..MaxQueue /\ scheduled + due <= MaxQueue
          /\ Len(workers) <= MaxThreads
      BY <2>1 DEF Init
    <2>4. /\ pc \in [Worker -> {"none", "ready", "wait", "run", "ran", "leave"}]
          /\ timed \subseteq Worker /\ expired \subseteq timed
          /\ index \in Nat \ {0} /\ target \in Worker \cup {NoWorker}
          /\ scheduled \in Nat /\ due \in Nat
      BY DEF Init
    <2>5. /\ stop \in BOOLEAN /\ held \in BOOLEAN
          /\ main \in {"loop", "enq", "release", "terminate", "join", "joining", "exit"}
      BY DEF Init
    <2> QED
      BY <2>1, <2>2, <2>3, <2>4, <2>5, Zenon DEF TypeOK
  <1>2. WorkersAreAlive
    BY DEF Init, WorkersAreAlive, Alive
  <1>3. WaitersWait
    BY DEF Init, WaitersWait, Distinct, Has
  <1> QED
    BY <1>1, <1>2, <1>3 DEF PoolInv

\* Every step keeps the invariant of the pool.
LEMMA NextPoolInv == PoolInv /\ [Next]_vars => PoolInv'
  <1> SUFFICES ASSUME PoolInv, [Next]_vars PROVE PoolInv'
    OBVIOUS
  <1> USE ThreadAssumption, BoundAssumption
  <1>0. /\ queue \in 0..MaxQueue /\ MaxQueue \in Nat
        /\ scheduled \in Nat /\ due \in Nat /\ scheduled + due <= MaxQueue
    BY DEF PoolInv, TypeOK
  <1>1. CASE Enq
    <2>1. StartWorkerIfNeeded(pc)
      BY <1>1 DEF Enq
    <2>2. pc \in [Worker -> {"none", "ready", "wait", "run", "ran", "leave"}]
      BY DEF PoolInv, TypeOK
    <2>3. /\ workers' \in Seq(Worker) /\ Len(workers') <= MaxThreads
          /\ waiters' \in Seq(Worker)
          /\ timed' \subseteq Worker /\ expired' \subseteq timed'
          /\ pc' \in [Worker -> {"none", "ready", "wait", "run", "ran", "leave"}]
          /\ runs' \in [Worker -> 0..(MaxRunCount + 1)]
          /\ WorkersAreAlive' /\ WaitersWait'
      BY <2>1, <2>2, StartKeeps
    <2>4. /\ queue' \in 0..MaxQueue /\ main' = "release"
          /\ UNCHANGED <<scheduled, due, stop, held, index, target>>
      BY <1>0, <1>1 DEF Enq, join
    <2> QED
      BY <2>3, <2>4 DEF PoolInv, TypeOK
  <1>2. ASSUME NEW w \in Worker, Retry(w) PROVE PoolInv'
    <2> DEFINE p == [pc EXCEPT ![w] = "ran"]
    <2>1. /\ StartWorkerIfNeeded(p)
          /\ p \in [Worker -> {"none", "ready", "wait", "run", "ran", "leave"}]
          /\ \A v \in Worker : p[v] # pc[v] => pc[v] = "run" /\ p[v] = "ran"
      BY <1>2 DEF Retry, PoolInv, TypeOK
    <2> HIDE DEF p
    <2>2. /\ workers' \in Seq(Worker) /\ Len(workers') <= MaxThreads
          /\ waiters' \in Seq(Worker)
          /\ timed' \subseteq Worker /\ expired' \subseteq timed'
          /\ pc' \in [Worker -> {"none", "ready", "wait", "run", "ran", "leave"}]
          /\ runs' \in [Worker -> 0..(MaxRunCount + 1)]
          /\ WorkersAreAlive' /\ WaitersWait'
      BY <2>1, StartKeeps
    <2>3. /\ scheduled' \in Nat /\ scheduled' + due <= MaxQueue
          /\ UNCHANGED <<queue, due, stop, main, held, index, target>>
      BY <1>0, <1>2 DEF Retry, join
    <2> QED
      BY <2>2, <2>3 DEF PoolInv, TypeOK
  <1>3. ASSUME NEW w \in Worker, Deq(w) PROVE PoolInv'
    <2>1. /\ IsAwake(w) /\ NotWaiting(w) /\ workers' = workers
          /\ pc' = [pc EXCEPT ![w] = "run"]
      BY <1>3 DEF Deq, MayDeq
    <2>2. queue' \in 0..MaxQueue /\ due' \in Nat /\ scheduled + due' <= MaxQueue
      <3>1. \/ due > 0 /\ due' = due - 1 /\ queue' = queue
            \/ queue > 0 /\ queue' = queue - 1 /\ due' = due
        BY <1>3 DEF Deq, Take
      <3> QED
        BY <1>0, <3>1
    <2>3. runs' \in [Worker -> 0..(MaxRunCount + 1)]
      BY <1>3 DEF Deq, PoolInv, TypeOK
    <2>4. UNCHANGED <<scheduled, stop, main, held, index, target>>
      BY <1>3 DEF Deq, join
    <2> QED
      BY <2>1, <2>2, <2>3, <2>4, LooksKeeps DEF PoolInv, TypeOK
  <1>4. ASSUME NEW w \in Worker, Quit(w) PROVE PoolInv'
    <2>1. /\ IsAwake(w) /\ NotWaiting(w) /\ workers' = workers
          /\ pc' = [pc EXCEPT ![w] = "leave"]
          /\ UNCHANGED <<queue, scheduled, due, runs, stop, main, held, index, target>>
      BY <1>4 DEF Quit, MayDeq, queues, join
    <2> QED
      BY <2>1, LooksKeeps DEF PoolInv, TypeOK
  <1>5. ASSUME NEW w \in Worker, Wait(w) PROVE PoolInv'
    <2>1. /\ IsAwake(w) /\ workers' = workers
          /\ pc' = [pc EXCEPT ![w] = "wait"]
          /\ waiters' = Append(Removed(waiters, w), w)
          /\ timed' \in {timed \cup {w}, timed \ {w}}
          /\ expired' = expired \ {w}
          /\ UNCHANGED <<queue, scheduled, due, runs, stop, main, held, index, target>>
      BY <1>5 DEF Wait, Limit, MayDeq, queues, join
    <2>2. pc[w] \in {"ready", "wait"}
      BY <2>1 DEF IsAwake, PoolInv, TypeOK, WaitersWait
    <2>3. /\ Removed(waiters, w) \in Seq(Worker)
          /\ Distinct(Removed(waiters, w))
          /\ \A v \in Worker : Has(Removed(waiters, w), v) <=> pc[v] = "wait" /\ v # w
      BY NotWaitingElements
    <2>4. /\ waiters' \in Seq(Worker) /\ Distinct(waiters')
          /\ \A v : Has(waiters', v) <=> Has(Removed(waiters, w), v) \/ v = w
      BY <2>1, <2>3, AppendedElements
    <2>5. WaitersWait'
      BY <2>1, <2>3, <2>4 DEF PoolInv, TypeOK, WaitersWait
    <2>6. WorkersAreAlive'
      <3>1. \A v \in Worker : pc'[v] # "none" <=> pc[v] # "none"
        BY <2>1, <2>2 DEF PoolInv, TypeOK
      <3> QED
        BY <2>1, <3>1, AliveIsListed, AliveIsListedNext DEF PoolInv, TypeOK
    <2> QED
      BY <2>1, <2>4, <2>5, <2>6 DEF PoolInv, TypeOK
  <1>6. ASSUME NEW w \in Worker, Done(w) PROVE PoolInv'
    <2>1. /\ pc[w] \in {"run", "ran"} /\ UNCHANGED cond
          /\ UNCHANGED <<queue, scheduled, due, runs, stop, main, held, index, target>>
          /\ \/ pc' = [pc EXCEPT ![w] = "none"] /\ workers' = Without(w)
             \/ pc' = [pc EXCEPT ![w] = "ready"] /\ workers' = workers
      BY <1>6 DEF Done, Executing, queues, join
    <2>2. CASE pc' = [pc EXCEPT ![w] = "none"] /\ workers' = Without(w)
      BY <2>1, <2>2, EndKeeps DEF PoolInv, TypeOK, cond
    <2>3. CASE pc' = [pc EXCEPT ![w] = "ready"] /\ workers' = workers
      <3>1. WorkersAreAlive'
        <4>1. \A v \in Worker : pc'[v] # "none" <=> pc[v] # "none"
          BY <2>1, <2>3 DEF PoolInv, TypeOK
        <4> QED
          BY <2>3, <4>1, AliveIsListed, AliveIsListedNext DEF PoolInv, TypeOK
      <3>2. WaitersWait'
        BY <2>1, <2>3 DEF PoolInv, TypeOK, WaitersWait, cond
      <3> QED
        BY <2>1, <2>3, <3>1, <3>2 DEF PoolInv, TypeOK, cond
    <2> QED
      BY <2>1, <2>2, <2>3
  <1>7. ASSUME NEW w \in Worker, Leave(w) PROVE PoolInv'
    <2>1. /\ pc[w] = "leave" /\ UNCHANGED cond
          /\ UNCHANGED <<queue, scheduled, due, runs, stop, main, held, index, target>>
          /\ pc' = [pc EXCEPT ![w] = "none"] /\ workers' = Without(w)
      BY <1>7 DEF Leave, queues, join
    <2> QED
      BY <2>1, EndKeeps DEF PoolInv, TypeOK, cond
  <1>8. CASE Tick
    <2>1. /\ expired' = timed
          /\ UNCHANGED <<queue, waiters, timed, workers, pc, runs, stop, main, held,
                         index, target>>
      BY <1>8 DEF Tick, Over, threads, join, PoolInv, TypeOK
    <2>2. scheduled' \in Nat /\ due' \in Nat /\ scheduled' + due' <= MaxQueue
      <3>1. scheduled > 0 /\ scheduled' = scheduled - 1 /\ due' = due + 1
        BY <1>8 DEF Tick
      <3> QED
        BY <1>0, <3>1
    <2> QED
      BY <2>1, <2>2, OthersKeep DEF PoolInv, TypeOK
  <1>9. CASE SetStop
    <2>1. /\ waiters' = <<>> /\ timed' = {} /\ expired' = {}
          /\ pc' = [w \in Worker |-> IF pc[w] = "wait" THEN "ready" ELSE pc[w]]
          /\ stop' = TRUE /\ index' = 1 /\ main' = "join"
          /\ UNCHANGED <<queue, scheduled, due, workers, runs, held, target>>
      BY <1>9 DEF SetStop, NotifyAll, queues
    <2>2. WaitersWait'
      BY <2>1 DEF WaitersWait, Distinct, Has, PoolInv, TypeOK
    <2>3. WorkersAreAlive'
      <3>1. \A v \in Worker : pc'[v] # "none" <=> pc[v] # "none"
        BY <2>1 DEF PoolInv, TypeOK
      <3> QED
        BY <2>1, <3>1, AliveIsListed, AliveIsListedNext DEF PoolInv, TypeOK
    <2> QED
      BY <2>1, <2>2, <2>3 DEF PoolInv, TypeOK
  <1>10. CASE \/ Acquire \/ Release \/ Signal \/ NextToJoin \/ Joined \/ Exit
              \/ Terminated \/ UNCHANGED vars
    <2>1. /\ UNCHANGED <<queue, scheduled, due, waiters, timed, expired, workers, pc,
                         runs, stop>>
          /\ main' \in {main, "enq", "loop", "terminate", "joining", "join", "exit"}
          /\ held' \in {held, TRUE, FALSE}
          /\ index' \in {index, index + 1}
      BY <1>10 DEF Acquire, Release, Signal, NextToJoin, Joined, Exit, Terminated,
                   queues, cond, threads, join, vars
    <2>2. target' \in Worker \cup {NoWorker}
      <3>1. CASE NextToJoin
        <4>1. workers \in Seq(Worker) /\ index \in 1..Len(workers)
          BY <3>1 DEF NextToJoin, PoolInv, TypeOK
        <4>2. workers[index] \in Worker
          BY <4>1
        <4> QED
          BY <3>1, <4>1, <4>2 DEF NextToJoin
      <3>2. CASE ~NextToJoin
        BY <1>10, <3>2 DEF Acquire, Release, Signal, Joined, Exit, Terminated, join,
                           vars, PoolInv, TypeOK
      <3> QED
        BY <3>1, <3>2
    <2>3. WorkersAreAlive' /\ WaitersWait'
      BY <2>1, OthersKeep
    <2>4. held' \in BOOLEAN /\ index' \in Nat \ {0}
      <3>1. held \in BOOLEAN /\ index \in Nat \ {0}
        BY DEF PoolInv, TypeOK
      <3>2. held' \in BOOLEAN
        BY <3>1, <2>1, Zenon
      <3>3. index' \in Nat \ {0}
        BY <3>1, <2>1
      <3> QED
        BY <3>2, <3>3
    <2>5. main' \in {"loop", "enq", "release", "terminate", "join", "joining", "exit"}
      BY <2>1 DEF PoolInv, TypeOK
    <2>6. TypeOK'
      BY <2>1, <2>2, <2>4, <2>5 DEF PoolInv, TypeOK
    <2> QED
      BY <2>3, <2>6 DEF PoolInv
  <1> QED
    BY <1>1, <1>2, <1>3, <1>4, <1>5, <1>6, <1>7, <1>8, <1>9, <1>10 DEF Next, Looks

\* The invariant of the pool holds in every behaviour.
LEMMA PoolInvHolds == Spec => []PoolInv
  BY InitPoolInv, NextPoolInv, PTL DEF Spec

\* The variables of the pool keep their shape, and the pool its bound, whatever the
\* number of threads.
THEOREM TypeCorrect == Spec => []TypeOK
  BY PoolInvHolds, PTL DEF PoolInv

\* self.workers lists exactly the threads that are alive: none is lost to the pool
\* by being recycled, stopped or interrupted.
THEOREM WorkersAreAliveHolds == Spec => []WorkersAreAlive
  BY PoolInvHolds, PTL DEF PoolInv

--------------------------------------------------------------------------------
(* RunQueue implements WorkPool. *)

\* There are no more threads than the list has elements.
LEMMA AliveIsBounded ==
  ASSUME PoolInv
  PROVE  IsFiniteSet(Alive) /\ Cardinality(Alive) <= MaxThreads
  <1> DEFINE n == Len(workers)
  <1>1. /\ workers \in Seq(Worker) /\ n \in Nat /\ n <= MaxThreads
        /\ \A v \in Worker : pc[v] # "none" <=> Has(workers, v)
    BY AliveIsListed DEF PoolInv, TypeOK
  <1>2. DOMAIN workers = 1..n
    BY <1>1
  <1>3. workers \in Surjection(1..n, Alive)
    <2>1. \A i \in 1..n : workers[i] \in Alive
      BY <1>1, <1>2 DEF Alive, Has
    <2>2. workers \in [1..n -> Alive]
      <3>1. workers = [i \in 1..n |-> workers[i]]
        BY <1>1
      <3> QED
        BY <2>1, <3>1
    <2>3. \A v \in Alive : \E i \in 1..n : workers[i] = v
      BY <1>1, <1>2 DEF Alive, Has
    <2> QED
      BY <2>2, <2>3 DEF Surjection
  <1>4. IsFiniteSet(1..n) /\ Cardinality(1..n) = n
    <2>1. 1 \in Int /\ n \in Int
      BY <1>1
    <2>2. /\ IsFiniteSet(1..n)
          /\ Cardinality(1..n) = IF 1 > n THEN 0 ELSE n - 1 + 1
      BY <2>1, FS_Interval, Zenon
    <2> HIDE DEF n
    <2>3. (IF 1 > n THEN 0 ELSE n - 1 + 1) = n
      BY <1>1
    <2> QED
      BY <2>2, <2>3
  <1>5. IsFiniteSet(Alive) /\ Cardinality(Alive) <= n
    BY <1>3, <1>4, FS_Surjection
  <1> QED
    BY <1>1, <1>5, FS_CardinalityType, ThreadAssumption

\* Only so many threads execute at a time that they can be counted.
LEMMA ExecutingIsFinite ==
  ASSUME PoolInv
  PROVE  IsFiniteSet(Executing) /\ Cardinality(Executing) \in Nat
  <1>1. Executing \in SUBSET Alive
    BY DEF Executing, Alive
  <1> QED
    BY <1>1, AliveIsBounded, FS_Subset, FS_CardinalityType

\* A thread that is alive and executes nothing leaves room below MaxThreads.
LEMMA RoomForTheIdle ==
  ASSUME PoolInv, NEW w \in Worker, pc[w] # "none", w \notin Executing
  PROVE  /\ Cardinality(Executing) < MaxThreads
         /\ Cardinality(Executing \cup {w}) = Cardinality(Executing) + 1
  <1>1. IsFiniteSet(Alive) /\ Cardinality(Alive) <= MaxThreads /\ Cardinality(Alive) \in Nat
    BY AliveIsBounded, FS_CardinalityType
  <1>2. Executing \cup {w} \in SUBSET Alive
    BY DEF Executing, Alive
  <1>3. Cardinality(Executing \cup {w}) <= Cardinality(Alive)
    BY <1>1, <1>2, FS_Subset
  <1>4. Cardinality(Executing \cup {w}) = Cardinality(Executing) + 1
    BY ExecutingIsFinite, FS_AddElement
  <1> QED
    BY <1>1, <1>3, <1>4, ExecutingIsFinite, ThreadAssumption

\* Waking a waiter or starting a thread executes nothing yet.
LEMMA StartExecutesNothing ==
  ASSUME PoolInv, NEW p,
         p \in [Worker -> {"none", "ready", "wait", "run", "ran", "leave"}],
         \A w \in Worker : p[w] # pc[w] => pc[w] = "run" /\ p[w] = "ran",
         StartWorkerIfNeeded(p)
  PROVE  Executing' = Executing
  <1>1. CASE Notify(p)
    <2>1. Head(waiters) \in Worker /\ pc[Head(waiters)] = "wait"
      <3>1. waiters \in Seq(Worker) /\ Distinct(waiters) /\ waiters # <<>>
        BY <1>1 DEF PoolInv, TypeOK, WaitersWait, Notify
      <3> QED
        BY <3>1, TailElements DEF PoolInv, WaitersWait
    <2> QED
      BY <1>1, <2>1 DEF Notify, Executing
  <1>2. CASE StartWorker(p)
    BY <1>2 DEF StartWorker, Executing, Alive
  <1>3. CASE AllBusy(p)
    BY <1>3 DEF AllBusy, Executing
  <1> QED
    BY <1>1, <1>2, <1>3 DEF StartWorkerIfNeeded

\* An empty pool is an empty WorkPool.
LEMMA InitImplements == Init => Pool!Init
  <1> SUFFICES ASSUME Init PROVE Pool!Init
    OBVIOUS
  <1>1. Executing = {}
    BY DEF Init, Executing
  <1> QED
    BY <1>1, FS_EmptySet DEF Init, Pool!Init

\* Every step of the pool is a step of WorkPool or leaves it alone.
LEMMA NextImplements ==
  ASSUME PoolInv, [Next]_vars
  PROVE  [Pool!Next]_(Pool!vars)
  <1> DEFINE pending == queue + scheduled + due
  <1> USE DEF Pool!vars
  <1>1. CASE Enq
    <2>1. pc \in [Worker -> {"none", "ready", "wait", "run", "ran", "leave"}]
      BY DEF PoolInv, TypeOK
    <2>2. Executing' = Executing
      BY <1>1, <2>1, StartExecutesNothing DEF Enq
    <2>3. stop' = stop /\ (pending' = pending + 1 \/ pending' = pending)
      BY <1>1 DEF Enq, PoolInv, TypeOK
    <2> QED
      BY <2>2, <2>3 DEF Pool!Next, Pool!Submit
  <1>2. ASSUME NEW w \in Worker, Retry(w) PROVE Pool!Next
    <2> DEFINE p == [pc EXCEPT ![w] = "ran"]
    <2>1. /\ StartWorkerIfNeeded(p)
          /\ p \in [Worker -> {"none", "ready", "wait", "run", "ran", "leave"}]
          /\ \A v \in Worker : p[v] # pc[v] => pc[v] = "run" /\ p[v] = "ran"
      BY <1>2 DEF Retry, PoolInv, TypeOK
    <2> HIDE DEF p
    <2>2. Executing' = Executing
      BY <2>1, StartExecutesNothing
    <2>3. stop' = stop /\ pending' = pending + 1
      BY <1>2 DEF Retry, PoolInv, TypeOK
    <2> QED
      BY <2>2, <2>3 DEF Pool!Next, Pool!Submit
  <1>3. ASSUME NEW w \in Worker, Deq(w) PROVE Pool!Next
    <2>1. pc[w] \in {"ready", "wait"}
      BY <1>3 DEF Deq, MayDeq, IsAwake, PoolInv, TypeOK, WaitersWait
    <2>2. w \notin Executing /\ Executing' = Executing \cup {w}
      BY <1>3, <2>1 DEF Deq, Executing, PoolInv, TypeOK
    <2>3. /\ Cardinality(Executing) < MaxThreads
          /\ Cardinality(Executing') = Cardinality(Executing) + 1
      BY <2>1, <2>2, RoomForTheIdle
    <2>4. ~stop /\ stop' = stop
      BY <1>3, Zenon DEF Deq, Working
    <2>5. pending > 0 /\ pending' = pending - 1
      <3>1. Take /\ scheduled' = scheduled
        BY <1>3, Zenon DEF Deq
      <3>2. queue \in Nat /\ scheduled \in Nat /\ due \in Nat
        BY BoundAssumption DEF PoolInv, TypeOK
      <3>3. CASE due > 0 /\ due' = due - 1 /\ queue' = queue
        BY <3>1, <3>2, <3>3
      <3>4. CASE due = 0 /\ queue > 0 /\ queue' = queue - 1 /\ due' = due
        BY <3>1, <3>2, <3>4
      <3> QED
        BY <3>1, <3>3, <3>4, Zenon DEF Take
    <2>6. Pool!Take
      BY <2>3, <2>4, <2>5 DEF Pool!Take
    <2> QED
      BY <2>6 DEF Pool!Next
  <1>4. ASSUME NEW w \in Worker, Done(w) PROVE Pool!Next
    <2>1. w \in Executing /\ Executing' = Executing \ {w}
      BY <1>4 DEF Done, Executing, PoolInv, TypeOK
    <2>2. stop' = stop /\ pending' = pending
      BY <1>4 DEF Done, queues
    <2>3. /\ Cardinality(Executing') = Cardinality(Executing) - 1
          /\ Cardinality(Executing) > 0
      BY <2>1, ExecutingIsFinite, FS_RemoveElement, FS_EmptySet
    <2> QED
      BY <2>2, <2>3 DEF Pool!Next, Pool!Finish
  <1>5. CASE SetStop
    <2>1. Executing' = Executing
      BY <1>5 DEF SetStop, NotifyAll, Executing
    <2>2. stop' = TRUE /\ pending' = pending
      BY <1>5 DEF SetStop, queues
    <2> QED
      BY <2>1, <2>2 DEF Pool!Next, Pool!Close
  <1>6. ASSUME NEW w \in Worker, Wait(w) \/ Quit(w) \/ Leave(w)
        PROVE  UNCHANGED Pool!vars
    <2>1. pc[w] \in {"ready", "wait", "leave"}
      BY <1>6 DEF Wait, Quit, Leave, MayDeq, IsAwake, PoolInv, TypeOK, WaitersWait
    <2>2. Executing' = Executing
      BY <1>6, <2>1 DEF Wait, Quit, Leave, Executing, PoolInv, TypeOK
    <2>3. stop' = stop /\ pending' = pending
      BY <1>6 DEF Wait, Quit, Leave, queues
    <2> QED
      BY <2>2, <2>3
  <1>7. CASE Tick
    <2>1. Executing' = Executing /\ stop' = stop
      BY <1>7 DEF Tick, threads, Executing
    <2>2. pending' = pending
      BY <1>7 DEF Tick, PoolInv, TypeOK
    <2> QED
      BY <2>1, <2>2
  <1>8. CASE \/ Acquire \/ Release \/ Signal \/ NextToJoin \/ Joined \/ Exit
             \/ Terminated \/ UNCHANGED vars
    <2>1. Executing' = Executing /\ stop' = stop /\ pending' = pending
      BY <1>8 DEF Acquire, Release, Signal, NextToJoin, Joined, Exit, Terminated,
                  queues, threads, vars, Executing
    <2> QED
      BY <2>1
  <1> QED
    BY <1>1, <1>2, <1>3, <1>4, <1>5, <1>6, <1>7, <1>8 DEF Next, Looks

\* Each runnable that is submitted is taken once, by one of at most MaxThreads
\* threads, and none is taken after terminate set the flag.
THEOREM WorkPoolImplemented == Spec => ImplementsWorkPool
  BY PoolInvHolds, InitImplements, NextImplements, PTL DEF Spec, ImplementsWorkPool, Pool!Spec

--------------------------------------------------------------------------------
(* No wake-up is lost.  A worker that waits without having been notified is not     *)
(* needed: for every runnable there is a worker that looks at the queues before it, *)
(* one that is ready, or one behind it in _waiters whose wait ends by itself.       *)

\* v comes before w in s.
Before(s, v, w) == \E i, j \in DOMAIN s : i < j /\ s[i] = v /\ s[j] = w

\* The workers that are awake, and those of t that wait behind v; p is pc, and s the
\* list of those who wait.
Watchers(p, s, v, t) == {w \in Worker : p[w] = "ready"} \cup {w \in t : Before(s, v, w)}

\* A worker that waits without a limit has a watcher for each runnable and each retry.
RetriesWatched ==
  \A v \in Worker : pc[v] = "wait" /\ v \notin timed =>
    Cardinality(Watchers(pc, waiters, v, timed)) >= queue + due + scheduled

\* A worker that waits on has a watcher, whose wait is over, for each runnable and
\* each retry whose time has come.
WorkWatched ==
  \A v \in Worker : pc[v] = "wait" /\ v \notin expired =>
    Cardinality(Watchers(pc, waiters, v, expired)) >= queue + due

\* Nobody waits any more once the pool was told to stop.
NobodyWaits == stop => waiters = <<>>

WatchInv == PoolInv /\ NobodyWaits /\ RetriesWatched /\ WorkWatched

\* Removing an element keeps the order of the others.
LEMMA RemovedOrder ==
  ASSUME NEW S, NEW s \in Seq(S), Distinct(s), NEW x, NEW v, NEW w,
         Before(s, v, w), v # x, w # x
  PROVE  Before(Removed(s, x), v, w)
  <1> DEFINE k == CHOOSE i \in DOMAIN s : s[i] = x
             r == Removed(s, x)
  <1>1. PICK i \in 1..Len(s), j \in 1..Len(s) : i < j /\ s[i] = v /\ s[j] = w
    BY DEF Before
  <1>2. CASE ~Has(s, x)
    BY <1>2 DEF Removed, Has
  <1>3. CASE Has(s, x)
    <2>1. k \in 1..Len(s) /\ s[k] = x
      BY <1>3 DEF Has
    <2>2. r = RemoveAt(s, k)
      BY <1>3 DEF Removed, Has
    <2> HIDE DEF k, r
    <2>3. /\ r \in Seq(S) /\ Len(r) = Len(s) - 1
          /\ \A n \in 1..(Len(s) - 1) : r[n] = IF n < k THEN s[n] ELSE s[n + 1]
      BY <2>1, <2>2, RemoveAtElements
    <2>4. i # k /\ j # k /\ Len(s) \in Nat
      BY <1>1, <2>1
    <2>5. PICK m \in 1..(Len(s) - 1) : m = IF i < k THEN i ELSE i - 1
      BY <1>1, <2>1, <2>4
    <2>6. PICK n \in 1..(Len(s) - 1) : n = IF j < k THEN j ELSE j - 1
      BY <1>1, <2>1, <2>4
    <2>7. r[m] = v /\ r[n] = w /\ m < n
      <3>1. r[m] = v
        BY <1>1, <2>1, <2>3, <2>4, <2>5
      <3>2. r[n] = w
        BY <1>1, <2>1, <2>3, <2>4, <2>6
      <3>3. m < n
        BY <1>1, <2>1, <2>4, <2>5, <2>6
      <3> QED
        BY <3>1, <3>2, <3>3
    <2>8. Before(r, v, w)
      BY <2>3, <2>7 DEF Before
    <2> QED
      BY <2>8 DEF r
  <1> QED
    BY <1>2, <1>3

\* Appending an element puts it behind all the others, whose order stays.
LEMMA AppendedOrder ==
  ASSUME NEW S, NEW s \in Seq(S), NEW x \in S, NEW v, Has(s, v)
  PROVE  /\ Before(Append(s, x), v, x)
         /\ \A w : Before(s, v, w) => Before(Append(s, x), v, w)
  <1> DEFINE a == Append(s, x)
  <1>1. /\ a \in Seq(S) /\ Len(a) = Len(s) + 1 /\ a[Len(s) + 1] = x
        /\ \A i \in 1..Len(s) : a[i] = s[i]
    BY AppendProperties
  <1> HIDE DEF a
  <1>2. Before(a, v, x)
    <2>1. PICK i \in 1..Len(s) : s[i] = v
      BY DEF Has
    <2> QED
      BY <1>1, <2>1 DEF Before
  <1>3. ASSUME NEW w, Before(s, v, w) PROVE Before(a, v, w)
    <2>1. PICK i \in 1..Len(s), j \in 1..Len(s) : i < j /\ s[i] = v /\ s[j] = w
      BY <1>3 DEF Before
    <2> QED
      BY <1>1, <2>1 DEF Before
  <1> QED
    BY <1>2, <1>3 DEF a

\* The head comes before all the others, whose order stays when it is taken.
LEMMA TailOrder ==
  ASSUME NEW S, NEW s \in Seq(S), Distinct(s), s # <<>>, NEW v
  PROVE  /\ ~Before(s, v, Head(s))
         /\ v # Head(s) =>
              \A w : Before(s, v, w) => Before(Tail(s), v, w)
  <1> DEFINE t == Tail(s)
  <1>1. /\ t \in Seq(S) /\ Len(t) = Len(s) - 1
        /\ \A i \in 1..Len(t) : t[i] = s[i + 1]
        /\ Head(s) = s[1] /\ 1 \in 1..Len(s)
    BY HeadTailProperties
  <1> HIDE DEF t
  <1>2. ~Before(s, v, Head(s))
    BY <1>1 DEF Before, Distinct
  <1>3. ASSUME v # Head(s), NEW w, Before(s, v, w) PROVE Before(t, v, w)
    <2>1. PICK i \in 1..Len(s), j \in 1..Len(s) : i < j /\ s[i] = v /\ s[j] = w
      BY <1>3 DEF Before
    <2>2. /\ i - 1 \in 1..Len(t) /\ j - 1 \in 1..Len(t)
          /\ t[i - 1] = v /\ t[j - 1] = w
      BY <1>1, <1>3, <2>1
    <2>3. i - 1 < j - 1
      BY <2>1
    <2> QED
      BY <1>1, <2>2, <2>3 DEF Before
  <1> QED
    BY <1>2, <1>3 DEF t

\* The watchers are threads that are alive, and can be counted.
LEMMA WatchersAreAlive ==
  ASSUME PoolInv, NEW v, NEW t \in SUBSET timed
  PROVE  /\ Watchers(pc, waiters, v, t) \in SUBSET Alive
         /\ IsFiniteSet(Watchers(pc, waiters, v, t))
         /\ Cardinality(Watchers(pc, waiters, v, t)) \in Nat
  <1>1. Watchers(pc, waiters, v, t) \in SUBSET Alive
    BY DEF Watchers, Alive, PoolInv, TypeOK, WaitersWait
  <1> QED
    BY <1>1, AliveIsBounded, FS_Subset, FS_CardinalityType

FewAlive == IsFiniteSet(Alive)

\* The threads that are alive can be counted.
LEMMA AliveIsFinite == PoolInv => FewAlive
  BY AliveIsBounded DEF FewAlive

\* The same, after a step.
LEMMA WatchersAreAliveNext ==
  ASSUME PoolInv', NEW v, NEW t \in SUBSET timed'
  PROVE  /\ IsFiniteSet(Watchers(pc', waiters', v, t))
         /\ Cardinality(Watchers(pc', waiters', v, t)) \in Nat
  <1>1. IsFiniteSet(Alive')
    <2>1. FewAlive'
      BY AliveIsFinite, PTL
    <2> QED
      BY <2>1 DEF FewAlive
  <1>2. Watchers(pc', waiters', v, t) \in SUBSET Alive'
    BY DEF Watchers, Alive, PoolInv, TypeOK, WaitersWait
  <1> QED
    BY <1>1, <1>2, FS_Subset, FS_CardinalityType

\* A step that does not wake, and lets at most w look at the queues, takes at most w
\* from the watchers of the others.
LEMMA LookLeavesWatchers ==
  ASSUME PoolInv, PoolInv', NEW w \in Worker, NEW q, pc' = [pc EXCEPT ![w] = q],
         NotWaiting(w), NEW v \in Worker, pc[v] = "wait", v # w,
         NEW t \in SUBSET timed
  PROVE  Cardinality(Watchers(pc', waiters', v, t \ {w}))
           >= Cardinality(Watchers(pc, waiters, v, t)) - 1
  <1> DEFINE old == Watchers(pc, waiters, v, t)
             new == Watchers(pc', waiters', v, t \ {w})
  <1>1. IsFiniteSet(old) /\ Cardinality(old) \in Nat
    BY WatchersAreAlive
  <1>2. IsFiniteSet(new) /\ Cardinality(new) \in Nat
    <2>1. t \ {w} \in SUBSET timed'
      BY DEF NotWaiting
    <2> QED
      BY <2>1, WatchersAreAliveNext
  <1>3. old \ {w} \in SUBSET new
    <2>1. ASSUME NEW u \in Worker, pc[u] = "ready", u # w PROVE u \in new
      BY <2>1 DEF Watchers, PoolInv, TypeOK
    <2>2. ASSUME NEW u \in t, Before(waiters, v, u), u # w PROVE u \in new
      <3>1. Before(waiters', v, u)
        BY <2>2, RemovedOrder DEF NotWaiting, PoolInv, TypeOK, WaitersWait
      <3> QED
        BY <2>2, <3>1 DEF Watchers
    <2>3. \A u \in old \ {w} : u \in new
      BY <2>1, <2>2 DEF Watchers
    <2> QED
      BY <2>3
  <1> HIDE DEF old, new
  <1>4. /\ IsFiniteSet(old \ {w})
        /\ Cardinality(old \ {w}) >= Cardinality(old) - 1
    BY <1>1, FS_RemoveElement
  <1>5. Cardinality(old \ {w}) <= Cardinality(new) /\ Cardinality(old \ {w}) \in Nat
    BY <1>2, <1>3, <1>4, FS_Subset, FS_CardinalityType
  <1> QED
    BY <1>1, <1>2, <1>4, <1>5 DEF old, new

\* A step that keeps the watchers of v, and may add others, does not make them fewer.
LEMMA WatchersKept ==
  ASSUME PoolInv', NEW v, NEW t \in SUBSET timed, NEW u \in SUBSET timed', PoolInv,
         Watchers(pc, waiters, v, t) \in SUBSET Watchers(pc', waiters', v, u)
  PROVE  Cardinality(Watchers(pc', waiters', v, u))
           >= Cardinality(Watchers(pc, waiters, v, t))
  BY WatchersAreAlive, WatchersAreAliveNext, FS_Subset

\* Whoever is notified watches for all the others that wait.
LEMMA NotifyAddsWatcher ==
  ASSUME PoolInv, PoolInv', NEW p,
         p \in [Worker -> {"none", "ready", "wait", "run", "ran", "leave"}],
         \A w \in Worker : p[w] # pc[w] => pc[w] = "run" /\ p[w] = "ran",
         Notify(p), NEW v \in Worker, pc[v] = "wait", v # Head(waiters),
         NEW t \in SUBSET timed
  PROVE  Cardinality(Watchers(pc', waiters', v, t \ {Head(waiters)}))
           >= Cardinality(Watchers(pc, waiters, v, t)) + 1
  <1> DEFINE h   == Head(waiters)
             old == Watchers(pc, waiters, v, t)
             new == Watchers(pc', waiters', v, t \ {h})
  <1>1. /\ waiters \in Seq(Worker) /\ Distinct(waiters) /\ waiters # <<>>
        /\ waiters' = Tail(waiters)
    BY DEF PoolInv, TypeOK, WaitersWait, Notify
  <1>2. h \in Worker /\ pc[h] = "wait"
    BY <1>1, TailElements DEF PoolInv, WaitersWait
  <1>3. ~Before(waiters, v, h) /\ \A u : Before(waiters, v, u) => Before(waiters', v, u)
    BY <1>1, TailOrder
  <1>4. pc' = [p EXCEPT ![h] = "ready"] /\ timed' = timed \ {h}
    BY DEF Notify
  <1> HIDE DEF h
  <1>5. IsFiniteSet(old) /\ Cardinality(old) \in Nat
    BY WatchersAreAlive
  <1>6. IsFiniteSet(new) /\ Cardinality(new) \in Nat
    BY <1>4, WatchersAreAliveNext
  <1>7. h \notin old
    BY <1>2, <1>3 DEF Watchers
  <1>8. old \cup {h} \in SUBSET new
    <2>1. ASSUME NEW u \in Worker, pc[u] = "ready" PROVE u \in new
      BY <2>1, <1>2, <1>4 DEF Watchers
    <2>2. ASSUME NEW u \in t, Before(waiters, v, u) PROVE u \in new
      BY <2>2, <1>3 DEF Watchers
    <2>3. h \in new
      BY <1>2, <1>4 DEF Watchers
    <2>4. \A u \in old \cup {h} : u \in new
      BY <2>1, <2>2, <2>3 DEF Watchers
    <2> QED
      BY <2>4
  <1> HIDE DEF old, new
  <1>9. IsFiniteSet(old \cup {h}) /\ Cardinality(old \cup {h}) = Cardinality(old) + 1
    BY <1>5, <1>7, FS_AddElement
  <1>10. Cardinality(old \cup {h}) <= Cardinality(new)
    BY <1>6, <1>8, FS_Subset
  <1> QED
    BY <1>9, <1>10 DEF old, new, h

\* Submitting one more runnable keeps the watchers: more says how much each count of
\* items grows.
LEMMA StartKeepsWatchers ==
  ASSUME WatchInv, PoolInv', NEW p,
         p \in [Worker -> {"none", "ready", "wait", "run", "ran", "leave"}],
         \A w \in Worker : p[w] # pc[w] => pc[w] = "run" /\ p[w] = "ran",
         StartWorkerIfNeeded(p), stop' = stop,
         queue' + due' <= queue + due + 1,
         queue' + due' + scheduled' <= queue + due + scheduled + 1
  PROVE  NobodyWaits' /\ RetriesWatched' /\ WorkWatched'
  <1>1. CASE waiters = <<>>
    <2>1. waiters' = <<>>
      BY <1>1 DEF StartWorkerIfNeeded, Notify, StartWorker, AllBusy, cond
    <2>2. \A v \in Worker : pc'[v] # "wait"
      BY <2>1 DEF PoolInv, WaitersWait, Has
    <2> QED
      BY <2>1, <2>2 DEF NobodyWaits, RetriesWatched, WorkWatched
  <1>2. CASE waiters # <<>>
    <2> DEFINE h == Head(waiters)
    <2>1. Notify(p)
      BY <1>2 DEF StartWorkerIfNeeded, StartWorker, AllBusy
    <2>2. ~stop
      BY <1>2 DEF WatchInv, NobodyWaits
    <2>3. /\ timed' = timed \ {h} /\ expired' = expired \ {h}
          /\ pc' = [p EXCEPT ![h] = "ready"]
      BY <2>1 DEF Notify
    <2>4. h \in Worker
      BY <1>2 DEF WatchInv, PoolInv, TypeOK
    <2>5. ASSUME NEW v \in Worker, pc'[v] = "wait" PROVE pc[v] = "wait" /\ v # h
      BY <2>3, <2>4, <2>5 DEF WatchInv, PoolInv, TypeOK
    <2>6. /\ queue \in Nat /\ due \in Nat /\ scheduled \in Nat
          /\ queue' \in Nat /\ due' \in Nat /\ scheduled' \in Nat
      BY BoundAssumption DEF WatchInv, PoolInv, TypeOK
    <2>7. ASSUME NEW v \in Worker, pc'[v] = "wait", NEW t \in SUBSET timed
          PROVE  /\ Cardinality(Watchers(pc', waiters', v, t \ {h}))
                      >= Cardinality(Watchers(pc, waiters, v, t)) + 1
                 /\ Cardinality(Watchers(pc', waiters', v, t \ {h})) \in Nat
                 /\ Cardinality(Watchers(pc, waiters, v, t)) \in Nat
      <3>1. t \ {h} \in SUBSET timed'
        BY <2>3
      <3>2. Cardinality(Watchers(pc', waiters', v, t \ {h}))
              >= Cardinality(Watchers(pc, waiters, v, t)) + 1
        BY <2>1, <2>5, <2>7, NotifyAddsWatcher DEF WatchInv
      <3> QED
        BY <3>1, <3>2, WatchersAreAlive, WatchersAreAliveNext DEF WatchInv
    <2>8. RetriesWatched'
      <3> SUFFICES ASSUME NEW v \in Worker, pc'[v] = "wait", v \notin timed'
                   PROVE  Cardinality(Watchers(pc', waiters', v, timed'))
                            >= queue' + due' + scheduled'
        BY DEF RetriesWatched
      <3>1. pc[v] = "wait" /\ v \notin timed
        BY <2>3, <2>5
      <3>2. Cardinality(Watchers(pc, waiters, v, timed)) >= queue + due + scheduled
        BY <3>1 DEF WatchInv, RetriesWatched
      <3>3. /\ Cardinality(Watchers(pc', waiters', v, timed'))
                 >= Cardinality(Watchers(pc, waiters, v, timed)) + 1
            /\ Cardinality(Watchers(pc', waiters', v, timed')) \in Nat
            /\ Cardinality(Watchers(pc, waiters, v, timed)) \in Nat
        BY <2>3, <2>7
      <3> QED
        BY <2>6, <3>2, <3>3
    <2>9. WorkWatched'
      <3> SUFFICES ASSUME NEW v \in Worker, pc'[v] = "wait", v \notin expired'
                   PROVE  Cardinality(Watchers(pc', waiters', v, expired'))
                            >= queue' + due'
        BY DEF WorkWatched
      <3>1. pc[v] = "wait" /\ v \notin expired
        BY <2>3, <2>5
      <3>2. Cardinality(Watchers(pc, waiters, v, expired)) >= queue + due
        BY <3>1 DEF WatchInv, WorkWatched
      <3>3. expired \in SUBSET timed
        BY DEF WatchInv, PoolInv, TypeOK
      <3>4. /\ Cardinality(Watchers(pc', waiters', v, expired'))
                 >= Cardinality(Watchers(pc, waiters, v, expired)) + 1
            /\ Cardinality(Watchers(pc', waiters', v, expired')) \in Nat
            /\ Cardinality(Watchers(pc, waiters, v, expired)) \in Nat
        BY <2>3, <2>7, <3>3
      <3> QED
        BY <2>6, <3>2, <3>4
    <2>10. NobodyWaits'
      BY <2>2 DEF NobodyWaits
    <2> QED
      BY <2>8, <2>9, <2>10
  <1> QED
    BY <1>1, <1>2

\* The empty pool has nothing to watch.
LEMMA InitWatchInv == Init => WatchInv
  <1> SUFFICES ASSUME Init PROVE WatchInv
    OBVIOUS
  <1>1. NobodyWaits /\ RetriesWatched /\ WorkWatched
    BY DEF Init, NobodyWaits, RetriesWatched, WorkWatched
  <1> QED
    BY <1>1, InitPoolInv DEF WatchInv

\* A step that wakes nobody, adds nothing to run and lets nobody look at the queues
\* keeps every watcher.
LEMMA OthersKeepWatchers ==
  ASSUME WatchInv, PoolInv', UNCHANGED <<queue, scheduled, due, cond>>,
         stop' = stop,
         \A u \in Worker : pc[u] = "ready" => pc'[u] = "ready"
  PROVE  NobodyWaits' /\ RetriesWatched' /\ WorkWatched'
  <1>1. NobodyWaits'
    BY DEF WatchInv, NobodyWaits, cond
  <1>2. ASSUME NEW v \in Worker, pc'[v] = "wait" PROVE pc[v] = "wait"
    BY <1>2 DEF WatchInv, PoolInv, WaitersWait, cond
  <1>3. ASSUME NEW v \in Worker, NEW t \in SUBSET timed
        PROVE  /\ Cardinality(Watchers(pc', waiters', v, t))
                    >= Cardinality(Watchers(pc, waiters, v, t))
               /\ Cardinality(Watchers(pc', waiters', v, t)) \in Nat
               /\ Cardinality(Watchers(pc, waiters, v, t)) \in Nat
    <2>1. t \in SUBSET timed'
      BY DEF cond
    <2>2. Watchers(pc, waiters, v, t) \in SUBSET Watchers(pc', waiters', v, t)
      BY DEF Watchers, cond
    <2> QED
      BY <2>1, <2>2, WatchersKept, WatchersAreAlive, WatchersAreAliveNext DEF WatchInv
  <1>4. /\ queue \in Nat /\ due \in Nat /\ scheduled \in Nat
        /\ expired \in SUBSET timed
    BY BoundAssumption DEF WatchInv, PoolInv, TypeOK
  <1>5. RetriesWatched'
    <2> SUFFICES ASSUME NEW v \in Worker, pc'[v] = "wait", v \notin timed
                 PROVE  Cardinality(Watchers(pc', waiters', v, timed))
                          >= queue + due + scheduled
      BY DEF RetriesWatched, cond
    <2>1. Cardinality(Watchers(pc, waiters, v, timed)) >= queue + due + scheduled
      BY <1>2 DEF WatchInv, RetriesWatched
    <2>2. /\ Cardinality(Watchers(pc', waiters', v, timed))
               >= Cardinality(Watchers(pc, waiters, v, timed))
          /\ Cardinality(Watchers(pc', waiters', v, timed)) \in Nat
          /\ Cardinality(Watchers(pc, waiters, v, timed)) \in Nat
      BY <1>3
    <2> QED
      BY <1>4, <2>1, <2>2
  <1>6. WorkWatched'
    <2> SUFFICES ASSUME NEW v \in Worker, pc'[v] = "wait", v \notin expired
                 PROVE  Cardinality(Watchers(pc', waiters', v, expired)) >= queue + due
      BY DEF WorkWatched, cond
    <2>1. Cardinality(Watchers(pc, waiters, v, expired)) >= queue + due
      BY <1>2 DEF WatchInv, WorkWatched
    <2>2. /\ Cardinality(Watchers(pc', waiters', v, expired))
               >= Cardinality(Watchers(pc, waiters, v, expired))
          /\ Cardinality(Watchers(pc', waiters', v, expired)) \in Nat
          /\ Cardinality(Watchers(pc, waiters, v, expired)) \in Nat
      BY <1>3, <1>4
    <2> QED
      BY <1>4, <2>1, <2>2
  <1> QED
    BY <1>1, <1>5, <1>6

\* Whoever takes a runnable watched for that one only.
LEMMA DeqKeepsWatchers ==
  ASSUME WatchInv, PoolInv', NEW w \in Worker, Deq(w)
  PROVE  NobodyWaits' /\ RetriesWatched' /\ WorkWatched'
  <1>1. /\ pc' = [pc EXCEPT ![w] = "run"] /\ NotWaiting(w) /\ stop' = stop /\ ~stop
        /\ scheduled' = scheduled
    BY DEF Deq, Working
  <1>2. /\ queue \in Nat /\ due \in Nat /\ scheduled \in Nat
        /\ queue' \in Nat /\ due' \in Nat /\ expired \in SUBSET timed
    BY BoundAssumption DEF WatchInv, PoolInv, TypeOK
  <1>3. /\ queue' + due' = queue + due - 1
        /\ queue' + due' + scheduled' = queue + due + scheduled - 1
    <2>1. Take /\ scheduled' = scheduled
      BY <1>1, Zenon DEF Deq
    <2>2. CASE due > 0 /\ due' = due - 1 /\ queue' = queue
      BY <1>2, <2>1, <2>2
    <2>3. CASE due = 0 /\ queue > 0 /\ queue' = queue - 1 /\ due' = due
      BY <1>2, <2>1, <2>3
    <2> QED
      BY <2>1, <2>2, <2>3, Zenon DEF Take
  <1>4. ASSUME NEW v \in Worker, pc'[v] = "wait" PROVE pc[v] = "wait" /\ v # w
    BY <1>1, <1>4 DEF WatchInv, PoolInv, TypeOK
  <1>5. ASSUME NEW v \in Worker, pc'[v] = "wait", NEW t \in SUBSET timed
        PROVE  /\ Cardinality(Watchers(pc', waiters', v, t \ {w}))
                    >= Cardinality(Watchers(pc, waiters, v, t)) - 1
               /\ Cardinality(Watchers(pc', waiters', v, t \ {w})) \in Nat
               /\ Cardinality(Watchers(pc, waiters, v, t)) \in Nat
    <2>1. t \ {w} \in SUBSET timed'
      BY <1>1 DEF NotWaiting
    <2>2. Cardinality(Watchers(pc', waiters', v, t \ {w}))
            >= Cardinality(Watchers(pc, waiters, v, t)) - 1
      BY <1>1, <1>4, <1>5, LookLeavesWatchers DEF WatchInv
    <2> QED
      BY <2>1, <2>2, WatchersAreAlive, WatchersAreAliveNext DEF WatchInv
  <1>6. RetriesWatched'
    <2> SUFFICES ASSUME NEW v \in Worker, pc'[v] = "wait", v \notin timed'
                 PROVE  Cardinality(Watchers(pc', waiters', v, timed'))
                          >= queue' + due' + scheduled'
      BY DEF RetriesWatched
    <2>1. Cardinality(Watchers(pc, waiters, v, timed)) >= queue + due + scheduled
      BY <1>1, <1>4 DEF WatchInv, RetriesWatched, NotWaiting
    <2>2. /\ Cardinality(Watchers(pc', waiters', v, timed'))
               >= Cardinality(Watchers(pc, waiters, v, timed)) - 1
          /\ Cardinality(Watchers(pc', waiters', v, timed')) \in Nat
          /\ Cardinality(Watchers(pc, waiters, v, timed)) \in Nat
      BY <1>1, <1>5 DEF NotWaiting
    <2> QED
      BY <1>2, <1>3, <2>1, <2>2
  <1>7. \A a, b \in Nat : a >= b - 1 /\ b >= queue + due => a >= queue' + due'
    <2>1. queue \in Nat /\ due \in Nat /\ queue' \in Nat /\ due' \in Nat
      BY <1>2, Zenon
    <2>2. queue' + due' = queue + due - 1
      BY <1>3, Zenon
    <2>3. \A i, j, k, l, a, b \in Nat :
            i + j = k + l - 1 /\ a >= b - 1 /\ b >= k + l => a >= i + j
      OBVIOUS
    <2> QED
      BY <2>1, <2>2, <2>3, Zenon
  <1>8. WorkWatched'
    <2> SUFFICES ASSUME NEW v \in Worker, pc'[v] = "wait", v \notin expired'
                 PROVE  Cardinality(Watchers(pc', waiters', v, expired'))
                          >= queue' + due'
      BY DEF WorkWatched
    <2>1. Cardinality(Watchers(pc, waiters, v, expired)) >= queue + due
      BY <1>1, <1>4 DEF WatchInv, WorkWatched, NotWaiting
    <2>2. /\ Cardinality(Watchers(pc', waiters', v, expired'))
               >= Cardinality(Watchers(pc, waiters, v, expired)) - 1
          /\ Cardinality(Watchers(pc', waiters', v, expired')) \in Nat
          /\ Cardinality(Watchers(pc, waiters, v, expired)) \in Nat
      BY <1>1, <1>2, <1>5 DEF NotWaiting
    <2> QED
      BY <1>7, <2>1, <2>2
  <1>9. NobodyWaits'
    BY <1>1 DEF NobodyWaits
  <1> QED
    BY <1>6, <1>8, <1>9

\* Whoever waits, waits behind all the others, and until the first retry if there
\* is one.
LEMMA WaitKeepsWatchers ==
  ASSUME WatchInv, PoolInv', NEW w \in Worker, Wait(w)
  PROVE  NobodyWaits' /\ RetriesWatched' /\ WorkWatched'
  <1>1. /\ pc' = [pc EXCEPT ![w] = "wait"] /\ stop' = stop /\ ~stop
        /\ waiters' = Append(Removed(waiters, w), w)
        /\ timed' = IF scheduled > 0 THEN timed \cup {w} ELSE timed \ {w}
        /\ queue = 0 /\ due = 0 /\ queue' = 0 /\ due' = 0 /\ scheduled' = scheduled
    BY DEF Wait, Limit, queues
  <1>2. /\ scheduled \in Nat /\ expired' \in SUBSET timed'
    BY DEF WatchInv, PoolInv, TypeOK
  <1>3. NobodyWaits'
    BY <1>1 DEF NobodyWaits
  <1>4. WorkWatched'
    <2> SUFFICES ASSUME NEW v \in Worker
                 PROVE  Cardinality(Watchers(pc', waiters', v, expired')) >= 0
      <3>1. queue' + due' = 0
        BY <1>1
      <3> QED
        BY <3>1 DEF WorkWatched
    <2>1. Cardinality(Watchers(pc', waiters', v, expired')) \in Nat
      BY <1>2, WatchersAreAliveNext
    <2> QED
      BY <2>1
  <1>5. ASSUME NEW v \in Worker, pc'[v] = "wait", v \notin timed', scheduled > 0
        PROVE  Cardinality(Watchers(pc', waiters', v, timed')) >= scheduled
    <2>1. v # w /\ pc[v] = "wait" /\ v \notin timed /\ timed' = timed \cup {w}
      BY <1>1, <1>5 DEF WatchInv, PoolInv, TypeOK
    <2>2. /\ waiters \in Seq(Worker) /\ Distinct(waiters)
          /\ Removed(waiters, w) \in Seq(Worker) /\ Has(Removed(waiters, w), v)
      BY <2>1, NotWaitingElements DEF WatchInv, PoolInv, TypeOK, WaitersWait
    <2>3. /\ Before(waiters', v, w)
          /\ \A u : Before(Removed(waiters, w), v, u) => Before(waiters', v, u)
      BY <1>1, <2>2, AppendedOrder
    <2>4. ASSUME NEW u \in Watchers(pc, waiters, v, timed)
          PROVE  u \in Watchers(pc', waiters', v, timed')
      <3>1. CASE u = w
        BY <2>1, <2>3, <3>1 DEF Watchers
      <3>2. CASE u # w /\ u \in timed /\ Before(waiters, v, u)
        <4>1. Before(Removed(waiters, w), v, u)
          BY <2>1, <2>2, <3>2, RemovedOrder
        <4> QED
          BY <2>1, <2>3, <3>2, <4>1 DEF Watchers
      <3>3. CASE u # w /\ u \in Worker /\ pc[u] = "ready"
        BY <1>1, <3>3 DEF Watchers, WatchInv, PoolInv, TypeOK
      <3> QED
        BY <2>4, <3>1, <3>2, <3>3 DEF Watchers
    <2>5. Watchers(pc, waiters, v, timed) \in SUBSET Watchers(pc', waiters', v, timed')
      BY <2>4
    <2>6. Cardinality(Watchers(pc', waiters', v, timed'))
            >= Cardinality(Watchers(pc, waiters, v, timed))
      BY <2>5, WatchersKept DEF WatchInv
    <2>7. Cardinality(Watchers(pc, waiters, v, timed)) >= scheduled
      BY <1>1, <1>2, <2>1 DEF WatchInv, RetriesWatched
    <2>8. /\ Cardinality(Watchers(pc', waiters', v, timed')) \in Nat
          /\ Cardinality(Watchers(pc, waiters, v, timed)) \in Nat
      BY WatchersAreAlive, WatchersAreAliveNext DEF WatchInv
    <2> QED
      BY <1>2, <2>6, <2>7, <2>8
  <1>6. RetriesWatched'
    <2> SUFFICES ASSUME NEW v \in Worker, pc'[v] = "wait", v \notin timed'
                 PROVE  Cardinality(Watchers(pc', waiters', v, timed')) >= scheduled
      <3>1. queue' + due' + scheduled' = scheduled
        BY <1>1, <1>2
      <3> QED
        BY <3>1 DEF RetriesWatched
    <2>1. Cardinality(Watchers(pc', waiters', v, timed')) \in Nat
      BY WatchersAreAliveNext
    <2> QED
      BY <1>2, <1>5, <2>1
  <1> QED
    BY <1>3, <1>4, <1>6

\* When the first retry's time comes, those that wait for it watch for it.
LEMMA TickKeepsWatchers ==
  ASSUME WatchInv, PoolInv', Tick
  PROVE  NobodyWaits' /\ RetriesWatched' /\ WorkWatched'
  <1>1. /\ pc' = pc /\ waiters' = waiters /\ timed' = timed /\ expired' = timed
        /\ stop' = stop /\ queue' = queue /\ due' = due + 1
        /\ scheduled > 0 /\ scheduled' = scheduled - 1
    BY DEF Tick, Over, threads
  <1>2. queue \in Nat /\ due \in Nat /\ scheduled \in Nat
    BY BoundAssumption DEF WatchInv, PoolInv, TypeOK
  <1>3. ASSUME NEW v \in Worker, pc[v] = "wait", v \notin timed
        PROVE  /\ Cardinality(Watchers(pc, waiters, v, timed)) >= queue + due + scheduled
               /\ Cardinality(Watchers(pc, waiters, v, timed)) \in Nat
    BY <1>3, WatchersAreAlive DEF WatchInv, RetriesWatched
  <1>4. NobodyWaits'
    BY <1>1 DEF WatchInv, NobodyWaits
  <1>5. RetriesWatched'
    <2> SUFFICES ASSUME NEW v \in Worker, pc[v] = "wait", v \notin timed
                 PROVE  Cardinality(Watchers(pc, waiters, v, timed))
                          >= queue + (due + 1) + (scheduled - 1)
      BY <1>1 DEF RetriesWatched
    <2> QED
      BY <1>2, <1>3
  <1>6. WorkWatched'
    <2> SUFFICES ASSUME NEW v \in Worker, pc[v] = "wait", v \notin timed
                 PROVE  Cardinality(Watchers(pc, waiters, v, timed)) >= queue + (due + 1)
      BY <1>1 DEF WorkWatched
    <2> QED
      BY <1>1, <1>2, <1>3
  <1> QED
    BY <1>4, <1>5, <1>6

\* Every step keeps the watchers.
LEMMA NextWatchInv ==
  ASSUME WatchInv, [Next]_vars
  PROVE  WatchInv'
  <1> USE DEF WatchInv
  <1>0. PoolInv'
    BY NextPoolInv
  <1>1. CASE Enq
    <2>1. /\ StartWorkerIfNeeded(pc) /\ stop' = stop
          /\ scheduled' = scheduled /\ due' = due
          /\ queue' = queue \/ queue' = queue + 1
      BY <1>1 DEF Enq
    <2>2. /\ queue \in Nat /\ due \in Nat /\ scheduled \in Nat
          /\ pc \in [Worker -> {"none", "ready", "wait", "run", "ran", "leave"}]
      BY BoundAssumption DEF PoolInv, TypeOK
    <2>3. /\ queue' + due' <= queue + due + 1
          /\ queue' + due' + scheduled' <= queue + due + scheduled + 1
      BY <2>1, <2>2
    <2> QED
      BY <1>0, <2>1, <2>2, <2>3, StartKeepsWatchers
  <1>2. ASSUME NEW w \in Worker, Retry(w) PROVE WatchInv'
    <2> DEFINE p == [pc EXCEPT ![w] = "ran"]
    <2>1. /\ StartWorkerIfNeeded(p) /\ stop' = stop
          /\ scheduled' = scheduled + 1 /\ due' = due /\ queue' = queue
          /\ p \in [Worker -> {"none", "ready", "wait", "run", "ran", "leave"}]
          /\ \A v \in Worker : p[v] # pc[v] => pc[v] = "run" /\ p[v] = "ran"
      BY <1>2 DEF Retry, PoolInv, TypeOK
    <2> HIDE DEF p
    <2>2. queue \in Nat /\ due \in Nat /\ scheduled \in Nat
      BY BoundAssumption DEF PoolInv, TypeOK
    <2>3. /\ queue' + due' <= queue + due + 1
          /\ queue' + due' + scheduled' <= queue + due + scheduled + 1
      BY <2>1, <2>2
    <2> QED
      BY <1>0, <2>1, <2>3, StartKeepsWatchers
  <1>3. ASSUME NEW w \in Worker, Deq(w) PROVE WatchInv'
    BY <1>0, <1>3, DeqKeepsWatchers
  <1>4. ASSUME NEW w \in Worker, Wait(w) PROVE WatchInv'
    BY <1>0, <1>4, WaitKeepsWatchers
  <1>5. ASSUME NEW w \in Worker, Quit(w) PROVE WatchInv'
    <2>1. waiters = <<>> /\ stop
      BY <1>5 DEF Quit, NobodyWaits
    <2>2. waiters' = <<>>
      BY <1>5, <2>1 DEF Quit, NotWaiting, Removed
    <2>3. \A v \in Worker : pc'[v] # "wait"
      BY <1>0, <2>2 DEF PoolInv, WaitersWait, Has
    <2> QED
      BY <1>0, <2>2, <2>3 DEF NobodyWaits, RetriesWatched, WorkWatched
  <1>6. ASSUME NEW w \in Worker, Done(w) PROVE WatchInv'
    <2>1. /\ UNCHANGED <<queue, scheduled, due, cond>> /\ stop' = stop
          /\ \A u \in Worker : pc[u] = "ready" => pc'[u] = "ready"
      BY <1>6 DEF Done, queues, Executing, PoolInv, TypeOK
    <2> QED
      BY <1>0, <2>1, OthersKeepWatchers
  <1>7. ASSUME NEW w \in Worker, Leave(w) PROVE WatchInv'
    <2>1. /\ UNCHANGED <<queue, scheduled, due, cond>> /\ stop' = stop
          /\ \A u \in Worker : pc[u] = "ready" => pc'[u] = "ready"
      BY <1>7 DEF Leave, queues, PoolInv, TypeOK
    <2> QED
      BY <1>0, <2>1, OthersKeepWatchers
  <1>8. CASE Tick
    BY <1>0, <1>8, TickKeepsWatchers
  <1>9. CASE SetStop
    <2>1. waiters' = <<>>
      BY <1>9 DEF SetStop, NotifyAll
    <2>2. \A v \in Worker : pc'[v] # "wait"
      BY <1>0, <2>1 DEF PoolInv, WaitersWait, Has
    <2> QED
      BY <1>0, <2>1, <2>2 DEF NobodyWaits, RetriesWatched, WorkWatched
  <1>10. CASE \/ Acquire \/ Release \/ Signal \/ NextToJoin \/ Joined \/ Exit
              \/ Terminated \/ UNCHANGED vars
    <2>1. /\ UNCHANGED <<queue, scheduled, due, cond>> /\ stop' = stop /\ pc' = pc
      BY <1>10 DEF Acquire, Release, Signal, NextToJoin, Joined, Exit, Terminated,
                   queues, cond, threads, vars
    <2> QED
      BY <1>0, <2>1, OthersKeepWatchers
  <1> QED
    BY <1>1, <1>2, <1>3, <1>4, <1>5, <1>6, <1>7, <1>8, <1>9, <1>10 DEF Next, Looks

\* Who is watched for is not left waiting.
LEMMA WatchersWake == WatchInv => NoWakeupLost
  <1> SUFFICES ASSUME WatchInv PROVE NoWakeupLost
    OBVIOUS
  <1>1. /\ queue \in Nat /\ due \in Nat /\ scheduled \in Nat
        /\ expired \in SUBSET timed /\ timed \in SUBSET Worker
    BY BoundAssumption DEF WatchInv, PoolInv, TypeOK
  <1>2. SUFFICES ASSUME waiters # <<>>
                 PROVE  /\ queue + due > 0 => \E w \in Worker : IsAwake(w)
                        /\ scheduled > 0 => \E w \in Worker : w \in timed \/ IsAwake(w)
    BY DEF NoWakeupLost, NoIdleWhileWork, RetryIsWatched
  <1>3. PICK v \in Worker : pc[v] = "wait"
    <2>1. waiters[1] \in Worker /\ Has(waiters, waiters[1])
      BY <1>2 DEF WatchInv, PoolInv, TypeOK, Has
    <2> QED
      BY <2>1 DEF WatchInv, PoolInv, WaitersWait
  <1>4. ASSUME NEW t \in SUBSET timed, Cardinality(Watchers(pc, waiters, v, t)) > 0
        PROVE  \E w \in Worker : pc[w] = "ready" \/ w \in t
    <2>1. Watchers(pc, waiters, v, t) # {}
      BY <1>4, FS_EmptySet
    <2> QED
      BY <1>1, <2>1 DEF Watchers
  <1>5. ASSUME queue + due > 0 PROVE \E w \in Worker : IsAwake(w)
    <2>1. CASE v \in expired
      BY <2>1 DEF IsAwake
    <2>2. CASE v \notin expired
      <3>1. /\ Cardinality(Watchers(pc, waiters, v, expired)) >= queue + due
            /\ Cardinality(Watchers(pc, waiters, v, expired)) \in Nat
        BY <1>1, <1>3, <2>2, WatchersAreAlive DEF WatchInv, WorkWatched
      <3>2. Cardinality(Watchers(pc, waiters, v, expired)) > 0
        BY <1>1, <1>5, <3>1
      <3> QED
        BY <1>1, <1>4, <3>2 DEF IsAwake
    <2> QED
      BY <2>1, <2>2
  <1>6. ASSUME scheduled > 0 PROVE \E w \in Worker : w \in timed \/ IsAwake(w)
    <2>1. CASE v \in timed
      BY <2>1
    <2>2. CASE v \notin timed
      <3>1. /\ Cardinality(Watchers(pc, waiters, v, timed)) >= queue + due + scheduled
            /\ Cardinality(Watchers(pc, waiters, v, timed)) \in Nat
        BY <1>3, <2>2, WatchersAreAlive DEF WatchInv, RetriesWatched
      <3>2. Cardinality(Watchers(pc, waiters, v, timed)) > 0
        BY <1>1, <1>6, <3>1
      <3> QED
        BY <1>4, <3>2 DEF IsAwake
    <2> QED
      BY <2>1, <2>2
  <1> QED
    BY <1>5, <1>6

\* Whenever there is something to run and a worker that waits, one is awake or will
\* be in time: notify, which wakes one waiter for each runnable, loses none.
THEOREM NoWakeupLostHolds == Spec => []NoWakeupLost
  BY InitWatchInv, NextWatchInv, WatchersWake, PTL DEF Spec
================================================================================
