----------------------------- MODULE CheckersProofs ------------------------------
(***************************************************************************)
(* Theorems about Checkers, for every set of services, any number of       *)
(* threads and retries, and any changes of the services.                   *)
(***************************************************************************)
EXTENDS Checkers, FiniteSetTheorems, TLAPS

\* A checker that was replaced may still be queued, wait for a retry or run.
IsInUse(c) == c \in checkers \cup queued \cup waiting \/ Busy(c)

\* The objects a service has had.
Created(s) == {c \in CheckersOf(s) : argsOf[c] # 0}

--------------------------------------------------------------------------------
(* Objects: what is created anew was not there before. *)

Types ==
  /\ reported \in [Service -> State]
  /\ args \in [Service -> Nat] /\ edits \in 0..MaxEdits
  /\ dirty \in BOOLEAN
  /\ toEnq \subseteq checkers /\ checkers \subseteq Checker
  /\ argsOf \in [Checker -> Nat] /\ status \in [Checker -> State]
  /\ runcount \in [Checker -> Nat]
  /\ queued \subseteq Checker /\ waiting \subseteq Checker
  /\ pc \in [Thread -> {"idle", "tested", "decided", "posted", "settle"}]
  /\ job \in [Thread -> Checker \cup {NoJob}] /\ result \in [Thread -> State]
  /\ \A t \in Thread : pc[t] = "idle" <=> job[t] = NoJob
  /\ streak \in [Checker -> [result : State, times : 0..(MaxRetry + 1)]]
  /\ shared \subseteq Checker /\ estranged \subseteq Service

\* Every change gives a service new arguments.
ArgsAreOld ==
  /\ \A s \in Service : args[s] <= edits + 1
  /\ \A c \in Checker : argsOf[c] <= edits + 1

\* No service ever has two objects with the same arguments,
ArgsDiffer == \A s \in Service : \A c, d \in Created(s) : argsOf[c] = argsOf[d] => c = d

\* because one with the present arguments is in use and is kept.
PresentIsKept == \A s \in Service : \A c \in Created(s) : argsOf[c] = args[s] => c \in checkers

\* The objects are numbered as they come.
Numbered == \A s \in Service : \E k \in Nat : Created(s) = {s} \X (1..k)

\* What has not been created is as at the start.
FreshIsUnused == \A c \in Checker :
  argsOf[c] = 0 => ~IsInUse(c) /\ streak[c] = None /\ runcount[c] = 0

ObjectsInv ==
  Types /\ ArgsAreOld /\ ArgsDiffer /\ PresentIsKept /\ Numbered /\ FreshIsUnused

\* The constants and sets that all the steps speak of.
LEMMA CheckerFacts ==
  /\ \A c \in Checker : ServiceOf(c) \in Service /\ c \in CheckersOf(ServiceOf(c))
  /\ \A s \in Service : \A c \in CheckersOf(s) : c \in Checker /\ ServiceOf(c) = s
  /\ NoJob \notin Checker
BY NoJobAssumption DEF Checker, CheckersOf, ServiceOf

\* At the start no service has an object.
LEMMA InitObjects == Init => ObjectsInv
<1> SUFFICES ASSUME Init PROVE ObjectsInv
  OBVIOUS
<1>1. None \in [result : State, times : 0..(MaxRetry + 1)]
  BY RetryAssumption DEF None, State
<1>2. Types
  BY <1>1, BoundAssumption DEF Init, Types, State
<1>3. ArgsAreOld
  BY DEF Init, ArgsAreOld
<1>4. \A s \in Service : Created(s) = {}
  BY CheckerFacts DEF Init, Created
<1>5. Numbered
  <2>1. \A s \in Service : Created(s) = {s} \X (1..0)
    BY <1>4
  <2> QED BY <2>1 DEF Numbered
<1>6. FreshIsUnused
  BY CheckerFacts DEF Init, FreshIsUnused, IsInUse, Busy
<1> QED BY <1>2, <1>3, <1>4, <1>5, <1>6 DEF ObjectsInv, ArgsDiffer, PresentIsKept

\* There is an object left for every change of arguments, and it is a new one.
LEMMA NewIsFresh ==
  ASSUME ObjectsInv, NEW s \in Service, args[s] # 0, Same(s) = {}
  PROVE  /\ NewChecker(s) \in CheckersOf(s)
         /\ argsOf[NewChecker(s)] = 0
         /\ \E k \in Nat : Created(s) \cup {NewChecker(s)} = {s} \X (1..k)
<1>1. PICK k \in Nat : Created(s) = {s} \X (1..k)
  BY DEF ObjectsInv, Numbered
<1>2. IsFiniteSet(Created(s)) /\ Cardinality(Created(s)) = k
  <2>1. IsFiniteSet({s}) /\ Cardinality({s}) = 1
    BY FS_Singleton
  <2>2. IsFiniteSet(1..k) /\ Cardinality(1..k) = k
    BY FS_Interval
  <2>3. /\ IsFiniteSet({s} \X (1..k))
        /\ Cardinality({s} \X (1..k)) = Cardinality({s}) * Cardinality(1..k)
    BY <2>1, <2>2, FS_Product
  <2>4. Cardinality({s}) * Cardinality(1..k) = k
    BY <2>1, <2>2
  <2> QED BY <1>1, <2>3, <2>4
<1>3. k <= edits
  <2> DEFINE T == (1..(edits + 1)) \ {args[s]}
             f == [c \in Created(s) |-> argsOf[c]]
  <2>1. edits \in Nat /\ args[s] \in 1..(edits + 1)
    BY DEF ObjectsInv, Types, ArgsAreOld
  <2>2. IsFiniteSet(T) /\ Cardinality(T) = edits
    <3>1. IsFiniteSet(1..(edits + 1)) /\ Cardinality(1..(edits + 1)) = edits + 1
      BY <2>1, FS_Interval
    <3>2. IsFiniteSet(T) /\ Cardinality(T) = Cardinality(1..(edits + 1)) - 1
      BY <2>1, <3>1, FS_RemoveElement
    <3> HIDE DEF T
    <3> QED BY <2>1, <3>1, <3>2
  <2>3. ASSUME NEW c \in Created(s)
        PROVE  argsOf[c] \in T
    <3>1. c \in Checker /\ ServiceOf(c) = s /\ argsOf[c] # 0
      BY CheckerFacts DEF Created
    <3>2. argsOf[c] \in 1..(edits + 1)
      BY <2>1, <3>1 DEF ObjectsInv, Types, ArgsAreOld
    <3>3. argsOf[c] # args[s]
      BY <3>1 DEF ObjectsInv, PresentIsKept, Same
    <3> QED BY <3>2, <3>3
  <2>4. f \in Injection(Created(s), T)
    <3>1. f \in [Created(s) -> T]
      BY <2>3
    <3>2. \A a, b \in DOMAIN f : f[a] = f[b] => a = b
      BY DEF ObjectsInv, ArgsDiffer
    <3> QED BY <3>1, <3>2 DEF Injection, IsInjective
  <2> HIDE DEF T, f
  <2>5. Cardinality(Created(s)) <= Cardinality(T)
    BY <2>2, <2>4, FS_Injection
  <2> QED BY <1>2, <2>2, <2>5
<1>4. k + 1 \in 1..(MaxEdits + 1)
  BY <1>3, BoundAssumption DEF ObjectsInv, Types
<1>5. NewChecker(s) = <<s, k + 1>>
  BY <1>2 DEF NewChecker, Created
<1>6. NewChecker(s) \in CheckersOf(s) /\ NewChecker(s) \notin Created(s)
  BY <1>1, <1>4, <1>5 DEF CheckersOf
<1>7. Created(s) \cup {NewChecker(s)} = {s} \X (1..(k + 1))
  BY <1>1, <1>5
<1> QED BY <1>6, <1>7 DEF Created

\* Each of the objects that get_checkers puts in use is fresh and gets the present
\* arguments of its service, of which it is the only one.
LEMMA NewIsAlone ==
  ASSUME ObjectsInv, NEW c \in New
  PROVE  /\ c \in Checker /\ argsOf[c] = 0 /\ ~IsInUse(c)
         /\ args[ServiceOf(c)] # 0 /\ Same(ServiceOf(c)) = {}
         /\ c = NewChecker(ServiceOf(c))
<1>1. PICK s \in Service : args[s] # 0 /\ Same(s) = {} /\ c = NewChecker(s)
  BY DEF New, Wanted
<1>2. c \in CheckersOf(s) /\ argsOf[c] = 0
  BY <1>1, NewIsFresh
<1>3. c \in Checker /\ ServiceOf(c) = s
  BY <1>2, CheckerFacts
<1> QED BY <1>1, <1>2, <1>3 DEF ObjectsInv, FreshIsUnused

\* Edit: the new arguments were never used.
LEMMA EditObjects ==
  ASSUME ObjectsInv, NEW s \in Service, Edit(s)
  PROVE  ObjectsInv'
<1>1. PICK a \in {0, edits + 2} : args' = [args EXCEPT ![s] = a]
  BY DEF Edit
<1>2. /\ edits' = edits + 1 /\ edits < MaxEdits
      /\ UNCHANGED <<reported, control, objects, queues, threads, history>>
  BY DEF Edit
<1>3. edits \in Nat /\ edits' \in 0..MaxEdits
  BY <1>2, BoundAssumption DEF ObjectsInv, Types
<1>4. Types'
  BY <1>1, <1>2, <1>3 DEF ObjectsInv, Types, control, objects, queues, threads, history
<1>5. ArgsAreOld'
  BY <1>1, <1>2, <1>3 DEF ObjectsInv, Types, ArgsAreOld, objects
<1>6. ArgsDiffer' /\ Numbered'
  BY <1>2 DEF ObjectsInv, ArgsDiffer, Numbered, Created, objects
<1>7. PresentIsKept'
  <2> SUFFICES ASSUME NEW r \in Service, NEW c \in Created(r)', argsOf'[c] = args'[r]
               PROVE  c \in checkers
    BY <1>2 DEF PresentIsKept, control
  <2>1. c \in Created(r) /\ c \in Checker /\ argsOf'[c] = argsOf[c] /\ argsOf[c] # 0
    BY <1>2, CheckerFacts DEF Created, objects
  <2>2. argsOf[c] # edits + 2
    BY <1>3, <2>1 DEF ObjectsInv, Types, ArgsAreOld
  <2>3. args'[r] = args[r]
    BY <1>1, <2>1, <2>2 DEF ObjectsInv, Types
  <2> QED BY <2>1, <2>3 DEF ObjectsInv, PresentIsKept
<1>8. FreshIsUnused'
  BY <1>2 DEF ObjectsInv, FreshIsUnused, IsInUse, Busy, control, objects, queues, threads,
              history
<1> QED BY <1>4, <1>5, <1>6, <1>7, <1>8 DEF ObjectsInv

\* Reload: what is kept has the present arguments, and so has what is new.
LEMMA ReloadObjects ==
  ASSUME ObjectsInv, Reload
  PROVE  ObjectsInv'
<1>1. /\ checkers' = New \cup Kept /\ toEnq' = New \cup Kept /\ dirty' = FALSE
      /\ argsOf' = [c \in Checker |-> IF c \in New THEN args[ServiceOf(c)] ELSE argsOf[c]]
      /\ status' = [c \in Checker |-> IF c \in New THEN FirstStatus(ServiceOf(c))
                                                  ELSE status[c]]
      /\ estranged' = estranged \cup {s \in {ServiceOf(c) : c \in New} : IsEstranged(s)}
      /\ UNCHANGED <<args, edits, reported, runcount, queued, waiting, pc, job, result,
                     streak, shared>>
  BY DEF Reload, world, queues, threads
<1>2. \A c \in New : /\ c \in Checker /\ argsOf[c] = 0 /\ ~IsInUse(c)
                     /\ args[ServiceOf(c)] # 0 /\ Same(ServiceOf(c)) = {}
                     /\ c = NewChecker(ServiceOf(c))
  BY NewIsAlone
<1>3. Kept \subseteq checkers /\ Kept \subseteq Checker
  BY DEF Kept, Same, ObjectsInv, Types
<1>4. Types'
  <2>1. \A c \in New : ServiceOf(c) \in Service /\ args[ServiceOf(c)] \in Nat
    BY <1>2, CheckerFacts DEF ObjectsInv, Types
  <2>2. \A s \in Service : FirstStatus(s) \in State
    BY DEF ObjectsInv, Types, FirstStatus, State
  <2>3. argsOf' \in [Checker -> Nat] /\ status' \in [Checker -> State]
    BY <1>1, <2>1, <2>2 DEF ObjectsInv, Types
  <2>4. estranged' \subseteq Service
    BY <1>1, <2>1 DEF ObjectsInv, Types
  <2> QED BY <1>1, <1>2, <1>3, <2>3, <2>4 DEF ObjectsInv, Types
<1>5. ArgsAreOld'
  BY <1>1, <1>2, CheckerFacts DEF ObjectsInv, ArgsAreOld
<1>6. ASSUME NEW s \in Service, NEW c \in Created(s)'
      PROVE  /\ c \in Checker /\ ServiceOf(c) = s
             /\ \/ c \notin New /\ c \in Created(s) /\ argsOf'[c] = argsOf[c]
                \/ c \in New /\ argsOf'[c] = args[s]
  BY <1>1, CheckerFacts DEF Created
<1>7. ASSUME NEW s \in Service, NEW c \in New, ServiceOf(c) = s,
             NEW d \in Created(s), argsOf[d] = args[s]
      PROVE  FALSE
  <2>1. d \in checkers /\ ServiceOf(d) = s
    BY <1>7, CheckerFacts DEF ObjectsInv, PresentIsKept, Created
  <2> QED BY <1>2, <1>7, <2>1 DEF Same
<1>8. ArgsDiffer'
  BY <1>2, <1>6, <1>7 DEF ObjectsInv, ArgsDiffer
<1>9. PresentIsKept'
  <2> SUFFICES ASSUME NEW s \in Service, NEW c \in Created(s)', argsOf'[c] = args[s],
                      c \notin New
               PROVE  c \in Kept
    BY <1>1 DEF PresentIsKept
  <2>1. c \in Created(s) /\ argsOf[c] = args[s] /\ argsOf[c] # 0 /\ ServiceOf(c) = s
    BY <1>6 DEF Created
  <2>2. s \in Wanted /\ c \in Same(s)
    BY <2>1 DEF ObjectsInv, PresentIsKept, Wanted, Same
  <2> QED BY <2>2 DEF Kept
<1>10. Numbered'
  <2> SUFFICES ASSUME NEW s \in Service
               PROVE  \E k \in Nat : Created(s)' = {s} \X (1..k)
    BY DEF Numbered
  <2>1. CASE args[s] # 0 /\ Same(s) = {}
    <3>1. NewChecker(s) \in New /\ NewChecker(s) \in CheckersOf(s)
      BY <2>1, NewIsFresh DEF New, Wanted
    <3>2. \A c \in CheckersOf(s) : c \in New => c = NewChecker(s)
      BY <1>2, CheckerFacts
    <3>3. Created(s)' = Created(s) \cup {NewChecker(s)}
      BY <1>1, <2>1, <3>1, <3>2, CheckerFacts DEF Created
    <3> QED BY <2>1, <3>3, NewIsFresh
  <2>2. CASE ~(args[s] # 0 /\ Same(s) = {})
    <3>1. \A c \in CheckersOf(s) : c \notin New
      BY <1>2, <2>2, CheckerFacts
    <3>2. Created(s)' = Created(s)
      BY <1>1, <3>1, CheckerFacts DEF Created
    <3> QED BY <3>2 DEF ObjectsInv, Numbered
  <2> QED BY <2>1, <2>2
<1>11. FreshIsUnused'
  <2> SUFFICES ASSUME NEW c \in Checker, argsOf'[c] = 0
               PROVE  ~IsInUse(c)' /\ streak[c] = None /\ runcount[c] = 0
    BY <1>1 DEF FreshIsUnused
  <2>1. c \notin New /\ argsOf[c] = 0
    BY <1>1, <1>2
  <2>2. ~IsInUse(c) /\ streak[c] = None /\ runcount[c] = 0
    BY <2>1 DEF ObjectsInv, FreshIsUnused
  <2> QED BY <1>1, <1>3, <2>1, <2>2 DEF IsInUse, Busy
<1> QED BY <1>4, <1>5, <1>8, <1>9, <1>10, <1>11 DEF ObjectsInv

\* What the other steps have in common: no checker comes into use, and what is not in
\* use keeps its counts.
LEMMA FrameObjects ==
  ASSUME ObjectsInv, Types', UNCHANGED <<args, edits, checkers, argsOf>>,
         \A c \in Checker : ~IsInUse(c) => /\ ~IsInUse(c)' /\ streak'[c] = streak[c]
                                           /\ runcount'[c] = runcount[c]
  PROVE  ObjectsInv'
<1>1. ArgsAreOld' /\ ArgsDiffer' /\ PresentIsKept' /\ Numbered'
  BY DEF ObjectsInv, ArgsAreOld, ArgsDiffer, PresentIsKept, Numbered, Created
<1>2. FreshIsUnused'
  BY DEF ObjectsInv, FreshIsUnused
<1> QED BY <1>1, <1>2 DEF ObjectsInv

\* A thread takes a checker that was in use.
LEMMA TestFacts ==
  ASSUME ObjectsInv, NEW t \in Thread, NEW c \in Checker, TestQueued(t, c) \/ TestRetry(t, c)
  PROVE  /\ c \in queued \cup waiting /\ queued' \subseteq queued /\ waiting' \subseteq waiting
         /\ pc[t] = "idle" /\ job[t] = NoJob
         /\ pc' = [pc EXCEPT ![t] = "tested"] /\ job' = [job EXCEPT ![t] = c]
         /\ \E r \in State :
              /\ result' = [result EXCEPT ![t] = r]
              /\ shared' = IF Busy(c) THEN shared \cup {c} ELSE shared
              /\ streak' = [streak EXCEPT ![c] = IF c \in shared' THEN None
                                                                ELSE NextStreak(c, r)]
         /\ UNCHANGED <<args, edits, reported, dirty, checkers, toEnq, argsOf, status,
                        runcount, estranged>>
BY DEF TestQueued, TestRetry, Test, Goes, world, control, objects, ObjectsInv, Types

\* A check adds one to the results in a row, or starts with one.
LEMMA StreakType ==
  ASSUME ObjectsInv, NEW c \in Checker, NEW r \in State
  PROVE  /\ NextStreak(c, r) \in [result : State, times : 0..(MaxRetry + 1)]
         /\ None \in [result : State, times : 0..(MaxRetry + 1)]
<1>1. streak[c].times \in 0..(MaxRetry + 1)
  BY DEF ObjectsInv, Types
<1> QED BY <1>1, RetryAssumption DEF NextStreak, None, State

\* A check of a service leaves the objects as they are.
LEMMA TestObjects ==
  ASSUME ObjectsInv, NEW t \in Thread, NEW c \in Checker, TestQueued(t, c) \/ TestRetry(t, c)
  PROVE  ObjectsInv'
<1>1. PICK r \in State : /\ result' = [result EXCEPT ![t] = r]
                         /\ shared' = IF Busy(c) THEN shared \cup {c} ELSE shared
                         /\ streak' = [streak EXCEPT ![c] = IF c \in shared' THEN None
                                                            ELSE NextStreak(c, r)]
  BY TestFacts
<1>a. /\ c \in queued \cup waiting /\ queued' \subseteq queued /\ waiting' \subseteq waiting
      /\ pc' = [pc EXCEPT ![t] = "tested"] /\ job' = [job EXCEPT ![t] = c]
      /\ UNCHANGED <<args, edits, reported, dirty, checkers, toEnq, argsOf, status, runcount,
                     estranged>>
  BY TestFacts
<1>2. Types'
  <2>1. streak' \in [Checker -> [result : State, times : 0..(MaxRetry + 1)]]
    BY <1>1, StreakType DEF ObjectsInv, Types
  <2>2. \A u \in Thread : pc'[u] = "idle" <=> job'[u] = NoJob
    BY <1>a, CheckerFacts DEF ObjectsInv, Types
  <2>3. /\ pc' \in [Thread -> {"idle", "tested", "decided", "posted", "settle"}]
        /\ job' \in [Thread -> Checker \cup {NoJob}] /\ result' \in [Thread -> State]
    BY <1>1, <1>a DEF ObjectsInv, Types
  <2>4. shared' \subseteq Checker
    BY <1>1 DEF ObjectsInv, Types
  <2> QED BY <1>a, <2>1, <2>2, <2>3, <2>4 DEF ObjectsInv, Types
<1>3. ASSUME NEW d \in Checker, ~IsInUse(d)
      PROVE  ~IsInUse(d)' /\ streak'[d] = streak[d] /\ runcount'[d] = runcount[d]
  <2>1. d # c
    BY <1>3, <1>a DEF IsInUse
  <2>2. \A u \in Thread : job'[u] # d
    BY <1>3, <1>a, <2>1 DEF IsInUse, Busy, ObjectsInv, Types
  <2>3. streak'[d] = streak[d]
    BY <1>1, <2>1 DEF ObjectsInv, Types
  <2> QED BY <1>3, <1>a, <2>2, <2>3 DEF IsInUse, Busy
<1> QED BY <1>2, <1>3, <1>a, FrameObjects

\* What the steps of a run do.
LEMMA RunFacts ==
  ASSUME ObjectsInv, NEW t \in Thread, Run(t)
  PROVE  /\ pc[t] # "idle" /\ job[t] \in Checker
         /\ UNCHANGED <<args, edits, dirty, checkers, toEnq, argsOf, queued, shared>>
         /\ \/ /\ pc[t] = "tested" /\ pc' = [pc EXCEPT ![t] = "idle"]
               /\ job' = [job EXCEPT ![t] = NoJob] /\ result' = [result EXCEPT ![t] = "up"]
               /\ MayRetry(t)
               /\ runcount' = [runcount EXCEPT ![job[t]] = runcount[job[t]] + 1]
               /\ waiting' = waiting \cup {job[t]}
               /\ UNCHANGED <<reported, status, streak, estranged>>
            \/ /\ pc[t] = "tested" /\ pc' = [pc EXCEPT ![t] = "decided"]
               /\ ~MayRetry(t)
               /\ UNCHANGED <<job, reported, status, runcount, waiting, result, streak,
                              estranged>>
            \/ /\ pc[t] = "decided" /\ pc' = [pc EXCEPT ![t] = "posted"]
               /\ Changed(t)
               /\ reported' = [reported EXCEPT ![ServiceOf(job[t])] = result[t]]
               /\ estranged' = IF Reporting(job[t]) THEN estranged \cup {ServiceOf(job[t])}
                                                   ELSE estranged
               /\ UNCHANGED <<job, status, runcount, waiting, result, streak>>
            \/ /\ pc[t] = "posted" /\ pc' = [pc EXCEPT ![t] = "settle"]
               /\ status' = [status EXCEPT ![job[t]] = result[t]]
               /\ UNCHANGED <<job, reported, runcount, waiting, result, streak, estranged>>
            \/ /\ pc[t] = "settle" \/ (pc[t] = "decided" /\ ~Changed(t))
               /\ pc' = [pc EXCEPT ![t] = "idle"]
               /\ job' = [job EXCEPT ![t] = NoJob] /\ result' = [result EXCEPT ![t] = "up"]
               /\ runcount' = [runcount EXCEPT ![job[t]] = 0]
               /\ UNCHANGED <<reported, status, waiting, streak, estranged>>
<1>1. pc[t] # "idle" /\ UNCHANGED <<args, edits, dirty, checkers, toEnq, argsOf, queued, shared>>
  BY DEF Run, Retry, Decide, Post, SetStatus, Settle, Goes, Ends, Others, world, control
<1>2. job[t] \in Checker
  BY <1>1 DEF ObjectsInv, Types
<1>3. CASE Retry(t)
  BY <1>1, <1>2, <1>3 DEF Retry, Ends, Goes, Counted
<1>4. CASE Decide(t)
  BY <1>1, <1>2, <1>4 DEF Decide, Goes
<1>5. CASE Post(t)
  BY <1>1, <1>2, <1>5 DEF Post, Goes
<1>6. CASE SetStatus(t)
  BY <1>1, <1>2, <1>6 DEF SetStatus, NewStatus, Goes
<1>7. CASE Settle(t)
  BY <1>1, <1>2, <1>7 DEF Settle, Reset, Ends, Goes
<1> QED BY <1>3, <1>4, <1>5, <1>6, <1>7 DEF Run

\* So does what a thread does with the result.
LEMMA RunObjects ==
  ASSUME ObjectsInv, NEW t \in Thread, Run(t)
  PROVE  ObjectsInv'
<1>1. /\ job[t] \in Checker /\ ServiceOf(job[t]) \in Service
      /\ job' = job \/ job' = [job EXCEPT ![t] = NoJob]
      /\ waiting' \subseteq waiting \cup {job[t]} /\ waiting' \subseteq Checker
      /\ streak' = streak
      /\ \A d \in Checker \ {job[t]} : runcount'[d] = runcount[d]
      /\ UNCHANGED <<args, edits, dirty, checkers, toEnq, argsOf, queued, shared>>
  BY RunFacts, CheckerFacts DEF ObjectsInv, Types
<1>a. \/ /\ pc' = [pc EXCEPT ![t] = "idle"]
         /\ job' = [job EXCEPT ![t] = NoJob] /\ result' = [result EXCEPT ![t] = "up"]
      \/ /\ job' = job /\ result' = result /\ pc[t] # "idle"
         /\ \E l \in {"decided", "posted", "settle"} : pc' = [pc EXCEPT ![t] = l]
  BY RunFacts
<1>2. /\ pc' \in [Thread -> {"idle", "tested", "decided", "posted", "settle"}]
      /\ job' \in [Thread -> Checker \cup {NoJob}] /\ result' \in [Thread -> State]
      /\ \A u \in Thread : pc'[u] = "idle" <=> job'[u] = NoJob
  <2>1. /\ pc \in [Thread -> {"idle", "tested", "decided", "posted", "settle"}]
        /\ job \in [Thread -> Checker \cup {NoJob}] /\ result \in [Thread -> State]
        /\ \A u \in Thread : pc[u] = "idle" <=> job[u] = NoJob
    BY DEF ObjectsInv, Types
  <2> QED BY <1>a, <2>1 DEF State
<1>b. /\ \/ reported' = reported
         \/ reported' = [reported EXCEPT ![ServiceOf(job[t])] = result[t]]
      /\ \/ status' = status \/ status' = [status EXCEPT ![job[t]] = result[t]]
      /\ \/ runcount' = runcount
         \/ runcount' = [runcount EXCEPT ![job[t]] = runcount[job[t]] + 1]
         \/ runcount' = [runcount EXCEPT ![job[t]] = 0]
      /\ estranged' \subseteq estranged \cup {ServiceOf(job[t])}
  BY RunFacts
<1>3. /\ reported' \in [Service -> State] /\ status' \in [Checker -> State]
      /\ runcount' \in [Checker -> Nat] /\ estranged' \subseteq Service
  <2>1. /\ reported \in [Service -> State] /\ status \in [Checker -> State]
        /\ runcount \in [Checker -> Nat] /\ estranged \subseteq Service
        /\ result[t] \in State
    BY DEF ObjectsInv, Types
  <2>2. reported' \in [Service -> State] /\ status' \in [Checker -> State]
    BY <1>1, <1>b, <2>1
  <2>3. runcount' \in [Checker -> Nat]
    <3>1. runcount[job[t]] + 1 \in Nat
      BY <1>1, <2>1
    <3> QED BY <1>b, <2>1, <3>1
  <2> QED BY <1>1, <1>b, <2>1, <2>2, <2>3
<1>4. Types'
  BY <1>1, <1>2, <1>3 DEF ObjectsInv, Types
<1>5. ASSUME NEW d \in Checker, ~IsInUse(d)
      PROVE  ~IsInUse(d)' /\ streak'[d] = streak[d] /\ runcount'[d] = runcount[d]
  <2>1. d # job[t]
    BY <1>5 DEF IsInUse, Busy
  <2> QED BY <1>1, <1>5, <2>1, CheckerFacts DEF IsInUse, Busy, ObjectsInv, Types
<1> QED BY <1>1, <1>4, <1>5, FrameObjects

\* ReloadFails and Enq move checkers that are in use.
LEMMA MoveObjects ==
  ASSUME ObjectsInv, ReloadFails \/ (\E c \in Checker : Enq(c)) \/ UNCHANGED vars
  PROVE  ObjectsInv'
<1>1. /\ UNCHANGED <<args, edits, reported, checkers, argsOf, status, runcount, waiting, pc,
                     job, result, streak, shared, estranged>>
      /\ toEnq' \subseteq checkers /\ dirty' \in BOOLEAN
      /\ queued' \subseteq queued \cup checkers
  BY DEF ReloadFails, Enq, world, control, objects, queues, threads, history, vars,
         ObjectsInv, Types
<1>2. Types'
  BY <1>1 DEF ObjectsInv, Types
<1>3. \A c \in Checker : IsInUse(c)' => IsInUse(c)
  BY <1>1 DEF IsInUse, Busy
<1> QED BY <1>1, <1>2, <1>3, FrameObjects

\* The invariant of the objects, kept by every step.
THEOREM ObjectsInvHolds == Spec => []ObjectsInv
<1>1. ObjectsInv /\ [Next]_vars => ObjectsInv'
  BY EditObjects, ReloadObjects, TestObjects, RunObjects, MoveObjects DEF Next
<1> QED BY InitObjects, <1>1, PTL DEF Spec

--------------------------------------------------------------------------------
(* What a checker knows of the state of its service. *)

\* A service has one checker in use, unless it got another one while it should not have.
OneInUse == \A c, d \in Checker :
  IsInUse(c) /\ IsInUse(d) /\ ServiceOf(c) = ServiceOf(d) /\ c # d =>
    ServiceOf(c) \in estranged

\* StatusIsReported, also of the checkers that were replaced but may still run.
KnowsReported == \A c \in Checker : IsInUse(c) =>
  \/ ServiceOf(c) \in estranged
  \/ Reporting(c)
  \/ status[c] = reported[ServiceOf(c)]

\* The event that a thread has sent is the last one of the service until the thread has
\* set the status, and no other thread is as far with the same checker.
PostedIsLast == \A t \in Thread : pc[t] = "posted" =>
  \/ ServiceOf(job[t]) \in estranged
  \/ /\ reported[ServiceOf(job[t])] = result[t]
     /\ \A u \in Thread \ {t} : pc[u] = "posted" => job[u] # job[t]

\* Two threads that run the same checker are noted.
SharedIsNoted == \A t, u \in Thread :
  t # u /\ job[t] = job[u] /\ job[t] \in Checker => job[t] \in shared

Reports   == OneInUse /\ KnowsReported /\ PostedIsLast /\ SharedIsNoted
ReportInv == ObjectsInv /\ Reports

\* At the start nothing was reported but what the database says.
LEMMA InitReports == Init => ReportInv
<1>1. Init => \A c \in Checker : ~IsInUse(c)
  BY CheckerFacts DEF Init, IsInUse, Busy
<1>2. Init => \A t \in Thread : job[t] \notin Checker
  BY CheckerFacts DEF Init
<1> QED BY <1>1, <1>2, InitObjects
    DEF ReportInv, Reports, OneInUse, KnowsReported, PostedIsLast, SharedIsNoted, Init

\* Reload: a checker that is created while another of its service may still run, or that
\* starts from another state than the one reported, is noted.
LEMMA ReloadReports ==
  ASSUME ReportInv, Reload
  PROVE  Reports'
<1>1. /\ checkers' = New \cup Kept
      /\ status' = [c \in Checker |-> IF c \in New THEN FirstStatus(ServiceOf(c))
                                                  ELSE status[c]]
      /\ estranged' = estranged \cup {s \in {ServiceOf(c) : c \in New} : IsEstranged(s)}
      /\ UNCHANGED <<reported, queued, waiting, pc, job, result, shared>>
  BY DEF Reload, world, queues, threads
<1>2. ASSUME NEW c \in New
      PROVE  /\ c \in Checker /\ Same(ServiceOf(c)) = {} /\ c = NewChecker(ServiceOf(c))
  BY NewIsAlone DEF ReportInv
<1>3. ASSUME NEW c \in Kept
      PROVE  /\ c \in checkers /\ c \in Checker /\ c \in Same(ServiceOf(c))
             /\ c \notin New
  <2>1. c \in checkers /\ c \in Same(ServiceOf(c))
    BY DEF Kept, Same
  <2> QED BY <1>2, <2>1 DEF ReportInv, ObjectsInv, Types
<1>4. ASSUME NEW c \in New, IsEstranged(ServiceOf(c))
      PROVE  ServiceOf(c) \in estranged'
  BY <1>1, <1>4
<1>5. ASSUME NEW c \in Checker, IsInUse(c)', c \notin New
      PROVE  IsInUse(c)
  BY <1>1, <1>3, <1>5 DEF IsInUse, Busy
<1>6. OneInUse'
  <2> SUFFICES ASSUME NEW c \in Checker, NEW d \in Checker, IsInUse(c)', IsInUse(d)',
                      ServiceOf(c) = ServiceOf(d), c # d
               PROVE  ServiceOf(c) \in estranged'
    BY DEF OneInUse
  <2>1. CASE c \notin New /\ d \notin New
    BY <1>1, <1>5, <2>1 DEF ReportInv, Reports, OneInUse
  <2>2. ASSUME NEW x \in New, NEW y \in Checker, IsInUse(y)', ServiceOf(x) = ServiceOf(y),
               x # y
        PROVE  ServiceOf(x) \in estranged'
    <3>1. y \notin New
      BY <1>2, <2>2
    <3>2. y \notin Kept
      BY <1>2, <1>3, <2>2
    <3>3. y \in queued \cup waiting \/ Busy(y)
      BY <1>1, <2>2, <3>1, <3>2 DEF IsInUse, Busy
    <3>4. y \in CheckersOf(ServiceOf(x))
      BY <2>2, CheckerFacts
    <3>5. IsEstranged(ServiceOf(x))
      BY <3>3, <3>4 DEF IsEstranged
    <3> QED BY <1>4, <3>5
  <2> QED BY <2>1, <2>2
<1>7. KnowsReported'
  <2> SUFFICES ASSUME NEW c \in Checker, IsInUse(c)', ServiceOf(c) \notin estranged'
               PROVE  Reporting(c) \/ status'[c] = reported[ServiceOf(c)]
    BY <1>1 DEF KnowsReported, Reporting
  <2>1. CASE c \in New
    <3>1. FirstStatus(ServiceOf(c)) = reported[ServiceOf(c)]
      BY <1>2, <1>4, <2>1, CheckerFacts
         DEF IsEstranged, FirstStatus, ReportInv, ObjectsInv, Types, State
    <3> QED BY <1>1, <2>1, <3>1
  <2>2. CASE c \notin New
    BY <1>1, <1>5, <2>2 DEF ReportInv, Reports, KnowsReported
  <2> QED BY <2>1, <2>2
<1>8. PostedIsLast'
  BY <1>1 DEF ReportInv, Reports, PostedIsLast
<1>9. SharedIsNoted'
  BY <1>1 DEF ReportInv, Reports, SharedIsNoted
<1> QED BY <1>6, <1>7, <1>8, <1>9 DEF Reports

\* What brings no checker into use, no thread to a checker and none to its event.
LEMMA FrameReports ==
  ASSUME ReportInv, UNCHANGED <<reported, status>>, estranged \subseteq estranged',
         shared \subseteq shared',
         \A c \in Checker : IsInUse(c)' => IsInUse(c),
         \A t \in Thread : pc[t] = "posted" => pc'[t] = "posted" /\ job'[t] = job[t],
         \A t \in Thread : pc'[t] = "posted" =>
           pc[t] = "posted" /\ job'[t] = job[t] /\ result'[t] = result[t],
         \A t \in Thread : job'[t] \in Checker => job'[t] = job[t]
  PROVE  Reports'
<1>1. OneInUse'
  BY DEF ReportInv, Reports, OneInUse
<1>2. KnowsReported'
  BY DEF ReportInv, Reports, KnowsReported, Reporting
<1>3. PostedIsLast'
  BY DEF ReportInv, Reports, PostedIsLast
<1>4. SharedIsNoted'
  BY DEF ReportInv, Reports, SharedIsNoted
<1> QED BY <1>1, <1>2, <1>3, <1>4 DEF Reports

\* Steps outside the threads but Reload.
LEMMA MoveReports ==
  ASSUME ReportInv,
         \/ ReloadFails \/ (\E c \in Checker : Enq(c)) \/ UNCHANGED vars
         \/ \E s \in Service : Edit(s)
  PROVE  Reports'
<1>1. /\ UNCHANGED <<reported, status, checkers, waiting, pc, job, result, shared, estranged>>
      /\ queued' \subseteq queued \cup checkers
  BY DEF ReloadFails, Enq, Edit, world, control, objects, queues, threads, history, vars,
         ReportInv, ObjectsInv, Types
<1>2. \A c \in Checker : IsInUse(c)' => IsInUse(c)
  BY <1>1 DEF IsInUse, Busy
<1> QED BY <1>1, <1>2, FrameReports

\* Test: who finds the checker with another thread notes it.
LEMMA TestReports ==
  ASSUME ReportInv, NEW t \in Thread, NEW c \in Checker, TestQueued(t, c) \/ TestRetry(t, c)
  PROVE  Reports'
<1>1. /\ c \in queued \cup waiting /\ queued' \subseteq queued /\ waiting' \subseteq waiting
      /\ pc[t] = "idle"
      /\ pc' = [pc EXCEPT ![t] = "tested"] /\ job' = [job EXCEPT ![t] = c]
      /\ shared' = IF Busy(c) THEN shared \cup {c} ELSE shared
      /\ \E r \in State : result' = [result EXCEPT ![t] = r]
      /\ UNCHANGED <<reported, checkers, status, estranged>>
  BY TestFacts DEF ReportInv
<1>2. /\ result \in [Thread -> State]
      /\ job \in [Thread -> Checker \cup {NoJob}] /\ DOMAIN pc = Thread
  BY DEF ReportInv, ObjectsInv, Types
<1>3. \A u \in Thread \ {t} : job'[u] = job[u] /\ pc'[u] = pc[u] /\ result'[u] = result[u]
  BY <1>1, <1>2
<1>4. job'[t] = c /\ pc'[t] # "posted"
  BY <1>1, <1>2
<1>5. ASSUME NEW d \in Checker, IsInUse(d)'
      PROVE  IsInUse(d)
  <2>1. CASE d = c
    BY <1>1, <2>1 DEF IsInUse
  <2>2. CASE d # c
    BY <1>1, <1>3, <1>4, <1>5, <2>2 DEF IsInUse, Busy
  <2> QED BY <2>1, <2>2
<1>6. OneInUse'
  BY <1>1, <1>5 DEF ReportInv, Reports, OneInUse
<1>7. KnowsReported'
  <2>1. \A u \in Thread : pc[u] = "posted" => pc'[u] = "posted" /\ job'[u] = job[u]
    BY <1>1, <1>3
  <2> QED BY <1>1, <1>5, <2>1 DEF ReportInv, Reports, KnowsReported, Reporting
<1>8. PostedIsLast'
  BY <1>1, <1>3, <1>4 DEF ReportInv, Reports, PostedIsLast
<1>9. SharedIsNoted'
  <2> SUFFICES ASSUME NEW u \in Thread, NEW v \in Thread, u # v, job'[u] = job'[v],
                      job'[u] \in Checker
               PROVE  job'[u] \in shared'
    BY DEF SharedIsNoted
  <2>1. CASE u # t /\ v # t
    BY <1>1, <1>3, <2>1 DEF ReportInv, Reports, SharedIsNoted
  <2>2. CASE u = t \/ v = t
    <3>1. Busy(c)
      BY <1>3, <1>4, <2>2 DEF Busy
    <3> QED BY <1>1, <1>4, <2>2, <3>1
  <2> QED BY <2>1, <2>2
<1> QED BY <1>6, <1>7, <1>8, <1>9 DEF Reports

\* Run: an event and the status that follows it go together, unless another thread is
\* between the two as well.
LEMMA RunReports ==
  ASSUME ReportInv, NEW t \in Thread, Run(t)
  PROVE  Reports'
<1> DEFINE c == job[t]
           s == ServiceOf(c)
<1>1. ObjectsInv /\ c \in Checker /\ s \in Service /\ IsInUse(c)
  BY RunFacts, CheckerFacts DEF ReportInv, IsInUse, Busy
<1>2. /\ pc \in [Thread -> {"idle", "tested", "decided", "posted", "settle"}]
      /\ job \in [Thread -> Checker \cup {NoJob}] /\ result \in [Thread -> State]
      /\ reported \in [Service -> State] /\ status \in [Checker -> State]
      /\ \A u \in Thread : pc[u] # "idle" => job[u] \in Checker
  BY <1>1 DEF ObjectsInv, Types
<1>3. /\ \/ /\ pc[t] \in {"tested", "decided", "settle"}
            /\ \E l \in {"idle", "decided"} : pc' = [pc EXCEPT ![t] = l]
            /\ job' = job \/ job' = [job EXCEPT ![t] = NoJob]
            /\ \E r \in State : result' = [result EXCEPT ![t] = r]
            /\ UNCHANGED <<reported, status, estranged>>
         \/ /\ pc[t] = "decided" /\ pc' = [pc EXCEPT ![t] = "posted"]
            /\ reported' = [reported EXCEPT ![s] = result[t]]
            /\ estranged' = IF Reporting(c) THEN estranged \cup {s} ELSE estranged
            /\ UNCHANGED <<job, result, status>>
         \/ /\ pc[t] = "posted" /\ pc' = [pc EXCEPT ![t] = "settle"]
            /\ status' = [status EXCEPT ![c] = result[t]]
            /\ UNCHANGED <<job, result, reported, estranged>>
      /\ UNCHANGED <<checkers, queued, shared>>
      /\ waiting' \subseteq waiting \cup {c}
  <2>1. result[t] \in State /\ (result' = result => result' = [result EXCEPT ![t] = result[t]])
    BY <1>2
  <2>2. "up" \in State
    BY DEF State
  <2> QED BY <1>1, <2>1, <2>2, RunFacts
<1>4. \A d \in Checker : IsInUse(d)' => IsInUse(d)
  BY <1>1, <1>2, <1>3, CheckerFacts DEF IsInUse, Busy
<1>5. estranged \subseteq estranged' /\ \A u \in Thread : job'[u] \in Checker => job'[u] = job[u]
  BY <1>2, <1>3, CheckerFacts
<1>6. \A u \in Thread \ {t} : pc'[u] = pc[u] /\ job'[u] = job[u] /\ result'[u] = result[u]
  BY <1>2, <1>3
<1> HIDE DEF c, s
<1>7. CASE UNCHANGED <<reported, status, estranged>> /\ pc[t] # "posted" /\ pc'[t] # "posted"
  BY <1>3, <1>4, <1>5, <1>6, <1>7, FrameReports
<1>8. OneInUse' /\ SharedIsNoted'
  BY <1>3, <1>4, <1>5 DEF ReportInv, Reports, OneInUse, SharedIsNoted
<1>9. CASE /\ pc[t] = "decided" /\ pc' = [pc EXCEPT ![t] = "posted"]
           /\ reported' = [reported EXCEPT ![s] = result[t]]
           /\ estranged' = IF Reporting(c) THEN estranged \cup {s} ELSE estranged
           /\ UNCHANGED <<job, result, status>>
  <2>1. ASSUME NEW d \in Checker, IsInUse(d), d # c, ServiceOf(d) \notin estranged
        PROVE  ServiceOf(d) # s
    BY <1>1, <2>1 DEF ReportInv, Reports, OneInUse, s
  <2>2. KnowsReported'
    <3> SUFFICES ASSUME NEW d \in Checker, IsInUse(d), ServiceOf(d) \notin estranged
                 PROVE  Reporting(d)' \/ status'[d] = reported'[ServiceOf(d)]
      BY <1>4, <1>5, <1>9 DEF KnowsReported
    <3>1. CASE d = c
      BY <1>2, <1>9, <3>1 DEF c, Reporting
    <3>2. CASE d # c
      <4>1. reported'[ServiceOf(d)] = reported[ServiceOf(d)]
        BY <1>2, <1>9, <2>1, <3>2, CheckerFacts
      <4>2. Reporting(d) \/ status[d] = reported[ServiceOf(d)]
        BY DEF ReportInv, Reports, KnowsReported
      <4>3. \A u \in Thread : pc[u] = "posted" => pc'[u] = "posted" /\ job'[u] = job[u]
        BY <1>6, <1>9
      <4> QED BY <1>9, <4>1, <4>2, <4>3 DEF Reporting
    <3> QED BY <3>1, <3>2
  <2>3. PostedIsLast'
    <3> SUFFICES ASSUME NEW u \in Thread, pc'[u] = "posted", ServiceOf(job[u]) \notin estranged'
                 PROVE  /\ reported'[ServiceOf(job[u])] = result[u]
                        /\ \A v \in Thread \ {u} : pc'[v] = "posted" => job[v] # job[u]
      BY <1>9 DEF PostedIsLast
    <3>1. CASE u = t
      <4>1. ~Reporting(c)
        BY <1>9, <3>1 DEF c, s
      <4> QED BY <1>1, <1>2, <1>6, <1>9, <3>1, <4>1 DEF c, s, Reporting
    <3>2. CASE u # t
      <4>1. pc[u] = "posted" /\ job[u] \in Checker /\ IsInUse(job[u])
        BY <1>2, <1>6, <3>2 DEF IsInUse, Busy
      <4>2. job[u] # c
        BY <1>9, <4>1 DEF Reporting, s
      <4>3. ServiceOf(job[u]) # s
        BY <1>5, <2>1, <4>1, <4>2
      <4>4. /\ reported[ServiceOf(job[u])] = result[u]
            /\ \A v \in Thread \ {u} : pc[v] = "posted" => job[v] # job[u]
        BY <1>5, <4>1 DEF ReportInv, Reports, PostedIsLast
      <4>5. reported'[ServiceOf(job[u])] = reported[ServiceOf(job[u])]
        BY <1>9, <1>2, <4>1, <4>3, CheckerFacts
      <4>6. \A v \in Thread \ {u} : pc'[v] = "posted" => job[v] # job[u]
        BY <1>6, <4>2, <4>4 DEF c
      <4> QED BY <4>4, <4>5, <4>6
    <3> QED BY <3>1, <3>2
  <2> QED BY <1>8, <2>2, <2>3 DEF Reports
<1>10. CASE /\ pc[t] = "posted" /\ pc' = [pc EXCEPT ![t] = "settle"]
            /\ status' = [status EXCEPT ![c] = result[t]]
            /\ UNCHANGED <<job, result, reported, estranged>>
  <2>1. KnowsReported'
    <3> SUFFICES ASSUME NEW d \in Checker, IsInUse(d), ServiceOf(d) \notin estranged
                 PROVE  Reporting(d)' \/ status'[d] = reported[ServiceOf(d)]
      BY <1>4, <1>10 DEF KnowsReported
    <3>1. CASE d = c
      <4>1. reported[s] = result[t]
        BY <1>10, <3>1 DEF ReportInv, Reports, PostedIsLast, c, s
      <4> QED BY <1>1, <1>2, <1>10, <3>1, <4>1 DEF s
    <3>2. CASE d # c
      <4>1. Reporting(d) \/ status[d] = reported[ServiceOf(d)]
        BY DEF ReportInv, Reports, KnowsReported
      <4>2. status'[d] = status[d]
        BY <1>2, <1>10, <3>2
      <4>3. \A u \in Thread : pc[u] = "posted" /\ job[u] = d =>
                                pc'[u] = "posted" /\ job'[u] = d
        BY <1>6, <3>2 DEF c
      <4> QED BY <4>1, <4>2, <4>3 DEF Reporting
    <3> QED BY <3>1, <3>2
  <2>2. \A u \in Thread : pc'[u] = "posted" => pc[u] = "posted"
    BY <1>2, <1>6, <1>10
  <2>3. PostedIsLast'
    BY <1>10, <2>2 DEF ReportInv, Reports, PostedIsLast
  <2> QED BY <1>8, <2>1, <2>3 DEF Reports
<1> QED
  <2>1. ASSUME NEW l \in {"idle", "decided"}, pc' = [pc EXCEPT ![t] = l]
        PROVE  pc'[t] # "posted"
    BY <1>2, <2>1
  <2> QED BY <1>3, <1>7, <1>9, <1>10, <2>1

\* The invariant behind StatusIsReported and NoRepeatedReport, kept by every step.
THEOREM ReportInvHolds == Spec => []ReportInv
<1>1. ReportInv /\ [Next]_vars => Reports'
  BY ReloadReports, MoveReports, TestReports, RunReports DEF Next
<1>2. ObjectsInv' /\ Reports' => ReportInv'
  BY DEF ReportInv
<1> QED BY InitReports, ObjectsInvHolds, <1>1, <1>2, PTL DEF Spec

\* What a service's checker (AbstractChecker.status) takes for its state is what was
\* reported last, but for the moment between the event and the assignment, although any
\* number of threads run it at a time: unless two of them were once between the event and
\* the assignment at the same time, or the service got another checker while it was
\* reported down, or while the one that this replaced might still report.
THEOREM StatusIsReportedHolds == Spec => []StatusIsReported
<1>1. ReportInv => StatusIsReported
  BY DEF ReportInv, Reports, KnowsReported, StatusIsReported, ObjectsInv, Types, IsInUse
<1> QED BY ReportInvHolds, <1>1, PTL

\* No service is reported up twice or down twice in a row by AbstractChecker.run, for any
\* retries, any changes of the services and any number of threads in one checker: with
\* the exceptions of StatusIsReported.
THEOREM NoRepeatedReportHolds == Spec => NoRepeatedReport
<1>1. ASSUME ReportInv, Next, NEW t \in Thread, Posts(t),
             ServiceOf(job[t]) \notin estranged'
      PROVE  reported[ServiceOf(job[t])] # result[t]
  <2>1. Run(t)
    <3>1. \A u \in Thread : Run(u) => u = t
      BY <1>1, RunFacts DEF Posts, ReportInv, ObjectsInv, Types
    <3>2. \A u \in Thread, c \in Checker : ~(TestQueued(u, c) \/ TestRetry(u, c))
      BY <1>1, TestFacts DEF Posts, ReportInv, ObjectsInv, Types
    <3>3. pc' # pc
      BY <1>1 DEF Posts
    <3> QED BY <1>1, <3>1, <3>2, <3>3 DEF Next, Edit, Reload, ReloadFails, Enq, threads
  <2>2. /\ job[t] \in Checker /\ IsInUse(job[t]) /\ Changed(t)
        /\ estranged' = IF Reporting(job[t]) THEN estranged \cup {ServiceOf(job[t])}
                                            ELSE estranged
    BY <1>1, <2>1, RunFacts DEF Posts, ReportInv, ObjectsInv, Types, IsInUse, Busy
  <2>3. status[job[t]] = reported[ServiceOf(job[t])]
    BY <1>1, <2>2 DEF ReportInv, Reports, KnowsReported
  <2> QED BY <2>2, <2>3 DEF Changed
<1>2. ReportInv /\ [Next]_vars =>
        [\A t \in Thread :
           LET s == ServiceOf(job[t]) IN
             Posts(t) /\ s \notin estranged' => reported[s] # result[t]]_vars
  BY <1>1
<1> QED BY ReportInvHolds, <1>2, PTL DEF Spec, NoRepeatedReport

--------------------------------------------------------------------------------
(* How many checks in a row a change takes, for a checker that one thread runs at a *)
(* time.                                                                            *)

\* Between two runs: runcount counts the checks in a row that showed another state.
CountsWhenIdle(c) ==
  IF runcount[c] = 0
  THEN streak[c].result = status[c] \/ streak[c].times = 0
  ELSE streak[c].result # status[c] /\ streak[c].times = runcount[c]

\* In a run: the same, with the check that this run made.
CountsWhenRun(t, c) ==
  /\ streak[c].result = result[t]
  /\ pc[t] = "tested" /\ result[t] # status[c] => streak[c].times = runcount[c] + 1
  /\ pc[t] = "decided" /\ result[t] # status[c] => streak[c].times = MaxRetry + 1
  /\ pc[t] = "settle" => result[t] = status[c]

Counts(c) == /\ runcount[c] <= MaxRetry
             /\ ~Busy(c) => CountsWhenIdle(c)
             /\ \A t \in Thread : job[t] = c => CountsWhenRun(t, c)

ConfirmInv == ReportInv /\ \A c \in Checker \ shared : Counts(c)

\* At the start no check has been made.
LEMMA InitConfirm == Init => ConfirmInv
<1> SUFFICES ASSUME Init, NEW c \in Checker PROVE Counts(c)
  BY InitReports DEF ConfirmInv
<1>1. runcount[c] = 0 /\ streak[c].times = 0 /\ \A t \in Thread : job[t] # c
  BY CheckerFacts DEF Init, None
<1> QED BY <1>1, RetryAssumption DEF Counts, CountsWhenIdle

\* Steps that leave a checker, its runs and its counts alone.
LEMMA FrameCounts ==
  ASSUME NEW c \in Checker, Counts(c),
         runcount'[c] = runcount[c], streak'[c] = streak[c], status'[c] = status[c],
         \A t \in Thread : job'[t] = c <=> job[t] = c,
         \A t \in Thread : job[t] = c => pc'[t] = pc[t] /\ result'[t] = result[t]
  PROVE  Counts(c)'
BY DEF Counts, CountsWhenIdle, CountsWhenRun, Busy

\* Steps outside the threads: only a fresh checker gets a status.
LEMMA MoveConfirm ==
  ASSUME ConfirmInv,
         \/ Reload \/ ReloadFails \/ (\E c \in Checker : Enq(c)) \/ UNCHANGED vars
         \/ \E s \in Service : Edit(s),
         NEW c \in Checker \ shared'
  PROVE  Counts(c)'
<1>1. UNCHANGED <<runcount, streak, pc, job, result, shared>>
  BY DEF Reload, ReloadFails, Enq, Edit, objects, threads, history, vars
<1>2. CASE status'[c] = status[c]
  BY <1>1, <1>2, FrameCounts DEF ConfirmInv
<1>3. CASE status'[c] # status[c]
  <2>1. Reload
    BY <1>3 DEF ReloadFails, Enq, Edit, objects, vars
  <2>2. c \in New
    BY <1>3, <2>1 DEF Reload, ConfirmInv, ReportInv, ObjectsInv, Types
  <2>3. ~IsInUse(c) /\ streak[c] = None /\ runcount[c] = 0
    BY <2>2, NewIsAlone DEF ConfirmInv, ReportInv, ObjectsInv, FreshIsUnused
  <2>4. streak'[c].times = 0 /\ runcount'[c] = 0 /\ \A t \in Thread : job'[t] # c
    BY <1>1, <2>3 DEF None, IsInUse, Busy
  <2> QED BY <2>4, RetryAssumption DEF Counts, CountsWhenIdle
<1> QED BY <1>2, <1>3

\* Test: the check is one more in a row, or the first one.
LEMMA TestConfirm ==
  ASSUME ConfirmInv, NEW t \in Thread, NEW c \in Checker, TestQueued(t, c) \/ TestRetry(t, c),
         NEW d \in Checker \ shared'
  PROVE  Counts(d)'
<1>1. ObjectsInv
  BY DEF ConfirmInv, ReportInv
<1>2. PICK r \in State : /\ result' = [result EXCEPT ![t] = r]
                         /\ shared' = IF Busy(c) THEN shared \cup {c} ELSE shared
                         /\ streak' = [streak EXCEPT ![c] = IF c \in shared' THEN None
                                                            ELSE NextStreak(c, r)]
  BY <1>1, TestFacts
<1>3. /\ job[t] = NoJob /\ pc' = [pc EXCEPT ![t] = "tested"]
      /\ job' = [job EXCEPT ![t] = c] /\ UNCHANGED <<runcount, status>>
  BY <1>1, TestFacts
<1>4. /\ job \in [Thread -> Checker \cup {NoJob}] /\ result \in [Thread -> State]
      /\ DOMAIN pc = Thread /\ runcount[c] \in Nat /\ status[c] \in State
      /\ streak \in [Checker -> [result : State, times : 0..(MaxRetry + 1)]]
  BY <1>1 DEF ObjectsInv, Types
<1>5. d \notin shared /\ Counts(d)
  BY <1>2 DEF ConfirmInv
<1>6. CASE d # c
  <2>1. /\ \A u \in Thread : job'[u] = d <=> job[u] = d
        /\ \A u \in Thread : job[u] = d => pc'[u] = pc[u] /\ result'[u] = result[u]
    BY <1>2, <1>3, <1>4, <1>6, CheckerFacts
  <2>2. streak'[d] = streak[d]
    BY <1>2, <1>4, <1>6
  <2> QED BY <1>3, <1>5, <2>1, <2>2, FrameCounts
<1>7. CASE d = c
  <2>1. ~Busy(c)
    BY <1>2, <1>7
  <2>2. \A u \in Thread : job'[u] = c => u = t
    BY <1>3, <1>4, <2>1 DEF Busy
  <2>3. /\ job'[t] = c /\ pc'[t] = "tested" /\ result'[t] = r
        /\ streak'[c] = NextStreak(c, r)
    BY <1>2, <1>3, <1>4, <1>7
  <2>4. CountsWhenIdle(c) /\ runcount[c] <= MaxRetry
    BY <1>5, <1>7, <2>1 DEF Counts
  <2>5. NextStreak(c, r).result = r
    BY DEF NextStreak
  <2>6. r # status[c] => NextStreak(c, r).times = runcount[c] + 1
    <3>1. CASE runcount[c] = 0
      BY <1>4, <2>4, <3>1, RetryAssumption DEF NextStreak, CountsWhenIdle
    <3>2. CASE runcount[c] # 0
      BY <1>4, <2>4, <3>2 DEF NextStreak, CountsWhenIdle, State
    <3> QED BY <3>1, <3>2
  <2>7. CountsWhenRun(t, c)'
    BY <1>3, <2>3, <2>5, <2>6 DEF CountsWhenRun
  <2> QED BY <1>3, <1>7, <2>2, <2>3, <2>4, <2>7 DEF Counts, Busy
<1> QED BY <1>6, <1>7

\* Run: a retry counts the check; the change is decided on after MaxRetry of them; and
\* the count starts anew from a status that is the result.
LEMMA RunConfirm ==
  ASSUME ConfirmInv, NEW t \in Thread, Run(t), NEW d \in Checker \ shared'
  PROVE  Counts(d)'
<1> DEFINE c == job[t]
<1>1. ObjectsInv /\ c \in Checker /\ pc[t] # "idle"
      /\ UNCHANGED shared
  BY RunFacts DEF ConfirmInv, ReportInv
<1>2. /\ job \in [Thread -> Checker \cup {NoJob}] /\ result \in [Thread -> State]
      /\ pc \in [Thread -> {"idle", "tested", "decided", "posted", "settle"}]
      /\ runcount \in [Checker -> Nat] /\ status \in [Checker -> State]
      /\ streak \in [Checker -> [result : State, times : 0..(MaxRetry + 1)]]
  BY <1>1 DEF ObjectsInv, Types
<1>3. d \notin shared /\ Counts(d)
  BY <1>1 DEF ConfirmInv
<1>4. CASE d # c
  <2>1. /\ runcount'[d] = runcount[d] /\ streak'[d] = streak[d] /\ status'[d] = status[d]
        /\ \A u \in Thread \ {t} : /\ job'[u] = job[u] /\ pc'[u] = pc[u]
                                   /\ result'[u] = result[u]
        /\ job'[t] = c \/ job'[t] = NoJob
    BY <1>1, <1>2, <1>4, RunFacts
  <2> QED BY <1>3, <1>4, <2>1, FrameCounts, CheckerFacts
<1>5. CASE d = c
  <2>1. \A u \in Thread : job[u] = c => u = t
    BY <1>1, <1>3, <1>5 DEF ConfirmInv, ReportInv, Reports, SharedIsNoted
  <2>2. CountsWhenRun(t, c) /\ runcount[c] <= MaxRetry
    BY <1>3, <1>5 DEF Counts
  <2>3. \A u \in Thread \ {t} : job'[u] = job[u] /\ job'[u] # c
    BY <1>1, <1>2, <2>1, RunFacts
  <2>4. CASE /\ pc[t] = "tested" /\ job' = [job EXCEPT ![t] = NoJob] /\ MayRetry(t)
             /\ runcount' = [runcount EXCEPT ![c] = runcount[c] + 1]
             /\ UNCHANGED <<status, streak>>
    <3>1. result[t] # status[c] /\ runcount[c] < MaxRetry
      BY <2>4 DEF MayRetry, Changed
    <3>2. runcount'[d] = runcount[d] + 1 /\ runcount[d] \in Nat
      BY <1>1, <1>2, <1>5, <2>4
    <3>3. CountsWhenIdle(d)' /\ runcount'[d] <= MaxRetry
      BY <1>5, <2>2, <2>4, <3>1, <3>2, RetryAssumption DEF CountsWhenRun, CountsWhenIdle
    <3>4. \A u \in Thread : job'[u] # d
      BY <1>1, <1>2, <1>5, <2>3, <2>4, CheckerFacts
    <3> QED BY <1>5, <3>3, <3>4 DEF Counts
  <2>5. CASE /\ \/ pc[t] = "tested" /\ pc' = [pc EXCEPT ![t] = "decided"] /\ ~MayRetry(t)
                \/ pc[t] = "decided" /\ pc' = [pc EXCEPT ![t] = "posted"]
             /\ UNCHANGED <<job, status, runcount, result, streak>>
    <3>1. CountsWhenRun(t, c)'
      BY <1>1, <1>2, <2>2, <2>5, RetryAssumption DEF CountsWhenRun, MayRetry, Changed
    <3> QED BY <1>5, <2>1, <2>2, <2>5, <3>1 DEF Counts, Busy
  <2>6. CASE /\ pc[t] = "posted" /\ pc' = [pc EXCEPT ![t] = "settle"]
             /\ status' = [status EXCEPT ![c] = result[t]]
             /\ UNCHANGED <<job, runcount, result, streak>>
    <3>1. CountsWhenRun(t, c)'
      BY <1>1, <1>2, <2>2, <2>6 DEF CountsWhenRun
    <3> QED BY <1>5, <2>1, <2>2, <2>6, <3>1 DEF Counts, Busy
  <2>7. CASE /\ pc[t] = "settle" \/ (pc[t] = "decided" /\ ~Changed(t))
             /\ job' = [job EXCEPT ![t] = NoJob]
             /\ runcount' = [runcount EXCEPT ![c] = 0]
             /\ UNCHANGED <<status, streak>>
    <3>1. result[t] = status[c] /\ streak[c].result = result[t]
      BY <2>2, <2>7 DEF CountsWhenRun, Changed
    <3>2. CountsWhenIdle(d)' /\ runcount'[d] <= MaxRetry
      BY <1>1, <1>2, <1>5, <2>7, <3>1, RetryAssumption DEF CountsWhenIdle
    <3>3. \A u \in Thread : job'[u] # d
      BY <1>1, <1>2, <1>5, <2>3, <2>7, CheckerFacts
    <3> QED BY <1>5, <3>2, <3>3 DEF Counts
  <2> QED BY <1>1, <2>4, <2>5, <2>6, <2>7, RunFacts
<1> QED BY <1>4, <1>5

\* The invariant behind ChangeIsConfirmed, kept by every step.
THEOREM ConfirmInvHolds == Spec => []ConfirmInv
<1>1. ASSUME ConfirmInv, [Next]_vars
      PROVE  \A c \in Checker \ shared' : Counts(c)'
  BY <1>1, MoveConfirm, TestConfirm, RunConfirm DEF Next
<1>2. ReportInv' /\ (\A c \in Checker \ shared' : Counts(c)') => ConfirmInv'
  BY DEF ConfirmInv
<1> QED BY InitConfirm, ReportInvHolds, <1>1, <1>2, PTL DEF Spec

\* AbstractChecker.run reports a change only when MaxRetry + 1 checks in a row showed it,
\* whether the main loop or the queue of retries had them run: unless two threads once ran
\* the checker at a time, when they share runcount.
THEOREM ChangeIsConfirmedHolds == Spec => ChangeIsConfirmed
<1>1. ASSUME ConfirmInv, Next, NEW t \in Thread, Posts(t), job[t] \notin shared
      PROVE  streak[job[t]] = [result |-> result[t], times |-> MaxRetry + 1]
  <2>1. ObjectsInv
    BY <1>1 DEF ConfirmInv, ReportInv
  <2>2. Run(t)
    <3>1. \A u \in Thread : Run(u) => u = t
      BY <1>1, <2>1, RunFacts DEF Posts, ObjectsInv, Types
    <3>2. \A u \in Thread, c \in Checker : ~(TestQueued(u, c) \/ TestRetry(u, c))
      BY <1>1, <2>1, TestFacts DEF Posts, ObjectsInv, Types
    <3>3. pc' # pc
      BY <1>1 DEF Posts
    <3> QED BY <1>1, <3>1, <3>2, <3>3 DEF Next, Edit, Reload, ReloadFails, Enq, threads
  <2>3. job[t] \in Checker /\ result[t] # status[job[t]]
    BY <1>1, <2>1, <2>2, RunFacts DEF Posts, ObjectsInv, Types, Changed
  <2>4. /\ streak[job[t]].result = result[t]
        /\ streak[job[t]].times = MaxRetry + 1
    BY <1>1, <2>3 DEF ConfirmInv, Counts, CountsWhenRun, Posts
  <2>5. streak[job[t]] \in [result : State, times : 0..(MaxRetry + 1)]
    BY <2>1, <2>3 DEF ObjectsInv, Types
  <2> QED BY <2>4, <2>5
<1>2. ConfirmInv /\ [Next]_vars =>
        [\A t \in Thread :
           Posts(t) /\ job[t] \notin shared =>
             streak[job[t]] = [result |-> result[t], times |-> MaxRetry + 1]]_vars
  BY <1>1
<1> QED BY ConfirmInvHolds, <1>2, PTL DEF Spec, ChangeIsConfirmed

\* TypeOK: numbers of objects and arguments never run out.
THEOREM TypeCorrect == Spec => []TypeOK
<1>1. ObjectsInv => TypeOK
  <2> SUFFICES ASSUME ObjectsInv PROVE TypeOK
    OBVIOUS
  <2>1. \A n \in Nat : n <= edits + 1 => n \in Args
    BY BoundAssumption DEF ObjectsInv, Types, Args
  <2>2. args \in [Service -> Args] /\ argsOf \in [Checker -> Args]
    BY <2>1 DEF ObjectsInv, Types, ArgsAreOld
  <2> QED BY <2>2 DEF ObjectsInv, Types, TypeOK
<1> QED BY ObjectsInvHolds, <1>1, PTL
================================================================================
