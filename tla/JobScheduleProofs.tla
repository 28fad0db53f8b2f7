---------------------------- MODULE JobScheduleProofs ----------------------------
(***************************************************************************)
(* Theorems about JobSchedule, for any jobs, netboxes, limits and changes  *)
(* of the database.                                                        *)
(***************************************************************************)
EXTENDS JobSchedule, FiniteSetTheorems, SequenceTheorems, WellFoundedInduction, TLAPS

\* Handlers, with no bound on how many a netbox has had.
AnyHandler == Job \X Netbox \X Nat

HandlerTypes ==
  /\ calls \subseteq AnyHandler /\ running \subseteq AnyHandler /\ cancelled \subseteq AnyHandler
  /\ jobQueue \in [Job -> Seq(AnyHandler)] /\ globalQueue \in Seq(AnyHandler)
  /\ active \in [Job -> SUBSET AnyHandler]

LoaderTypes ==
  /\ db \in [Netbox -> {Absent} \cup Details]
  /\ netboxes \in [Job -> [Netbox -> {Absent} \cup Details]]
  /\ reload \in [Job -> [new : SUBSET Netbox, removed : SUBSET Netbox,
                         changed : SUBSET Netbox]]

\* The handlers that a netbox has had are numbered as they came.
Numbered == \A j \in Job, n \in Netbox :
  \E k \in Nat : {h \in Created : h[1] = j /\ h[2] = n} = {<<j, n, g>> : g \in 1..k}

\* The current handlers are those that can be anywhere and are not cancelled,
ActiveIsValid == \A j \in Job : active[j] = {h \in Created \ cancelled : h[1] = j}

\* one for each netbox,
OneEach == \A j \in Job : \A h, o \in active[j] : h[2] = o[2] => h = o

\* Had the job loaded the netbox before the load that is yet to be processed, if any?
Had(j, n) == \/ n \in reload[j].removed \cup reload[j].changed
             \/ netboxes[j][n] # Absent /\ n \notin reload[j].new

\* and for no netbox that the job had not loaded.
ActiveIsLoaded == \A j \in Job, n \in Netbox : HandlersOf(j, {n}) # {} <=> Had(j, n)

\* The difference that was loaded is one to what is loaded now.
DifferenceIsTrue == \A j \in Job :
  /\ \A n \in reload[j].new \cup reload[j].changed : netboxes[j][n] # Absent
  /\ \A n \in reload[j].removed : netboxes[j][n] = Absent
  /\ reload[j].new \cap reload[j].changed = {}

HandlersInv == /\ HandlerTypes /\ LoaderTypes /\ Numbered /\ ActiveIsValid /\ OneEach
               /\ ActiveIsLoaded /\ DifferenceIsTrue

--------------------------------------------------------------------------------
(* Sequences. *)

\* A set of numbers that is not empty has a least one.
LEMMA LeastIsIn ==
  ASSUME NEW S \in SUBSET Nat, S # {}
  PROVE  Min(S) \in S
<1> DEFINE R == {p \in Nat \X Nat : p[1] < p[2]}
<1>1. IsWellFoundedOn(R, Nat)
  BY NatLessThanWellFounded, Zenon DEF OpToRel
<1>2. PICK x \in S : \A y \in S : ~(<<y, x>> \in R)
  BY <1>1, WFMin
<1>3. \A y \in S : y \in Nat /\ x \in Nat /\ ~(y < x)
  BY <1>2
<1>4. \E m \in S : \A k \in S : m <= k
  BY <1>3
<1> QED BY <1>4 DEF Min

\* What RemoveAt leaves, element by element.
LEMMA RemoveAtElements ==
  ASSUME NEW S, NEW s \in Seq(S), NEW k \in 1..Len(s)
  PROVE  /\ RemoveAt(s, k) \in Seq(S)
         /\ Len(RemoveAt(s, k)) = Len(s) - 1
         /\ \A i \in 1..(Len(s) - 1) :
              RemoveAt(s, k)[i] = IF i < k THEN s[i] ELSE s[i + 1]
  <1> DEFINE a == SubSeq(s, 1, k - 1)
             b == SubSeq(s, k + 1, Len(s))
  <1>1. /\ a \in Seq(S) /\ Len(a) = k - 1
        /\ \A i \in 1..(k - 1) : a[i] = s[i]
    BY SubSeqProperties
  <1>2. /\ b \in Seq(S) /\ Len(b) = Len(s) - k
        /\ \A i \in 1..(Len(s) - k) : b[i] = s[i + k]
    BY SubSeqProperties
  <1>3. RemoveAt(s, k) = a \o b
    BY DEF RemoveAt
  <1> HIDE DEF a, b
  <1>4. /\ a \o b \in Seq(S) /\ Len(a \o b) = Len(a) + Len(b)
        /\ \A i \in 1..(Len(a) + Len(b)) :
             (a \o b)[i] = IF i <= Len(a) THEN a[i] ELSE b[i - Len(a)]
    BY <1>1, <1>2, ConcatProperties
  <1>5. ASSUME NEW i \in 1..(Len(s) - 1)
        PROVE  RemoveAt(s, k)[i] = IF i < k THEN s[i] ELSE s[i + 1]
    <2>1. CASE i < k
      BY <2>1, <1>1, <1>2, <1>3, <1>4
    <2>2. CASE i >= k
      <3>1. i - Len(a) \in 1..(Len(s) - k)
        BY <2>2, <1>1
      <3>2. b[i - Len(a)] = s[i - Len(a) + k]
        BY <3>1, <1>2
      <3> QED
        BY <2>2, <3>1, <3>2, <1>1, <1>2, <1>3, <1>4
    <2> QED
      BY <2>1, <2>2
  <1> QED
    BY <1>1, <1>2, <1>3, <1>4, <1>5

\* What goes to a queue or comes from it.
LEMMA QueueElements ==
  ASSUME NEW S, NEW q \in Seq(S), NEW x \in S
  PROVE  /\ Append(q, x) \in Seq(S) /\ Range(Append(q, x)) = Range(q) \cup {x}
         /\ q # <<>> => /\ Head(q) \in S /\ Tail(q) \in Seq(S)
                        /\ Range(q) = Range(Tail(q)) \cup {Head(q)}
         /\ \A i \in DOMAIN q : /\ q[i] \in S /\ RemoveAt(q, i) \in Seq(S)
                                /\ Range(q) = Range(RemoveAt(q, i)) \cup {q[i]}
<1>1. DOMAIN q = 1..Len(q) /\ Len(q) \in Nat /\ \A i \in 1..Len(q) : q[i] \in S
  BY LenProperties
<1>2. Append(q, x) \in Seq(S) /\ Range(Append(q, x)) = Range(q) \cup {x}
  <2>1. /\ Append(q, x) \in Seq(S) /\ DOMAIN Append(q, x) = 1..(Len(q) + 1)
        /\ \A i \in 1..Len(q) : Append(q, x)[i] = q[i]
        /\ Append(q, x)[Len(q) + 1] = x
    BY AppendProperties, LenProperties
  <2>2. Range(Append(q, x)) \subseteq Range(q) \cup {x}
    BY <1>1, <2>1 DEF Range
  <2>3. Range(q) \cup {x} \subseteq Range(Append(q, x))
    BY <1>1, <2>1 DEF Range
  <2> QED BY <2>1, <2>2, <2>3
<1>3. ASSUME q # <<>>
      PROVE  /\ Head(q) \in S /\ Tail(q) \in Seq(S)
             /\ Range(q) = Range(Tail(q)) \cup {Head(q)}
  <2>1. /\ Head(q) \in S /\ Tail(q) \in Seq(S) /\ Head(q) = q[1] /\ Len(q) > 0
        /\ DOMAIN Tail(q) = 1..(Len(q) - 1)
        /\ \A i \in 1..(Len(q) - 1) : Tail(q)[i] = q[i + 1]
    BY <1>1, <1>3
  <2>2. Range(q) \subseteq Range(Tail(q)) \cup {Head(q)}
    <3>1. ASSUME NEW i \in 1..Len(q), i # 1
          PROVE  i - 1 \in 1..(Len(q) - 1) /\ Tail(q)[i - 1] = q[i]
      BY <1>1, <2>1, <3>1
    <3>2. \A i \in 1..Len(q) : q[i] \in Range(Tail(q)) \cup {Head(q)}
      BY <2>1, <3>1 DEF Range
    <3> QED BY <1>1, <3>2 DEF Range
  <2>3. Range(Tail(q)) \cup {Head(q)} \subseteq Range(q)
    BY <1>1, <2>1 DEF Range
  <2> QED BY <2>1, <2>2, <2>3
<1>4. ASSUME NEW i \in DOMAIN q
      PROVE  /\ q[i] \in S /\ RemoveAt(q, i) \in Seq(S)
             /\ Range(q) = Range(RemoveAt(q, i)) \cup {q[i]}
  <2> DEFINE r == RemoveAt(q, i)
  <2>1. /\ r \in Seq(S) /\ Len(r) = Len(q) - 1 /\ DOMAIN r = 1..(Len(q) - 1)
        /\ \A k \in 1..(Len(q) - 1) : r[k] = IF k < i THEN q[k] ELSE q[k + 1]
    BY <1>1, RemoveAtElements, LenProperties
  <2> HIDE DEF r
  <2>2. Range(q) \subseteq Range(r) \cup {q[i]}
    <3>1. ASSUME NEW k \in 1..Len(q), k < i
          PROVE  k \in 1..(Len(q) - 1) /\ r[k] = q[k]
      BY <1>1, <2>1, <3>1
    <3>2. ASSUME NEW k \in 1..Len(q), k > i
          PROVE  k - 1 \in 1..(Len(q) - 1) /\ r[k - 1] = q[k]
      BY <1>1, <2>1, <3>2
    <3>3. \A k \in 1..Len(q) : k < i \/ k > i => q[k] \in Range(r)
      BY <2>1, <3>1, <3>2 DEF Range
    <3>4. \A k \in 1..Len(q) : q[k] \in Range(r) \cup {q[i]}
      BY <1>1, <3>3
    <3> QED BY <1>1, <3>4 DEF Range
  <2>3. Range(r) \cup {q[i]} \subseteq Range(q)
    <3>1. \A k \in 1..(Len(q) - 1) : k \in DOMAIN q /\ k + 1 \in DOMAIN q
      BY <1>1
    <3>2. \A k \in DOMAIN r : r[k] \in Range(q)
      BY <2>1, <3>1 DEF Range
    <3> QED BY <3>2 DEF Range
  <2> QED BY <1>1, <2>1, <2>2, <2>3 DEF r
<1> QED BY <1>2, <1>3, <1>4

--------------------------------------------------------------------------------
(* The steps of a handler: it goes from one place to another. *)

\* The places a handler may be in.
LEMMA CreatedElements ==
  /\ \A x : x \in Created <=> \/ x \in calls \cup running \cup cancelled
                              \/ x \in Range(globalQueue)
                              \/ \E j \in Job : x \in Range(jobQueue[j])
  /\ \A x : x \in Created' <=> \/ x \in calls' \cup running' \cup cancelled'
                               \/ x \in Range(globalQueue')
                               \/ \E j \in Job : x \in Range(jobQueue'[j])
<1>1. \A x : x \in Waiting <=> x \in Range(globalQueue) \/ \E j \in Job : x \in Queued(j)
  BY DEF Waiting
<1>2. \A x : x \in Waiting' <=> x \in Range(globalQueue') \/ \E j \in Job : x \in Queued(j)'
  BY DEF Waiting
<1> QED BY <1>1, <1>2 DEF Created, Queued

\* Where nobody is created or cancelled, the invariant stays.
LEMMA SameCreated ==
  ASSUME HandlersInv, HandlerTypes', Created' = Created,
         UNCHANGED <<active, netboxes, reload, cancelled>>, LoaderTypes'
  PROVE  HandlersInv'
<1>1. Numbered'
  BY DEF HandlersInv, Numbered
<1>2. ActiveIsValid'
  BY DEF HandlersInv, ActiveIsValid
<1>3. OneEach' /\ ActiveIsLoaded' /\ DifferenceIsTrue'
  BY DEF HandlersInv, OneEach, ActiveIsLoaded, HandlersOf, Had, DifferenceIsTrue
<1> QED BY <1>1, <1>2, <1>3 DEF HandlersInv

\* run_job: the handler runs, is queued, or is called again.
LEMMA RunJobCreated ==
  ASSUME HandlersInv, NEW h \in calls, Execute(h) \/ RunJob(h)
  PROVE  HandlersInv'
<1>1. UNCHANGED <<active, netboxes, reload, cancelled, db>>
  BY DEF Execute, RunJob, loader, world
<1>2. /\ h \in AnyHandler /\ JobOf(h) \in Job
      /\ calls \subseteq AnyHandler /\ running \subseteq AnyHandler
      /\ jobQueue \in [Job -> Seq(AnyHandler)] /\ globalQueue \in Seq(AnyHandler)
  BY DEF HandlersInv, HandlerTypes, JobOf, AnyHandler
<1>3. CASE Execute(h) \/ ExecuteFails(h)
  <2>1. /\ UNCHANGED <<jobQueue, globalQueue>>
        /\ running' = running \/ running' = running \cup {h}
        /\ calls' \subseteq calls /\ calls \subseteq calls' \cup {h}
        /\ h \in calls' \cup running' \cup cancelled'
    BY <1>1, <1>3 DEF Execute, ExecuteFails, Reschedule
  <2>2. HandlerTypes'
    BY <1>1, <1>2, <2>1 DEF HandlersInv, HandlerTypes
  <2>3. \A x : x \in Created' <=> x \in Created
    BY <1>1, <2>1, CreatedElements
  <2> QED BY <1>1, <2>2, <2>3, SameCreated DEF HandlersInv, LoaderTypes
<1>4. CASE WaitForJob(h)
  <2>1. /\ UNCHANGED <<running, globalQueue>> /\ calls' = calls \ {h}
        /\ jobQueue' = [jobQueue EXCEPT ![JobOf(h)] = Append(@, h)]
    BY <1>4 DEF WaitForJob
  <2>2. /\ jobQueue'[JobOf(h)] \in Seq(AnyHandler)
        /\ Range(jobQueue'[JobOf(h)]) = Range(jobQueue[JobOf(h)]) \cup {h}
        /\ \A j \in Job \ {JobOf(h)} : jobQueue'[j] = jobQueue[j]
    BY <1>2, <2>1, QueueElements
  <2>3. HandlerTypes'
    <3>1. jobQueue' \in [Job -> Seq(AnyHandler)]
      BY <1>2, <2>1, <2>2
    <3> QED BY <1>1, <1>2, <2>1, <3>1 DEF HandlersInv, HandlerTypes
  <2>4. \A x : x \in Created' <=> x \in Created
    BY <1>1, <1>2, <2>1, <2>2, CreatedElements
  <2> QED BY <1>1, <2>3, <2>4, SameCreated DEF HandlersInv, LoaderTypes
<1>5. CASE WaitForAny(h)
  <2>1. /\ UNCHANGED <<running, jobQueue>> /\ calls' = calls \ {h}
        /\ globalQueue' = Append(globalQueue, h)
    BY <1>5 DEF WaitForAny
  <2>2. /\ globalQueue' \in Seq(AnyHandler)
        /\ Range(globalQueue') = Range(globalQueue) \cup {h}
    BY <1>2, <2>1, QueueElements
  <2>3. HandlerTypes'
    BY <1>1, <1>2, <2>1, <2>2 DEF HandlersInv, HandlerTypes
  <2>4. \A x : x \in Created' <=> x \in Created
    BY <1>1, <2>1, <2>2, CreatedElements
  <2> QED BY <1>1, <2>3, <2>4, SameCreated DEF HandlersInv, LoaderTypes
<1> QED BY <1>3, <1>4, <1>5 DEF RunJob

\* Whom unqueue_next_job and unqueue_next_global_job wake comes from the queue.
LEMMA WokenWereQueued ==
  ASSUME HandlerTypes, NEW j \in Job, NEW c, NEW l
  PROVE  LET next == Unqueue(j, c)
             any  == UnqueueGlobal(c, l)
         IN /\ next[1] \subseteq AnyHandler /\ next[2] \in Seq(AnyHandler)
            /\ Range(jobQueue[j]) = Range(next[2]) \cup next[1]
            /\ any[1] \subseteq AnyHandler /\ any[2] \in Seq(AnyHandler)
            /\ Range(globalQueue) = Range(any[2]) \cup any[1]
<1> DEFINE next == Unqueue(j, c)
           any  == UnqueueGlobal(c, l)
<1>1. jobQueue[j] \in Seq(AnyHandler) /\ globalQueue \in Seq(AnyHandler)
  BY DEF HandlerTypes
<1>2. \A q \in Seq(AnyHandler) : q # <<>> =>
        Head(q) \in AnyHandler /\ Tail(q) \in Seq(AnyHandler)
        /\ Range(q) = Range(Tail(q)) \cup {Head(q)}
  <2> SUFFICES ASSUME NEW q \in Seq(AnyHandler), q # <<>>
               PROVE  Head(q) \in AnyHandler /\ Tail(q) \in Seq(AnyHandler)
                      /\ Range(q) = Range(Tail(q)) \cup {Head(q)}
    OBVIOUS
  <2>1. Head(q) \in AnyHandler
    OBVIOUS
  <2> QED BY <2>1, QueueElements
<1>3. \/ /\ jobQueue[j] # <<>>
         /\ next = <<{Head(jobQueue[j])}, Tail(jobQueue[j])>>
      \/ next = <<{}, jobQueue[j]>>
  BY DEF Unqueue
<1>4. /\ next[1] \subseteq AnyHandler /\ next[2] \in Seq(AnyHandler)
      /\ Range(jobQueue[j]) = Range(next[2]) \cup next[1]
  <2> HIDE DEF next
  <2>1. CASE /\ jobQueue[j] # <<>>
             /\ next = <<{Head(jobQueue[j])}, Tail(jobQueue[j])>>
    BY <1>1, <1>2, <2>1
  <2>2. CASE next = <<{}, jobQueue[j]>>
    BY <1>1, <2>2
  <2> QED BY <1>3, <2>1, <2>2
<1>5. CASE ~GlobalLimitReached(c, l) /\ Ready(c) # {}
  <2> DEFINE i == Min(Ready(c))
  <2>1. Ready(c) \subseteq DOMAIN globalQueue /\ DOMAIN globalQueue \subseteq Nat
    BY <1>1, LenProperties DEF Ready
  <2>2. i \in DOMAIN globalQueue
    BY <1>5, <2>1, LeastIsIn
  <2>3. any = <<{globalQueue[i]}, RemoveAt(globalQueue, i)>>
    BY <1>5 DEF UnqueueGlobal
  <2> HIDE DEF i, any
  <2>4. globalQueue[i] \in AnyHandler
    BY <1>1, <2>2
  <2>5. /\ RemoveAt(globalQueue, i) \in Seq(AnyHandler)
        /\ Range(globalQueue) = Range(RemoveAt(globalQueue, i)) \cup {globalQueue[i]}
    BY <1>1, <2>2, <2>4, QueueElements
  <2> QED BY <1>4, <2>3, <2>4, <2>5 DEF any
<1>6. CASE ~(~GlobalLimitReached(c, l) /\ Ready(c) # {})
  <2>1. any = <<{}, globalQueue>>
    BY <1>6 DEF UnqueueGlobal
  <2> QED BY <1>1, <1>4, <2>1
<1> QED BY <1>5, <1>6

\* The end of a job: it is rescheduled unless cancelled, and others are woken.
LEMMA FinishCreated ==
  ASSUME HandlersInv, NEW h \in running, Finish(h)
  PROVE  HandlersInv'
<1> DEFINE j == JobOf(h)
<1>1. /\ UNCHANGED <<active, netboxes, reload, cancelled, db>>
      /\ h \in AnyHandler /\ j \in Job /\ running' = running \ {h}
      /\ jobQueue \in [Job -> Seq(AnyHandler)]
  BY DEF Finish, loader, world, HandlersInv, HandlerTypes, JobOf, AnyHandler
<1>2. PICK next, any :
        /\ next = Unqueue(j, Uncount(j)) /\ any = UnqueueGlobal(Uncount(j), limit')
        /\ jobQueue' = [jobQueue EXCEPT ![j] = next[2]]
        /\ globalQueue' = any[2]
        /\ calls' = Reschedule(calls, h) \cup next[1] \cup any[1]
  BY DEF Finish
<1>3. /\ next[1] \subseteq AnyHandler /\ next[2] \in Seq(AnyHandler)
      /\ Range(jobQueue[j]) = Range(next[2]) \cup next[1]
      /\ any[1] \subseteq AnyHandler /\ any[2] \in Seq(AnyHandler)
      /\ Range(globalQueue) = Range(any[2]) \cup any[1]
  BY <1>1, <1>2, WokenWereQueued DEF HandlersInv
<1>4. Reschedule(calls, h) \in {calls, calls \cup {h}} /\ h \in Reschedule(calls, h) \cup cancelled
  BY DEF Reschedule
<1> HIDE DEF j
<1>5. jobQueue'[j] = next[2] /\ \A k \in Job \ {j} : jobQueue'[k] = jobQueue[k]
  BY <1>1, <1>2
<1>6. HandlerTypes'
  <2>1. jobQueue' \in [Job -> Seq(AnyHandler)]
    BY <1>1, <1>2, <1>3
  <2>2. calls' \subseteq AnyHandler
    BY <1>1, <1>2, <1>3, <1>4 DEF HandlersInv, HandlerTypes
  <2> QED BY <1>1, <1>2, <1>3, <2>1, <2>2 DEF HandlersInv, HandlerTypes
<1>7. \A x : x \in Created' <=> x \in Created
  BY <1>1, <1>2, <1>3, <1>4, <1>5, CreatedElements
<1> QED BY <1>1, <1>6, <1>7, SameCreated DEF HandlersInv, LoaderTypes

--------------------------------------------------------------------------------
(* The steps of the job scheduler. *)

\* What was loaded before decides what is new, removed or changed.
LEMMA LoadKeeps ==
  ASSUME HandlersInv, NEW j \in Job, Load(j)
  PROVE  HandlersInv'
<1> DEFINE old == netboxes[j]
<1>1. /\ UNCHANGED <<db, active, calls, jobQueue, globalQueue, running, cancelled>>
      /\ reload' = [reload EXCEPT ![j] = Differences(old)]
      /\ netboxes' = [netboxes EXCEPT ![j] = db] /\ reload[j] = Idle
  BY DEF Load, world
<1>2. /\ old \in [Netbox -> {Absent} \cup Details] /\ db \in [Netbox -> {Absent} \cup Details]
      /\ DOMAIN reload = Job /\ DOMAIN netboxes = Job
  BY DEF HandlersInv, LoaderTypes
<1>3. /\ Differences(old).new = {n \in Netbox : old[n] = Absent /\ db[n] # Absent}
      /\ Differences(old).removed = {n \in Netbox : old[n] # Absent /\ db[n] = Absent}
      /\ Differences(old).changed =
           {n \in Netbox : old[n] # Absent /\ db[n] # Absent /\ old[n] # db[n]}
      /\ Differences(old) \in [new : SUBSET Netbox, removed : SUBSET Netbox,
                               changed : SUBSET Netbox]
  BY DEF Differences
<1>4. HandlerTypes' /\ LoaderTypes'
  <2>1. HandlerTypes'
    BY <1>1 DEF HandlersInv, HandlerTypes
  <2>2. reload' \in [Job -> [new : SUBSET Netbox, removed : SUBSET Netbox,
                             changed : SUBSET Netbox]]
    BY <1>1, <1>3 DEF HandlersInv, LoaderTypes
  <2>3. netboxes' \in [Job -> [Netbox -> {Absent} \cup Details]]
    BY <1>1, <1>2 DEF HandlersInv, LoaderTypes
  <2> QED BY <1>1, <1>2, <2>1, <2>2, <2>3 DEF LoaderTypes
<1>5. Created' = Created
  <2>1. \A x : x \in Created' <=> x \in Created
    BY <1>1, CreatedElements
  <2> QED BY <2>1
<1>6. Numbered' /\ ActiveIsValid' /\ OneEach'
  <2>1. Numbered'
    BY <1>5 DEF HandlersInv, Numbered
  <2>2. ActiveIsValid' /\ OneEach'
    BY <1>1, <1>5 DEF HandlersInv, ActiveIsValid, OneEach
  <2> QED BY <2>1, <2>2
<1>7. reload'[j] = Differences(old) /\ netboxes'[j] = db
  BY <1>1, <1>2
<1>8. \A i \in Job \ {j} : reload'[i] = reload[i] /\ netboxes'[i] = netboxes[i]
  BY <1>1, <1>2
<1> HIDE DEF old
<1>9. \A n \in Netbox : Had(j, n)' <=> Had(j, n)
  <2>1. \A n \in Netbox : Had(j, n) <=> old[n] # Absent
    BY <1>1 DEF Had, Idle, old
  <2>2. \A n \in Netbox : Had(j, n)' <=> old[n] # Absent
    BY <1>3, <1>7 DEF Had
  <2> QED BY <2>1, <2>2
<1>10. ActiveIsLoaded'
  <2>1. \A i \in Job, n \in Netbox : Had(i, n)' <=> Had(i, n)
    BY <1>8, <1>9 DEF Had
  <2>2. \A i \in Job, n \in Netbox : (\E h \in active[i] : h[2] = n) <=> Had(i, n)
    BY DEF HandlersInv, ActiveIsLoaded, HandlersOf
  <2>3. \A i \in Job, n \in Netbox : (\E h \in active'[i] : h[2] = n) <=> Had(i, n)'
    BY <1>1, <2>1, <2>2
  <2> QED BY <2>3 DEF ActiveIsLoaded, HandlersOf
<1>11. DifferenceIsTrue'
  BY <1>3, <1>7, <1>8 DEF HandlersInv, DifferenceIsTrue
<1> QED BY <1>4, <1>6, <1>10, <1>11 DEF HandlersInv

\* A new handler is one that was not there before.
LEMMA NewHandlerIsNew ==
  ASSUME HandlersInv, NEW j \in Job, NEW n \in Netbox
  PROVE  /\ NewHandler(j, n) \notin Created
         /\ NewHandler(j, n) \in AnyHandler
         /\ NewHandler(j, n)[1] = j /\ NewHandler(j, n)[2] = n
         /\ \E k \in Nat :
              {h \in Created : h[1] = j /\ h[2] = n} \cup {NewHandler(j, n)}
                = {<<j, n, g>> : g \in 1..k}
<1> DEFINE S == {h \in Created : h[1] = j /\ h[2] = n}
<1>1. PICK k \in Nat : S = {<<j, n, g>> : g \in 1..k}
  BY DEF HandlersInv, Numbered
<1> HIDE DEF S
<1>2. Cardinality(S) = k
  <2> DEFINE f == [g \in 1..k |-> <<j, n, g>>]
  <2>1. f \in Bijection(1..k, S)
    BY <1>1 DEF Bijection, Injection, Surjection, IsInjective
  <2> QED BY <2>1, FS_CountingElements DEF ExistsBijection
<1>3. NewHandler(j, n) = <<j, n, k + 1>>
  BY <1>2 DEF NewHandler, S
<1>4. <<j, n, k + 1>> \notin S
  BY <1>1
<1>5. S \cup {<<j, n, k + 1>>} = {<<j, n, g>> : g \in 1..(k + 1)}
  BY <1>1
<1>6. <<j, n, k + 1>> \notin Created
  BY <1>4 DEF S
<1> QED BY <1>3, <1>5, <1>6 DEF S, AnyHandler

\* The result of a load: the old handlers are cancelled, and each netbox that was new or
\* changed gets one.
LEMMA ProcessKeeps ==
  ASSUME HandlersInv, NEW j \in Job, Process(j)
  PROVE  HandlersInv'
<1>1. PICK r, gone, fresh :
        /\ r = reload[j] /\ gone = HandlersOf(j, r.removed \cup r.changed)
        /\ fresh = {NewHandler(j, n) : n \in r.new \cup r.changed}
        /\ cancelled' = cancelled \cup gone /\ calls' = (calls \ gone) \cup fresh
        /\ active' = [active EXCEPT ![j] =
             (@ \ HandlersOf(j, r.new \cup r.removed \cup r.changed)) \cup fresh]
  BY DEF Process, Outdated
<1>2. /\ UNCHANGED <<db, netboxes, jobQueue, globalQueue, running>>
      /\ reload' = [reload EXCEPT ![j] = Idle]
  BY DEF Process, world
<1>3. /\ r.new \subseteq Netbox /\ r.removed \subseteq Netbox /\ r.changed \subseteq Netbox
      /\ DOMAIN reload = Job /\ DOMAIN active = Job /\ active[j] \subseteq AnyHandler
  BY <1>1 DEF HandlersInv, LoaderTypes, HandlerTypes
<1>4. /\ \A n \in r.new \cup r.changed : netboxes[j][n] # Absent
      /\ \A n \in r.removed : netboxes[j][n] = Absent
      /\ r.new \cap r.changed = {}
  BY <1>1 DEF HandlersInv, DifferenceIsTrue
<1>5. \A h \in active[j] : h[2] \in Netbox /\ h \in Created /\ h[1] = j /\ h \notin cancelled
  BY <1>3 DEF HandlersInv, ActiveIsValid, AnyHandler
<1>6. \A h \in active[j] : h[2] \notin r.new
  <2>1. \A h \in active[j] : HandlersOf(j, {h[2]}) # {}
    BY DEF HandlersOf
  <2> QED BY <1>1, <1>4, <1>5, <2>1 DEF HandlersInv, ActiveIsLoaded, Had
<1>7. gone = {h \in active[j] : h[2] \in r.removed \cup r.changed}
  BY <1>1 DEF HandlersOf
<1>8. /\ active'[j] = (active[j] \ gone) \cup fresh
      /\ \A i \in Job \ {j} : active'[i] = active[i]
  BY <1>1, <1>3, <1>6, <1>7 DEF HandlersOf
<1>9. /\ \A o \in fresh : /\ o \in AnyHandler /\ o \notin Created
                          /\ o[1] = j /\ o[2] \in r.new \cup r.changed
      /\ \A n \in r.new \cup r.changed : NewHandler(j, n) \in fresh
      /\ \A o, p \in fresh : o[2] = p[2] => o = p
  <2>1. \A n \in r.new \cup r.changed :
          /\ NewHandler(j, n) \notin Created /\ NewHandler(j, n) \in AnyHandler
          /\ NewHandler(j, n)[1] = j /\ NewHandler(j, n)[2] = n
    BY <1>3, NewHandlerIsNew
  <2> QED BY <1>1, <2>1
<1>10. \A x : x \in Created' <=> x \in Created \/ x \in fresh
  BY <1>1, <1>2, <1>5, <1>7, CreatedElements
<1>11. HandlerTypes' /\ LoaderTypes'
  <2>1. active' \in [Job -> SUBSET AnyHandler]
    BY <1>1, <1>3, <1>8, <1>9 DEF HandlersInv, HandlerTypes
  <2>2. calls' \subseteq AnyHandler /\ cancelled' \subseteq AnyHandler
    BY <1>1, <1>3, <1>7, <1>9 DEF HandlersInv, HandlerTypes
  <2>3. reload' \in [Job -> [new : SUBSET Netbox, removed : SUBSET Netbox,
                             changed : SUBSET Netbox]]
    BY <1>2 DEF HandlersInv, LoaderTypes, Idle
  <2> QED BY <1>2, <2>1, <2>2, <2>3 DEF HandlersInv, HandlerTypes, LoaderTypes
<1>12. Numbered'
  <2> SUFFICES ASSUME NEW i \in Job, NEW n \in Netbox
               PROVE  \E k \in Nat : {h \in Created' : h[1] = i /\ h[2] = n}
                                       = {<<i, n, g>> : g \in 1..k}
    BY DEF Numbered
  <2>1. CASE i = j /\ n \in r.new \cup r.changed
    <3>1. \A o \in fresh : o[2] = n => o = NewHandler(j, n)
      BY <1>9, <2>1, NewHandlerIsNew
    <3>2. NewHandler(j, n)[1] = j /\ NewHandler(j, n)[2] = n /\ NewHandler(j, n) \in fresh
      BY <1>9, <2>1, NewHandlerIsNew
    <3>3. {h \in Created' : h[1] = i /\ h[2] = n}
            = {h \in Created : h[1] = j /\ h[2] = n} \cup {NewHandler(j, n)}
      BY <1>9, <1>10, <2>1, <3>1, <3>2
    <3> QED BY <2>1, <3>3, NewHandlerIsNew
  <2>2. CASE ~(i = j /\ n \in r.new \cup r.changed)
    <3>1. {h \in Created' : h[1] = i /\ h[2] = n} = {h \in Created : h[1] = i /\ h[2] = n}
      BY <1>9, <1>10, <2>2
    <3> QED BY <3>1 DEF HandlersInv, Numbered
  <2> QED BY <2>1, <2>2
<1>13. ActiveIsValid'
  <2> SUFFICES ASSUME NEW i \in Job
               PROVE  active'[i] = {h \in Created' \ cancelled' : h[1] = i}
    BY DEF ActiveIsValid
  <2>1. active[i] = {h \in Created \ cancelled : h[1] = i}
    BY DEF HandlersInv, ActiveIsValid
  <2>2. \A x \in fresh : x \notin cancelled /\ x \notin gone
    BY <1>5, <1>7, <1>9, CreatedElements
  <2>3. CASE i = j
    BY <1>1, <1>8, <1>9, <1>10, <2>1, <2>2, <2>3
  <2>4. CASE i # j
    BY <1>1, <1>5, <1>7, <1>8, <1>9, <1>10, <2>1, <2>2, <2>4
  <2> QED BY <2>3, <2>4
<1>14. OneEach'
  <2> SUFFICES ASSUME NEW i \in Job, NEW h \in active'[i], NEW o \in active'[i], h[2] = o[2]
               PROVE  h = o
    BY DEF OneEach
  <2>1. CASE i # j
    BY <1>8, <2>1 DEF HandlersInv, OneEach
  <2>2. CASE i = j
    <3>1. \A x \in active[j] \ gone : x[2] \notin r.new \cup r.changed
      BY <1>6, <1>7
    <3>2. \A x, y \in active[j] : x[2] = y[2] => x = y
      BY DEF HandlersInv, OneEach
    <3> QED BY <1>8, <1>9, <2>2, <3>1, <3>2
  <2> QED BY <2>1, <2>2
<1>15. reload'[j] = Idle /\ \A i \in Job \ {j} : reload'[i] = reload[i]
  BY <1>2, <1>3
<1>16. ActiveIsLoaded'
  <2> SUFFICES ASSUME NEW i \in Job, NEW n \in Netbox
               PROVE  (\E h \in active'[i] : h[2] = n) <=> Had(i, n)'
    BY DEF ActiveIsLoaded, HandlersOf
  <2>1. (\E h \in active[i] : h[2] = n) <=> Had(i, n)
    BY DEF HandlersInv, ActiveIsLoaded, HandlersOf
  <2>2. CASE i # j
    BY <1>2, <1>8, <1>15, <2>1, <2>2 DEF Had
  <2>3. CASE i = j
    <3>1. Had(j, n)' <=> netboxes[j][n] # Absent
      BY <1>2, <1>15 DEF Had, Idle
    <3>2. CASE n \in r.new \cup r.changed
      <4>1. NewHandler(j, n) \in fresh /\ NewHandler(j, n)[2] = n
        BY <1>9, <3>2, NewHandlerIsNew
      <4> QED BY <1>4, <1>8, <2>3, <3>1, <3>2, <4>1
    <3>3. CASE n \notin r.new \cup r.changed
      <4>1. (\E h \in active'[j] : h[2] = n) <=>
              (\E h \in active[j] : h[2] = n) /\ n \notin r.removed
        BY <1>7, <1>8, <1>9, <3>3
      <4>2. Had(j, n) <=> n \in r.removed \/ netboxes[j][n] # Absent
        BY <1>1, <3>3 DEF Had
      <4> QED BY <1>4, <2>1, <2>3, <3>1, <4>1, <4>2
    <3> QED BY <3>2, <3>3
  <2> QED BY <2>2, <2>3
<1>17. DifferenceIsTrue'
  BY <1>2, <1>15 DEF HandlersInv, DifferenceIsTrue, Idle
<1> QED BY <1>11, <1>12, <1>13, <1>14, <1>16, <1>17 DEF HandlersInv

--------------------------------------------------------------------------------
(* Theorems. *)

\* At the start nothing is loaded and no netbox has a handler.
LEMMA InitHandlers == Init => HandlersInv
<1> SUFFICES ASSUME Init PROVE HandlersInv
  OBVIOUS
<1>1. /\ calls = {} /\ running = {} /\ cancelled = {} /\ globalQueue = <<>>
      /\ jobQueue = [j \in Job |-> <<>>] /\ active = [j \in Job |-> {}]
      /\ reload = [j \in Job |-> Idle]
      /\ netboxes = [j \in Job |-> [n \in Netbox |-> Absent]]
      /\ db \in [Netbox -> {Absent, 1}]
  BY DEF Init
<1>2. HandlerTypes /\ LoaderTypes
  <2>1. HandlerTypes
    BY <1>1 DEF HandlerTypes
  <2>2. LoaderTypes
    BY <1>1 DEF LoaderTypes, Idle, Details
  <2> QED BY <2>1, <2>2
<1>3. \A x : x \notin Created
  BY <1>1, CreatedElements DEF Range
<1>4. Numbered
  <2>1. \A j \in Job, n \in Netbox :
          {h \in Created : h[1] = j /\ h[2] = n} = {<<j, n, g>> : g \in 1..0}
    BY <1>3
  <2> QED BY <2>1 DEF Numbered
<1>5. ActiveIsValid /\ OneEach /\ ActiveIsLoaded /\ DifferenceIsTrue
  BY <1>1, <1>3 DEF ActiveIsValid, OneEach, ActiveIsLoaded, HandlersOf, Had, Idle,
                    DifferenceIsTrue
<1> QED BY <1>2, <1>4, <1>5 DEF HandlersInv

\* The handlers that are not cancelled are the current ones, one for each netbox that was
\* loaded: kept by every step of the handlers, of the reloads and of the database.
THEOREM HandlersInvHolds == Spec => []HandlersInv
<1>1. HandlersInv /\ [Next]_vars => HandlersInv'
  <2> SUFFICES ASSUME HandlersInv, [Next]_vars PROVE HandlersInv'
    OBVIOUS
  <2>1. ASSUME db' \in [Netbox -> {Absent} \cup Details],
               UNCHANGED <<netboxes, reload, active, calls, jobQueue, globalQueue, running,
                           cancelled>>
        PROVE  HandlersInv'
    <3>1. \A x : x \in Created' <=> x \in Created
      BY <2>1, CreatedElements
    <3>2. HandlerTypes' /\ LoaderTypes'
      BY <2>1 DEF HandlersInv, HandlerTypes, LoaderTypes
    <3> QED BY <2>1, <3>1, <3>2, SameCreated
  <2>2. ASSUME NEW n \in Netbox, Change(n)
        PROVE  HandlersInv'
    <3>1. db' \in [Netbox -> {Absent} \cup Details]
      BY <2>2 DEF Change, HandlersInv, LoaderTypes
    <3> QED BY <2>1, <2>2, <3>1 DEF Change, loader
  <2>3. CASE UNCHANGED vars
    BY <2>1, <2>3 DEF vars, HandlersInv, LoaderTypes
  <2> QED BY <2>2, <2>3, LoadKeeps, ProcessKeeps, RunJobCreated, FinishCreated DEF Next
<1> QED BY <1>1, InitHandlers, PTL DEF Spec

\* Each netbox that was loaded has exactly one handler per job that is not cancelled, once
\* the result of the load was processed, wherever the handlers wait or run meanwhile.
THEOREM OnePerNetboxHolds == Spec => []OnePerNetbox
<1>1. HandlersInv => OnePerNetbox
  <2> SUFFICES ASSUME HandlersInv, NEW j \in Job, NEW n \in Netbox
               PROVE  LET valid == {h \in Created \ cancelled : h[1] = j /\ h[2] = n}
                      IN /\ Cardinality(valid) <= 1
                         /\ reload[j] = Idle => (valid = {} <=> netboxes[j][n] = Absent)
    BY DEF OnePerNetbox
  <2> DEFINE valid == {h \in Created \ cancelled : h[1] = j /\ h[2] = n}
  <2>1. valid = HandlersOf(j, {n})
    BY DEF HandlersInv, ActiveIsValid, HandlersOf
  <2>2. \A h, o \in valid : h = o
    BY <2>1 DEF HandlersInv, OneEach, HandlersOf
  <2> HIDE DEF valid
  <2>3. valid = {} \/ \E h : valid = {h}
    BY <2>2
  <2>4. Cardinality(valid) <= 1
    <3>1. CASE valid = {}
      BY <3>1, FS_EmptySet
    <3>2. CASE \E h : valid = {h}
      BY <3>2, FS_Singleton
    <3> QED BY <2>3, <3>1, <3>2
  <2>5. reload[j] = Idle => (valid = {} <=> netboxes[j][n] = Absent)
    BY <2>1 DEF HandlersInv, ActiveIsLoaded, Had, Idle
  <2> QED BY <2>4, <2>5 DEF valid
<1> QED BY <1>1, HandlersInvHolds, PTL

--------------------------------------------------------------------------------
(* A handler that is created is in one place. *)

NoRepeat(q) == \A i, k \in DOMAIN q : q[i] = q[k] => i = k

ApartInv ==
  /\ calls \cap running = {}
  /\ (calls \cup running) \cap Range(globalQueue) = {}
  /\ NoRepeat(globalQueue)
  /\ \A j \in Job : /\ (calls \cup running \cup Range(globalQueue)) \cap Range(jobQueue[j]) = {}
                    /\ \A h \in Range(jobQueue[j]) : h[1] = j
                    /\ NoRepeat(jobQueue[j])

\* A queue without repetition keeps so.
LEMMA NoRepeatStays ==
  ASSUME NEW S, NEW q \in Seq(S), NEW x \in S, NoRepeat(q)
  PROVE  /\ x \notin Range(q) => NoRepeat(Append(q, x))
         /\ q # <<>> => NoRepeat(Tail(q)) /\ Head(q) \notin Range(Tail(q))
         /\ \A i \in DOMAIN q : NoRepeat(RemoveAt(q, i)) /\ q[i] \notin Range(RemoveAt(q, i))
<1>1. DOMAIN q = 1..Len(q) /\ Len(q) \in Nat
  BY LenProperties
<1>2. ASSUME x \notin Range(q)
      PROVE  NoRepeat(Append(q, x))
  <2>1. /\ DOMAIN Append(q, x) = 1..(Len(q) + 1)
        /\ \A i \in 1..Len(q) : Append(q, x)[i] = q[i]
        /\ Append(q, x)[Len(q) + 1] = x
    BY AppendProperties, LenProperties
  <2>2. \A i \in 1..Len(q) : q[i] # x
    BY <1>1, <1>2 DEF Range
  <2> QED BY <1>1, <2>1, <2>2 DEF NoRepeat
<1>3. ASSUME q # <<>>
      PROVE  NoRepeat(Tail(q)) /\ Head(q) \notin Range(Tail(q))
  <2>1. /\ Head(q) = q[1] /\ Len(q) > 0 /\ DOMAIN Tail(q) = 1..(Len(q) - 1)
        /\ \A i \in 1..(Len(q) - 1) : Tail(q)[i] = q[i + 1]
    BY <1>1, <1>3
  <2>2. \A i \in 1..(Len(q) - 1) : Tail(q)[i] # q[1]
    BY <1>1, <2>1 DEF NoRepeat
  <2>3. NoRepeat(Tail(q))
    BY <1>1, <2>1 DEF NoRepeat
  <2> QED BY <2>1, <2>2, <2>3 DEF Range
<1>4. ASSUME NEW i \in DOMAIN q
      PROVE  NoRepeat(RemoveAt(q, i)) /\ q[i] \notin Range(RemoveAt(q, i))
  <2> DEFINE r == RemoveAt(q, i)
  <2>1. /\ DOMAIN r = 1..(Len(q) - 1)
        /\ \A k \in 1..(Len(q) - 1) : r[k] = IF k < i THEN q[k] ELSE q[k + 1]
    BY <1>1, RemoveAtElements, LenProperties
  <2> HIDE DEF r
  <2>2. ASSUME NEW k \in 1..(Len(q) - 1), NEW m \in 1..(Len(q) - 1), r[k] = r[m]
        PROVE  k = m
    BY <1>1, <2>1, <2>2 DEF NoRepeat
  <2>3. \A k \in 1..(Len(q) - 1) : r[k] # q[i]
    BY <1>1, <2>1 DEF NoRepeat
  <2>4. NoRepeat(r) /\ q[i] \notin Range(r)
    BY <2>1, <2>2, <2>3 DEF NoRepeat, Range
  <2> QED BY <2>4 DEF r
<1> QED BY <1>2, <1>3, <1>4

\* run_job takes the handler from the calls to one other place.
LEMMA RunJobApart ==
  ASSUME HandlersInv, ApartInv, NEW h \in calls, Execute(h) \/ RunJob(h)
  PROVE  ApartInv'
<1>1. /\ h \in AnyHandler /\ JobOf(h) \in Job /\ h[1] = JobOf(h)
      /\ jobQueue \in [Job -> Seq(AnyHandler)] /\ globalQueue \in Seq(AnyHandler)
  BY DEF HandlersInv, HandlerTypes, JobOf, AnyHandler
<1>2. CASE Execute(h) \/ ExecuteFails(h)
  <2>1. /\ UNCHANGED <<jobQueue, globalQueue>>
        /\ \/ running' = running /\ calls' \subseteq calls
           \/ running' = running \cup {h} /\ calls' = calls \ {h}
    BY <1>2 DEF Execute, ExecuteFails, Reschedule
  <2> QED BY <2>1 DEF ApartInv
<1>3. CASE WaitForJob(h)
  <2>1. /\ UNCHANGED <<running, globalQueue>> /\ calls' = calls \ {h}
        /\ jobQueue' = [jobQueue EXCEPT ![JobOf(h)] = Append(@, h)]
    BY <1>3 DEF WaitForJob
  <2>2. /\ Range(jobQueue'[JobOf(h)]) = Range(jobQueue[JobOf(h)]) \cup {h}
        /\ \A j \in Job \ {JobOf(h)} : jobQueue'[j] = jobQueue[j]
    BY <1>1, <2>1, QueueElements
  <2>3. NoRepeat(jobQueue'[JobOf(h)])
    <3>1. NoRepeat(jobQueue[JobOf(h)]) /\ h \notin Range(jobQueue[JobOf(h)])
      BY <1>1 DEF ApartInv
    <3>2. jobQueue'[JobOf(h)] = Append(jobQueue[JobOf(h)], h)
      BY <1>1, <2>1
    <3> QED BY <1>1, <3>1, <3>2, NoRepeatStays
  <2>4. \A j \in Job :
          /\ (calls' \cup running' \cup Range(globalQueue')) \cap Range(jobQueue'[j]) = {}
          /\ \A x \in Range(jobQueue'[j]) : x[1] = j
          /\ NoRepeat(jobQueue'[j])
    <3> SUFFICES ASSUME NEW j \in Job
                 PROVE  /\ (calls' \cup running' \cup Range(globalQueue'))
                             \cap Range(jobQueue'[j]) = {}
                        /\ \A x \in Range(jobQueue'[j]) : x[1] = j
                        /\ NoRepeat(jobQueue'[j])
      OBVIOUS
    <3>1. CASE j = JobOf(h)
      BY <1>1, <2>1, <2>2, <2>3, <3>1 DEF ApartInv
    <3>2. CASE j # JobOf(h)
      BY <2>1, <2>2, <3>2 DEF ApartInv
    <3> QED BY <3>1, <3>2
  <2> QED BY <2>1, <2>4 DEF ApartInv
<1>4. CASE WaitForAny(h)
  <2>1. /\ UNCHANGED <<running, jobQueue>> /\ calls' = calls \ {h}
        /\ globalQueue' = Append(globalQueue, h)
    BY <1>4 DEF WaitForAny
  <2>2. Range(globalQueue') = Range(globalQueue) \cup {h}
    BY <1>1, <2>1, QueueElements
  <2>3. NoRepeat(globalQueue')
    BY <1>1, <2>1, NoRepeatStays DEF ApartInv
  <2> QED BY <2>1, <2>2, <2>3 DEF ApartInv
<1> QED BY <1>2, <1>3, <1>4 DEF RunJob

\* Whom the end of a job wakes is no longer queued.
LEMMA WokenAreGone ==
  ASSUME HandlerTypes, ApartInv, NEW j \in Job, NEW c, NEW l
  PROVE  LET next == Unqueue(j, c)
             any  == UnqueueGlobal(c, l)
         IN /\ next[1] \cap Range(next[2]) = {} /\ NoRepeat(next[2])
            /\ any[1] \cap Range(any[2]) = {} /\ NoRepeat(any[2])
<1> DEFINE next == Unqueue(j, c)
           any  == UnqueueGlobal(c, l)
<1>1. /\ jobQueue[j] \in Seq(AnyHandler) /\ globalQueue \in Seq(AnyHandler)
      /\ NoRepeat(jobQueue[j]) /\ NoRepeat(globalQueue)
  BY DEF HandlerTypes, ApartInv
<1>2. next[1] \cap Range(next[2]) = {} /\ NoRepeat(next[2])
  <2>1. CASE next = <<{Head(jobQueue[j])}, Tail(jobQueue[j])>> /\ jobQueue[j] # <<>>
    <3>1. Head(jobQueue[j]) \in AnyHandler
      BY <1>1, <2>1
    <3>2. NoRepeat(Tail(jobQueue[j])) /\ Head(jobQueue[j]) \notin Range(Tail(jobQueue[j]))
      BY <1>1, <2>1, <3>1, NoRepeatStays
    <3> HIDE DEF next
    <3> QED BY <2>1, <3>2
  <2>2. CASE next = <<{}, jobQueue[j]>>
    <3> HIDE DEF next
    <3> QED BY <1>1, <2>2
  <2> QED BY <2>1, <2>2 DEF Unqueue
<1>3. any[1] \cap Range(any[2]) = {} /\ NoRepeat(any[2])
  <2>1. CASE ~GlobalLimitReached(c, l) /\ Ready(c) # {}
    <3> DEFINE i == Min(Ready(c))
    <3>1. Ready(c) \subseteq DOMAIN globalQueue /\ DOMAIN globalQueue \subseteq Nat
      BY <1>1, LenProperties DEF Ready
    <3>2. i \in DOMAIN globalQueue
      BY <2>1, <3>1, LeastIsIn
    <3>3. any = <<{globalQueue[i]}, RemoveAt(globalQueue, i)>>
      BY <2>1 DEF UnqueueGlobal
    <3> HIDE DEF i, any
    <3>4. globalQueue[i] \in AnyHandler
      BY <1>1, <3>2
    <3>5. /\ NoRepeat(RemoveAt(globalQueue, i))
          /\ globalQueue[i] \notin Range(RemoveAt(globalQueue, i))
      BY <1>1, <3>2, <3>4, NoRepeatStays
    <3> QED BY <3>3, <3>5
  <2>2. CASE ~(~GlobalLimitReached(c, l) /\ Ready(c) # {})
    <3>1. any = <<{}, globalQueue>>
      BY <2>2 DEF UnqueueGlobal
    <3> HIDE DEF any
    <3> QED BY <1>1, <3>1
  <2> QED BY <2>1, <2>2
<1> QED BY <1>2, <1>3

\* The end of a job takes the handler from those that run to the calls, and others there
\* from the queues.
LEMMA FinishApart ==
  ASSUME HandlersInv, ApartInv, NEW h \in running, Finish(h)
  PROVE  ApartInv'
<1> DEFINE j == JobOf(h)
<1>1. /\ h \in AnyHandler /\ j \in Job /\ running' = running \ {h}
      /\ jobQueue \in [Job -> Seq(AnyHandler)] /\ HandlerTypes
  BY DEF Finish, HandlersInv, HandlerTypes, JobOf, AnyHandler
<1>2. PICK next, any :
        /\ next = Unqueue(j, Uncount(j)) /\ any = UnqueueGlobal(Uncount(j), limit')
        /\ jobQueue' = [jobQueue EXCEPT ![j] = next[2]]
        /\ globalQueue' = any[2]
        /\ calls' = Reschedule(calls, h) \cup next[1] \cup any[1]
  BY DEF Finish
<1>3. /\ Range(jobQueue[j]) = Range(next[2]) \cup next[1]
      /\ Range(globalQueue) = Range(any[2]) \cup any[1]
  BY <1>1, <1>2, WokenWereQueued
<1>4. /\ next[1] \cap Range(next[2]) = {} /\ NoRepeat(next[2])
      /\ any[1] \cap Range(any[2]) = {} /\ NoRepeat(any[2])
  BY <1>1, <1>2, WokenAreGone
<1>5. Reschedule(calls, h) \subseteq calls \cup {h}
  BY DEF Reschedule
<1> HIDE DEF j
<1>6. jobQueue'[j] = next[2] /\ \A k \in Job \ {j} : jobQueue'[k] = jobQueue[k]
  BY <1>1, <1>2
<1>7. calls' \subseteq calls \cup {h} \cup next[1] \cup any[1]
  BY <1>2, <1>5
<1>8. /\ calls' \cap running' = {}
      /\ (calls' \cup running') \cap Range(globalQueue') = {}
      /\ NoRepeat(globalQueue')
  BY <1>1, <1>2, <1>3, <1>4, <1>7 DEF ApartInv
<1>9. ASSUME NEW k \in Job
      PROVE  /\ (calls' \cup running' \cup Range(globalQueue')) \cap Range(jobQueue'[k]) = {}
             /\ \A x \in Range(jobQueue'[k]) : x[1] = k
             /\ NoRepeat(jobQueue'[k])
  <2>1. CASE k = j
    BY <1>1, <1>2, <1>3, <1>4, <1>6, <1>7, <2>1 DEF ApartInv
  <2>2. CASE k # j
    <3>1. \A x \in next[1] : x[1] = j
      BY <1>1, <1>3 DEF ApartInv
    <3>2. next[1] \cap Range(jobQueue[k]) = {}
      BY <2>2, <3>1 DEF ApartInv
    <3> QED BY <1>1, <1>2, <1>3, <1>6, <1>7, <2>2, <3>2 DEF ApartInv
  <2> QED BY <2>1, <2>2
<1> QED BY <1>8, <1>9 DEF ApartInv

\* The handlers that a reload creates are nowhere else.
LEMMA ProcessApart ==
  ASSUME HandlersInv, ApartInv, NEW j \in Job, Process(j)
  PROVE  ApartInv'
<1>1. PICK gone, fresh :
        /\ fresh = {NewHandler(j, n) : n \in reload[j].new \cup reload[j].changed}
        /\ calls' = (calls \ gone) \cup fresh
  BY DEF Process
<1>2. UNCHANGED <<jobQueue, globalQueue, running>>
  BY DEF Process
<1>3. reload[j].new \cup reload[j].changed \subseteq Netbox
  BY DEF HandlersInv, LoaderTypes
<1>4. \A x \in fresh : x \notin Created
  BY <1>1, <1>3, NewHandlerIsNew
<1>5. \A x \in fresh : /\ x \notin running /\ x \notin Range(globalQueue)
                       /\ \A k \in Job : x \notin Range(jobQueue[k])
  BY <1>4, CreatedElements
<1> QED BY <1>1, <1>2, <1>5 DEF ApartInv

\* No handler is in two places, through every wait, wake-up, failure and reload.
THEOREM ApartInvHolds == Spec => []ApartInv
<1>1. Init => ApartInv
  <2> SUFFICES ASSUME Init PROVE ApartInv
    OBVIOUS
  <2>1. /\ calls = {} /\ running = {} /\ globalQueue = <<>>
        /\ \A j \in Job : jobQueue[j] = <<>>
    BY DEF Init
  <2> QED BY <2>1 DEF ApartInv, NoRepeat, Range
<1>2. HandlersInv /\ ApartInv /\ [Next]_vars => ApartInv'
  <2> SUFFICES ASSUME HandlersInv, ApartInv, [Next]_vars PROVE ApartInv'
    OBVIOUS
  <2>1. CASE UNCHANGED <<calls, jobQueue, globalQueue, running>>
    BY <2>1 DEF ApartInv
  <2>2. ASSUME (\E n \in Netbox : Change(n)) \/ (\E j \in Job : Load(j)) \/ UNCHANGED vars
        PROVE  UNCHANGED <<calls, jobQueue, globalQueue, running>>
    BY <2>2 DEF Change, Load, vars
  <2> QED BY <2>1, <2>2, RunJobApart, FinishApart, ProcessApart DEF Next
<1> QED BY <1>1, <1>2, HandlersInvHolds, PTL DEF Spec

\* How often a handler is in a queue without repetition.
LEMMA TimesQueued ==
  ASSUME NEW S, NEW q \in Seq(S), NoRepeat(q), NEW h
  PROVE  Cardinality({i \in DOMAIN q : q[i] = h}) = IF h \in Range(q) THEN 1 ELSE 0
<1>1. CASE h \in Range(q)
  <2>1. PICK i \in DOMAIN q : q[i] = h
    BY <1>1 DEF Range
  <2>2. {k \in DOMAIN q : q[k] = h} = {i}
    BY <2>1 DEF NoRepeat
  <2> QED BY <1>1, <2>2, FS_Singleton
<1>2. CASE h \notin Range(q)
  <2>1. {k \in DOMAIN q : q[k] = h} = {}
    BY <1>2 DEF Range
  <2> QED BY <1>2, <2>1, FS_EmptySet
<1> QED BY <1>1, <1>2

\* A handler in use has a next call, or waits in one of the queues once, or runs; one that
\* was cancelled is in one place at most, and nothing else is anywhere.
THEOREM InOnePlaceHolds == Spec => []InOnePlace
<1>1. HandlersInv /\ ApartInv => InOnePlace
  <2> SUFFICES ASSUME HandlersInv, ApartInv, NEW h \in Handler
               PROVE  /\ h \in UNION {active[j] : j \in Job} => Places(h) = 1
                      /\ h \notin UNION {active[j] : j \in Job} =>
                           Places(h) <= IF h \in cancelled THEN 1 ELSE 0
    BY DEF InOnePlace
  <2>1. JobOf(h) \in Job /\ h[1] = JobOf(h)
    BY DEF Handler, JobOf
  <2>2. \A A : Cardinality({h} \cap A) = IF h \in A THEN 1 ELSE 0
    <3> SUFFICES ASSUME NEW A PROVE Cardinality({h} \cap A) = IF h \in A THEN 1 ELSE 0
      OBVIOUS
    <3>1. CASE h \in A
      <4>1. {h} \cap A = {h}
        BY <3>1
      <4> QED BY <3>1, <4>1, FS_Singleton
    <3>2. CASE h \notin A
      <4>1. {h} \cap A = {}
        BY <3>2
      <4> QED BY <3>2, <4>1, FS_EmptySet
    <3> QED BY <3>1, <3>2
  <2>3. /\ Cardinality({i \in DOMAIN globalQueue : globalQueue[i] = h})
             = IF h \in Range(globalQueue) THEN 1 ELSE 0
        /\ Cardinality({i \in DOMAIN jobQueue[JobOf(h)] : jobQueue[JobOf(h)][i] = h})
             = IF h \in Range(jobQueue[JobOf(h)]) THEN 1 ELSE 0
    <3>1. globalQueue \in Seq(AnyHandler) /\ jobQueue[JobOf(h)] \in Seq(AnyHandler)
      BY <2>1 DEF HandlersInv, HandlerTypes
    <3>2. NoRepeat(globalQueue) /\ NoRepeat(jobQueue[JobOf(h)])
      BY <2>1 DEF ApartInv
    <3> QED BY <3>1, <3>2, TimesQueued
  <2>4. Places(h) = (IF h \in calls THEN 1 ELSE 0) + (IF h \in running THEN 1 ELSE 0)
                    + (IF h \in Range(globalQueue) THEN 1 ELSE 0)
                    + (IF h \in Range(jobQueue[JobOf(h)]) THEN 1 ELSE 0)
    BY <2>2, <2>3 DEF Places
  <2>5. /\ ~(h \in calls /\ h \in running)
        /\ h \in calls \cup running => h \notin Range(globalQueue)
        /\ h \in calls \cup running \cup Range(globalQueue) => h \notin Range(jobQueue[JobOf(h)])
    BY <2>1 DEF ApartInv
  <2>6. Places(h) = IF h \in calls \cup running \cup Range(globalQueue)
                           \cup Range(jobQueue[JobOf(h)]) THEN 1 ELSE 0
    BY <2>4, <2>5
  <2>7. h \in Created <=> h \in calls \cup running \cup Range(globalQueue)
                                 \cup Range(jobQueue[JobOf(h)]) \cup cancelled
    <3>1. \A j \in Job : h \in Range(jobQueue[j]) => j = JobOf(h)
      BY <2>1 DEF ApartInv
    <3> QED BY <2>1, <3>1, CreatedElements
  <2>8. h \in UNION {active[j] : j \in Job} <=> h \in Created /\ h \notin cancelled
    <3>1. \A j \in Job : h \in active[j] <=> h \in Created /\ h \notin cancelled /\ h[1] = j
      BY DEF HandlersInv, ActiveIsValid
    <3> QED BY <2>1, <3>1
  <2> QED BY <2>6, <2>7, <2>8
<1> QED BY <1>1, HandlersInvHolds, ApartInvHolds, PTL

--------------------------------------------------------------------------------
(* What Total adds up. *)

\* g is the function by which Total adds up c on the subsets of S.
Adds(g, c, S) == g = [s \in SUBSET S |->
  IF s = {} THEN 0 ELSE c[CHOOSE y \in s : TRUE] + g[s \ {CHOOSE y \in s : TRUE}]]

\* Total is the value of that function on the whole domain, when there is one.
LEMMA TotalIsSum ==
  ASSUME NEW c, \E g : Adds(g, c, DOMAIN c)
  PROVE  \E g : Adds(g, c, DOMAIN c) /\ Total(c) = g[DOMAIN c]
<1> DEFINE g == CHOOSE g : Adds(g, c, DOMAIN c)
<1>1. Adds(g, c, DOMAIN c)
  OBVIOUS
<1>2. Total(c) = g[DOMAIN c]
  BY DEF Total, FoldFunction, FoldFunctionOnSet, MapThenFoldSet, Adds
<1> QED BY <1>1, <1>2

\* A set of numbers that is not empty has a least one.
LEMMA Smallest ==
  ASSUME NEW S \in SUBSET Nat, S # {}
  PROVE  \E m \in S : \A k \in S : m <= k
<1> DEFINE R == {p \in Nat \X Nat : p[1] < p[2]}
<1>1. IsWellFoundedOn(R, Nat)
  BY NatLessThanWellFounded, Zenon DEF OpToRel
<1>2. PICK x \in S : \A y \in S : ~(<<y, x>> \in R)
  BY <1>1, WFMin
<1>3. \A y \in S : y \in Nat /\ x \in Nat /\ ~(y < x)
  BY <1>2
<1> QED BY <1>3

\* A set that holds 0, and with each number the next, holds all numbers.
LEMMA AllNumbers ==
  ASSUME NEW S \in SUBSET Nat, 0 \in S, \A k \in S : k + 1 \in S
  PROVE  S = Nat
<1> SUFFICES ASSUME Nat \ S # {} PROVE FALSE
  OBVIOUS
<1>1. PICK m \in Nat \ S : \A k \in Nat \ S : m <= k
  <2>1. Nat \ S \in SUBSET Nat
    OBVIOUS
  <2> QED BY <2>1, Smallest
<1>2. m # 0 /\ m - 1 \in Nat /\ ~(m <= m - 1) /\ (m - 1) + 1 = m
  BY <1>1
<1>3. m - 1 \in S
  BY <1>1, <1>2
<1> QED BY <1>1, <1>2, <1>3

\* The subsets of S with at most k members.
UpTo(S, k) == {s \in SUBSET S : Cardinality(s) <= k}

\* A set without the member that CHOOSE picks has one less.
LEMMA OneLess ==
  ASSUME NEW S, IsFiniteSet(S), NEW s \in SUBSET S, s # {}
  PROVE  LET x == CHOOSE y \in s : TRUE
         IN /\ x \in s /\ s \ {x} \in SUBSET S /\ x \notin s \ {x} /\ s = (s \ {x}) \cup {x}
            /\ Cardinality(s) \in Nat /\ Cardinality(s \ {x}) \in Nat
            /\ Cardinality(s) = Cardinality(s \ {x}) + 1
<1> DEFINE x == CHOOSE y \in s : TRUE
<1>1. x \in s
  OBVIOUS
<1> HIDE DEF x
<1>2. IsFiniteSet(s) /\ IsFiniteSet(s \ {x})
  BY FS_Subset
<1>3. /\ Cardinality(s \ {x}) \in Nat /\ Cardinality(s) \in Nat
      /\ Cardinality((s \ {x}) \cup {x}) = Cardinality(s \ {x}) + 1
  BY <1>2, FS_AddElement, FS_CardinalityType
<1>4. s = (s \ {x}) \cup {x} /\ s \ {x} \in SUBSET S /\ x \notin s \ {x}
  BY <1>1
<1>5. Cardinality(s) = Cardinality(s \ {x}) + 1
  BY <1>3, <1>4
<1> QED BY <1>1, <1>3, <1>4, <1>5 DEF x

\* Such a function there is for a finite set: if there is one on the subsets with k members
\* at most, then there is one on those with k + 1.
LEMMA SumExists ==
  ASSUME NEW S, IsFiniteSet(S), NEW c
  PROVE  \E g : Adds(g, c, S)
<1> DEFINE First(s) == CHOOSE y \in s : TRUE
           Next1(g, s) == IF s = {} THEN 0 ELSE c[First(s)] + g[s \ {First(s)}]
           Part(g, k) == g = [s \in UpTo(S, k) |-> Next1(g, s)]
           K == {k \in Nat : \E g : Part(g, k)}
<1>1. \A s \in SUBSET S : Cardinality(s) \in Nat
  BY FS_Subset, FS_CardinalityType
<1>2. ASSUME NEW s \in SUBSET S, s # {}
      PROVE  /\ s \ {First(s)} \in SUBSET S
             /\ Cardinality(s) = Cardinality(s \ {First(s)}) + 1
  BY <1>2, OneLess
<1>3. 0 \in K
  <2> DEFINE g == [s \in UpTo(S, 0) |-> 0]
  <2>1. \A s \in UpTo(S, 0) : s = {}
    <3>1. ASSUME NEW s \in UpTo(S, 0), s # {} PROVE FALSE
      <4>1. s \in SUBSET S /\ Cardinality(s) <= 0
        BY DEF UpTo
      <4>2. Cardinality(s) = Cardinality(s \ {First(s)}) + 1
            /\ Cardinality(s \ {First(s)}) \in Nat
        BY <1>1, <1>2, <3>1, <4>1
      <4> HIDE DEF First
      <4> QED BY <4>1, <4>2
    <3> QED BY <3>1
  <2>2. Part(g, 0)
    BY <2>1
  <2> QED BY <2>2
<1>4. ASSUME NEW k \in K
      PROVE  k + 1 \in K
  <2>1. PICK g : Part(g, k)
    OBVIOUS
  <2> DEFINE f == [s \in UpTo(S, k + 1) |-> Next1(g, s)]
  <2>2. ASSUME NEW s \in UpTo(S, k + 1), s # {}
        PROVE  f[s \ {First(s)}] = g[s \ {First(s)}]
    <3> DEFINE t == s \ {First(s)}
    <3>1. s \in SUBSET S /\ Cardinality(s) <= k + 1
      BY DEF UpTo
    <3>2. t \in SUBSET S /\ Cardinality(s) = Cardinality(t) + 1 /\ Cardinality(t) \in Nat
      BY <1>1, <1>2, <2>2, <3>1
    <3> HIDE DEF t
    <3>3. Cardinality(t) <= k /\ Cardinality(t) <= k + 1
      BY <3>1, <3>2
    <3>4. t \in UpTo(S, k) /\ t \in UpTo(S, k + 1)
      BY <3>2, <3>3 DEF UpTo
    <3> HIDE DEF Next1
    <3>5. f[t] = Next1(g, t)
      BY <3>4
    <3>6. g[t] = Next1(g, t)
      BY <2>1, <3>4
    <3> QED BY <3>5, <3>6 DEF t
  <2>3. \A s \in UpTo(S, k + 1) : Next1(f, s) = Next1(g, s)
    <3> SUFFICES ASSUME NEW s \in UpTo(S, k + 1) PROVE Next1(f, s) = Next1(g, s)
      OBVIOUS
    <3> HIDE DEF f, First
    <3> QED BY <2>2
  <2>4. Part(f, k + 1)
    <3> HIDE DEF Next1
    <3>1. f = [s \in UpTo(S, k + 1) |-> Next1(f, s)]
      <4>1. [s \in UpTo(S, k + 1) |-> Next1(f, s)] = [s \in UpTo(S, k + 1) |-> Next1(g, s)]
        BY <2>3
      <4> QED BY <4>1
    <3> QED BY <3>1
  <2>5. k + 1 \in Nat
    OBVIOUS
  <2> HIDE DEF Part
  <2> QED BY <2>4, <2>5
<1>5. Cardinality(S) \in K
  <2>1. K \in SUBSET Nat
    OBVIOUS
  <2> HIDE DEF K
  <2>2. K = Nat
    BY <1>3, <1>4, <2>1, AllNumbers
  <2> QED BY <1>1, <2>2
<1>6. PICK g : Part(g, Cardinality(S))
  BY <1>5
<1>7. UpTo(S, Cardinality(S)) = SUBSET S
  <2>1. \A s \in SUBSET S : Cardinality(s) <= Cardinality(S)
    BY FS_Subset
  <2> QED BY <2>1 DEF UpTo
<1>8. Adds(g, c, S)
  BY <1>6, <1>7 DEF Adds
<1> QED BY <1>8

\* The handlers of the jobs in s that run.
RunningOf(s) == {h \in running : JobOf(h) \in s}

\* If each job's counter tells how many of its handlers run, the total tells how many run.
LEMMA TotalIsRunning ==
  ASSUME IsFiniteSet(running), counters \in [Job -> Nat],
         \A h \in running : JobOf(h) \in Job,
         \A j \in Job : counters[j] = Cardinality({h \in running : JobOf(h) = j})
  PROVE  Total(counters) = Cardinality(running)
<1>1. PICK g : Adds(g, counters, Job) /\ Total(counters) = g[Job]
  <2>1. \E g : Adds(g, counters, DOMAIN counters)
    BY JobAssumption, SumExists
  <2> QED BY <2>1, TotalIsSum
<1> DEFINE Right(s) == g[s] = Cardinality(RunningOf(s))
           K == {k \in Nat : \A s \in SUBSET Job : Cardinality(s) <= k => Right(s)}
<1>2. \A s \in SUBSET Job : Cardinality(s) \in Nat
  BY JobAssumption, FS_Subset, FS_CardinalityType
<1>3. \A s : IsFiniteSet(RunningOf(s)) /\ Cardinality(RunningOf(s)) \in Nat
  BY FS_Subset, FS_CardinalityType DEF RunningOf
<1>4. Right({})
  <2>1. g[{}] = 0
    BY <1>1 DEF Adds
  <2>2. RunningOf({}) = {}
    BY DEF RunningOf
  <2> QED BY <2>1, <2>2, FS_EmptySet
<1>5. ASSUME NEW s \in SUBSET Job, s # {}, Right(s \ {CHOOSE y \in s : TRUE})
      PROVE  Right(s)
  <2> DEFINE x == CHOOSE y \in s : TRUE
             t == s \ {x}
  <2>1. x \in s /\ s = t \cup {x} /\ x \notin t
    BY <1>5
  <2>2. g[s] = counters[x] + g[t]
    BY <1>1, <1>5 DEF Adds
  <2>3. g[t] = Cardinality(RunningOf(t))
    BY <1>5
  <2> HIDE DEF x, t
  <2>4. /\ RunningOf(s) = RunningOf(t) \cup RunningOf({x})
        /\ RunningOf(t) \cap RunningOf({x}) = {}
    BY <2>1 DEF RunningOf
  <2>5. counters[x] = Cardinality(RunningOf({x}))
    <3>1. RunningOf({x}) = {h \in running : JobOf(h) = x}
      BY DEF RunningOf
    <3> QED BY <2>1, <3>1
  <2> DEFINE A == RunningOf(t)
             B == RunningOf({x})
  <2>6. /\ IsFiniteSet(A) /\ IsFiniteSet(B) /\ A \cap B = {}
        /\ Cardinality(A) \in Nat /\ Cardinality(B) \in Nat
    BY <1>3, <2>4
  <2>7. RunningOf(s) = A \cup B /\ g[s] = Cardinality(B) + Cardinality(A)
    BY <2>2, <2>3, <2>4, <2>5
  <2> HIDE DEF A, B
  <2>8. Cardinality(A \cup B) = Cardinality(A) + Cardinality(B)
    BY <2>6, FS_Union, FS_EmptySet
  <2> QED BY <2>6, <2>7, <2>8
<1>6. 0 \in K
  <2>1. ASSUME NEW s \in SUBSET Job, Cardinality(s) <= 0
        PROVE  s = {}
    <3>1. IsFiniteSet(s) /\ Cardinality(s) = 0
      BY <1>2, <2>1, JobAssumption, FS_Subset
    <3> QED BY <3>1, FS_EmptySet
  <2> HIDE DEF Right
  <2> QED BY <1>4, <2>1
<1>7. ASSUME NEW k \in K
      PROVE  k + 1 \in K
  <2>1. ASSUME NEW s \in SUBSET Job, Cardinality(s) <= k + 1, s # {}
        PROVE  Right(s)
    <3> DEFINE t == s \ {CHOOSE y \in s : TRUE}
    <3>1. t \in SUBSET Job /\ Cardinality(s) = Cardinality(t) + 1 /\ Cardinality(t) \in Nat
      BY <2>1, JobAssumption, OneLess
    <3> HIDE DEF t, Right
    <3>2. Cardinality(t) <= k
      BY <2>1, <3>1
    <3>3. Right(t)
      BY <3>1, <3>2
    <3> QED BY <1>5, <2>1, <3>3 DEF t
  <2>2. k + 1 \in Nat
    OBVIOUS
  <2> HIDE DEF Right
  <2> QED BY <1>4, <2>1, <2>2
<1>8. Right(Job)
  <2>1. K \in SUBSET Nat
    OBVIOUS
  <2> HIDE DEF K
  <2>2. K = Nat
    BY <1>6, <1>7, <2>1, AllNumbers
  <2>3. Cardinality(Job) \in K
    BY <1>2, <2>2
  <2>4. Cardinality(Job) <= Cardinality(Job)
    BY <1>2
  <2> HIDE DEF Right
  <2> QED BY <2>3, <2>4 DEF K
<1>9. RunningOf(Job) = running
  BY DEF RunningOf
<1> QED BY <1>1, <1>8, <1>9

--------------------------------------------------------------------------------
(* The limits are kept. *)

LimitsInv == /\ IsFiniteSet(running) /\ counters \in [Job -> Nat]
             /\ limit \in Nat /\ limit <= MaxConcurrent
             /\ LimitsKept

\* Of the handlers that run, those of job j.
RunsOf(j) == {h \in running : JobOf(h) = j}

\* A handler runs only below both limits, and is counted.
LEMMA ExecuteLimits ==
  ASSUME HandlersInv, ApartInv, LimitsInv, NEW h \in calls, Execute(h)
  PROVE  LimitsInv'
<1>1. /\ running' = running \cup {h} /\ limit' = limit
      /\ counters' = [counters EXCEPT ![JobOf(h)] = @ + 1]
      /\ ~JobLimitReached(JobOf(h), counters) /\ ~GlobalLimitReached(counters, limit)
  BY DEF Execute, MayRun
<1>2. JobOf(h) \in Job /\ h \notin running /\ \A o \in running : JobOf(o) \in Job
  BY DEF HandlersInv, HandlerTypes, AnyHandler, JobOf, ApartInv
<1>3. /\ IsFiniteSet(running) /\ Cardinality(running) \in Nat /\ IsFiniteSet(running')
      /\ Cardinality(running') = Cardinality(running) + 1
  BY <1>1, <1>2, FS_AddElement, FS_CardinalityType DEF LimitsInv
<1>4. Cardinality(running') <= MaxConcurrent
  <2>1. Total(counters) = Cardinality(running)
    BY <1>2, TotalIsRunning DEF LimitsInv, LimitsKept
  <2>2. ~(Cardinality(running) >= limit)
    BY <1>1, <2>1 DEF GlobalLimitReached
  <2> QED BY <1>3, <2>2, LimitAssumption DEF LimitsInv
<1>5. ASSUME NEW j \in Job
      PROVE  /\ counters'[j] = Cardinality(RunsOf(j)') /\ counters'[j] \in Nat
             /\ Intensity[j] > 0 => counters'[j] <= Intensity[j]
  <2>1. /\ counters[j] = Cardinality(RunsOf(j)) /\ counters[j] \in Nat /\ Intensity[j] \in Nat
        /\ IsFiniteSet(RunsOf(j)) /\ (Intensity[j] > 0 => counters[j] <= Intensity[j])
    BY <1>3, FS_Subset, IntensityAssumption DEF LimitsInv, LimitsKept, RunsOf
  <2>2. CASE j = JobOf(h)
    <3>1. RunsOf(j)' = RunsOf(j) \cup {h} /\ h \notin RunsOf(j)
      BY <1>1, <1>2, <2>2 DEF RunsOf
    <3>2. Cardinality(RunsOf(j) \cup {h}) = Cardinality(RunsOf(j)) + 1
      BY <2>1, <3>1, FS_AddElement
    <3>3. counters'[j] = counters[j] + 1
      BY <1>1, <1>2, <2>2 DEF LimitsInv
    <3>4. Intensity[j] > 0 => ~(counters[j] >= Intensity[j])
      BY <1>1, <2>2 DEF JobLimitReached
    <3> QED BY <2>1, <3>1, <3>2, <3>3, <3>4
  <2>3. CASE j # JobOf(h)
    <3>1. RunsOf(j)' = RunsOf(j)
      BY <1>1, <2>3 DEF RunsOf
    <3>2. counters'[j] = counters[j]
      BY <1>1, <2>3 DEF LimitsInv
    <3> QED BY <2>1, <3>1, <3>2
  <2> QED BY <2>2, <2>3
<1>6. counters' \in [Job -> Nat]
  BY <1>1, <1>2 DEF LimitsInv
<1>7. LimitsKept'
  BY <1>4, <1>5 DEF LimitsKept, RunsOf
<1> QED BY <1>1, <1>3, <1>6, <1>7 DEF LimitsInv

\* The end of a job is counted once, and the limit never grows.
LEMMA FinishLimits ==
  ASSUME HandlersInv, LimitsInv, NEW h \in running, Finish(h)
  PROVE  LimitsInv'
<1>1. /\ running' = running \ {h} /\ counters' = Uncount(JobOf(h))
      /\ limit' \in {limit} \cup {l \in Adjusted : inline /\ l < limit}
  BY DEF Finish
<1>2. JobOf(h) \in Job
  BY DEF HandlersInv, HandlerTypes, AnyHandler, JobOf
<1>3. /\ IsFiniteSet(running) /\ Cardinality(running) \in Nat /\ IsFiniteSet(running')
      /\ Cardinality(running') = Cardinality(running) - 1
  BY <1>1, FS_RemoveElement, FS_CardinalityType DEF LimitsInv
<1>4. limit' \in Nat /\ limit' <= MaxConcurrent
  <2>1. CASE limit' = limit
    BY <2>1 DEF LimitsInv
  <2>2. CASE limit' \in Adjusted /\ limit' < limit
    <3>1. \A k \in 0..(Cardinality(running) - 1) : (9 * k + 9) \div 10 \in Nat
      BY <1>3
    <3>2. limit' \in Nat
      BY <2>2, <3>1 DEF Adjusted
    <3> QED BY <2>2, <3>2, LimitAssumption DEF LimitsInv
  <2> QED BY <1>1, <2>1, <2>2
<1>5. Cardinality(running') <= MaxConcurrent
  BY <1>3, LimitAssumption DEF LimitsInv, LimitsKept
<1>6. ASSUME NEW j \in Job
      PROVE  /\ counters'[j] = Cardinality(RunsOf(j)') /\ counters'[j] \in Nat
             /\ Intensity[j] > 0 => counters'[j] <= Intensity[j]
  <2>1. /\ counters[j] = Cardinality(RunsOf(j)) /\ counters[j] \in Nat /\ Intensity[j] \in Nat
        /\ IsFiniteSet(RunsOf(j)) /\ (Intensity[j] > 0 => counters[j] <= Intensity[j])
    BY <1>3, FS_Subset, IntensityAssumption DEF LimitsInv, LimitsKept, RunsOf
  <2>2. CASE j = JobOf(h)
    <3>1. RunsOf(j)' = RunsOf(j) \ {h} /\ h \in RunsOf(j)
      BY <1>1, <2>2 DEF RunsOf
    <3>2. Cardinality(RunsOf(j) \ {h}) = Cardinality(RunsOf(j)) - 1
      BY <2>1, <3>1, FS_RemoveElement
    <3>3. Cardinality(RunsOf(j)) # 0
      BY <2>1, <3>1, FS_EmptySet
    <3>4. counters'[j] = Max({counters[j] - 1, 0})
      BY <1>1, <2>2 DEF Uncount, LimitsInv
    <3>5. counters[j] - 1 \in Nat
      BY <2>1, <3>3
    <3> DEFINE c == counters[j] - 1
    <3> HIDE DEF c
    <3>6. c \in Nat => Max({c, 0}) = c
      BY DEF Max
    <3>7. counters'[j] = counters[j] - 1
      BY <3>4, <3>5, <3>6 DEF c
    <3> QED BY <2>1, <3>1, <3>2, <3>5, <3>7
  <2>3. CASE j # JobOf(h)
    <3>1. RunsOf(j)' = RunsOf(j)
      BY <1>1, <2>3 DEF RunsOf
    <3>2. counters'[j] = counters[j]
      BY <1>1, <2>3 DEF LimitsInv, Uncount
    <3> QED BY <2>1, <3>1, <3>2
  <2> QED BY <2>2, <2>3
<1>7. counters' \in [Job -> Nat]
  <2>1. counters' = [counters EXCEPT ![JobOf(h)] = Max({counters[JobOf(h)] - 1, 0})]
    BY <1>1 DEF Uncount
  <2>2. counters'[JobOf(h)] \in Nat
    BY <1>2, <1>6
  <2> QED BY <1>2, <2>1, <2>2 DEF LimitsInv
<1>8. LimitsKept'
  BY <1>5, <1>6 DEF LimitsKept, RunsOf
<1> QED BY <1>3, <1>4, <1>7, <1>8 DEF LimitsInv

\* The counters count what runs, through every start, end, cancellation and failure, and the
\* limits hold, the one on all jobs too, which may only be lowered.
THEOREM LimitsInvHolds == Spec => []LimitsInv
<1>1. Init => LimitsInv
  <2> SUFFICES ASSUME Init PROVE LimitsInv
    OBVIOUS
  <2>1. /\ running = {} /\ counters = [j \in Job |-> 0] /\ limit = MaxConcurrent
    BY DEF Init
  <2>2. IsFiniteSet(running) /\ Cardinality(running) = 0
    BY <2>1, FS_EmptySet
  <2>3. \A j \in Job : {h \in running : JobOf(h) = j} = {}
    BY <2>1
  <2>4. LimitsKept
    BY <2>1, <2>2, <2>3, FS_EmptySet, IntensityAssumption, LimitAssumption DEF LimitsKept
  <2> QED BY <2>1, <2>2, <2>4, LimitAssumption DEF LimitsInv
<1>2. HandlersInv /\ ApartInv /\ LimitsInv /\ [Next]_vars => LimitsInv'
  <2> SUFFICES ASSUME HandlersInv, ApartInv, LimitsInv, [Next]_vars PROVE LimitsInv'
    OBVIOUS
  <2>1. CASE UNCHANGED <<running, counters, limit>>
    BY <2>1 DEF LimitsInv, LimitsKept
  <2>2. ASSUME \/ \E n \in Netbox : Change(n)
               \/ \E j \in Job : Load(j) \/ Process(j)
               \/ \E h \in calls : RunJob(h)
               \/ UNCHANGED vars
        PROVE  UNCHANGED <<running, counters, limit>>
    BY <2>2 DEF Change, Load, Process, RunJob, WaitForJob, WaitForAny, ExecuteFails, vars
  <2> QED BY <2>1, <2>2, ExecuteLimits, FinishLimits DEF Next
<1> QED BY <1>1, <1>2, HandlersInvHolds, ApartInvHolds, PTL DEF Spec

\* No job exceeds its intensity, nor all of them the limit of the process, as the counters
\* never drift from what runs.
THEOREM LimitsKeptHolds == Spec => []LimitsKept
<1>1. LimitsInv => LimitsKept
  BY DEF LimitsInv
<1> QED BY <1>1, LimitsInvHolds, PTL
================================================================================
