--------------------------- MODULE EventEngineProofs ---------------------------
(***************************************************************************)
(* Theorems about EventEngine, for every set of targets, every number of   *)
(* events and of crashes.                                                  *)
(***************************************************************************)
EXTENDS EventEngine, SequenceTheorems, TLAPS

TaskSet == [event : Id, target : Target, action : {"warning", "alert"}]
DbRecord == [eventq : SUBSET Event,
             alertq : [Target -> Seq(AlertTypes)],
             open : [Target -> Nat],
             up : [Target -> UpState],
             lastEnd : [Target -> Id \cup {NoEvent}]]

--------------------------------------------------------------------------------
(* Lemmas about what the actions are built from. *)

\* No identifier of an event is the mark for "no event".
LEMMA IdIsNotNone == \A i \in Id : i # NoEvent /\ i \in Nat
  BY BoundAssumption DEF Id, NoEvent

\* The snapshot of an idle engine has the shape of the database.
LEMMA NoSaveType == NoSave \in DbRecord
  <1>1. <<>> \in Seq(AlertTypes)
    OBVIOUS
  <1> QED
    BY <1>1 DEF NoSave, DbRecord, UpState

\* Posting an alert keeps the shape of the alert queue.
LEMMA AlertType ==
  ASSUME alertq \in [Target -> Seq(AlertTypes)], NEW t \in Target,
         NEW type \in AlertTypes, NEW post \in BOOLEAN, Alert(t, type, post)
  PROVE  alertq' \in [Target -> Seq(AlertTypes)]
  <1>1. Append(alertq[t], type) \in Seq(AlertTypes)
    BY AppendProperties
  <1> QED
    BY <1>1 DEF Alert

\* Every alert type the handlers and callbacks choose is one of AlertTypes.
LEMMA AlertTypesUsed ==
  ASSUME NEW t \in Target, NEW u, NEW s
  PROVE  /\ WarningType(t, u) \in AlertTypes
         /\ DownType(t, u) \in AlertTypes
         /\ UpType(t, u) \in AlertTypes
         /\ DirectType(s) \in AlertTypes
  BY DEF WarningType, DownType, UpType, DirectType, AlertTypes

\* The states the inventory can be given are states it knows.
LEMMA UpStates ==
  ASSUME TypeOK, NEW t \in Target
  PROVE  /\ DownStates(t) \subseteq UpState
         /\ ShadowStates(t) \subseteq UpState
         /\ UpAfterEnd(t) \in UpState
  <1>1. up[t] \in UpState
    BY DEF TypeOK
  <1>2. "y" \in UpState /\ "n" \in UpState /\ "s" \in UpState
    BY DEF UpState
  <1>3. DownStates(t) \subseteq UpState
    BY <1>1, <1>2 DEF DownStates
  <1>4. ShadowStates(t) \subseteq UpState
    BY <1>1, <1>2 DEF ShadowStates
  <1>5. UpAfterEnd(t) \in UpState
    BY <1>1, <1>2 DEF UpAfterEnd, UpValue
  <1> QED
    BY <1>3, <1>4, <1>5

\* Resolving never takes more rows than there are.
LEMMA ResolvedType ==
  ASSUME NEW n \in Nat
  PROVE  Resolved(n) \in Nat /\ Resolved(n) <= n
  BY DEF Resolved

--------------------------------------------------------------------------------
(* Type correctness: one lemma per action. *)

\* A monitor that posts an event keeps the shape of the state.
LEMMA PostEventType ==
  ASSUME TypeOK, NEW t \in Target, NEW s \in {"s", "e", "x"}, PostEvent(t, s)
  PROVE  TypeOK'
  <1>1. nextid \in Id
    BY BoundAssumption DEF TypeOK, PostEvent, Id
  <1>2. nextid + 1 \in 1..(MaxEvents + 1)
    BY BoundAssumption DEF TypeOK, PostEvent
  <1>3. eventq' \subseteq Event
    BY <1>1 DEF TypeOK, PostEvent, Event
  <1> QED
    BY <1>2, <1>3 DEF TypeOK, PostEvent, mem

\* So does either end of a queue check.
LEMMA LoadType ==
  ASSUME TypeOK, BeginLoad \/ CommitLoad
  PROVE  TypeOK'
  <1>1. CASE BeginLoad
    BY <1>1 DEF TypeOK, BeginLoad, NewEvents, db
  <1>2. CASE CommitLoad
    BY <1>2, NoSaveType DEF TypeOK, CommitLoad, db, DbRecord
  <1> QED
    BY <1>1, <1>2

\* So does the handling of a start event by a delayed handler.
LEMMA HandleStartType ==
  ASSUME TypeOK, NEW e \in batch, HandleStart(e)
  PROVE  TypeOK'
  <1> DEFINE t == e.target
  <1>1. e \in Event /\ t \in Target /\ e.id \in Id
    BY DEF TypeOK, Event
  <1>2. eventq' \subseteq Event
    BY DEF TypeOK, HandleStart, Disposed
  <1>3. up' \in [Target -> UpState]
    <2>1. up' = up \/ \E u \in DownStates(t) : up' = [up EXCEPT ![t] = u]
      BY DEF HandleStart
    <2>2. DownStates(t) \subseteq UpState /\ up \in [Target -> UpState]
      BY <1>1, UpStates DEF TypeOK
    <2> QED
      BY <1>1, <2>1, <2>2
  <1>4. waiting' \in [Target -> Id \cup {NoEvent}]
    BY <1>1 DEF TypeOK, HandleStart
  <1>5. tasks' \subseteq TaskSet
    <2>1. CASE IsDuplicate(t)
      BY <2>1 DEF TypeOK, HandleStart, TaskSet
    <2>2. CASE ~IsDuplicate(t)
      <3>1. waiting'[t] = e.id
        BY <1>1, <2>2 DEF TypeOK, HandleStart
      <3>2. FirstTask(t) \in TaskSet
        BY <1>1, <3>1 DEF FirstTask, Task, TaskSet
      <3> QED
        BY <2>2, <3>2 DEF TypeOK, HandleStart, TaskSet
    <2> QED
      BY <2>1, <2>2
  <1>6. unfinished' \subseteq Id /\ batch' \subseteq Event
    BY <1>1 DEF TypeOK, HandleStart
  <1>7. UNCHANGED <<nextid, alertq, open, lastEnd, running, inTx, saved, crashes>>
    BY DEF HandleStart, Frame
  <1> QED
    BY <1>2, <1>3, <1>4, <1>5, <1>6, <1>7 DEF TypeOK, TaskSet

\* So does that of an end event.
LEMMA HandleEndType ==
  ASSUME TypeOK, NEW e \in batch, HandleEnd(e)
  PROVE  TypeOK'
  <1> DEFINE t == e.target
  <1>1. e \in Event /\ t \in Target /\ e.id \in Id
    BY DEF TypeOK, Event
  <1>2. eventq' \subseteq Event /\ tasks' \subseteq tasks /\ batch' \subseteq Event
    BY DEF TypeOK, HandleEnd, Deschedule
  <1>3. waiting' \in [Target -> Id \cup {NoEvent}]
    BY <1>1 DEF TypeOK, HandleEnd, Deschedule
  <1>4. up' \in [Target -> UpState]
    BY <1>1, UpStates DEF TypeOK, HandleEnd
  <1>5. open' \in [Target -> Nat]
    BY <1>1, ResolvedType DEF TypeOK, HandleEnd, OpenAfterEnd
  <1>6. alertq' \in [Target -> Seq(AlertTypes)]
    <2>1. UpAnnounced(t) \in BOOLEAN
      BY DEF UpAnnounced
    <2>2. UpType(t, up'[t]) \in AlertTypes
      BY <1>1, AlertTypesUsed
    <2>3. Alert(t, UpType(t, up'[t]), UpAnnounced(t))
      BY DEF HandleEnd
    <2>4. alertq \in [Target -> Seq(AlertTypes)]
      BY DEF TypeOK
    <2> QED
      BY <1>1, <2>1, <2>2, <2>3, <2>4, AlertType
  <1>7. lastEnd' \in [Target -> Id \cup {NoEvent}]
    BY <1>1 DEF TypeOK, HandleEnd
  <1>8. UNCHANGED <<nextid, unfinished, running, inTx, saved, crashes>>
    BY DEF HandleEnd, Frame
  <1> QED
    BY <1>2, <1>3, <1>4, <1>5, <1>6, <1>7, <1>8 DEF TypeOK

\* So does a handler that acts at once.
LEMMA HandleDirectType ==
  ASSUME TypeOK, NEW e \in batch, HandleDirect(e)
  PROVE  TypeOK'
  <1> DEFINE t == e.target
             post == /\ ~Ignores(e)
                     /\ TypeOf[t] \in {"serviceState", "other"} => Announced(t)
  <1>1. e \in Event /\ t \in Target /\ e.id \in Id
    BY DEF TypeOK, Event
  <1>2. eventq' \subseteq Event /\ batch' \subseteq Event
    BY DEF TypeOK, HandleDirect
  <1>3. up' \in [Target -> UpState]
    <2>1. up[t] \in UpState
      BY <1>1 DEF TypeOK
    <2>2. ServiceUp(e) \in UpState
      BY <2>1 DEF ServiceUp, UpState
    <2> QED
      BY <1>1, <2>2 DEF TypeOK, HandleDirect
  <1>4. open' \in [Target -> Nat]
    <2>1. open[t] \in Nat
      BY <1>1 DEF TypeOK
    <2>2. OpenAfterDirect(e) \in Nat
      BY <2>1, ResolvedType DEF OpenAfterDirect, OpenAfterEnd
    <2> QED
      BY <1>1, <2>2 DEF TypeOK, HandleDirect
  <1>5. alertq' \in [Target -> Seq(AlertTypes)]
    <2>1. Alert(t, DirectType(e.state), post)
      BY DEF HandleDirect
    <2>2. DirectType(e.state) \in AlertTypes
      BY <1>1, AlertTypesUsed
    <2>3. post \in BOOLEAN
      OBVIOUS
    <2>4. alertq \in [Target -> Seq(AlertTypes)]
      BY DEF TypeOK
    <2> HIDE DEF post
    <2> QED
      BY <1>1, <2>1, <2>2, <2>3, <2>4, AlertType
  <1>6. lastEnd' \in [Target -> Id \cup {NoEvent}]
    BY <1>1 DEF TypeOK, HandleDirect
  <1>7. UNCHANGED <<nextid, waiting, tasks, unfinished, running, inTx, saved, crashes>>
    BY DEF HandleDirect, Frame
  <1> QED
    BY <1>2, <1>3, <1>4, <1>5, <1>6, <1>7 DEF TypeOK

\* So does an event that is ignored, strange, or whose handler fails.
LEMMA HandleOtherType ==
  ASSUME TypeOK, NEW e \in batch, HandleStrange(e) \/ HandlerFails(e)
  PROVE  TypeOK'
  <1> DEFINE t == e.target
  <1>1. e \in Event /\ t \in Target /\ e.id \in Id /\ open[t] \in Nat
    BY DEF TypeOK, Event
  <1>2. CASE HandleStrange(e)
    BY <1>2 DEF TypeOK, HandleStrange, Frame
  <1>3. CASE HandlerFails(e)
    <2>1. OpenAfterEnd(t) \in Nat /\ OpenAfterDirect(e) \in Nat
      BY <1>1, ResolvedType DEF OpenAfterEnd, OpenAfterDirect
    <2>2. UpAfterEnd(t) \in UpState /\ ServiceUp(e) \in UpState
      BY <1>1, UpStates DEF ServiceUp, UpState, TypeOK
    <2>3. open' \in [Target -> Nat]
      <3>1. open' \in {open, [open EXCEPT ![t] = OpenAfterEnd(t)],
                        [open EXCEPT ![t] = OpenAfterDirect(e)]}
        BY <1>3 DEF HandlerFails
      <3>2. open \in [Target -> Nat]
        BY DEF TypeOK
      <3> QED
        BY <1>1, <2>1, <3>1, <3>2
    <2>4. up' \in [Target -> UpState]
      <3>1. up' \in {up, [up EXCEPT ![t] = UpAfterEnd(t)],
                      [up EXCEPT ![t] = ServiceUp(e)]}
        BY <1>3 DEF HandlerFails
      <3>2. up \in [Target -> UpState]
        BY DEF TypeOK
      <3> QED
        BY <1>1, <2>2, <3>1, <3>2
    <2>5. lastEnd' \in [Target -> Id \cup {NoEvent}]
      BY <1>1, <1>3 DEF TypeOK, HandlerFails
    <2>6. eventq' \subseteq Event /\ batch' \subseteq Event
      BY <1>3 DEF TypeOK, HandlerFails
    <2>7. UNCHANGED <<nextid, alertq, waiting, tasks, unfinished, running, inTx, saved, crashes>>
      BY <1>3 DEF HandlerFails, Frame
    <2> QED
      BY <2>3, <2>4, <2>5, <2>6, <2>7 DEF TypeOK
  <1> QED
    BY <1>2, <1>3

\* So does either delayed callback.
LEMMA CallbackType ==
  ASSUME TypeOK, NEW k \in tasks, Callback(k)
  PROVE  TypeOK'
  <1> DEFINE t == k.target
  <1>1. k \in TaskSet /\ t \in Target /\ k.event \in Id
    BY DEF TypeOK, TaskSet
  <1>2. open[t] \in Nat /\ alertq \in [Target -> Seq(AlertTypes)]
    BY <1>1 DEF TypeOK
  <1>3. CASE MakeDownWarning(k)
    <2>1. PICK withheld \in MayWithhold(t), u \in ShadowStates(t) :
            /\ up' = [up EXCEPT ![t] = IF OnMaintenance(t) THEN @ ELSE u]
            /\ Alert(t, WarningType(t, u), Announced(t) /\ ~withheld)
      BY <1>3 DEF MakeDownWarning
    <2>2. up' \in [Target -> UpState]
      BY <1>1, <2>1, UpStates DEF TypeOK
    <2>3. alertq' \in [Target -> Seq(AlertTypes)]
      <3>1. WarningType(t, u) \in AlertTypes
        BY <1>1, AlertTypesUsed
      <3>2. (Announced(t) /\ ~withheld) \in BOOLEAN
        OBVIOUS
      <3> QED
        BY <1>1, <1>2, <2>1, <3>1, <3>2, AlertType
    <2>4. tasks' \subseteq TaskSet
      BY <1>1, <1>3 DEF TypeOK, MakeDownWarning, TaskAfterWarning, Task, TaskSet
    <2>5. UNCHANGED <<eventq, open, lastEnd, waiting, unfinished, batch,
                      nextid, running, inTx, saved, crashes>>
      BY <1>3 DEF MakeDownWarning, Frame
    <2> QED
      BY <2>2, <2>3, <2>4, <2>5 DEF TypeOK, TaskSet
  <1>4. CASE MakeDownAlert(k)
    <2>1. PICK withheld \in MayWithhold(t), u \in ShadowStates(t) :
            /\ up' = [up EXCEPT ![t] = u]
            /\ open' = [open EXCEPT ![t] = IF withheld THEN @ ELSE @ + 1]
            /\ Alert(t, DownType(t, u), ~withheld /\ Announced(t))
      BY <1>4 DEF MakeDownAlert
    <2>2. up' \in [Target -> UpState]
      BY <1>1, <2>1, UpStates DEF TypeOK
    <2>3. alertq' \in [Target -> Seq(AlertTypes)]
      <3>1. DownType(t, u) \in AlertTypes
        BY <1>1, AlertTypesUsed
      <3>2. (~withheld /\ Announced(t)) \in BOOLEAN
        OBVIOUS
      <3> QED
        BY <1>1, <1>2, <2>1, <3>1, <3>2, AlertType
    <2>4. open' \in [Target -> Nat]
      BY <1>1, <1>2, <2>1 DEF TypeOK
    <2>5. waiting' \in [Target -> Id \cup {NoEvent}] /\ tasks' \subseteq tasks
      BY <1>1, <1>4 DEF TypeOK, MakeDownAlert
    <2>6. eventq' \subseteq eventq
      BY <1>4 DEF MakeDownAlert
    <2>7. UNCHANGED <<lastEnd, unfinished, batch, nextid, running, inTx, saved, crashes>>
      BY <1>4 DEF MakeDownAlert, Frame
    <2> QED
      BY <2>2, <2>3, <2>4, <2>5, <2>6, <2>7 DEF TypeOK
  <1> QED
    BY <1>3, <1>4 DEF Callback

\* A process that dies leaves a memory of the right shape.
LEMMA WipeType ==
  ASSUME TypeOK, Wipe
  PROVE  /\ running' \in BOOLEAN /\ unfinished' \subseteq Id
         /\ waiting' \in [Target -> Id \cup {NoEvent}]
         /\ tasks' \subseteq TaskSet /\ batch' \subseteq Event
         /\ inTx' \in BOOLEAN /\ saved' \in DbRecord
         /\ crashes' \in 0..MaxCrashes
  <1>1. crashes' \in 0..MaxCrashes
    BY BoundAssumption DEF Wipe, TypeOK
  <1>2. waiting' \in [Target -> Id \cup {NoEvent}]
    BY DEF Wipe
  <1>3. saved' \in DbRecord
    BY NoSaveType DEF Wipe
  <1> QED
    BY <1>1, <1>2, <1>3 DEF Wipe

\* So does a transaction that is rolled back.
LEMMA RollBackType ==
  ASSUME TypeOK, RollBackTx
  PROVE  /\ eventq' \subseteq Event /\ alertq' \in [Target -> Seq(AlertTypes)]
         /\ open' \in [Target -> Nat] /\ up' \in [Target -> UpState]
         /\ lastEnd' \in [Target -> Id \cup {NoEvent}]
  BY DEF RollBackTx, TypeOK, db

\* So does a callback that ends half way.
LEMMA CallbackStopsType ==
  ASSUME TypeOK, NEW k \in tasks, CallbackStops(k)
  PROVE  TypeOK'
  <1> DEFINE t == k.target
             warn == k.action = "warning"
             type(u) == IF warn THEN WarningType(t, u) ELSE DownType(t, u)
  <1>1. k \in TaskSet /\ t \in Target /\ k.event \in Id
    BY DEF TypeOK, TaskSet
  <1>2. open[t] \in Nat /\ alertq \in [Target -> Seq(AlertTypes)]
    BY <1>1 DEF TypeOK
  <1>3. PICK n \in (IF warn THEN 0..3 ELSE 0..4),
             withheld \in MayWithhold(t), u \in ShadowStates(t) :
          /\ up' = [up EXCEPT ![t] = IF n = 0 \/ (warn /\ OnMaintenance(t)) THEN @ ELSE u]
          /\ open' = [open EXCEPT ![t] = IF n >= 2 /\ ~warn /\ ~withheld THEN @ + 1 ELSE @]
          /\ Alert(t, type(u), n >= 3 /\ ~withheld /\ Announced(t))
          /\ \/ /\ "exception" \in Faults
                /\ tasks' = tasks \ {k}
                /\ waiting' = [waiting EXCEPT ![t] = IF n = 4 THEN NoEvent ELSE @]
                /\ UNCHANGED <<running, unfinished, batch, inTx, saved, crashes>>
             \/ Wipe
    BY DEF CallbackStops
  <1>4. up' \in [Target -> UpState]
    BY <1>1, <1>3, UpStates DEF TypeOK
  <1>5. open' \in [Target -> Nat]
    BY <1>1, <1>2, <1>3 DEF TypeOK
  <1>6. alertq' \in [Target -> Seq(AlertTypes)]
    <2> DEFINE post == n >= 3 /\ ~withheld /\ Announced(t)
    <2>1. type(u) \in AlertTypes
      BY <1>1, AlertTypesUsed
    <2>2. post \in BOOLEAN /\ Alert(t, type(u), post)
      BY <1>3
    <2> HIDE DEF post, type
    <2> QED
      BY <1>1, <1>2, <2>1, <2>2, AlertType
  <1>7. UNCHANGED <<eventq, nextid, lastEnd>>
    BY DEF CallbackStops
  <1>8. CASE Wipe
    BY <1>4, <1>5, <1>6, <1>7, <1>8, WipeType DEF TypeOK, TaskSet, DbRecord
  <1>9. CASE ~Wipe
    <2>1. waiting' \in [Target -> Id \cup {NoEvent}] /\ tasks' \subseteq tasks
      BY <1>1, <1>3, <1>9 DEF TypeOK
    <2>2. UNCHANGED <<running, unfinished, batch, inTx, saved, crashes>>
      BY <1>3, <1>9
    <2> QED
      BY <1>4, <1>5, <1>6, <1>7, <2>1, <2>2 DEF TypeOK
  <1> QED
    BY <1>8, <1>9

\* So does the end or the start of the process.
LEMMA ProcessType ==
  ASSUME TypeOK, LoseConnection \/ Crash \/ Restart
  PROVE  TypeOK'
  <1>1. CASE LoseConnection
    BY <1>1, RollBackType, NoSaveType DEF LoseConnection, TypeOK, DbRecord
  <1>2. CASE Crash
    <2>1. Wipe /\ RollBackTx /\ nextid' = nextid
      BY <1>2 DEF Crash
    <2> QED
      BY <2>1, RollBackType, WipeType DEF TypeOK, DbRecord, TaskSet
  <1>3. CASE Restart
    BY <1>3 DEF Restart, TypeOK, db
  <1> QED
    BY <1>1, <1>2, <1>3

\* The engine begins with the right shape.
LEMMA InitType == Init => TypeOK
  <1> SUFFICES ASSUME Init PROVE TypeOK
    OBVIOUS
  <1>1. <<>> \in Seq(AlertTypes)
    OBVIOUS
  <1>2. alertq \in [Target -> Seq(AlertTypes)] /\ up \in [Target -> UpState]
    BY <1>1 DEF Init, UpState
  <1>3. nextid \in 1..(MaxEvents + 1) /\ crashes \in 0..MaxCrashes
    BY BoundAssumption DEF Init
  <1>4. open \in [Target -> Nat] /\ lastEnd \in [Target -> Id \cup {NoEvent}]
    BY DEF Init
  <1>5. waiting \in [Target -> Id \cup {NoEvent}]
    BY DEF Init
  <1>6. saved \in DbRecord
    BY NoSaveType DEF Init
  <1>7. /\ eventq \subseteq Event /\ batch \subseteq Event /\ unfinished \subseteq Id
        /\ tasks \subseteq TaskSet /\ running \in BOOLEAN /\ inTx \in BOOLEAN
    BY DEF Init
  <1> QED
    BY <1>2, <1>3, <1>4, <1>5, <1>6, <1>7 DEF TypeOK, DbRecord, TaskSet

\* Every step keeps the shape of the state.
LEMMA TypeStep ==
  ASSUME TypeOK, [Next]_vars
  PROVE  TypeOK'
  <1>1. ASSUME NEW t \in Target, NEW s \in {"s", "e", "x"}, PostEvent(t, s)
        PROVE  TypeOK'
    BY <1>1, PostEventType
  <1>2. CASE BeginLoad \/ CommitLoad
    BY <1>2, LoadType
  <1>3. ASSUME NEW e \in batch, Handle(e)
        PROVE  TypeOK'
    BY <1>3, HandleStartType, HandleEndType, HandleDirectType, HandleOtherType DEF Handle
  <1>4. ASSUME NEW k \in tasks, Callback(k) \/ CallbackStops(k)
        PROVE  TypeOK'
    BY <1>4, CallbackType, CallbackStopsType
  <1>5. CASE LoseConnection \/ Crash \/ Restart
    BY <1>5, ProcessType
  <1>6. CASE UNCHANGED vars
    BY <1>6 DEF vars, TypeOK
  <1> QED
    BY <1>1, <1>2, <1>3, <1>4, <1>5, <1>6 DEF Next

\* The engine's state keeps its shape, whatever fails: no alert of an unknown type
\* is posted, no history row is resolved twice (open is never negative), and a
\* process that dies or a transaction that is rolled back leaves no odd state.
THEOREM TypeCorrect == Spec => []TypeOK
  <1>1. TypeOK /\ [Next]_vars => TypeOK'
    BY TypeStep
  <1> QED
    BY InitType, <1>1, PTL DEF Spec

--------------------------------------------------------------------------------
(***************************************************************************)
(* One open alert state per problem.  A callback inserts its row without   *)
(* asking whether one is open; that none is follows from what holds as     *)
(* long as a task is in the scheduler.                                     *)
(***************************************************************************)

\* A task belongs to a waiting plugin, whose problem has no open alert state.
TaskIsHeld ==
  \A k \in tasks : /\ TypeOf[k.target] \in Delayed
                   /\ waiting[k.target] = k.event
                   /\ open[k.target] = 0

\* A target has one task at most.
TaskIsUnique == \A k, l \in tasks : k.target = l.target => k = l

\* What a crash falls back to has one open alert state per problem, too.
SavedOneOpen == inTx => \A t \in Target : TypeOf[t] # "serviceState" => saved.open[t] <= 1

OneOpenInv == TypeOK /\ OneOpenState /\ TaskIsHeld /\ TaskIsUnique /\ SavedOneOpen

\* While nothing waits for a target, it has no task.
LEMMA NoTaskUnlessWaiting ==
  ASSUME TypeOK, TaskIsHeld, NEW t \in Target, ~IsWaiting(t)
  PROVE  \A k \in tasks : k.target # t
  <1>1. \A k \in tasks : k.event \in Id
    BY DEF TypeOK
  <1> QED
    BY <1>1, IdIsNotNone DEF TaskIsHeld, IsWaiting

\* Events arrive, the transaction begins and ends, the process restarts: no open
\* alert state and no task is touched.
LEMMA QuietOneOpen ==
  ASSUME OneOpenInv, UNCHANGED <<open, tasks, waiting>>, inTx' => saved' = saved /\ inTx
  PROVE  /\ OneOpenState' /\ TaskIsHeld' /\ TaskIsUnique' /\ SavedOneOpen'
  BY DEF OneOpenInv, OneOpenState, TaskIsHeld, TaskIsUnique, SavedOneOpen

\* A queue check saves what a crash goes back to, as good as what there is.
LEMMA BeginLoadOneOpen ==
  ASSUME OneOpenInv, BeginLoad
  PROVE  /\ OneOpenState' /\ TaskIsHeld' /\ TaskIsUnique' /\ SavedOneOpen'
  <1>1. UNCHANGED <<open, tasks, waiting>> /\ saved'.open = open
    BY DEF BeginLoad, db
  <1> QED
    BY <1>1 DEF OneOpenInv, OneOpenState, TaskIsHeld, TaskIsUnique, SavedOneOpen

\* A start event that is not a duplicate finds nothing open and nothing waiting.
LEMMA HandleStartOneOpen ==
  ASSUME OneOpenInv, NEW e \in batch, HandleStart(e)
  PROVE  /\ OneOpenState' /\ TaskIsHeld' /\ TaskIsUnique' /\ SavedOneOpen'
  <1> DEFINE t == e.target
  <1>1. /\ t \in Target /\ e.id \in Id /\ TypeOf[t] \in Delayed
        /\ waiting \in [Target -> Id \cup {NoEvent}] /\ open[t] \in Nat
    BY DEF OneOpenInv, TypeOK, Event, HandleStart
  <1>2. UNCHANGED <<open, inTx, saved>>
    BY DEF HandleStart, Frame
  <1>3. OneOpenState' /\ SavedOneOpen'
    BY <1>2 DEF OneOpenInv, OneOpenState, SavedOneOpen
  <1>4. CASE IsDuplicate(t)
    BY <1>2, <1>3, <1>4 DEF OneOpenInv, HandleStart, TaskIsHeld, TaskIsUnique
  <1>5. CASE ~IsDuplicate(t)
    <2>1. /\ waiting' = [waiting EXCEPT ![t] = e.id]
          /\ tasks' = tasks \cup {FirstTask(t)}
      BY <1>5 DEF HandleStart
    <2>2. open[t] = 0 /\ ~IsWaiting(t)
      BY <1>1, <1>5 DEF IsDuplicate, IsUnresolved
    <2>3. \A k \in tasks : k.target # t
      BY <1>1, <2>2, NoTaskUnlessWaiting DEF OneOpenInv
    <2>4. FirstTask(t).target = t /\ FirstTask(t).event = waiting'[t]
      BY DEF FirstTask, Task
    <2>5. TaskIsHeld'
      BY <1>1, <1>2, <2>1, <2>2, <2>3, <2>4 DEF OneOpenInv, TaskIsHeld
    <2>6. TaskIsUnique'
      BY <2>1, <2>3, <2>4 DEF OneOpenInv, TaskIsUnique
    <2> QED
      BY <1>3, <2>5, <2>6
  <1> QED
    BY <1>4, <1>5

\* The problem of an end event has no task left, or has nothing open.
LEMMA HandleEndOneOpen ==
  ASSUME OneOpenInv, NEW e \in batch, HandleEnd(e)
  PROVE  /\ OneOpenState' /\ TaskIsHeld' /\ TaskIsUnique' /\ SavedOneOpen'
  <1> DEFINE t == e.target
  <1>1. /\ t \in Target /\ open \in [Target -> Nat]
        /\ waiting \in [Target -> Id \cup {NoEvent}]
    BY DEF OneOpenInv, TypeOK, Event
  <1>2. open' = [open EXCEPT ![t] = Resolved(@)] /\ UNCHANGED <<inTx, saved>>
    BY DEF HandleEnd, OpenAfterEnd, Frame
  <1>3. \A s \in Target : open'[s] \in Nat /\ open'[s] <= open[s]
    BY <1>1, <1>2, ResolvedType
  <1>4. OneOpenState'
    BY <1>1, <1>3 DEF OneOpenInv, OneOpenState
  <1>5. SavedOneOpen'
    BY <1>2 DEF OneOpenInv, SavedOneOpen
  <1>6. tasks' \subseteq tasks /\ \A s \in Target : s # t => waiting'[s] = waiting[s]
    BY <1>1 DEF HandleEnd, Deschedule
  <1>7. TaskIsUnique'
    BY <1>6 DEF OneOpenInv, TaskIsUnique
  <1>8. \A k \in tasks' : k.target # t
    <2>1. CASE ~IsWaiting(t)
      BY <1>1, <1>6, <2>1, NoTaskUnlessWaiting DEF OneOpenInv
    <2>2. CASE IsWaiting(t)
      BY <1>6, <2>2 DEF OneOpenInv, TaskIsHeld, HandleEnd, Deschedule, TaskOf
    <2> QED
      BY <2>1, <2>2
  <1>9. TaskIsHeld'
    <2>1. \A k \in tasks : k.target \in Target
      BY DEF OneOpenInv, TypeOK
    <2>2. \A s \in Target : s # t => open'[s] = open[s]
      BY <1>1, <1>2
    <2> QED
      BY <1>6, <1>8, <2>1, <2>2 DEF OneOpenInv, TaskIsHeld
  <1> QED
    BY <1>4, <1>5, <1>7, <1>9

\* What the direct handlers leave open: they ask before they open, and their
\* targets have no task.
LEMMA OpenAfterDirectBound ==
  ASSUME OneOpenInv, NEW e \in batch, TypeOf[e.target] # "serviceState",
         e.target \in Target, e.state \in {"s", "e", "x"}
  PROVE  OpenAfterDirect(e) <= 1
  <1>1. open[e.target] \in Nat /\ open[e.target] <= 1
    BY DEF OneOpenInv, OneOpenState, TypeOK
  <1>2. CASE e.state = "s" /\ ~Ignores(e)
    BY <1>1, <1>2 DEF OpenAfterDirect, Ignores, IsUnresolved
  <1>3. CASE e.state # "s" \/ Ignores(e)
    BY <1>1, <1>3, ResolvedType DEF OpenAfterDirect, OpenAfterEnd, Resolved
  <1> QED
    BY <1>2, <1>3

\* A handler that acts at once keeps the invariant of open alert states.
LEMMA HandleDirectOneOpen ==
  ASSUME OneOpenInv, NEW e \in batch, TypeOf[e.target] \in Direct,
         open' \in {open, [open EXCEPT ![e.target] = OpenAfterDirect(e)]},
         UNCHANGED <<tasks, waiting, inTx, saved>>
  PROVE  /\ OneOpenState' /\ TaskIsHeld' /\ TaskIsUnique' /\ SavedOneOpen'
  <1> DEFINE t == e.target
  <1>1. t \in Target /\ e.state \in {"s", "e", "x"} /\ open \in [Target -> Nat]
    BY DEF OneOpenInv, TypeOK, Event
  <1>2. \A s \in Target : s # t => open'[s] = open[s]
    BY <1>1
  <1>3. OneOpenState'
    <2>1. open'[t] = open[t] \/ open'[t] = OpenAfterDirect(e)
      BY <1>1
    <2>2. TypeOf[t] # "serviceState" => open'[t] <= 1
      BY <1>1, <2>1, OpenAfterDirectBound DEF OneOpenInv, OneOpenState
    <2> QED
      BY <1>2, <2>2 DEF OneOpenInv, OneOpenState
  <1>4. TaskIsHeld'
    <2>1. \A k \in tasks : k.target \in Target /\ k.target # t
      BY DEF OneOpenInv, TypeOK, TaskIsHeld, Delayed, Direct
    <2> QED
      BY <1>2, <2>1 DEF OneOpenInv, TaskIsHeld
  <1>5. TaskIsUnique' /\ SavedOneOpen'
    BY DEF OneOpenInv, TaskIsUnique, SavedOneOpen
  <1> QED
    BY <1>3, <1>4, <1>5

\* A handler that fails leaves nothing, or what it would have left.
LEMMA HandlerFailsOneOpen ==
  ASSUME OneOpenInv, NEW e \in batch, HandlerFails(e)
  PROVE  /\ OneOpenState' /\ TaskIsHeld' /\ TaskIsUnique' /\ SavedOneOpen'
  <1> DEFINE t == e.target
  <1>1. /\ t \in Target /\ open \in [Target -> Nat]
        /\ \A k \in tasks : k.target \in Target
    BY DEF OneOpenInv, TypeOK, Event
  <1>2. UNCHANGED <<tasks, waiting, inTx, saved>>
    BY DEF HandlerFails, Frame
  <1>3. CASE open' = open
    BY <1>2, <1>3, QuietOneOpen
  <1>4. CASE /\ TypeOf[t] \in Delayed /\ IsUnresolved(t)
             /\ open' = [open EXCEPT ![t] = OpenAfterEnd(t)]
    <2>1. \A s \in Target : open'[s] \in Nat /\ open'[s] <= open[s]
      BY <1>1, <1>4, ResolvedType DEF OpenAfterEnd
    <2>2. OneOpenState'
      BY <1>1, <2>1 DEF OneOpenInv, OneOpenState
    <2>3. \A k \in tasks : open'[k.target] = 0
      BY <1>1, <1>4 DEF OneOpenInv, TaskIsHeld, IsUnresolved
    <2>4. TaskIsHeld' /\ TaskIsUnique' /\ SavedOneOpen'
      BY <1>2, <2>3 DEF OneOpenInv, TaskIsHeld, TaskIsUnique, SavedOneOpen
    <2> QED
      BY <2>2, <2>4
  <1>5. CASE /\ TypeOf[t] \in Direct
             /\ open' \in {open, [open EXCEPT ![t] = OpenAfterDirect(e)]}
    BY <1>2, <1>5, HandleDirectOneOpen
  <1> QED
    BY <1>3, <1>4, <1>5 DEF HandlerFails

\* A callback that opens a state is the only task of its target, and is gone.
LEMMA DeclareOneOpen ==
  ASSUME OneOpenInv, NEW k \in tasks,
         open' \in {open, [open EXCEPT ![k.target] = @ + 1]},
         tasks' = tasks \ {k},
         waiting' \in {waiting, [waiting EXCEPT ![k.target] = NoEvent]},
         UNCHANGED <<inTx, saved>>
  PROVE  /\ OneOpenState' /\ TaskIsHeld' /\ TaskIsUnique' /\ SavedOneOpen'
  <1> DEFINE t == k.target
  <1>1. /\ t \in Target /\ open \in [Target -> Nat]
        /\ waiting \in [Target -> Id \cup {NoEvent}]
        /\ \A l \in tasks : l.target \in Target
    BY DEF OneOpenInv, TypeOK
  <1>2. open[t] = 0 /\ \A l \in tasks' : l.target # t
    BY DEF OneOpenInv, TaskIsHeld, TaskIsUnique
  <1>3. \A s \in Target : s # t => open'[s] = open[s] /\ waiting'[s] = waiting[s]
    BY <1>1
  <1>4. open'[t] <= 1
    BY <1>1, <1>2
  <1>5. OneOpenState'
    BY <1>3, <1>4 DEF OneOpenInv, OneOpenState
  <1>6. TaskIsHeld'
    BY <1>1, <1>2, <1>3 DEF OneOpenInv, TaskIsHeld
  <1> QED
    BY <1>5, <1>6 DEF OneOpenInv, TaskIsUnique, SavedOneOpen

\* The task after the warning stands in for the one that is run.
LEMMA WarningOneOpen ==
  ASSUME OneOpenInv, NEW k \in tasks, MakeDownWarning(k)
  PROVE  /\ OneOpenState' /\ TaskIsHeld' /\ TaskIsUnique' /\ SavedOneOpen'
  <1> DEFINE next == Task(k.event, k.target, "alert")
  <1>1. tasks' = (tasks \ {k}) \cup {next} /\ UNCHANGED <<open, waiting, inTx, saved>>
    BY DEF MakeDownWarning, TaskAfterWarning, Frame
  <1>2. next.event = k.event /\ next.target = k.target
    BY DEF Task
  <1>3. OneOpenState' /\ SavedOneOpen'
    BY <1>1 DEF OneOpenInv, OneOpenState, SavedOneOpen
  <1> HIDE DEF next
  <1>4. TaskIsHeld'
    BY <1>1, <1>2 DEF OneOpenInv, TaskIsHeld
  <1>5. TaskIsUnique'
    BY <1>1, <1>2 DEF OneOpenInv, TaskIsUnique
  <1> QED
    BY <1>3, <1>4, <1>5

\* The callback opens a row for the one event that is held, where none is open.
LEMMA CallbackOneOpen ==
  ASSUME OneOpenInv, NEW k \in tasks, Callback(k)
  PROVE  /\ OneOpenState' /\ TaskIsHeld' /\ TaskIsUnique' /\ SavedOneOpen'
  <1>1. CASE MakeDownWarning(k)
    BY <1>1, WarningOneOpen
  <1>2. CASE MakeDownAlert(k)
    <2>1. k.target \in Target /\ open \in [Target -> Nat]
      BY DEF OneOpenInv, TypeOK
    <2>2. open' \in {open, [open EXCEPT ![k.target] = @ + 1]}
      BY <1>2, <2>1 DEF MakeDownAlert
    <2>3. tasks' = tasks \ {k} /\ waiting' = [waiting EXCEPT ![k.target] = NoEvent]
      BY <1>2 DEF MakeDownAlert
    <2>4. UNCHANGED <<inTx, saved>>
      BY <1>2 DEF MakeDownAlert, Frame
    <2> QED
      BY <2>2, <2>3, <2>4, DeclareOneOpen
  <1> QED
    BY <1>1, <1>2 DEF Callback

\* Nothing waits in a process that died.
LEMMA WipeOneOpen ==
  ASSUME Wipe
  PROVE  TaskIsHeld' /\ TaskIsUnique' /\ SavedOneOpen'
  BY DEF Wipe, TaskIsHeld, TaskIsUnique, SavedOneOpen

\* So does a callback that ends half way.
LEMMA CallbackStopsOneOpen ==
  ASSUME OneOpenInv, NEW k \in tasks, CallbackStops(k)
  PROVE  /\ OneOpenState' /\ TaskIsHeld' /\ TaskIsUnique' /\ SavedOneOpen'
  <1> DEFINE t == k.target
  <1>1. /\ t \in Target /\ open \in [Target -> Nat]
        /\ waiting \in [Target -> Id \cup {NoEvent}]
    BY DEF OneOpenInv, TypeOK
  <1>2. open' \in {open, [open EXCEPT ![t] = @ + 1]}
    BY <1>1 DEF CallbackStops
  <1>3. CASE Wipe
    <2>1. open[t] = 0 /\ TypeOf[t] \in Delayed
      BY DEF OneOpenInv, TaskIsHeld
    <2>2. OneOpenState'
      BY <1>1, <1>2, <2>1 DEF OneOpenInv, OneOpenState
    <2> QED
      BY <1>3, <2>2, WipeOneOpen
  <1>4. CASE ~Wipe
    <2>1. /\ tasks' = tasks \ {k}
          /\ waiting' \in {waiting, [waiting EXCEPT ![t] = NoEvent]}
          /\ UNCHANGED <<inTx, saved>>
      BY <1>1, <1>4 DEF CallbackStops
    <2> QED
      BY <1>2, <2>1, DeclareOneOpen
  <1> QED
    BY <1>3, <1>4

\* What a crash goes back to is what was saved.
LEMMA CrashOneOpen ==
  ASSUME OneOpenInv, Crash
  PROVE  /\ OneOpenState' /\ TaskIsHeld' /\ TaskIsUnique' /\ SavedOneOpen'
  <1>1. OneOpenState'
    BY DEF OneOpenInv, OneOpenState, SavedOneOpen, Crash, RollBackTx, db
  <1> QED
    BY <1>1, WipeOneOpen DEF Crash

\* Without rollbacks every step keeps the invariant of open alert states.
LEMMA OneOpenStep ==
  ASSUME OneOpenInv, [Next]_vars, "rollback" \notin Faults
  PROVE  OneOpenInv'
  <1> DEFINE Goal == OneOpenState' /\ TaskIsHeld' /\ TaskIsUnique' /\ SavedOneOpen'
  <1>1. TypeOK'
    BY TypeStep DEF OneOpenInv
  <1> SUFFICES Goal
    BY <1>1 DEF OneOpenInv
  <1>2. ASSUME NEW t \in Target, NEW s \in {"s", "e", "x"}, PostEvent(t, s)
        PROVE  Goal
    BY <1>2, QuietOneOpen DEF PostEvent, mem
  <1>3. CASE BeginLoad
    BY <1>3, BeginLoadOneOpen
  <1>4. CASE CommitLoad
    BY <1>4, QuietOneOpen DEF CommitLoad, db
  <1>5. ASSUME NEW e \in batch, Handle(e)
        PROVE  Goal
    <2>1. CASE HandleStart(e)
      BY <2>1, HandleStartOneOpen
    <2>2. CASE HandleEnd(e)
      BY <2>2, HandleEndOneOpen
    <2>3. CASE HandleStrange(e)
      BY <2>3, QuietOneOpen DEF HandleStrange, Frame
    <2>4. CASE HandleDirect(e)
      BY <2>4, HandleDirectOneOpen DEF HandleDirect, Frame
    <2>5. CASE HandlerFails(e)
      BY <2>5, HandlerFailsOneOpen
    <2> QED
      BY <1>5, <2>1, <2>2, <2>3, <2>4, <2>5 DEF Handle
  <1>6. ASSUME NEW k \in tasks, Callback(k) \/ CallbackStops(k)
        PROVE  Goal
    BY <1>6, CallbackOneOpen, CallbackStopsOneOpen
  <1>7. CASE Crash
    BY <1>7, CrashOneOpen
  <1>8. CASE Restart
    BY <1>8, QuietOneOpen DEF Restart, db
  <1>9. CASE UNCHANGED vars
    BY <1>9, QuietOneOpen DEF vars
  <1>10. ~LoseConnection
    BY DEF LoseConnection
  <1> QED
    BY <1>2, <1>3, <1>4, <1>5, <1>6, <1>7, <1>8, <1>9, <1>10 DEF Next

\* The invariant of open alert states.
LEMMA OneOpenHolds ==
  ASSUME "rollback" \notin Faults
  PROVE  Spec => []OneOpenInv
  <1>1. Init => OneOpenInv
    BY InitType DEF Init, OneOpenInv, OneOpenState, TaskIsHeld, TaskIsUnique, SavedOneOpen
  <1>2. OneOpenInv /\ [Next]_vars => OneOpenInv'
    BY OneOpenStep
  <1> QED
    BY <1>1, <1>2, PTL DEF Spec

\* As long as no transaction of a queue check is rolled back, whatever handlers or
\* callbacks raise and whenever the process dies, no problem (serviceState aside)
\* has two open alert states: __waiting_for_resolve and the map of unresolved
\* alerts together recognise every duplicate.
THEOREM OneOpenStateHolds ==
  ASSUME "rollback" \notin Faults
  PROVE  Spec => []OneOpenState
  <1>1. OneOpenInv => OneOpenState
    BY DEF OneOpenInv
  <1> QED
    BY OneOpenHolds, <1>1, PTL

--------------------------------------------------------------------------------
(***************************************************************************)
(* What the engine remembers, what is in the queue and what it has handled  *)
(* agree, when the only fault is that the process dies: an exception leaves *)
(* a plugin waiting without a task, a rollback leaves the memory ahead of   *)
(* the database.                                                            *)
(***************************************************************************)

\* The rows of the queue, with those that a crash would bring back.
AllRows == eventq \cup saved.eventq

\* Ids are given once, in order.
RowsAreNumbered ==
  /\ \A e \in AllRows : e.id < nextid
  /\ \A e, f \in AllRows : e.id = f.id => e = f
  /\ \A i \in unfinished : i < nextid
  /\ \A t \in Target : lastEnd[t] < nextid /\ saved.lastEnd[t] < nextid

\* What a queue check has still to do is new, and older than all it has not to do but
\* for what is held.
BatchIsNew ==
  /\ batch \subseteq eventq
  /\ \A e \in batch : e.id \notin unfinished
  /\ ~inTx => batch = {} /\ saved = NoSave
  /\ inTx => \A e \in eventq \ batch, f \in batch : e.id \in unfinished \/ f.id < e.id

\* A plugin waits for an unfinished start event of the queue, and has a task; no other
\* row is unfinished.
MemoryAgrees ==
  /\ \A e \in eventq : e.id \in unfinished => e.id = waiting[e.target]
  /\ \A t \in Target : IsWaiting(t) =>
       /\ waiting[t] \in unfinished
       /\ \E e \in eventq : e.id = waiting[t] /\ e.target = t /\ e.state = "s"
       /\ \E k \in tasks : k.target = t

\* No start event of the queue is older than the last end event, before a crash or
\* after it.
StartsAreCurrent ==
  /\ HeldStartIsCurrent
  /\ \A e \in AllRows : e.state = "s" => e.id > saved.lastEnd[e.target]

WaitInv == RowsAreNumbered /\ BatchIsNew /\ MemoryAgrees /\ StartsAreCurrent

\* The shape of what the invariant compares.
LEMMA RowFacts ==
  ASSUME TypeOK
  PROVE  /\ \A e \in AllRows : e.id \in Nat /\ e.id > 0 /\ e.target \in Target
         /\ AllRows \subseteq Event
         /\ nextid \in Nat /\ nextid > 0
         /\ lastEnd \in [Target -> Nat] /\ saved.lastEnd \in [Target -> Nat]
         /\ waiting \in [Target -> Nat]
         /\ \A e \in batch : e.id \in Nat /\ e.target \in Target
         /\ \A k \in tasks : k.event \in Nat /\ k.event > 0 /\ k.target \in Target
  <1>1. /\ Id \subseteq Nat /\ \A i \in Id : i > 0
        /\ NoEvent \in Nat /\ MaxEvents \in Nat
    BY BoundAssumption DEF Id, NoEvent
  <1>2. /\ AllRows \subseteq Event
        /\ saved.lastEnd \in [Target -> Id \cup {NoEvent}]
    BY DEF TypeOK, AllRows
  <1>3. /\ lastEnd \in [Target -> Nat] /\ saved.lastEnd \in [Target -> Nat]
        /\ waiting \in [Target -> Nat]
    BY <1>1, <1>2 DEF TypeOK
  <1>4. nextid \in Nat /\ nextid > 0
    BY <1>1 DEF TypeOK
  <1>5. \A e \in Event : e.id \in Id /\ e.target \in Target
    BY DEF Event
  <1> QED
    BY <1>1, <1>2, <1>3, <1>4, <1>5 DEF TypeOK

\* Before anything happened there is nothing to agree on.
LEMMA InitWait == Init => WaitInv
  <1> SUFFICES ASSUME Init PROVE WaitInv
    OBVIOUS
  <1>1. AllRows = {} /\ \A t \in Target : saved.lastEnd[t] = 0 /\ lastEnd[t] = 0
    BY DEF Init, AllRows, NoSave, NoEvent
  <1> QED
    BY <1>1 DEF Init, WaitInv, RowsAreNumbered, BatchIsNew, MemoryAgrees, IsWaiting,
                StartsAreCurrent, HeldStartIsCurrent

\* A restart, like a stuttering step, changes nothing of this.
LEMMA QuietWait ==
  ASSUME WaitInv,
         UNCHANGED <<eventq, nextid, lastEnd, unfinished, waiting, tasks, batch, inTx, saved>>
  PROVE  WaitInv'
  BY DEF WaitInv, RowsAreNumbered, BatchIsNew, MemoryAgrees, IsWaiting, AllRows,
         StartsAreCurrent, HeldStartIsCurrent

\* A new event is newer than all.
LEMMA PostEventWait ==
  ASSUME TypeOK, WaitInv, NEW t \in Target, NEW s \in {"s", "e", "x"}, PostEvent(t, s)
  PROVE  WaitInv'
  <1> DEFINE n == [id |-> nextid, target |-> t, state |-> s]
  <1>1. /\ eventq' = eventq \cup {n} /\ nextid' = nextid + 1
        /\ UNCHANGED <<lastEnd, unfinished, waiting, tasks, batch, inTx, saved>>
    BY DEF PostEvent, mem
  <1>2. n.id = nextid /\ n.target = t /\ AllRows' = AllRows \cup {n}
    BY <1>1 DEF AllRows
  <1> HIDE DEF n
  <1>3. RowsAreNumbered'
    <2>1. \A e \in AllRows : e.id < nextid /\ e.id # n.id
      BY <1>2, RowFacts DEF WaitInv, RowsAreNumbered
    <2>2. \A e \in AllRows' : e.id < nextid'
      BY <1>1, <1>2, <2>1, RowFacts
    <2>3. \A e, f \in AllRows' : e.id = f.id => e = f
      BY <1>2, <2>1 DEF WaitInv, RowsAreNumbered
    <2>4. /\ \A i \in unfinished' : i < nextid'
          /\ \A u \in Target : lastEnd'[u] < nextid' /\ saved'.lastEnd[u] < nextid'
      <3>1. \A i \in unfinished : i \in Nat
        BY BoundAssumption DEF TypeOK, Id
      <3> QED
        BY <1>1, <3>1, RowFacts DEF WaitInv, RowsAreNumbered
    <2> QED
      BY <2>2, <2>3, <2>4 DEF RowsAreNumbered
  <1>4. BatchIsNew'
    BY <1>1, <1>2, RowFacts DEF WaitInv, RowsAreNumbered, BatchIsNew, AllRows
  <1>5. MemoryAgrees'
    BY <1>1, <1>2, RowFacts DEF WaitInv, RowsAreNumbered, MemoryAgrees, IsWaiting
  <1>6. StartsAreCurrent'
    BY <1>1, <1>2, RowFacts
    DEF WaitInv, RowsAreNumbered, StartsAreCurrent, HeldStartIsCurrent, AllRows
  <1> QED
    BY <1>3, <1>4, <1>5, <1>6 DEF WaitInv

\* The snapshot is what is in the queue.
LEMMA BeginLoadWait ==
  ASSUME TypeOK, WaitInv, BeginLoad
  PROVE  WaitInv'
  <1>1. /\ batch' = {e \in eventq : e.id \notin unfinished} /\ inTx'
        /\ saved'.eventq = eventq /\ saved'.lastEnd = lastEnd
        /\ UNCHANGED <<eventq, nextid, lastEnd, unfinished, waiting, tasks>>
    BY DEF BeginLoad, NewEvents, db
  <1>2. AllRows' = eventq /\ eventq \subseteq AllRows
    BY <1>1 DEF AllRows
  <1> QED
    BY <1>1, <1>2 DEF WaitInv, RowsAreNumbered, BatchIsNew, MemoryAgrees, IsWaiting,
                      StartsAreCurrent, HeldStartIsCurrent

\* The end of a queue check keeps what waits and the queue together.
LEMMA CommitLoadWait ==
  ASSUME TypeOK, WaitInv, CommitLoad
  PROVE  WaitInv'
  <1>1. /\ batch' = {} /\ ~inTx' /\ saved' = NoSave
        /\ UNCHANGED <<eventq, nextid, lastEnd, unfinished, waiting, tasks>>
    BY DEF CommitLoad, db
  <1>2. /\ AllRows' = eventq /\ eventq \subseteq AllRows
        /\ \A t \in Target : saved'.lastEnd[t] = 0
    BY <1>1 DEF AllRows, NoSave, NoEvent
  <1> QED
    BY <1>1, <1>2, RowFacts
    DEF WaitInv, RowsAreNumbered, BatchIsNew, MemoryAgrees, IsWaiting,
        StartsAreCurrent, HeldStartIsCurrent

\* The end events handled so far are older than the start events that are left: they
\* were in the same batch and came later, or arrived since, or are no longer held.
LEMMA EndIsOlder ==
  ASSUME TypeOK, WaitInv, NEW e \in batch, IsNext(e), eventq' \subseteq eventq,
         e.state = "e", lastEnd' = [lastEnd EXCEPT ![e.target] = e.id],
         \A f \in eventq' : f.target = e.target => f.id \notin unfinished
  PROVE  HeldStartIsCurrent'
  <1>1. inTx /\ e \in eventq
    BY DEF WaitInv, BatchIsNew
  <1>2. SUFFICES ASSUME NEW f \in eventq', f.state = "s"
                 PROVE  f.id > lastEnd'[f.target]
    BY DEF HeldStartIsCurrent
  <1>3. /\ f \in eventq /\ f \in AllRows /\ e \in AllRows
        /\ f.id \in Nat /\ e.id \in Nat /\ f.target \in Target
        /\ lastEnd \in [Target -> Nat]
    BY <1>1, RowFacts DEF AllRows
  <1>4. CASE f.target # e.target
    BY <1>3, <1>4, <1>2 DEF WaitInv, StartsAreCurrent, HeldStartIsCurrent
  <1>5. CASE f.target = e.target
    <2>1. f.id # e.id
      BY <1>2, <1>3 DEF WaitInv, RowsAreNumbered
    <2>2. f.id >= e.id
      BY <1>1, <1>3, <1>5 DEF IsNext, WaitInv, BatchIsNew
    <2> QED
      BY <1>3, <1>5, <2>1, <2>2
  <1> QED
    BY <1>4, <1>5

\* An event that is handled and gone was nobody's held event.
LEMMA DroppedWait ==
  ASSUME TypeOK, WaitInv, NEW e \in batch,
         eventq' = eventq \ {e}, batch' = batch \ {e},
         UNCHANGED <<nextid, unfinished, waiting, tasks, inTx, saved>>,
         \/ lastEnd' = lastEnd
         \/ /\ IsNext(e) /\ e.state = "e" /\ ~IsWaiting(e.target)
            /\ lastEnd' = [lastEnd EXCEPT ![e.target] = e.id]
  PROVE  WaitInv'
  <1>1. /\ e \in eventq /\ e.id \notin unfinished /\ e \in AllRows
        /\ AllRows' \subseteq AllRows /\ inTx
        /\ e.id \in Nat /\ e.target \in Target /\ lastEnd \in [Target -> Nat]
    BY RowFacts DEF WaitInv, BatchIsNew, AllRows
  <1>2. RowsAreNumbered'
    BY <1>1 DEF WaitInv, RowsAreNumbered
  <1>3. BatchIsNew'
    BY <1>1 DEF WaitInv, BatchIsNew
  <1>4. MemoryAgrees'
    BY <1>1 DEF WaitInv, MemoryAgrees, IsWaiting
  <1>5. HeldStartIsCurrent'
    <2>1. CASE lastEnd' = lastEnd
      BY <2>1 DEF WaitInv, StartsAreCurrent, HeldStartIsCurrent
    <2>2. CASE /\ IsNext(e) /\ e.state = "e" /\ ~IsWaiting(e.target)
               /\ lastEnd' = [lastEnd EXCEPT ![e.target] = e.id]
      <3>1. \A f \in eventq' : f.target = e.target => f.id \notin unfinished
        BY <2>2, RowFacts DEF WaitInv, MemoryAgrees, IsWaiting, NoEvent, AllRows
      <3> QED
        BY <2>2, <3>1, EndIsOlder
    <2> QED
      BY <2>1, <2>2
  <1>6. StartsAreCurrent'
    BY <1>1, <1>5 DEF WaitInv, StartsAreCurrent
  <1> QED
    BY <1>2, <1>3, <1>4, <1>6 DEF WaitInv

\* Where the held event of a target leaves the queue, its plugin no longer waits.
LEMMA ReleasedMemory ==
  ASSUME TypeOK, WaitInv, NEW t \in Target, IsWaiting(t),
         eventq' \subseteq eventq, \A f \in eventq' : f.id # waiting[t],
         \A f \in eventq \ eventq' : f.id = waiting[t] \/ f.id \notin unfinished,
         \A k \in tasks \ tasks' : k.target = t,
         waiting' = [waiting EXCEPT ![t] = NoEvent], unfinished' = unfinished
  PROVE  /\ MemoryAgrees'
         /\ \A f \in eventq' : f.target = t => f.id \notin unfinished
  <1>1. \A f \in eventq' : f \in eventq /\ f.id # waiting[t]
    OBVIOUS
  <1>2. /\ \A f \in eventq : f.target \in Target /\ f \in AllRows
        /\ waiting \in [Target -> Nat]
    BY RowFacts DEF AllRows
  <1>3. \A f \in eventq' : f.target = t => f.id \notin unfinished
    BY <1>1 DEF WaitInv, MemoryAgrees
  <1>4. \A f \in eventq' : f.id \in unfinished => f.id = waiting'[f.target]
    BY <1>1, <1>2, <1>3 DEF WaitInv, MemoryAgrees
  <1>5. ASSUME NEW u \in Target, IsWaiting(u)'
        PROVE  /\ waiting'[u] \in unfinished'
               /\ \E e \in eventq' : e.id = waiting'[u] /\ e.target = u /\ e.state = "s"
               /\ \E k \in tasks' : k.target = u
    <2>1. u # t /\ waiting'[u] = waiting[u] /\ IsWaiting(u)
      BY <1>2, <1>5 DEF IsWaiting
    <2>2. PICK e \in eventq : e.id = waiting[u] /\ e.target = u /\ e.state = "s"
      BY <2>1 DEF WaitInv, MemoryAgrees
    <2>3. PICK f \in eventq : f.id = waiting[t] /\ f.target = t
      BY DEF WaitInv, MemoryAgrees
    <2>4. e.id # waiting[t]
      BY <1>2, <2>1, <2>2, <2>3 DEF WaitInv, RowsAreNumbered
    <2>5. e \in eventq'
      BY <2>1, <2>2, <2>4 DEF WaitInv, MemoryAgrees
    <2>6. PICK k \in tasks : k.target = u
      BY <2>1 DEF WaitInv, MemoryAgrees
    <2> QED
      BY <2>1, <2>2, <2>5, <2>6 DEF WaitInv, MemoryAgrees
  <1> QED
    BY <1>3, <1>4, <1>5 DEF MemoryAgrees

\* An end event takes the held event with it.
LEMMA HandleEndWait ==
  ASSUME OneOpenInv, WaitInv, NEW e \in batch, HandleEnd(e)
  PROVE  WaitInv'
  <1> DEFINE t == e.target
  <1>1. /\ TypeOK /\ t \in Target /\ e \in eventq /\ e.id \notin unfinished /\ inTx
        /\ e \in AllRows /\ e.id \in Nat /\ lastEnd \in [Target -> Nat]
    BY RowFacts DEF OneOpenInv, WaitInv, BatchIsNew, AllRows
  <1>2. /\ IsNext(e) /\ e.state = "e" /\ batch' = batch \ {e}
        /\ lastEnd' = [lastEnd EXCEPT ![t] = e.id]
        /\ UNCHANGED <<nextid, unfinished, inTx, saved>>
    BY DEF HandleEnd, Frame
  <1>3. CASE ~IsWaiting(t)
    BY <1>1, <1>2, <1>3, DroppedWait DEF HandleEnd
  <1>4. CASE IsWaiting(t)
    <2>1. PICK k \in tasks : k.target = t
      BY <1>1, <1>4 DEF WaitInv, MemoryAgrees
    <2>2. k \in TaskOf(t)
      BY <2>1 DEF OneOpenInv, TaskIsHeld, TaskOf
    <2>3. /\ tasks' = tasks \ TaskOf(t)
          /\ waiting' = [waiting EXCEPT ![t] = NoEvent]
          /\ eventq' = eventq \ ({e} \cup RowOf(waiting[t]))
      BY <1>4, <2>2 DEF HandleEnd, Deschedule
    <2>4. \A l \in TaskOf(t) : l.target = t
      <3> SUFFICES ASSUME NEW l \in TaskOf(t) PROVE l.target = t
        OBVIOUS
      <3>1. l \in tasks /\ l.event = waiting[t] /\ l.target \in Target
        BY <1>1, RowFacts DEF TaskOf
      <3>2. l.event = waiting[l.target] /\ IsWaiting(l.target)
        BY <1>1, <1>4, <3>1 DEF OneOpenInv, TaskIsHeld, IsWaiting
      <3>3. PICK f \in eventq : f.id = waiting[t] /\ f.target = t
        BY <1>1, <1>4 DEF WaitInv, MemoryAgrees
      <3>4. PICK g \in eventq : g.id = waiting[l.target] /\ g.target = l.target
        BY <3>1, <3>2 DEF WaitInv, MemoryAgrees
      <3> QED
        BY <3>1, <3>2, <3>3, <3>4 DEF WaitInv, RowsAreNumbered, AllRows
    <2>5. /\ MemoryAgrees'
          /\ \A f \in eventq' : f.target = t => f.id \notin unfinished
      <3>1. /\ unfinished' = unfinished
            /\ eventq' \subseteq eventq /\ \A f \in eventq' : f.id # waiting[t]
            /\ \A f \in eventq \ eventq' : f.id = waiting[t] \/ f.id \notin unfinished
        BY <1>1, <1>2, <2>3 DEF RowOf
      <3>2. \A l \in tasks \ tasks' : l.target = t
        BY <2>3, <2>4
      <3> QED
        BY <1>1, <1>4, <2>3, <3>1, <3>2, ReleasedMemory
    <2>6. eventq' \subseteq eventq /\ AllRows' \subseteq AllRows /\ e \notin eventq'
      BY <1>2, <2>3 DEF AllRows
    <2>7. HeldStartIsCurrent'
      BY <1>1, <1>2, <2>5, <2>6, EndIsOlder
    <2>8. RowsAreNumbered'
      BY <1>1, <1>2, <2>6 DEF WaitInv, RowsAreNumbered
    <2>9. BatchIsNew'
      <3>1. \A f \in batch \ {e} : f \in eventq'
        <4>1. waiting[t] \in unfinished
          BY <1>1, <1>4 DEF WaitInv, MemoryAgrees
        <4> QED
          BY <2>3, <4>1 DEF RowOf, WaitInv, BatchIsNew
      <3> QED
        BY <1>1, <1>2, <2>6, <3>1 DEF WaitInv, BatchIsNew
    <2>10. StartsAreCurrent'
      BY <1>2, <2>6, <2>7 DEF WaitInv, StartsAreCurrent
    <2> QED
      BY <2>5, <2>8, <2>9, <2>10 DEF WaitInv
  <1> QED
    BY <1>3, <1>4

\* A start event that is not a duplicate is held.
LEMMA HandleStartWait ==
  ASSUME OneOpenInv, WaitInv, NEW e \in batch, HandleStart(e)
  PROVE  WaitInv'
  <1> DEFINE t == e.target
  <1>1. /\ TypeOK /\ t \in Target /\ e \in eventq /\ e.id \notin unfinished /\ inTx
        /\ e \in AllRows /\ e.id \in Nat /\ e.id > 0 /\ waiting \in [Target -> Nat]
    BY RowFacts DEF OneOpenInv, WaitInv, BatchIsNew, AllRows
  <1>2. /\ e.state = "s" /\ batch' = batch \ {e}
        /\ UNCHANGED <<nextid, lastEnd, inTx, saved>>
    BY DEF HandleStart, Frame
  <1>3. CASE IsDuplicate(t)
    BY <1>1, <1>2, <1>3, DroppedWait DEF HandleStart
  <1>4. CASE ~IsDuplicate(t)
    <2>1. /\ eventq' = eventq /\ waiting' = [waiting EXCEPT ![t] = e.id]
          /\ tasks' = tasks \cup {FirstTask(t)} /\ unfinished' = unfinished \cup {e.id}
          /\ waiting[t] = 0
      BY <1>4 DEF HandleStart, Disposed, IsDuplicate, IsWaiting, NoEvent
    <2>2. AllRows' = AllRows /\ FirstTask(t).target = t
      BY <1>2, <2>1 DEF AllRows, FirstTask, Task
    <2>3. RowsAreNumbered'
      BY <1>1, <1>2, <2>1, <2>2 DEF WaitInv, RowsAreNumbered
    <2>4. BatchIsNew'
      BY <1>1, <1>2, <2>1, <2>2 DEF WaitInv, BatchIsNew, RowsAreNumbered, AllRows
    <2>5. StartsAreCurrent'
      BY <1>2, <2>1, <2>2 DEF WaitInv, StartsAreCurrent, HeldStartIsCurrent
    <2>6. MemoryAgrees'
      <3>1. \A f \in eventq : f \in AllRows /\ f.target \in Target /\ f.id > 0
        BY <1>1, RowFacts DEF AllRows
      <3>2. \A f \in eventq : f.id \in unfinished => f.target # t
        BY <2>1, <3>1, <1>1 DEF WaitInv, MemoryAgrees
      <3>3. \A f \in eventq : f.id = e.id => f = e
        BY <1>1, <3>1 DEF WaitInv, RowsAreNumbered
      <3>4. \A f \in eventq' : f.id \in unfinished' => f.id = waiting'[f.target]
        BY <1>1, <2>1, <3>1, <3>2, <3>3 DEF WaitInv, MemoryAgrees
      <3>5. ASSUME NEW u \in Target, IsWaiting(u)'
            PROVE  /\ waiting'[u] \in unfinished'
                   /\ \E f \in eventq' : f.id = waiting'[u] /\ f.target = u /\ f.state = "s"
                   /\ \E k \in tasks' : k.target = u
        <4>1. CASE u = t
          BY <1>1, <1>2, <2>1, <2>2, <4>1
        <4>2. CASE u # t
          <5>1. waiting'[u] = waiting[u] /\ IsWaiting(u)
            BY <1>1, <2>1, <3>5, <4>2 DEF IsWaiting
          <5>2. PICK k \in tasks : k.target = u
            BY <5>1 DEF WaitInv, MemoryAgrees
          <5>3. k \in tasks'
            BY <2>1
          <5> QED
            BY <2>1, <5>1, <5>2, <5>3 DEF WaitInv, MemoryAgrees
        <4> QED
          BY <4>1, <4>2
      <3> QED
        BY <3>4, <3>5 DEF MemoryAgrees
    <2> QED
      BY <2>3, <2>4, <2>5, <2>6 DEF WaitInv
  <1> QED
    BY <1>3, <1>4

\* The task after the warning belongs to the target of the one that ran.
LEMMA WarningWait ==
  ASSUME OneOpenInv, WaitInv, NEW k \in tasks, MakeDownWarning(k)
  PROVE  WaitInv'
  <1>1. /\ tasks' = (tasks \ {k}) \cup {Task(k.event, k.target, "alert")}
        /\ UNCHANGED <<eventq, nextid, lastEnd, unfinished, waiting, batch, inTx, saved>>
    BY DEF MakeDownWarning, TaskAfterWarning, Frame
  <1>2. Task(k.event, k.target, "alert").target = k.target
    BY DEF Task
  <1>3. MemoryAgrees'
    <2>1. \A l \in tasks : \E m \in tasks' : m.target = l.target
      BY <1>1, <1>2
    <2>2. UNCHANGED <<eventq, unfinished, waiting>>
      BY <1>1
    <2> QED
      BY <2>1, <2>2 DEF WaitInv, MemoryAgrees, IsWaiting
  <1> QED
    BY <1>1, <1>3 DEF WaitInv, RowsAreNumbered, BatchIsNew, AllRows, StartsAreCurrent,
                      HeldStartIsCurrent

\* The alert is raised for the event that was held; it leaves the queue.
LEMMA AlertWait ==
  ASSUME OneOpenInv, WaitInv, NEW k \in tasks, MakeDownAlert(k)
  PROVE  WaitInv'
  <1> DEFINE t == k.target
  <1>1. /\ TypeOK /\ t \in Target /\ k.event = waiting[t] /\ IsWaiting(t) /\ ~inTx
    BY RowFacts DEF OneOpenInv, TaskIsHeld, IsWaiting, NoEvent, MakeDownAlert, Due
  <1>2. /\ tasks' = tasks \ {k} /\ waiting' = [waiting EXCEPT ![t] = NoEvent]
        /\ eventq' = eventq \ RowOf(waiting[t])
        /\ UNCHANGED <<nextid, lastEnd, unfinished, batch, inTx, saved>>
    BY <1>1 DEF MakeDownAlert, Frame
  <1>3. MemoryAgrees'
    <2>1. /\ unfinished' = unfinished /\ \A l \in tasks \ tasks' : l.target = t
          /\ eventq' \subseteq eventq /\ \A f \in eventq' : f.id # waiting[t]
          /\ \A f \in eventq \ eventq' : f.id = waiting[t]
      BY <1>2 DEF RowOf
    <2> QED
      BY <1>1, <1>2, <2>1, ReleasedMemory
  <1>4. eventq' \subseteq eventq /\ AllRows' \subseteq AllRows
    BY <1>2 DEF AllRows
  <1>5. RowsAreNumbered' /\ StartsAreCurrent'
    BY <1>2, <1>4 DEF WaitInv, RowsAreNumbered, StartsAreCurrent, HeldStartIsCurrent
  <1>6. BatchIsNew'
    BY <1>1, <1>2, <1>4 DEF WaitInv, BatchIsNew
  <1> QED
    BY <1>3, <1>5, <1>6 DEF WaitInv

\* A process that died waits for nothing; what a crash brings back is older than
\* no end event that was committed.
LEMMA WipeWait ==
  ASSUME TypeOK, WaitInv, Wipe, nextid' = nextid,
         \/ UNCHANGED <<eventq, lastEnd>>
         \/ inTx /\ eventq' = AllRows /\ lastEnd' = saved.lastEnd
  PROVE  WaitInv'
  <1>1. /\ unfinished' = {} /\ batch' = {} /\ ~inTx' /\ saved' = NoSave /\ tasks' = {}
        /\ \A t \in Target : ~IsWaiting(t)'
    BY DEF Wipe, IsWaiting
  <1>2. /\ AllRows' = eventq' /\ eventq' \subseteq AllRows
        /\ \A t \in Target : saved'.lastEnd[t] = 0
    BY <1>1 DEF AllRows, NoSave, NoEvent
  <1>3. RowsAreNumbered'
    BY <1>1, <1>2, RowFacts DEF WaitInv, RowsAreNumbered
  <1>4. BatchIsNew' /\ MemoryAgrees'
    BY <1>1 DEF BatchIsNew, MemoryAgrees
  <1>5. StartsAreCurrent'
    BY <1>1, <1>2, RowFacts DEF WaitInv, StartsAreCurrent, HeldStartIsCurrent
  <1> QED
    BY <1>3, <1>4, <1>5 DEF WaitInv

\* When only crashes intervene, every step keeps what waits and the queue together.
LEMMA WaitStep ==
  ASSUME OneOpenInv, WaitInv, [Next]_vars, Faults \subseteq {"crash"}
  PROVE  WaitInv'
  <1>1. TypeOK
    BY DEF OneOpenInv
  <1>2. ASSUME NEW t \in Target, NEW s \in {"s", "e", "x"}, PostEvent(t, s)
        PROVE  WaitInv'
    BY <1>1, <1>2, PostEventWait
  <1>3. CASE BeginLoad \/ CommitLoad
    BY <1>1, <1>3, BeginLoadWait, CommitLoadWait
  <1>4. ASSUME NEW e \in batch, Handle(e)
        PROVE  WaitInv'
    <2>1. CASE HandleStart(e)
      BY <2>1, HandleStartWait
    <2>2. CASE HandleEnd(e)
      BY <2>2, HandleEndWait
    <2>3. CASE HandleStrange(e)
      BY <1>1, <2>3, DroppedWait DEF HandleStrange, Frame
    <2>4. CASE HandleDirect(e)
      <3>1. ~IsWaiting(e.target)
        <4>1. TypeOf[e.target] \notin Delayed /\ e.target \in Target
          BY <1>1, <2>4, RowFacts DEF HandleDirect, Delayed, Direct
        <4> QED
          BY <4>1 DEF WaitInv, MemoryAgrees, OneOpenInv, TaskIsHeld
      <3> QED
        BY <1>1, <2>4, <3>1, DroppedWait DEF HandleDirect, Frame
    <2>5. ~HandlerFails(e)
      BY DEF HandlerFails
    <2> QED
      BY <1>4, <2>1, <2>2, <2>3, <2>4, <2>5 DEF Handle
  <1>5. ASSUME NEW k \in tasks, Callback(k) \/ CallbackStops(k)
        PROVE  WaitInv'
    <2>1. CASE Callback(k)
      BY <2>1, WarningWait, AlertWait DEF Callback
    <2>2. CASE CallbackStops(k)
      <3>1. Wipe /\ UNCHANGED <<eventq, nextid, lastEnd>>
        BY <2>2 DEF CallbackStops
      <3> QED
        BY <1>1, <3>1, WipeWait
    <2> QED
      BY <1>5, <2>1, <2>2
  <1>6. CASE Crash
    BY <1>1, <1>6, WipeWait DEF Crash, RollBackTx, db, AllRows
  <1>7. CASE Restart \/ UNCHANGED vars
    BY <1>7, QuietWait DEF Restart, vars, db
  <1>8. ~LoseConnection
    BY DEF LoseConnection
  <1> QED
    BY <1>2, <1>3, <1>4, <1>5, <1>6, <1>7, <1>8 DEF Next

\* What the engine remembers and what is in the queue, when the only fault is a crash.
LEMMA EngineAgrees ==
  ASSUME Faults \subseteq {"crash"}
  PROVE  Spec => [](OneOpenInv /\ WaitInv)
  <1>1. OneOpenInv /\ WaitInv /\ [Next]_vars => WaitInv'
    BY WaitStep
  <1>2. "rollback" \notin Faults
    OBVIOUS
  <1> QED
    BY OneOpenHolds, InitWait, <1>1, <1>2, PTL DEF Spec

\* As long as the only fault is a crash: each plugin that waits has one task, its start
\* event is in the queue and marked as unfinished, nothing is open for it, and no start
\* event in the queue is older than an end event that was handled.
THEOREM WaitingAgreesHolds ==
  ASSUME Faults \subseteq {"crash"}
  PROVE  Spec => []WaitingAgrees
  <1>1. OneOpenInv /\ WaitInv => WaitingAgrees
    <2> SUFFICES ASSUME OneOpenInv, WaitInv
                 PROVE  WaitingIsScheduled /\ WaitingIsNotOpen /\ HeldStartIsCurrent
      BY DEF WaitingAgrees
    <2>1. ASSUME NEW t \in Target, IsWaiting(t)
          PROVE  open[t] = 0 /\ \E k \in tasks : TaskOf(t) = {k}
      <3>1. PICK k \in tasks : k.target = t
        BY <2>1 DEF WaitInv, MemoryAgrees
      <3>2. k.event = waiting[t] /\ open[t] = 0
        BY <3>1 DEF OneOpenInv, TaskIsHeld
      <3>3. ASSUME NEW l \in tasks, l.event = waiting[t]
            PROVE  l = k
        <4>1. l.target \in Target /\ l.event = waiting[l.target] /\ IsWaiting(l.target)
          BY <2>1, <3>3 DEF OneOpenInv, TypeOK, TaskIsHeld, IsWaiting
        <4>2. PICK f \in eventq : f.id = waiting[t] /\ f.target = t
          BY <2>1 DEF WaitInv, MemoryAgrees
        <4>3. PICK g \in eventq : g.id = waiting[l.target] /\ g.target = l.target
          BY <4>1 DEF WaitInv, MemoryAgrees
        <4>4. l.target = t
          BY <3>3, <4>1, <4>2, <4>3 DEF WaitInv, RowsAreNumbered, AllRows
        <4> QED
          BY <3>1, <4>4 DEF OneOpenInv, TaskIsUnique
      <3>4. TaskOf(t) = {k}
        BY <3>2, <3>3 DEF TaskOf
      <3> QED
        BY <3>2, <3>4
    <2>2. \A k \in tasks : waiting[k.target] = k.event
      BY DEF OneOpenInv, TaskIsHeld
    <2> QED
      BY <2>1, <2>2 DEF WaitingIsScheduled, WaitingIsNotOpen, WaitInv, MemoryAgrees,
                        StartsAreCurrent
  <1> QED
    BY EngineAgrees, <1>1, PTL

--------------------------------------------------------------------------------
(***************************************************************************)
(* What is open is marked down, as long as one row at most is open for a   *)
(* box: an end event marks the box up and resolves one row.                *)
(***************************************************************************)

\* Of the boxes, and of what a crash falls back to.
MarkInv ==
  /\ OpenIsMarkedDown
  /\ inTx => \A t \in Target : TypeOf[t] = "boxState" /\ saved.open[t] > 0 => saved.up[t] # "y"

\* A step that opens a state marks the box down, one that marks it up leaves none open.
LEMMA SafeMark ==
  ASSUME MarkInv, inTx' => inTx /\ saved' = saved,
         \A t \in Target : TypeOf[t] = "boxState" =>
           \/ up'[t] = up[t] /\ open'[t] = open[t]
           \/ up'[t] # "y"
           \/ open'[t] = 0
  PROVE  MarkInv'
  BY DEF MarkInv, OpenIsMarkedDown

\* A handler, whether it goes through or fails.
LEMMA HandleMark ==
  ASSUME OneOpenInv, MarkInv, NEW e \in batch, Handle(e)
  PROVE  MarkInv'
  <1> DEFINE t == e.target
  <1>1. /\ t \in Target /\ up \in [Target -> UpState] /\ open \in [Target -> Nat]
    BY RowFacts DEF OneOpenInv, TypeOK
  <1>2. inTx' = inTx /\ saved' = saved
    BY DEF Handle, HandleStart, HandleEnd, HandleStrange, HandleDirect, HandlerFails, Frame
  <1>3. CASE UNCHANGED <<open, up>>
    BY <1>2, <1>3, SafeMark
  <1>4. CASE HandleStart(e) /\ ~IsDuplicate(t)
    <2>1. open' = open /\ \E u \in DownStates(t) : up' = [up EXCEPT ![t] = u]
      BY <1>4 DEF HandleStart
    <2>2. TypeOf[t] = "boxState" => up'[t] # "y"
      BY <1>1, <2>1 DEF DownStates
    <2>3. \A u \in Target \ {t} : up'[u] = up[u]
      BY <1>1, <2>1
    <2> QED
      BY <1>2, <2>1, <2>2, <2>3, SafeMark
  <1>5. CASE /\ open' = [open EXCEPT ![t] = OpenAfterEnd(t)]
             /\ up' = [up EXCEPT ![t] = UpAfterEnd(t)]
    <2>1. TypeOf[t] = "boxState" => open'[t] = 0
      BY <1>1, <1>5 DEF OpenAfterEnd, Resolved, OneOpenInv, OneOpenState
    <2>2. \A u \in Target \ {t} : up'[u] = up[u] /\ open'[u] = open[u]
      BY <1>1, <1>5
    <2> QED
      BY <1>2, <2>1, <2>2, SafeMark
  <1>6. CASE TypeOf[t] \in Direct /\ (HandleDirect(e) \/ HandlerFails(e))
    <2>1. TypeOf[t] # "boxState"
      BY <1>6 DEF Direct
    <2>2. \A u \in Target \ {t} : up'[u] = up[u] /\ open'[u] = open[u]
      BY <1>1, <1>6 DEF HandleDirect, HandlerFails
    <2> QED
      BY <1>2, <2>1, <2>2, SafeMark
  <1>7. HandleStart(e) => UNCHANGED <<open, up>> \/ ~IsDuplicate(t)
    BY DEF HandleStart
  <1>8. HandleStrange(e) => UNCHANGED <<open, up>>
    BY DEF HandleStrange
  <1>9. HandleEnd(e) => /\ open' = [open EXCEPT ![t] = OpenAfterEnd(t)]
                        /\ up' = [up EXCEPT ![t] = UpAfterEnd(t)]
    BY DEF HandleEnd
  <1>10. HandlerFails(e) => \/ UNCHANGED <<open, up>>
                            \/ /\ open' = [open EXCEPT ![t] = OpenAfterEnd(t)]
                               /\ up' = [up EXCEPT ![t] = UpAfterEnd(t)]
                            \/ TypeOf[t] \in Direct
    BY DEF HandlerFails
  <1>11. HandleDirect(e) => TypeOf[t] \in Direct
    BY DEF HandleDirect
  <1> QED
    BY <1>3, <1>4, <1>5, <1>6, <1>7, <1>8, <1>9, <1>10, <1>11 DEF Handle

\* A callback verifies the shadow before it opens a state, and a box in the shadow is
\* not up.
LEMMA CallbackMark ==
  ASSUME OneOpenInv, MarkInv, NEW k \in tasks, Callback(k) \/ CallbackStops(k)
  PROVE  MarkInv'
  <1> DEFINE t == k.target
  <1>1. /\ t \in Target /\ up \in [Target -> UpState] /\ open \in [Target -> Nat]
    BY RowFacts DEF OneOpenInv, TypeOK
  <1>2. inTx' => inTx /\ saved' = saved
    BY DEF Callback, MakeDownWarning, MakeDownAlert, CallbackStops, Frame, Wipe
  <1>3. \A u \in Target \ {t} : up'[u] = up[u] /\ open'[u] = open[u]
    BY <1>1 DEF Callback, MakeDownWarning, MakeDownAlert, CallbackStops
  <1>4. \/ up'[t] = up[t] /\ open'[t] = open[t]
        \/ up'[t] \in ShadowStates(t)
    BY <1>1 DEF Callback, MakeDownWarning, MakeDownAlert, CallbackStops
  <1>5. TypeOf[t] = "boxState" => ShadowStates(t) = {"n", "s"}
    BY DEF ShadowStates
  <1>6. TypeOf[t] = "boxState" => \/ up'[t] = up[t] /\ open'[t] = open[t]
                                  \/ up'[t] # "y"
    BY <1>4, <1>5
  <1> QED
    BY <1>2, <1>3, <1>6, SafeMark

\* Every step keeps what is open marked down.
LEMMA MarkStep ==
  ASSUME OneOpenInv, MarkInv, [Next]_vars, "rollback" \notin Faults
  PROVE  MarkInv'
  <1>1. ASSUME NEW t \in Target, NEW s \in {"s", "e", "x"}, PostEvent(t, s)
        PROVE  MarkInv'
    BY <1>1, SafeMark DEF PostEvent, mem
  <1>2. CASE BeginLoad
    <2>1. saved'.open = open /\ saved'.up = up /\ UNCHANGED <<open, up>>
      BY <1>2 DEF BeginLoad, db
    <2> QED
      BY <2>1 DEF MarkInv, OpenIsMarkedDown
  <1>3. CASE CommitLoad \/ Restart \/ UNCHANGED vars
    BY <1>3, SafeMark DEF CommitLoad, Restart, db, vars
  <1>4. ASSUME NEW e \in batch, Handle(e)
        PROVE  MarkInv'
    BY <1>4, HandleMark
  <1>5. ASSUME NEW k \in tasks, Callback(k) \/ CallbackStops(k)
        PROVE  MarkInv'
    BY <1>5, CallbackMark
  <1>6. CASE Crash
    <2>1. ~inTx'
      BY <1>6 DEF Crash, Wipe
    <2>2. \/ UNCHANGED <<open, up>>
          \/ inTx /\ open' = saved.open /\ up' = saved.up
      BY <1>6 DEF Crash, RollBackTx, db
    <2> QED
      BY <2>1, <2>2 DEF MarkInv, OpenIsMarkedDown
  <1>7. ~LoseConnection
    BY DEF LoseConnection
  <1> QED
    BY <1>1, <1>2, <1>3, <1>4, <1>5, <1>6, <1>7 DEF Next

\* As long as no transaction of a queue check is rolled back, whatever raises and whenever
\* the process dies, no box with an open alert state is called up.
THEOREM OpenIsMarkedDownHolds ==
  ASSUME "rollback" \notin Faults
  PROVE  Spec => []OpenIsMarkedDown
  <1>1. Init => MarkInv
    BY DEF Init, MarkInv, OpenIsMarkedDown
  <1>2. OneOpenInv /\ MarkInv /\ [Next]_vars => MarkInv'
    BY MarkStep
  <1>3. MarkInv => OpenIsMarkedDown
    BY DEF MarkInv
  <1> QED
    BY OneOpenHolds, <1>1, <1>2, <1>3, PTL DEF Spec

--------------------------------------------------------------------------------
(***************************************************************************)
(* What the inventory shows, under more than crashes.  An exception leaves *)
(* a plugin waiting without a task and a row that is never looked at       *)
(* again; a rollback brings back rows and inventory under a memory that    *)
(* went on.  What still holds then is weaker than WaitInv, and enough for  *)
(* the boxes, for the end of a wait and for the refinement.                *)
(***************************************************************************)

\* Ids are given once; what a queue check has still to do is in the queue, and new.
RowsAreDistinct ==
  /\ \A e \in AllRows : e.id < nextid
  /\ \A e, f \in AllRows : e.id = f.id => e = f
  /\ \A e \in batch : e \in eventq /\ e.id \notin unfinished
  /\ \A i \in unfinished : i < nextid
  /\ ~inTx => batch = {} /\ saved = NoSave

\* Handlers and callbacks may raise, for reasons of their own.
MayRaise == "exception" \in Faults

\* The tasks of the scheduler are of the plugins that wait, one for each at most, and one
\* for each unless a callback raised.
TasksAreHeld ==
  /\ \A k \in tasks : waiting[k.target] = k.event
  /\ TaskIsUnique
  /\ ~MayRaise => \A t \in Target : IsWaiting(t) => \E k \in tasks : k.target = t

\* A plugin that waits, with a task or without, waits for an unfinished start event.
WaitsForRow ==
  \A t \in Target : IsWaiting(t) =>
    /\ waiting[t] \in unfinished
    /\ \E e \in eventq : e.id = waiting[t] /\ e.target = t /\ e.state = "s"

HeldInv == RowsAreDistinct /\ TasksAreHeld /\ WaitsForRow

\* Rows q, states o and inventory u account for each other.  Where handlers may raise,
\* only a row that was handled is safe from being deleted unhandled.
BoxesAccounted(q, o, u) ==
  \A t \in Target : TypeOf[t] = "boxState" /\ u[t] # "y" =>
    \/ o[t] > 0
    \/ \E e \in q : /\ e.target = t /\ e.state = "s"
                    /\ MayRaise => e.id \in unfinished

\* A row that is safe from that stays so: what was handled is not forgotten by a crash.
Lasting == ~({"crash", "exception"} \subseteq Faults)

\* So do those of the database, and those that a rollback would bring back.
AccountInv ==
  Lasting => /\ BoxesAccounted(eventq, open, up)
             /\ inTx => BoxesAccounted(saved.eventq, saved.open, saved.up)

\* Two rows of what is in the queue differ in their ids.
LEMMA DistinctRows ==
  ASSUME RowsAreDistinct
  PROVE  /\ \A e, f \in eventq : e.id = f.id => e = f
         /\ \A e \in batch : e \in eventq /\ e.id \notin unfinished
         /\ batch # {} => inTx
  BY DEF RowsAreDistinct, AllRows

\* What is held was not in the batch.
LEMMA HeldRow ==
  ASSUME HeldInv, NEW t \in Target, IsWaiting(t)
  PROVE  \E r \in eventq : /\ r.id = waiting[t] /\ r.target = t /\ r.state = "s"
                           /\ r.id \in unfinished /\ r \notin batch
                           /\ \A f \in eventq : f.id = waiting[t] => f = r
  <1>1. PICK r \in eventq : r.id = waiting[t] /\ r.target = t /\ r.state = "s"
    BY DEF HeldInv, WaitsForRow
  <1>2. waiting[t] \in unfinished
    BY DEF HeldInv, WaitsForRow
  <1> QED
    BY <1>1, <1>2, DistinctRows DEF HeldInv

\* No row is added and what is saved stays, but for a transaction that ends.
LEMMA FewerRows ==
  ASSUME RowsAreDistinct, eventq' \subseteq eventq, nextid' = nextid,
         unfinished' = unfinished,
         \/ saved' = saved /\ inTx' = inTx
         \/ saved' = NoSave /\ ~inTx' /\ batch' = {},
         \A e \in batch' : e \in batch /\ e \in eventq'
  PROVE  RowsAreDistinct'
  <1>1. AllRows' \subseteq AllRows
    BY DEF AllRows, NoSave
  <1> QED
    BY <1>1 DEF RowsAreDistinct

\* A new event has a new id.
LEMMA PostEventHeld ==
  ASSUME TypeOK, HeldInv, AccountInv,
         NEW t \in Target, NEW s \in {"s", "e", "x"}, PostEvent(t, s)
  PROVE  HeldInv' /\ AccountInv'
  <1> DEFINE n == [id |-> nextid, target |-> t, state |-> s]
  <1>1. /\ eventq' = eventq \cup {n} /\ nextid' = nextid + 1
        /\ UNCHANGED <<open, up, unfinished, waiting, tasks, batch, inTx, saved>>
    BY DEF PostEvent, mem
  <1>2. n.id = nextid /\ AllRows' = AllRows \cup {n}
    BY <1>1 DEF AllRows
  <1> HIDE DEF n
  <1>3. RowsAreDistinct'
    <2>1. \A e \in AllRows : e.id < nextid /\ e.id # n.id
      BY <1>2, RowFacts DEF HeldInv, RowsAreDistinct
    <2>2. \A e \in AllRows' : e.id < nextid'
      BY <1>1, <1>2, <2>1, RowFacts
    <2>3. \A e, f \in AllRows' : e.id = f.id => e = f
      BY <1>2, <2>1 DEF HeldInv, RowsAreDistinct
    <2>4. \A i \in unfinished : i < nextid'
      <3>1. \A i \in unfinished : i \in Nat
        BY BoundAssumption DEF TypeOK, Id
      <3> QED
        BY <1>1, <3>1, RowFacts DEF HeldInv, RowsAreDistinct
    <2> QED
      BY <1>1, <2>2, <2>3, <2>4 DEF HeldInv, RowsAreDistinct
  <1>4. TasksAreHeld' /\ WaitsForRow'
    BY <1>1 DEF HeldInv, TasksAreHeld, TaskIsUnique, WaitsForRow, IsWaiting
  <1>5. AccountInv'
    BY <1>1 DEF AccountInv, BoxesAccounted
  <1> QED
    BY <1>3, <1>4, <1>5 DEF HeldInv

\* A queue check begins, with a snapshot that is as good as the database.
LEMMA BeginLoadHeld ==
  ASSUME TypeOK, HeldInv, AccountInv, BeginLoad
  PROVE  HeldInv' /\ AccountInv'
  <1>1. /\ batch' = {e \in eventq : e.id \notin unfinished} /\ inTx'
        /\ saved'.eventq = eventq /\ saved'.open = open /\ saved'.up = up
        /\ UNCHANGED <<eventq, open, up, nextid, unfinished, waiting, tasks>>
    BY DEF BeginLoad, NewEvents, db
  <1>2. AllRows' = eventq /\ eventq \subseteq AllRows
    BY <1>1 DEF AllRows
  <1>3. RowsAreDistinct'
    BY <1>1, <1>2 DEF HeldInv, RowsAreDistinct
  <1>4. TasksAreHeld' /\ WaitsForRow'
    BY <1>1 DEF HeldInv, TasksAreHeld, TaskIsUnique, WaitsForRow, IsWaiting
  <1>5. AccountInv'
    BY <1>1 DEF AccountInv, BoxesAccounted
  <1> QED
    BY <1>3, <1>4, <1>5 DEF HeldInv

\* A step that keeps what waits and drops, of the queue, only rows that are not held.
LEMMA DropHeld ==
  ASSUME HeldInv, UNCHANGED <<nextid, unfinished, waiting, tasks, inTx, saved>>,
         eventq' \subseteq eventq, batch' \subseteq batch \cap eventq',
         \A f \in eventq \ eventq' : f.id \notin unfinished
  PROVE  HeldInv'
  <1>1. RowsAreDistinct'
    BY FewerRows DEF HeldInv, RowsAreDistinct
  <1>2. WaitsForRow'
    BY DEF HeldInv, WaitsForRow, IsWaiting
  <1> QED
    BY <1>1, <1>2 DEF HeldInv, TasksAreHeld, TaskIsUnique, IsWaiting

\* The queue check ends.
LEMMA CommitLoadHeld ==
  ASSUME HeldInv, AccountInv, CommitLoad
  PROVE  HeldInv' /\ AccountInv'
  <1>1. /\ batch' = {} /\ ~inTx' /\ saved' = NoSave
        /\ UNCHANGED <<eventq, open, up, nextid, unfinished, waiting, tasks>>
    BY DEF CommitLoad, db
  <1>2. RowsAreDistinct'
    BY <1>1, FewerRows DEF HeldInv
  <1> QED
    BY <1>1, <1>2 DEF HeldInv, TasksAreHeld, TaskIsUnique, WaitsForRow, IsWaiting,
                      AccountInv, BoxesAccounted

\* What is no longer waiting for its row has no task.
LEMMA ReleasedHeld ==
  ASSUME TypeOK, HeldInv, NEW t \in Target, UNCHANGED <<nextid, unfinished, inTx, saved>>,
         waiting' = [waiting EXCEPT ![t] = NoEvent],
         tasks' \subseteq tasks,
         \A k \in tasks : k.target = t <=> k \notin tasks',
         eventq' \subseteq eventq, batch' \subseteq batch \cap eventq',
         \A f \in eventq \ eventq' : f.id \notin unfinished \/ f.target = t
  PROVE  HeldInv'
  <1>1. RowsAreDistinct'
    BY FewerRows DEF HeldInv, RowsAreDistinct
  <1>2. waiting \in [Target -> Nat] /\ \A k \in tasks : k.target \in Target
    BY RowFacts
  <1>3. TasksAreHeld'
    BY <1>2 DEF HeldInv, TasksAreHeld, TaskIsUnique, IsWaiting
  <1>4. WaitsForRow'
    BY <1>2 DEF HeldInv, WaitsForRow, IsWaiting
  <1> QED
    BY <1>1, <1>3, <1>4 DEF HeldInv

\* A start event: a duplicate goes, and is not the one that is held; another is held.
LEMMA HandleStartHeld ==
  ASSUME TypeOK, HeldInv, AccountInv, NEW e \in batch, HandleStart(e)
  PROVE  HeldInv' /\ AccountInv'
  <1> DEFINE t == e.target
  <1>1. /\ t \in Target /\ e \in eventq /\ e.id \notin unfinished /\ inTx
        /\ e.state = "s" /\ batch' = batch \ {e}
        /\ e.id > 0 /\ e.id \in Nat /\ waiting \in [Target -> Nat]
        /\ up \in [Target -> UpState]
    BY RowFacts, DistinctRows DEF HeldInv, HandleStart, AllRows, TypeOK
  <1>2. UNCHANGED <<open, nextid, inTx, saved>> /\ e.id < nextid
    BY <1>1 DEF HandleStart, Frame, HeldInv, RowsAreDistinct, AllRows
  <1>3. CASE IsDuplicate(t)
    <2>1. eventq' = eventq \ {e} /\ UNCHANGED <<up, unfinished, waiting, tasks>>
      BY <1>3 DEF HandleStart
    <2>2. HeldInv'
      BY <1>1, <1>2, <2>1, DropHeld, DistinctRows DEF HeldInv
    <2>3. AccountInv'
      <3>1. IsWaiting(t) => \E r \in eventq' : /\ r.target = t /\ r.state = "s"
                                              /\ r.id \in unfinished
        BY <1>1, <2>1, HeldRow
      <3>2. open[t] > 0 \/ IsWaiting(t)
        BY <1>3 DEF IsDuplicate, IsUnresolved
      <3> QED
        BY <1>1, <1>2, <2>1, <3>1, <3>2 DEF AccountInv, BoxesAccounted
    <2> QED
      BY <2>2, <2>3
  <1>4. CASE ~IsDuplicate(t)
    <2>1. /\ eventq' = eventq /\ waiting' = [waiting EXCEPT ![t] = e.id]
          /\ tasks' = tasks \cup {FirstTask(t)} /\ unfinished' = unfinished \cup {e.id}
          /\ waiting[t] = 0
          /\ \E u \in DownStates(t) : up' = [up EXCEPT ![t] = u]
      BY <1>4 DEF HandleStart, Disposed, IsDuplicate, IsWaiting, NoEvent
    <2>2. AllRows' = AllRows /\ FirstTask(t).target = t /\ FirstTask(t).event = waiting'[t]
      BY <1>2, <2>1 DEF AllRows, FirstTask, Task
    <2>3. RowsAreDistinct'
      <3>1. \A f \in batch \ {e} : f.id # e.id
        BY <1>1, DistinctRows DEF HeldInv
      <3> QED
        BY <1>1, <1>2, <2>1, <2>2, <3>1 DEF HeldInv, RowsAreDistinct
    <2>4. TasksAreHeld'
      <3>1. \A k \in tasks : k.target # t /\ k.target \in Target
        BY <2>1, RowFacts DEF HeldInv, TasksAreHeld
      <3> HIDE DEF FirstTask
      <3> QED
        BY <1>1, <2>1, <2>2, <3>1 DEF HeldInv, TasksAreHeld, TaskIsUnique, IsWaiting
    <2>5. WaitsForRow'
      BY <1>1, <2>1 DEF HeldInv, WaitsForRow, IsWaiting
    <2>6. AccountInv'
      <3>1. \A u \in Target \ {t} : up'[u] = up[u]
        BY <1>1, <2>1
      <3>2. \E r \in eventq' : r.target = t /\ r.state = "s" /\ r.id \in unfinished'
        BY <1>1, <2>1
      <3> QED
        BY <1>1, <1>2, <2>1, <3>1, <3>2 DEF AccountInv, BoxesAccounted
    <2> QED
      BY <2>3, <2>4, <2>5, <2>6 DEF HeldInv
  <1> QED
    BY <1>3, <1>4

\* A step that changes nothing of boxes but what becomes up or open, and drops no held
\* row but where it does.
LEMMA SafeAccount ==
  ASSUME AccountInv, unfinished \subseteq unfinished', inTx' => inTx /\ saved' = saved,
         \A t \in Target : TypeOf[t] = "boxState" =>
           \/ up'[t] = "y" \/ open'[t] > 0
           \/ /\ up'[t] = up[t] /\ open'[t] = open[t]
              /\ \A f \in eventq \ eventq' :
                   f.target # t \/ f.state # "s" \/ (f.id \notin unfinished /\ MayRaise)
  PROVE  AccountInv'
  <1>1. Lasting => BoxesAccounted(eventq, open, up)'
    BY DEF AccountInv, BoxesAccounted, MayRaise
  <1> QED
    BY <1>1 DEF AccountInv, BoxesAccounted

\* An end event takes the held event with it, and the box is up.
LEMMA HandleEndHeld ==
  ASSUME TypeOK, HeldInv, AccountInv, NEW e \in batch, HandleEnd(e)
  PROVE  HeldInv' /\ AccountInv'
  <1> DEFINE t == e.target
  <1>1. /\ t \in Target /\ e \in eventq /\ e.id \notin unfinished
        /\ up \in [Target -> UpState] /\ open \in [Target -> Nat]
    BY RowFacts, DistinctRows DEF HeldInv, TypeOK
  <1>2. /\ e.state = "e" /\ batch' = batch \ {e}
        /\ up' = [up EXCEPT ![t] = UpAfterEnd(t)]
        /\ open' = [open EXCEPT ![t] = OpenAfterEnd(t)]
        /\ UNCHANGED <<nextid, unfinished, inTx, saved>>
    BY DEF HandleEnd, Frame
  <1>3. /\ HeldInv' /\ \A f \in eventq \ eventq' : f.target = t
    <2>1. CASE eventq' = eventq \ {e} /\ UNCHANGED <<tasks, waiting>>
      BY <1>1, <1>2, <2>1, DropHeld, DistinctRows DEF HeldInv
    <2>2. CASE /\ IsWaiting(t) /\ tasks' = tasks \ TaskOf(t)
               /\ waiting' = [waiting EXCEPT ![t] = NoEvent]
               /\ eventq' = eventq \ ({e} \cup RowOf(waiting[t]))
      <3>1. PICK r \in eventq : /\ r.target = t /\ r \notin batch /\ r.id = waiting[t]
                                /\ \A f \in eventq : f.id = waiting[t] => f = r
        BY <1>1, <2>2, HeldRow
      <3>2. eventq' = eventq \ {e, r}
        BY <2>2, <3>1 DEF RowOf
      <3>3. ASSUME NEW k \in tasks
            PROVE  k.target = t <=> k \notin tasks'
        <4>1. k.target \in Target /\ k.event = waiting[k.target]
          BY RowFacts DEF HeldInv, TasksAreHeld
        <4>2. CASE k.target = t
          BY <2>2, <4>1, <4>2 DEF TaskOf
        <4>3. CASE k.event = waiting[t]
          <5>1. IsWaiting(k.target)
            BY <2>2, <4>1, <4>3 DEF IsWaiting
          <5>2. PICK f \in eventq : f.id = waiting[k.target] /\ f.target = k.target
            BY <4>1, <5>1, HeldRow
          <5> QED
            BY <2>2, <3>1, <4>1, <4>3, <5>2 DEF TaskOf
        <4> QED
          BY <2>2, <4>2, <4>3 DEF TaskOf
      <3>4. batch' \subseteq batch \cap eventq'
        BY <1>2, <3>1, <3>2, DistinctRows DEF HeldInv
      <3>5. tasks' \subseteq tasks /\ eventq' \subseteq eventq
        BY <2>2
      <3> QED
        BY <1>1, <1>2, <2>2, <3>1, <3>2, <3>3, <3>4, <3>5, ReleasedHeld
    <2> QED
      BY <2>1, <2>2 DEF HandleEnd, Deschedule
  <1>4. TypeOf[t] = "boxState" => up'[t] = "y"
    BY <1>1, <1>2 DEF UpAfterEnd, UpValue, HasState
  <1>5. \A u \in Target \ {t} : up'[u] = up[u] /\ open'[u] = open[u]
    BY <1>1, <1>2
  <1>6. AccountInv'
    BY <1>2, <1>3, <1>4, <1>5, SafeAccount
  <1> QED
    BY <1>3, <1>6

\* The other ways an event is handled: it goes, and was not held.
LEMMA HandleOtherHeld ==
  ASSUME TypeOK, HeldInv, AccountInv, NEW e \in batch,
         HandleStrange(e) \/ HandleDirect(e) \/ HandlerFails(e)
  PROVE  HeldInv' /\ AccountInv'
  <1> DEFINE t == e.target
  <1>1. /\ t \in Target /\ e \in eventq /\ e.id \notin unfinished
        /\ up \in [Target -> UpState] /\ open \in [Target -> Nat]
    BY RowFacts, DistinctRows DEF HeldInv, TypeOK
  <1>2. /\ eventq' = eventq \ {e} /\ batch' = batch \ {e}
        /\ UNCHANGED <<nextid, unfinished, waiting, tasks, inTx, saved>>
    BY DEF HandleStrange, HandleDirect, HandlerFails, Frame
  <1>3. HeldInv'
    BY <1>1, <1>2, DropHeld, DistinctRows DEF HeldInv
  <1>4. CASE HandleStrange(e)
    <2>1. e.state # "s" /\ UNCHANGED <<open, up>>
      BY <1>4 DEF HandleStrange
    <2>2. \A f \in eventq \ eventq' : f.state # "s"
      BY <1>2, <2>1
    <2> QED
      BY <1>2, <1>3, <2>1, <2>2, SafeAccount
  <1>5. CASE TypeOf[t] \in Direct /\ (HandleDirect(e) \/ HandlerFails(e))
    <2>1. TypeOf[t] # "boxState"
      BY <1>5 DEF Direct
    <2>2. \A u \in Target \ {t} : up'[u] = up[u] /\ open'[u] = open[u]
      BY <1>1, <1>5 DEF HandleDirect, HandlerFails
    <2>3. \A f \in eventq \ eventq' : f.target = t
      BY <1>2
    <2> QED
      BY <1>2, <1>3, <2>1, <2>2, <2>3, SafeAccount
  <1>6. CASE HandlerFails(e) /\ UNCHANGED <<open, up>>
    <2>1. MayRaise /\ \A f \in eventq \ eventq' : f.id \notin unfinished
      BY <1>1, <1>2, <1>6 DEF HandlerFails, MayRaise
    <2> QED
      BY <1>2, <1>3, <1>6, <2>1, SafeAccount
  <1>7. CASE /\ TypeOf[t] \in Delayed /\ IsUnresolved(t)
             /\ open' = [open EXCEPT ![t] = OpenAfterEnd(t)]
             /\ up' = [up EXCEPT ![t] = UpAfterEnd(t)]
    <2>1. TypeOf[t] = "boxState" => up'[t] = "y"
      BY <1>1, <1>7 DEF UpAfterEnd, UpValue, HasState
    <2>2. \A u \in Target \ {t} : up'[u] = up[u] /\ open'[u] = open[u]
      BY <1>1, <1>7
    <2>3. \A f \in eventq \ eventq' : f.target = t
      BY <1>2
    <2> QED
      BY <1>2, <1>3, <2>1, <2>2, <2>3, SafeAccount
  <1> QED
    BY <1>3, <1>4, <1>5, <1>6, <1>7 DEF HandlerFails, HandleDirect

\* What a callback finds: the row of its task, and one task of its target.
LEMMA TaskFacts ==
  ASSUME TypeOK, HeldInv, NEW k \in tasks
  PROVE  /\ k.target \in Target /\ IsWaiting(k.target) /\ waiting[k.target] = k.event
         /\ \A l \in tasks \ {k} : l.target # k.target
         /\ up \in [Target -> UpState] /\ open \in [Target -> Nat]
  <1>1. k.target \in Target /\ k.event > 0 /\ k.event \in Nat
    BY RowFacts
  <1> QED
    BY <1>1 DEF HeldInv, TasksAreHeld, TaskIsUnique, IsWaiting, NoEvent, TypeOK

\* A callback raises the alert of the row it removes, or leaves its row alone.
LEMMA CallbackHeld ==
  ASSUME TypeOK, HeldInv, AccountInv, NEW k \in tasks, Callback(k)
  PROVE  HeldInv' /\ AccountInv'
  <1> DEFINE t == k.target
  <1>1. /\ t \in Target /\ IsWaiting(t) /\ waiting[t] = k.event
        /\ \A l \in tasks \ {k} : l.target # t
        /\ up \in [Target -> UpState] /\ open \in [Target -> Nat]
    BY TaskFacts
  <1>2. /\ ~inTx /\ batch = {}
        /\ UNCHANGED <<nextid, unfinished, batch, inTx, saved>>
    BY DEF Callback, MakeDownWarning, MakeDownAlert, Due, Frame, HeldInv, RowsAreDistinct
  <1>3. PICK r \in eventq : /\ r.id = k.event /\ r.target = t /\ r.state = "s"
                            /\ r.id \in unfinished
                            /\ \A f \in eventq : f.id = k.event => f = r
    BY <1>1, HeldRow
  <1>4. CASE MakeDownWarning(k)
    <2> DEFINE next == Task(k.event, t, "alert")
    <2>1. tasks' = (tasks \ {k}) \cup {next} /\ UNCHANGED <<eventq, open, waiting>>
      BY <1>4 DEF MakeDownWarning, TaskAfterWarning
    <2>2. next.event = k.event /\ next.target = t
      BY DEF Task
    <2> HIDE DEF next
    <2>3. TasksAreHeld'
      BY <1>1, <2>1, <2>2 DEF HeldInv, TasksAreHeld, TaskIsUnique, IsWaiting
    <2>4. RowsAreDistinct' /\ WaitsForRow'
      BY <1>2, <2>1 DEF HeldInv, RowsAreDistinct, AllRows, WaitsForRow, IsWaiting
    <2>5. \A u \in Target \ {t} : up'[u] = up[u]
      BY <1>1, <1>4 DEF MakeDownWarning
    <2>6. AccountInv'
      BY <1>2, <1>3, <2>1, <2>5 DEF AccountInv, BoxesAccounted
    <2> QED
      BY <2>3, <2>4, <2>6 DEF HeldInv
  <1>5. CASE MakeDownAlert(k)
    <2>1. /\ tasks' = tasks \ {k} /\ waiting' = [waiting EXCEPT ![t] = NoEvent]
          /\ eventq' = eventq \ RowOf(k.event)
      BY <1>5 DEF MakeDownAlert
    <2>2. eventq' = eventq \ {r}
      BY <1>3, <2>1 DEF RowOf
    <2>3. HeldInv'
      BY <1>1, <1>2, <1>3, <2>1, <2>2, ReleasedHeld
    <2>4. TypeOf[t] = "boxState" => open'[t] > 0
      BY <1>1, <1>5 DEF MakeDownAlert, MayWithhold
    <2>5. \A u \in Target \ {t} : up'[u] = up[u] /\ open'[u] = open[u]
      BY <1>1, <1>5 DEF MakeDownAlert
    <2>6. AccountInv'
      BY <1>2, <1>3, <2>2, <2>4, <2>5, SafeAccount
    <2> QED
      BY <2>3, <2>6
  <1> QED
    BY <1>4, <1>5 DEF Callback

\* A process that died holds nothing; where it may die, no handler is assumed to raise.
LEMMA WipeHeld ==
  ASSUME HeldInv, AccountInv, Wipe, nextid' = nextid,
         eventq' \subseteq AllRows, Lasting => BoxesAccounted(eventq', open', up')
  PROVE  HeldInv' /\ AccountInv'
  <1>1. /\ unfinished' = {} /\ batch' = {} /\ ~inTx' /\ saved' = NoSave /\ tasks' = {}
        /\ \A t \in Target : ~IsWaiting(t)'
    BY DEF Wipe, IsWaiting
  <1>2. AllRows' = eventq'
    BY <1>1 DEF AllRows, NoSave
  <1>3. RowsAreDistinct'
    BY <1>1, <1>2 DEF HeldInv, RowsAreDistinct
  <1>4. Lasting => ~MayRaise
    BY DEF Wipe, MayRaise, Lasting
  <1>5. AccountInv'
    BY <1>1, <1>4 DEF AccountInv, BoxesAccounted
  <1> QED
    BY <1>1, <1>3, <1>5 DEF HeldInv, TasksAreHeld, TaskIsUnique, WaitsForRow

\* A callback that stops half way removes no row.
LEMMA CallbackStopsHeld ==
  ASSUME TypeOK, HeldInv, AccountInv, NEW k \in tasks, CallbackStops(k)
  PROVE  HeldInv' /\ AccountInv'
  <1> DEFINE t == k.target
  <1>1. /\ t \in Target /\ IsWaiting(t) /\ waiting[t] = k.event
        /\ \A l \in tasks \ {k} : l.target # t
        /\ up \in [Target -> UpState] /\ open \in [Target -> Nat]
    BY TaskFacts
  <1>2. PICK r \in eventq : /\ r.id = k.event /\ r.target = t /\ r.state = "s"
                            /\ r.id \in unfinished
    BY <1>1, HeldRow
  <1>3. \A u \in Target \ {t} : up'[u] = up[u] /\ open'[u] = open[u]
    BY <1>1 DEF CallbackStops
  <1>4. UNCHANGED <<eventq, nextid>> /\ ~inTx
    BY DEF CallbackStops, Due
  <1>5. Lasting => BoxesAccounted(eventq', open', up')
    BY <1>2, <1>3, <1>4 DEF AccountInv, BoxesAccounted
  <1>6. CASE Wipe
    BY <1>4, <1>5, <1>6, WipeHeld DEF AllRows
  <1>7. CASE ~Wipe
    <2>1. /\ tasks' = tasks \ {k}
          /\ waiting' \in {waiting, [waiting EXCEPT ![t] = NoEvent]}
          /\ UNCHANGED <<unfinished, batch, inTx, saved>> /\ MayRaise
      <3>1. waiting \in [Target -> Id \cup {NoEvent}]
        BY DEF TypeOK
      <3> QED
        BY <1>1, <1>7, <3>1 DEF CallbackStops, MayRaise
    <2>2. AccountInv'
      BY <1>4, <1>5, <2>1 DEF AccountInv, BoxesAccounted
    <2>3. CASE waiting' = waiting
      BY <1>4, <2>1, <2>2, <2>3 DEF HeldInv, RowsAreDistinct, AllRows, TasksAreHeld,
                                    TaskIsUnique, WaitsForRow, IsWaiting
    <2>4. CASE waiting' = [waiting EXCEPT ![t] = NoEvent]
      <3>1. batch = {}
        BY <1>4 DEF HeldInv, RowsAreDistinct
      <3>2. /\ tasks' \subseteq tasks /\ \A l \in tasks : l.target = t <=> l \notin tasks'
            /\ eventq' \subseteq eventq /\ batch' \subseteq batch \cap eventq'
        BY <1>1, <1>4, <2>1, <3>1
      <3> QED
        BY <1>1, <1>4, <2>1, <2>2, <2>4, <3>2, ReleasedHeld
    <2> QED
      BY <2>1, <2>2, <2>3, <2>4
  <1> QED
    BY <1>6, <1>7

\* The process dies, or the connection is lost: rows come back, and with them the
\* inventory and the states they account for.
LEMMA RollBackHeld ==
  ASSUME TypeOK, HeldInv, AccountInv, Crash \/ LoseConnection
  PROVE  HeldInv' /\ AccountInv'
  <1>1. eventq \subseteq eventq' /\ eventq' \subseteq AllRows /\ nextid' = nextid
    BY DEF Crash, LoseConnection, RollBackTx, db, AllRows
  <1>2. \/ eventq' = eventq /\ open' = open /\ up' = up
        \/ inTx /\ saved.eventq \subseteq eventq' /\ open' = saved.open /\ up' = saved.up
    BY DEF Crash, LoseConnection, RollBackTx, db
  <1>3. Lasting => BoxesAccounted(eventq', open', up')
    BY <1>2 DEF AccountInv, BoxesAccounted
  <1>4. CASE Crash
    BY <1>1, <1>3, <1>4, WipeHeld DEF Crash
  <1>5. CASE LoseConnection
    <2>1. /\ batch' = {} /\ ~inTx' /\ saved' = NoSave
          /\ UNCHANGED <<unfinished, waiting, tasks>>
      BY <1>5 DEF LoseConnection
    <2>2. AllRows' = eventq'
      BY <2>1 DEF AllRows, NoSave
    <2>3. RowsAreDistinct'
      BY <1>1, <2>1, <2>2 DEF HeldInv, RowsAreDistinct
    <2>4. TasksAreHeld' /\ WaitsForRow'
      BY <1>1, <2>1 DEF HeldInv, TasksAreHeld, TaskIsUnique, WaitsForRow, IsWaiting
    <2>5. AccountInv'
      BY <1>3, <2>1 DEF AccountInv, BoxesAccounted
    <2> QED
      BY <2>3, <2>4, <2>5 DEF HeldInv
  <1> QED
    BY <1>4, <1>5

\* Every step keeps what is held and what accounts for the boxes.
LEMMA AccountStep ==
  ASSUME TypeOK, HeldInv, AccountInv, [Next]_vars
  PROVE  HeldInv' /\ AccountInv'
  <1>1. ASSUME NEW t \in Target, NEW s \in {"s", "e", "x"}, PostEvent(t, s)
        PROVE  HeldInv' /\ AccountInv'
    BY <1>1, PostEventHeld
  <1>2. CASE BeginLoad \/ CommitLoad
    BY <1>2, BeginLoadHeld, CommitLoadHeld
  <1>3. ASSUME NEW e \in batch, Handle(e)
        PROVE  HeldInv' /\ AccountInv'
    BY <1>3, HandleStartHeld, HandleEndHeld, HandleOtherHeld DEF Handle
  <1>4. ASSUME NEW k \in tasks, Callback(k) \/ CallbackStops(k)
        PROVE  HeldInv' /\ AccountInv'
    BY <1>4, CallbackHeld, CallbackStopsHeld
  <1>5. CASE LoseConnection \/ Crash
    BY <1>5, RollBackHeld
  <1>6. CASE Restart \/ UNCHANGED vars
    BY <1>6 DEF Restart, vars, db, HeldInv, RowsAreDistinct, AllRows, TasksAreHeld,
                TaskIsUnique, WaitsForRow, IsWaiting, AccountInv, BoxesAccounted
  <1> QED
    BY <1>1, <1>2, <1>3, <1>4, <1>5, <1>6 DEF Next

\* Whatever fails, and wherever: ids are given once, each task is of the plugin that waits
\* for its event, and a plugin that waits does so for an unfinished start event in the queue.
THEOREM HeldInvHolds == Spec => [](TypeOK /\ HeldInv /\ AccountInv)
  <1>1. Init => TypeOK /\ HeldInv /\ AccountInv
    <2>1. Init => AllRows = {}
      BY DEF Init, AllRows, NoSave
    <2> QED
      BY InitType, <2>1
      DEF Init, HeldInv, RowsAreDistinct, TasksAreHeld, TaskIsUnique, WaitsForRow,
          IsWaiting, AccountInv, BoxesAccounted
  <1>2. TypeOK /\ HeldInv /\ AccountInv /\ [Next]_vars => TypeOK' /\ HeldInv' /\ AccountInv'
    BY TypeStep, AccountStep
  <1> QED
    BY <1>1, <1>2, PTL DEF Spec

\* A box that the inventory calls down has an open alert state, or a start event in the
\* queue: through lost connections in the middle of a batch together with either
\* processes that die anywhere or handlers and callbacks that raise anywhere.  It is not
\* so for a process that dies and a handler that raises: the start event of a box that is
\* down already is handled again after a restart, and deleted when that raises.
THEOREM DownIsAccountedHolds ==
  ASSUME ~({"crash", "exception"} \subseteq Faults)
  PROVE  Spec => []DownIsAccounted
  <1>1. AccountInv => DownIsAccounted
    BY DEF AccountInv, BoxesAccounted, DownIsAccounted, Lasting
  <1> QED
    BY HeldInvHolds, <1>1, PTL

--------------------------------------------------------------------------------
(* What becomes of an outage: action properties from the same invariants. *)

\* What is held is older than what has not been handled: it was in an earlier batch, or
\* earlier in the same.
HeldIsOlder ==
  \A e, f \in eventq : e.id \in unfinished /\ f.id \notin unfinished => e.id < f.id

\* So does it keep what is held older than what was not handled yet.
LEMMA HeldIsOlderStep ==
  ASSUME OneOpenInv, WaitInv, HeldIsOlder, [Next]_vars, Faults \subseteq {"crash"}
  PROVE  HeldIsOlder'
  <1>1. TypeOK
    BY DEF OneOpenInv
  <1>2. CASE eventq' \subseteq eventq /\ unfinished' = unfinished
    BY <1>2 DEF HeldIsOlder
  <1>3. CASE unfinished' = {}
    BY <1>3 DEF HeldIsOlder
  <1>4. ASSUME NEW t \in Target, NEW s \in {"s", "e", "x"}, PostEvent(t, s)
        PROVE  HeldIsOlder'
    <2> DEFINE n == [id |-> nextid, target |-> t, state |-> s]
    <2>1. eventq' = eventq \cup {n} /\ n.id = nextid /\ unfinished' = unfinished
      BY <1>4 DEF PostEvent, mem
    <2> HIDE DEF n
    <2>2. /\ \A e \in eventq : e.id < nextid
          /\ nextid \notin unfinished
      BY <1>1, RowFacts DEF WaitInv, RowsAreNumbered, AllRows
    <2> QED
      BY <2>1, <2>2 DEF HeldIsOlder
  <1>5. ASSUME NEW e \in batch, HandleStart(e), ~IsDuplicate(e.target)
        PROVE  HeldIsOlder'
    <2>1. eventq' = eventq /\ unfinished' = unfinished \cup {e.id}
      BY <1>5 DEF HandleStart, Disposed
    <2>2. \A f \in eventq : f.id \notin unfinished /\ f.id # e.id => e.id < f.id
      <3> SUFFICES ASSUME NEW f \in eventq, f.id \notin unfinished, f.id # e.id
                   PROVE  e.id < f.id
        OBVIOUS
      <3>1. e.id \in Nat /\ f.id \in Nat
        BY <1>1, RowFacts DEF AllRows
      <3>2. CASE f \in batch
        BY <1>5, <3>1, <3>2 DEF HandleStart, IsNext
      <3>3. CASE f \notin batch
        BY <3>3 DEF WaitInv, BatchIsNew
      <3> QED
        BY <3>2, <3>3
    <2> QED
      BY <2>1, <2>2 DEF HeldIsOlder
  <1>6. ASSUME NEW e \in batch, Handle(e)
        PROVE  HeldIsOlder'
    BY <1>2, <1>5, <1>6 DEF Handle, HandleStart, HandleEnd, HandleStrange, HandleDirect,
                            HandlerFails, Deschedule
  <1>7. ASSUME NEW k \in tasks, Callback(k) \/ CallbackStops(k)
        PROVE  HeldIsOlder'
    BY <1>2, <1>3, <1>7 DEF Callback, MakeDownWarning, MakeDownAlert, CallbackStops, Wipe
  <1>8. CASE BeginLoad \/ CommitLoad \/ Restart \/ UNCHANGED vars
    BY <1>2, <1>8 DEF BeginLoad, CommitLoad, Restart, vars, db
  <1>9. CASE Crash
    BY <1>3, <1>9 DEF Crash, Wipe
  <1>10. ~LoseConnection
    BY DEF LoseConnection
  <1> QED
    BY <1>4, <1>6, <1>7, <1>8, <1>9, <1>10 DEF Next

\* The three invariants together.
LEMMA EngineHolds ==
  ASSUME Faults \subseteq {"crash"}
  PROVE  Spec => [](OneOpenInv /\ WaitInv /\ HeldIsOlder)
  <1>1. Init => HeldIsOlder
    BY DEF Init, HeldIsOlder
  <1>2. OneOpenInv /\ WaitInv /\ HeldIsOlder /\ [Next]_vars => HeldIsOlder'
    BY HeldIsOlderStep
  <1> QED
    BY EngineAgrees, <1>1, <1>2, PTL DEF Spec

\* As long as no handler or callback raises, wherever the process dies and whatever is
\* rolled back, an end event that is handled leaves no plugin waiting for its target, no
\* task of the target in the scheduler, and not the start event that was held.
THEOREM EndDeschedulesHolds ==
  ASSUME "exception" \notin Faults
  PROVE  Spec => EndDeschedules
  <1> DEFINE A == \A e \in batch \ batch' :
        inTx' /\ e.state = "e" /\ TypeOf[e.target] \in Delayed /\ IsWaiting(e.target) =>
          /\ waiting'[e.target] = NoEvent
          /\ \A k \in tasks' : k.target # e.target
          /\ \A f \in eventq' : f.id # waiting[e.target]
  <1>1. TypeOK /\ HeldInv /\ [Next]_vars => A
    <2> SUFFICES ASSUME TypeOK, HeldInv, Next, NEW e \in batch \ batch', inTx',
                        e.state = "e", TypeOf[e.target] \in Delayed, IsWaiting(e.target)
                 PROVE  /\ waiting'[e.target] = NoEvent
                        /\ \A k \in tasks' : k.target # e.target
                        /\ \A f \in eventq' : f.id # waiting[e.target]
      BY DEF vars
    <2>1. /\ e.target \in Target /\ waiting \in [Target -> Nat]
      BY RowFacts
    <2>2. PICK f \in batch : Handle(f)
      <3>1. \A t \in Target, s \in {"s", "e", "x"} : ~PostEvent(t, s)
        BY DEF PostEvent, mem
      <3>2. ~BeginLoad /\ ~CommitLoad /\ ~LoseConnection /\ ~Crash /\ ~Restart
        BY DEF BeginLoad, CommitLoad, LoseConnection, Crash, Wipe, Restart, HeldInv,
               RowsAreDistinct
      <3>3. \A k \in tasks : ~MakeDownWarning(k) /\ ~MakeDownAlert(k)
        BY DEF MakeDownWarning, MakeDownAlert
      <3>4. ASSUME NEW k \in tasks, CallbackStops(k)
            PROVE  FALSE
        <4>1. batch' = batch \/ Wipe
          BY <3>4 DEF CallbackStops
        <4> QED
          BY <4>1 DEF Wipe
      <3> QED
        BY <3>1, <3>2, <3>3, <3>4 DEF Next, Callback
    <2>3. f = e
      BY <2>2 DEF Handle, HandleStart, HandleEnd, HandleStrange, HandleDirect, HandlerFails
    <2>4. HandleEnd(e)
      BY <2>2, <2>3 DEF Handle, HandleStart, HandleStrange, HandleDirect, HandlerFails,
                        Delayed, Direct
    <2>5. PICK k \in tasks : k.target = e.target
      BY <2>1 DEF HeldInv, TasksAreHeld, MayRaise
    <2>6. TaskOf(e.target) # {}
      BY <2>5 DEF HeldInv, TasksAreHeld, TaskOf
    <2>7. /\ waiting' = [waiting EXCEPT ![e.target] = NoEvent]
          /\ tasks' = tasks \ TaskOf(e.target)
          /\ eventq' = eventq \ ({e} \cup RowOf(waiting[e.target]))
      BY <2>4, <2>6 DEF HandleEnd, Deschedule
    <2>8. \A l \in tasks : l.target = e.target => l \in TaskOf(e.target)
      BY DEF HeldInv, TasksAreHeld, TaskOf
    <2> QED
      BY <2>1, <2>7, <2>8 DEF RowOf
  <1> QED
    BY HeldInvHolds, <1>1, PTL DEF Spec, EndDeschedules

\* As long as the only fault is a crash, the start event of an outage of a box leaves the
\* queue only for an open alert state, for another start event that is held, or for an end
\* event that is newer.
THEOREM StartNeverLostHolds ==
  ASSUME Faults \subseteq {"crash"}
  PROVE  Spec => StartNeverLost
  <1> DEFINE A == \A e \in eventq \ eventq' :
        TypeOf[e.target] = "boxState" /\ e.state = "s" =>
          \/ open'[e.target] > 0
          \/ \E f \in eventq' : f.target = e.target /\ f.state = "s"
          \/ \E f \in eventq \ eventq' :
                f.target = e.target /\ f.state = "e" /\ f.id > e.id
  <1>1. OneOpenInv /\ WaitInv /\ HeldIsOlder /\ [Next]_vars => A
    <2> SUFFICES ASSUME OneOpenInv, WaitInv, HeldIsOlder, Next, NEW e \in eventq \ eventq',
                        TypeOf[e.target] = "boxState", e.state = "s"
                 PROVE  \/ open'[e.target] > 0
                        \/ \E f \in eventq' : f.target = e.target /\ f.state = "s"
                        \/ \E f \in eventq \ eventq' :
                             f.target = e.target /\ f.state = "e" /\ f.id > e.id
      BY DEF vars
    <2>1. /\ TypeOK /\ open \in [Target -> Nat] /\ e.target \in Target
          /\ \A f \in eventq : f.target \in Target
      BY RowFacts DEF OneOpenInv, TypeOK, AllRows
    <2>2. \A t \in Target, s \in {"s", "e", "x"} : ~PostEvent(t, s)
      BY DEF PostEvent
    <2>3. ~BeginLoad /\ ~CommitLoad /\ ~LoseConnection /\ ~Crash /\ ~Restart
      BY DEF BeginLoad, CommitLoad, LoseConnection, Crash, RollBackTx, Restart, db
    <2>4. \A k \in tasks : ~MakeDownWarning(k) /\ ~CallbackStops(k)
      BY DEF MakeDownWarning, CallbackStops
    <2>5. CASE \E k \in tasks : MakeDownAlert(k)
      <3>1. PICK k \in tasks : MakeDownAlert(k)
        BY <2>5
      <3>2. e.id = k.event
        BY <3>1 DEF MakeDownAlert, RowOf
      <3>3. k.target \in Target /\ waiting[k.target] = k.event /\ IsWaiting(k.target)
        BY <2>1, RowFacts DEF OneOpenInv, TaskIsHeld, IsWaiting, NoEvent
      <3>4. PICK f \in eventq : f.id = k.event /\ f.target = k.target
        BY <3>3 DEF WaitInv, MemoryAgrees
      <3>5. e.target = k.target
        BY <3>2, <3>4 DEF WaitInv, RowsAreNumbered, AllRows
      <3>6. MayWithhold(k.target) = {FALSE}
        BY <3>5 DEF MayWithhold
      <3>7. open' = [open EXCEPT ![k.target] = @ + 1]
        BY <3>1, <3>6 DEF MakeDownAlert
      <3>8. open'[e.target] > 0
        BY <2>1, <3>5, <3>7
      <3> QED
        BY <3>8
    <2>6. ASSUME NEW g \in batch, Handle(g)
          PROVE  \/ open'[e.target] > 0
                 \/ \E f \in eventq' : f.target = e.target /\ f.state = "s"
                 \/ \E f \in eventq \ eventq' :
                      f.target = e.target /\ f.state = "e" /\ f.id > e.id
      <3>1. ~HandlerFails(g)
        BY DEF HandlerFails
      <3>2. g \in eventq /\ g.id \notin unfinished
        BY DEF WaitInv, BatchIsNew
      <3>3. ~HandleStrange(g) /\ ~HandleDirect(g)
        BY DEF HandleStrange, HandleDirect, Direct
      <3>4. CASE HandleStart(g)
        <4>1. g = e /\ IsDuplicate(e.target) /\ open' = open /\ eventq' = eventq \ {e}
          BY <3>4 DEF HandleStart, Disposed
        <4>2. CASE IsWaiting(e.target)
          BY <2>1, <3>2, <4>1, <4>2 DEF WaitInv, MemoryAgrees
        <4> QED
          BY <4>1, <4>2 DEF IsDuplicate, IsUnresolved
      <3>5. CASE HandleEnd(g)
        <4>1. /\ g.state = "e" /\ g \notin eventq' /\ g.target \in Target
              /\ e.id = waiting[g.target] /\ IsWaiting(g.target)
          BY <2>1, <3>2, <3>5 DEF HandleEnd, Deschedule, RowOf
        <4>2. PICK f \in eventq : f.id = waiting[g.target] /\ f.target = g.target
          BY <4>1 DEF WaitInv, MemoryAgrees
        <4>3. e.target = g.target
          BY <4>1, <4>2 DEF WaitInv, RowsAreNumbered, AllRows
        <4>4. e.id \in unfinished
          BY <4>1 DEF WaitInv, MemoryAgrees
        <4>5. e.id < g.id
          BY <3>2, <4>4 DEF HeldIsOlder
        <4>6. e.id \in Nat /\ g.id \in Nat
          BY <2>1, <3>2, RowFacts DEF AllRows
        <4>7. g.id > e.id
          BY <4>5, <4>6
        <4>8. g \in eventq \ eventq' /\ g.target = e.target
          BY <3>2, <4>1, <4>3
        <4> QED
          BY <4>1, <4>7, <4>8
      <3> QED
        BY <2>6, <3>1, <3>3, <3>4, <3>5 DEF Handle
    <2> QED
      BY <2>2, <2>3, <2>4, <2>5, <2>6 DEF Next, Callback
  <1> QED
    BY EngineHolds, <1>1, PTL DEF Spec, StartNeverLost

--------------------------------------------------------------------------------
(***************************************************************************)
(* The refinement of GracePeriod.  What others see changes when a queue     *)
(* check commits, all at once, and at each statement of a callback; in      *)
(* between, a check may only have taken boxes from down to something else.  *)
(***************************************************************************)

\* How the database of the transaction differs from what others see of it.
SeenAgrees ==
  inTx =>
    /\ batch \subseteq saved.eventq
    /\ \A e \in eventq : e.id \in unfinished => e \in saved.eventq
    /\ \A t \in Boxes :
         \/ open[t] = saved.open[t] /\ alertq[t] = saved.alertq[t]
         \/ /\ saved.open[t] > 0 /\ open[t] = 0
            /\ \/ alertq[t] = saved.alertq[t]
               \/ \E a \in {"boxUp", "boxSunny"} : alertq[t] = Append(saved.alertq[t], a)

EngineInv == OneOpenInv /\ HeldInv /\ SeenAgrees

\* A handler that is not of a box, and a step outside the transaction, change nothing
\* of what a box was given.
LEMMA QuietSeen ==
  ASSUME TypeOK, SeenAgrees, inTx' => inTx /\ saved' = saved,
         batch' \subseteq batch,
         \A e \in eventq' : e.id \in unfinished' =>
           e \in batch \/ (e \in eventq /\ e.id \in unfinished),
         \A t \in Boxes : open'[t] = open[t] /\ alertq'[t] = alertq[t]
  PROVE  SeenAgrees'
  BY DEF SeenAgrees

\* An end event that is handled shows nothing before the transaction ends.
LEMMA HandleEndSeen ==
  ASSUME EngineInv, NEW e \in batch, HandleEnd(e)
  PROVE  SeenAgrees'
  <1> DEFINE t == e.target
  <1>1. /\ t \in Target /\ open \in [Target -> Nat] /\ inTx
        /\ alertq \in [Target -> Seq(AlertTypes)]
    BY DEF EngineInv, OneOpenInv, TypeOK, Event, HeldInv, RowsAreDistinct
  <1>2. /\ batch' = batch \ {e} /\ eventq' \subseteq eventq
        /\ UNCHANGED <<unfinished, inTx, saved>>
        /\ open' = [open EXCEPT ![t] = Resolved(@)]
        /\ Alert(t, UpType(t, up'[t]), UpAnnounced(t))
    BY DEF HandleEnd, Deschedule, OpenAfterEnd, Frame
  <1>3. \A u \in Target \ {t} : open'[u] = open[u] /\ alertq'[u] = alertq[u]
    BY <1>1, <1>2 DEF Alert
  <1>4. CASE t \notin Boxes
    <2>1. \A u \in Boxes : open'[u] = open[u] /\ alertq'[u] = alertq[u]
      BY <1>3, <1>4 DEF Boxes
    <2> QED
      BY <1>2, <2>1, QuietSeen DEF EngineInv, OneOpenInv
  <1>5. CASE t \in Boxes /\ open[t] = 0
    <2>1. open'[t] = open[t] /\ alertq'[t] = alertq[t]
      BY <1>1, <1>2, <1>5 DEF Resolved, Alert, UpAnnounced, IsUnresolved
    <2>2. \A u \in Boxes : open'[u] = open[u] /\ alertq'[u] = alertq[u]
      BY <1>3, <2>1 DEF Boxes
    <2> QED
      BY <1>2, <2>2, QuietSeen DEF EngineInv, OneOpenInv
  <1>6. CASE t \in Boxes /\ open[t] # 0
    <2>1. open[t] = 1 /\ open'[t] = 0
      BY <1>1, <1>2, <1>6 DEF EngineInv, OneOpenInv, OneOpenState, Boxes, Resolved
    <2>2. saved.open[t] = 1 /\ saved.alertq[t] = alertq[t]
      BY <1>1, <1>6, <2>1 DEF EngineInv, SeenAgrees
    <2>3. UpType(t, up'[t]) \in {"boxUp", "boxSunny"}
      BY <1>6 DEF Boxes, UpType
    <2>4. \/ alertq'[t] = alertq[t]
          \/ \E a \in {"boxUp", "boxSunny"} : alertq'[t] = Append(alertq[t], a)
      BY <1>1, <1>2, <2>3 DEF Alert
    <2>5. /\ batch' \subseteq saved.eventq
          /\ \A f \in eventq' : f.id \in unfinished => f \in saved.eventq
          /\ \A u \in Boxes \ {t} :
               \/ open'[u] = saved.open[u] /\ alertq'[u] = saved.alertq[u]
               \/ /\ saved.open[u] > 0 /\ open'[u] = 0
                  /\ \/ alertq'[u] = saved.alertq[u]
                     \/ \E a \in {"boxUp", "boxSunny"} :
                          alertq'[u] = Append(saved.alertq[u], a)
      BY <1>1, <1>2, <1>3 DEF EngineInv, SeenAgrees, Boxes
    <2>6. /\ saved'.open[t] > 0 /\ open'[t] = 0
          /\ \/ alertq'[t] = saved'.alertq[t]
             \/ \E a \in {"boxUp", "boxSunny"} : alertq'[t] = Append(saved'.alertq[t], a)
      BY <1>2, <2>1, <2>2, <2>4
    <2>7. saved' = saved /\ unfinished' = unfinished
      BY <1>2
    <2> QED
      BY <2>5, <2>6, <2>7 DEF SeenAgrees
  <1> QED
    BY <1>4, <1>5, <1>6

\* So does one that fails after it resolved what was open: its alert is not posted.
LEMMA HandlerFailsSeen ==
  ASSUME EngineInv, NEW e \in batch, HandlerFails(e)
  PROVE  SeenAgrees'
  <1> DEFINE t == e.target
  <1>1. /\ TypeOK /\ t \in Target /\ open \in [Target -> Nat] /\ inTx
    BY RowFacts DEF EngineInv, OneOpenInv, TypeOK, HeldInv, RowsAreDistinct
  <1>2. /\ batch' = batch \ {e} /\ eventq' \subseteq eventq
        /\ UNCHANGED <<alertq, unfinished, inTx, saved>>
    BY DEF HandlerFails, Frame
  <1>3. CASE \A u \in Boxes : open'[u] = open[u]
    BY <1>1, <1>2, <1>3, QuietSeen DEF EngineInv
  <1>4. CASE /\ t \in Boxes /\ IsUnresolved(t)
             /\ open' = [open EXCEPT ![t] = OpenAfterEnd(t)]
    <2>1. /\ open[t] > 0 /\ open'[t] = 0
          /\ \A u \in Boxes \ {t} : open'[u] = open[u]
      BY <1>1, <1>4 DEF EngineInv, OneOpenInv, OneOpenState, Boxes, IsUnresolved,
                        OpenAfterEnd, Resolved
    <2>2. saved.open[t] = open[t] /\ saved.alertq[t] = alertq[t]
      BY <1>1, <1>4, <2>1 DEF EngineInv, SeenAgrees
    <2> QED
      BY <1>1, <1>2, <1>4, <2>1, <2>2 DEF EngineInv, SeenAgrees
  <1>5. CASE TypeOf[t] \in Direct
    <2>1. t \notin Boxes
      BY <1>5 DEF Direct, Boxes
    <2>2. \A u \in Target \ {t} : open'[u] = open[u]
      BY <1>1 DEF HandlerFails
    <2> QED
      BY <1>3, <2>1, <2>2 DEF Boxes
  <1>6. CASE /\ t \notin Boxes
             /\ open' = [open EXCEPT ![t] = OpenAfterEnd(t)]
    <2>1. \A u \in Boxes : open'[u] = open[u]
      BY <1>1, <1>6 DEF Boxes
    <2> QED
      BY <1>3, <2>1
  <1>7. CASE open' = open
    BY <1>3, <1>7
  <1> QED
    BY <1>4, <1>5, <1>6, <1>7 DEF HandlerFails

\* Every step keeps how an open transaction differs from what others see.
LEMMA SeenStep ==
  ASSUME EngineInv, [Next]_vars, "rollback" \notin Faults
  PROVE  SeenAgrees'
  <1>1. TypeOK /\ SeenAgrees
    BY DEF EngineInv, OneOpenInv
  <1>2. CASE ~inTx'
    BY <1>2 DEF SeenAgrees
  <1>3. ASSUME NEW t \in Target, NEW s \in {"s", "e", "x"}, PostEvent(t, s)
        PROVE  SeenAgrees'
    <2>1. /\ UNCHANGED <<open, alertq, batch, inTx, saved, unfinished>>
          /\ \A e \in eventq' : e \in eventq \/ e.id = nextid
      BY <1>3 DEF PostEvent, mem
    <2>2. nextid \notin unfinished
      BY <1>1, RowFacts DEF EngineInv, HeldInv, RowsAreDistinct
    <2> QED
      BY <1>1, <2>1, <2>2, QuietSeen
  <1>4. CASE BeginLoad
    BY <1>4 DEF BeginLoad, NewEvents, db, SeenAgrees
  <1>5. ASSUME NEW e \in batch, Handle(e)
        PROVE  SeenAgrees'
    <2>1. CASE HandleStart(e)
      <3>1. /\ batch' = batch \ {e} /\ eventq' \subseteq eventq
            /\ \A i \in unfinished' : i \in unfinished \/ i = e.id
            /\ UNCHANGED <<open, alertq, inTx, saved>>
        BY <2>1 DEF HandleStart, Frame
      <3>2. \A f \in eventq : f.id = e.id => f \in batch
        BY DEF EngineInv, HeldInv, RowsAreDistinct, AllRows
      <3> QED
        BY <1>1, <3>1, <3>2, QuietSeen
    <2>2. CASE HandleEnd(e)
      BY <2>2, HandleEndSeen
    <2>3. CASE HandleStrange(e)
      BY <1>1, <2>3, QuietSeen DEF HandleStrange, Frame
    <2>4. CASE HandleDirect(e)
      <3>1. /\ open \in [Target -> Nat] /\ alertq \in [Target -> Seq(AlertTypes)]
        BY <1>1 DEF TypeOK
      <3>2. e.target \notin Boxes
        BY <2>4 DEF HandleDirect, Direct, Boxes
      <3>3. \A t \in Boxes : open'[t] = open[t] /\ alertq'[t] = alertq[t]
        BY <2>4, <3>1, <3>2 DEF HandleDirect, Alert, Boxes
      <3> QED
        BY <1>1, <2>4, <3>3, QuietSeen DEF HandleDirect, Frame
    <2>5. CASE HandlerFails(e)
      BY <2>5, HandlerFailsSeen
    <2> QED
      BY <1>5, <2>1, <2>2, <2>3, <2>4, <2>5 DEF Handle
  <1>6. ASSUME NEW k \in tasks, Callback(k) \/ CallbackStops(k)
        PROVE  ~inTx'
    BY <1>6 DEF Callback, MakeDownWarning, MakeDownAlert, CallbackStops, Due, Frame, Wipe
  <1>7. CommitLoad \/ Crash => ~inTx'
    BY DEF CommitLoad, Crash, Wipe
  <1>8. CASE Restart \/ UNCHANGED vars
    BY <1>1, <1>8, QuietSeen DEF Restart, vars, db
  <1>9. ~LoseConnection
    BY DEF LoseConnection
  <1> QED
    BY <1>2, <1>3, <1>4, <1>5, <1>6, <1>7, <1>8, <1>9 DEF Next

\* What is announced, as GracePeriod has it, follows what is appended to the queue.
LEMMA LogFollows ==
  ASSUME NEW s \in Seq(AlertTypes), NEW a \in AlertTypes
  PROVE  [i \in 1..Len(Append(s, a)) |-> Class(Append(s, a)[i])]
           = Append([i \in 1..Len(s) |-> Class(s[i])], Class(a))
  <1> DEFINE q == [i \in 1..Len(s) |-> Class(s[i])]
             C == {"warning", "down", "up"}
  <1>1. \A x : Class(x) \in C
    BY DEF Class
  <1>2. q \in Seq(C) /\ Len(q) = Len(s) /\ Len(s) \in Nat
    BY <1>1, SeqDef, LenProperties
  <1>3. /\ Append(s, a) \in Seq(AlertTypes) /\ Len(Append(s, a)) = Len(s) + 1
        /\ \A i \in 1..Len(s) : Append(s, a)[i] = s[i]
        /\ Append(s, a)[Len(s) + 1] = a
    BY AppendProperties
  <1>4. /\ Append(q, Class(a)) \in Seq(C) /\ Len(Append(q, Class(a))) = Len(s) + 1
        /\ \A i \in 1..Len(s) : Append(q, Class(a))[i] = q[i]
        /\ Append(q, Class(a))[Len(s) + 1] = Class(a)
    BY <1>1, <1>2, AppendProperties
  <1>5. DOMAIN Append(q, Class(a)) = 1..(Len(s) + 1)
    BY <1>4, LenProperties
  <1>6. \A i \in 1..(Len(s) + 1) : Class(Append(s, a)[i]) = Append(q, Class(a))[i]
    BY <1>2, <1>3, <1>4
  <1>7. Append(q, Class(a)) \in [1..(Len(s) + 1) -> C]
    BY <1>4, <1>5, LenProperties
  <1> HIDE DEF C
  <1> QED
    BY <1>3, <1>6, <1>7

\* A row that starts an outage of t, as others see the queue.
SeenStart(t) == \E e \in SeenQueue : e.target = t /\ e.state = "s"

\* What others see is the database itself when no transaction is open.
LEMMA SeenIsReal ==
  ASSUME ~inTx
  PROVE  SeenQueue = eventq /\ SeenOpen = open /\ SeenAlertq = alertq
  BY DEF SeenQueue, SeenOpen, SeenAlertq

\* A step that others see nothing of.
LEMMA UnseenStep ==
  ASSUME NEW t \in Boxes, SeenOpen'[t] = SeenOpen[t], SeenAlertq'[t] = SeenAlertq[t],
         SeenStart(t)' = SeenStart(t)
  PROVE  Phase(t)' = Phase(t) /\ Log(t)' = Log(t)
  BY DEF Phase, Log, SeenStart

\* A step whose alert is posted or not.
LEMMA SeenLog ==
  ASSUME NEW t \in Boxes, NEW a \in AlertTypes, SeenAlertq[t] \in Seq(AlertTypes),
         SeenAlertq'[t] = SeenAlertq[t] \/ SeenAlertq'[t] = Append(SeenAlertq[t], a)
  PROVE  Log(t)' \in {Log(t), Append(Log(t), Class(a))}
  <1>1. CASE SeenAlertq'[t] = SeenAlertq[t]
    BY <1>1 DEF Log
  <1>2. CASE SeenAlertq'[t] = Append(SeenAlertq[t], a)
    BY <1>2, LogFollows DEF Log
  <1> QED
    BY <1>1, <1>2

\* A callback runs outside the transaction, in the grace period of its box.
LEMMA CallbackGrace ==
  ASSUME EngineInv, NEW t \in Boxes, NEW k \in tasks, k.target = t,
         Callback(k) \/ CallbackStops(k)
  PROVE  [Box(t)!Next]_(Box(t)!vars)
  <1>1. /\ TypeOK /\ t \in Target /\ ~inTx /\ ~inTx'
        /\ open \in [Target -> Nat] /\ alertq \in [Target -> Seq(AlertTypes)]
    <2>1. ~inTx /\ ~inTx'
      BY DEF Callback, MakeDownWarning, MakeDownAlert, CallbackStops, Due, Frame, Wipe
    <2> QED
      BY <2>1 DEF EngineInv, OneOpenInv, TypeOK, Boxes
  <1>2. /\ SeenQueue = eventq /\ SeenOpen = open /\ SeenAlertq = alertq
        /\ SeenQueue' = eventq' /\ SeenOpen' = open' /\ SeenAlertq' = alertq'
    BY <1>1 DEF SeenQueue, SeenOpen, SeenAlertq
  <1>3. open[t] = 0 /\ \E e \in eventq : e.id = k.event /\ e.target = t /\ e.state = "s"
    <2>1. open[t] = 0 /\ waiting[t] = k.event
      BY DEF EngineInv, OneOpenInv, TaskIsHeld
    <2>2. k.event \in Nat /\ k.event > 0
      BY <1>1, RowFacts
    <2> QED
      BY <1>1, <2>1, <2>2 DEF EngineInv, HeldInv, WaitsForRow, IsWaiting, NoEvent
  <1>4. Phase(t) = "grace"
    BY <1>2, <1>3 DEF Phase
  <1>5. /\ \A u : WarningType(t, u) \in {"boxShadowWarning", "boxDownWarning"}
        /\ \A u : DownType(t, u) \in {"boxShadow", "boxDown"}
        /\ MayWithhold(t) = {FALSE}
    BY DEF WarningType, DownType, Boxes, MayWithhold
  <1>6. CASE /\ eventq' = eventq /\ open'[t] = 0
             /\ \/ alertq'[t] = alertq[t]
                \/ \E a \in {"boxShadowWarning", "boxDownWarning"} :
                     alertq'[t] = Append(alertq[t], a)
    <2>1. Phase(t)' = "grace"
      BY <1>2, <1>3, <1>6 DEF Phase
    <2>2. PICK a \in {"boxShadowWarning", "boxDownWarning"} :
            alertq'[t] = alertq[t] \/ alertq'[t] = Append(alertq[t], a)
      BY <1>6
    <2>3. Class(a) = "warning" /\ a \in AlertTypes
      BY DEF Class, AlertTypes
    <2>4. Log(t)' \in {Log(t), Append(Log(t), "warning")}
      BY <1>1, <1>2, <2>2, <2>3, SeenLog
    <2> QED
      BY <1>4, <2>1, <2>4 DEF Box!Next, Box!Warn, Box!vars
  <1>7. CASE /\ open'[t] = 1
             /\ \/ alertq'[t] = alertq[t]
                \/ \E a \in {"boxShadow", "boxDown"} : alertq'[t] = Append(alertq[t], a)
    <2>1. Phase(t)' = "down"
      BY <1>2, <1>7 DEF Phase
    <2>2. PICK a \in {"boxShadow", "boxDown"} :
            alertq'[t] = alertq[t] \/ alertq'[t] = Append(alertq[t], a)
      BY <1>7
    <2>3. Class(a) = "down" /\ a \in AlertTypes
      BY DEF Class, AlertTypes
    <2>4. Log(t)' \in {Log(t), Append(Log(t), "down")}
      BY <1>1, <1>2, <2>2, <2>3, SeenLog
    <2> QED
      BY <1>4, <2>1, <2>4 DEF Box!Next, Box!Declare
  <1>8. CASE MakeDownWarning(k)
    BY <1>1, <1>3, <1>5, <1>6, <1>8 DEF MakeDownWarning, Alert
  <1>9. CASE MakeDownAlert(k)
    BY <1>1, <1>3, <1>5, <1>7, <1>9 DEF MakeDownAlert, Alert
  <1>10. CASE CallbackStops(k) /\ k.action = "warning"
    BY <1>1, <1>3, <1>5, <1>6, <1>10 DEF CallbackStops, Alert
  <1>11. CASE CallbackStops(k) /\ k.action # "warning"
    BY <1>1, <1>3, <1>5, <1>6, <1>7, <1>11 DEF CallbackStops, Alert
  <1> QED
    BY <1>8, <1>9, <1>10, <1>11 DEF Callback

\* The commit shows all at once what a queue check did: an outage over, declared or not,
\* maybe with the next one begun.
LEMMA CommitGrace ==
  ASSUME EngineInv, CommitLoad, NEW t \in Boxes
  PROVE  [Box(t)!Next]_(Box(t)!vars)
  <1>1. /\ inTx /\ ~inTx' /\ UNCHANGED <<eventq, open, alertq>> /\ t \in Target
        /\ SeenOpen[t] = saved.open[t] /\ SeenOpen'[t] = open[t]
        /\ SeenAlertq[t] = saved.alertq[t] /\ SeenAlertq'[t] = alertq[t]
        /\ eventq \subseteq SeenQueue /\ SeenQueue' = eventq
    BY DEF CommitLoad, db, SeenOpen, SeenAlertq, SeenQueue, Boxes
  <1>2. /\ open[t] \in Nat /\ saved.open[t] \in Nat /\ saved.alertq[t] \in Seq(AlertTypes)
    BY <1>1 DEF EngineInv, OneOpenInv, TypeOK
  <1>3. SeenStart(t)' => SeenStart(t)
    BY <1>1 DEF SeenStart
  <1>4. CASE open[t] = saved.open[t] /\ alertq[t] = saved.alertq[t]
    <2>1. Log(t)' = Log(t)
      BY <1>1, <1>4 DEF Log
    <2>2. CASE Phase(t)' = Phase(t)
      BY <2>1, <2>2 DEF Box!vars
    <2>3. CASE Phase(t)' # Phase(t)
      <3>1. Phase(t) = "grace" /\ Phase(t)' = "up"
        BY <1>1, <1>2, <1>3, <1>4, <2>3 DEF Phase, SeenStart
      <3> QED
        BY <2>1, <3>1 DEF Box!Next, Box!Transient
    <2> QED
      BY <2>2, <2>3
  <1>5. CASE /\ saved.open[t] > 0 /\ open[t] = 0
             /\ \/ alertq[t] = saved.alertq[t]
                \/ \E a \in {"boxUp", "boxSunny"} : alertq[t] = Append(saved.alertq[t], a)
    <2>1. Phase(t) = "down" /\ Phase(t)' \in {"up", "grace"}
      BY <1>1, <1>5 DEF Phase
    <2>2. PICK a \in {"boxUp", "boxSunny"} :
            alertq[t] = saved.alertq[t] \/ alertq[t] = Append(saved.alertq[t], a)
      BY <1>5
    <2>3. Class(a) = "up" /\ a \in AlertTypes
      BY DEF Class, AlertTypes
    <2>4. Log(t)' \in {Log(t), Append(Log(t), "up")}
      BY <1>1, <1>2, <2>2, <2>3, SeenLog
    <2> QED
      BY <2>1, <2>4 DEF Box!Next, Box!Recover
  <1> QED
    BY <1>1, <1>4, <1>5 DEF EngineInv, SeenAgrees

\* Every step of the engine is, for each box, one of GracePeriod or changes nothing that
\* others see.
LEMMA GraceStep ==
  ASSUME EngineInv, [Next]_vars, "rollback" \notin Faults, NEW t \in Boxes
  PROVE  [Box(t)!Next]_(Box(t)!vars)
  <1>1. TypeOK /\ t \in Target
    BY DEF EngineInv, OneOpenInv, Boxes
  <1>2. CASE /\ SeenOpen'[t] = SeenOpen[t] /\ SeenAlertq'[t] = SeenAlertq[t]
             /\ SeenStart(t)' = SeenStart(t)
    BY <1>2, UnseenStep DEF Box!vars
  <1>3. ASSUME NEW u \in Target, NEW s \in {"s", "e", "x"}, PostEvent(u, s)
        PROVE  [Box(t)!Next]_(Box(t)!vars)
    <2> DEFINE n == [id |-> nextid, target |-> u, state |-> s]
    <2>1. /\ eventq' = eventq \cup {n} /\ UNCHANGED <<open, alertq, inTx, saved>>
      BY <1>3 DEF PostEvent, mem
    <2>2. n.target = u /\ n.state = s
      OBVIOUS
    <2> HIDE DEF n
    <2>3. /\ SeenQueue' = SeenQueue \cup {n}
          /\ SeenOpen' = SeenOpen /\ SeenAlertq' = SeenAlertq
      BY <2>1 DEF SeenQueue, SeenOpen, SeenAlertq
    <2>4. Log(t)' = Log(t)
      BY <2>3 DEF Log
    <2>5. CASE Phase(t)' = Phase(t)
      BY <2>4, <2>5 DEF Box!vars
    <2>6. CASE Phase(t)' # Phase(t)
      <3>1. Phase(t) = "up" /\ Phase(t)' = "grace"
        BY <2>3, <2>6 DEF Phase
      <3> QED
        BY <2>4, <3>1 DEF Box!Next, Box!Fail
    <2> QED
      BY <2>5, <2>6
  <1>4. CASE BeginLoad
    <2>1. /\ SeenOpen' = SeenOpen /\ SeenAlertq' = SeenAlertq /\ SeenQueue' = SeenQueue
      BY <1>4 DEF BeginLoad, db, SeenQueue, SeenOpen, SeenAlertq
    <2> QED
      BY <1>2, <2>1 DEF SeenStart
  <1>5. ASSUME NEW e \in batch, Handle(e)
        PROVE  [Box(t)!Next]_(Box(t)!vars)
    <2>1. /\ inTx /\ inTx' /\ saved' = saved /\ eventq' \subseteq eventq
          /\ \A f \in eventq \ eventq' : f \in batch \/ f.id \in unfinished
      <3>1. inTx
        BY DEF EngineInv, HeldInv, RowsAreDistinct
      <3>2. IsWaiting(e.target) => waiting[e.target] \in unfinished
        BY <1>1, RowFacts DEF EngineInv, HeldInv, WaitsForRow
      <3> QED
        BY <1>5, <3>1, <3>2 DEF Handle, HandleStart, HandleEnd, HandleStrange, Disposed,
           HandleDirect, HandlerFails, Deschedule, RowOf, Frame
    <2>2. \A f \in eventq \ eventq' : f \in saved.eventq
      BY <2>1 DEF EngineInv, SeenAgrees
    <2>3. /\ SeenOpen' = SeenOpen /\ SeenAlertq' = SeenAlertq /\ SeenQueue' = SeenQueue
      BY <2>1, <2>2 DEF SeenQueue, SeenOpen, SeenAlertq
    <2> QED
      BY <1>2, <2>3 DEF SeenStart
  <1>6. CASE CommitLoad
    BY <1>6, CommitGrace
  <1>7. ASSUME NEW k \in tasks, Callback(k) \/ CallbackStops(k)
        PROVE  [Box(t)!Next]_(Box(t)!vars)
    <2>1. CASE k.target = t
      BY <1>7, <2>1, CallbackGrace
    <2>2. CASE k.target # t
      <3>1. ~inTx /\ ~inTx'
        BY <1>7 DEF Callback, MakeDownWarning, MakeDownAlert, CallbackStops, Due,
                          Frame, Wipe
      <3>2. /\ k.target \in Target /\ open \in [Target -> Nat]
            /\ alertq \in [Target -> Seq(AlertTypes)]
        BY <1>1, RowFacts DEF TypeOK
      <3>3. open'[t] = open[t] /\ alertq'[t] = alertq[t]
        BY <1>1, <1>7, <2>2, <3>2
        DEF Callback, MakeDownWarning, MakeDownAlert, CallbackStops, Alert
      <3>4. eventq' \subseteq eventq
        BY <1>7 DEF Callback, MakeDownWarning, MakeDownAlert, CallbackStops
      <3>5. \A f \in eventq \ eventq' : f.target = k.target
        <4>1. waiting[k.target] = k.event /\ k.event > 0 /\ k.event \in Nat
          BY <1>1, RowFacts DEF EngineInv, OneOpenInv, TaskIsHeld
        <4>2. IsWaiting(k.target)
          BY <4>1 DEF IsWaiting, NoEvent
        <4>3. PICK g \in eventq : g.id = waiting[k.target] /\ g.target = k.target
          BY <3>2, <4>2 DEF EngineInv, HeldInv, WaitsForRow
        <4>4. \A f \in eventq \ eventq' : f.id = k.event
          BY <1>7 DEF Callback, MakeDownWarning, MakeDownAlert, CallbackStops, RowOf
        <4> QED
          BY <4>1, <4>3, <4>4 DEF EngineInv, HeldInv, RowsAreDistinct, AllRows
      <3>6. SeenQueue = eventq /\ SeenQueue' = eventq'
        BY <3>1 DEF SeenQueue
      <3>7. SeenStart(t)' = SeenStart(t)
        BY <2>2, <3>4, <3>5, <3>6 DEF SeenStart
      <3> QED
        BY <1>2, <3>1, <3>3, <3>7 DEF SeenOpen, SeenAlertq
    <2> QED
      BY <2>1, <2>2
  <1>8. CASE Crash
    <2>1. ~inTx'
      BY <1>8 DEF Crash, Wipe
    <2>2. /\ SeenOpen' = SeenOpen /\ SeenAlertq' = SeenAlertq /\ SeenQueue' = SeenQueue
      BY <1>8, <2>1 DEF Crash, RollBackTx, db, SeenQueue, SeenOpen, SeenAlertq
    <2> QED
      BY <1>2, <2>2 DEF SeenStart
  <1>9. CASE Restart \/ UNCHANGED vars
    <2>1. /\ SeenOpen' = SeenOpen /\ SeenAlertq' = SeenAlertq /\ SeenQueue' = SeenQueue
      BY <1>9 DEF Restart, vars, db, SeenQueue, SeenOpen, SeenAlertq
    <2> QED
      BY <1>2, <2>1 DEF SeenStart
  <1>10. ~LoseConnection
    BY DEF LoseConnection
  <1> QED
    BY <1>3, <1>4, <1>5, <1>6, <1>7, <1>8, <1>9, <1>10 DEF Next

\* As long as no transaction of a queue check is rolled back, whatever raises and wherever
\* the process dies, the engine implements GracePeriod for every box: no outage is announced
\* without its grace period, none is declared twice, and only a declared one is announced
\* as over.
THEOREM GracePeriodImplemented ==
  ASSUME "rollback" \notin Faults
  PROVE  Spec => ImplementsGracePeriod
  <1>1. Init => SeenAgrees /\ \A t \in Boxes : Box(t)!Init
    <2> SUFFICES ASSUME Init, NEW t \in Boxes
                 PROVE  Phase(t) = "up" /\ Log(t) = <<>>
      BY DEF Init, SeenAgrees, Box!Init
    <2>1. /\ SeenQueue = {} /\ SeenOpen[t] = 0 /\ SeenAlertq[t] = <<>>
      BY DEF Init, SeenQueue, SeenOpen, SeenAlertq, Boxes
    <2> QED
      BY <2>1 DEF Phase, Log
  <1>2. EngineInv /\ [Next]_vars => SeenAgrees'
    BY SeenStep
  <1>3. EngineInv /\ [Next]_vars => \A t \in Boxes : [Box(t)!Next]_(Box(t)!vars)
    BY GraceStep
  <1>4. OneOpenInv /\ HeldInv /\ SeenAgrees => EngineInv
    BY DEF EngineInv
  <1> QED
    BY OneOpenHolds, HeldInvHolds, <1>1, <1>2, <1>3, <1>4, PTL DEF Spec, ImplementsGracePeriod
================================================================================
