------------------------------ MODULE EventEngine ------------------------------
(***************************************************************************)
(* NAV's event engine: one process, one thread, a sched.scheduler.  It     *)
(* turns rows of the event queue into alert states (rows of alerthist that *)
(* stay open until resolved) and alerts (rows of alertq).                  *)
(*                                                                         *)
(*   engine.py                    BeginLoad .. CommitLoad, Handle, faults  *)
(*   plugins/delayedstate.py      HandleStart, HandleEnd, the callbacks    *)
(*   plugins/boxstate.py,                                                  *)
(*   modulestate.py, bgpstate.py,                                          *)
(*   snmpagentstate.py            what differs between the delayed types   *)
(*   plugins/servicestate.py,                                              *)
(*   thresholdstate.py,                                                    *)
(*   maintenancestate.py,                                                  *)
(*   _post_generic_alert          HandleDirect                             *)
(*   alerts.py, unresolved.py     Raise, Resolve, Alert                    *)
(*                                                                         *)
(* A target is the key of an event, EventMixIn.get_key(): a netbox, a      *)
(* subid and an event type.                                                *)
(***************************************************************************)
EXTENDS Naturals, Sequences, FiniteSets

CONSTANTS
  Target,      \* the keys events carry
  Netbox,      \* the monitored devices
  TypeOf,      \* the event type of each target
  NetboxOf,    \* the device of each target
  MaxEvents,   \* bound: events posted in a behaviour
  MaxCrashes,  \* bound: times the engine process dies
  Faults       \* which faults may happen, a subset of FaultKinds

Delayed    == {"boxState", "moduleState", "snmpAgentState", "bgpState"}
Direct     == {"serviceState", "thresholdState", "maintenanceState", "other"}
HasWarning == {"boxState", "moduleState"}
HasState   == {"boxState", "moduleState", "serviceState"}
FaultKinds == {"crash", "exception", "rollback"}

Boxes == {t \in Target : TypeOf[t] = "boxState"}

ASSUME TargetAssumption ==
  /\ TypeOf   \in [Target -> Delayed \cup Direct]
  /\ NetboxOf \in [Target -> Netbox]
ASSUME BoundAssumption == MaxEvents \in Nat /\ MaxCrashes \in Nat
ASSUME FaultAssumption == Faults \subseteq FaultKinds

VARIABLES
  \* the database
  eventq,      \* rows of the event queue: [id, target, state]
  nextid,      \* the sequence behind eventq.eventqid
  alertq,      \* the types of the alerts posted for each target, in order
  open,        \* how many alerthist rows of a target have end_time = infinity
  up,          \* netbox.up, module.up, service.up of the target's subject
  lastEnd,     \* auxiliary: id of the last end event handled for a target
  \* the memory of the process
  running,     \* is the process alive
  unfinished,  \* EventEngine._unfinished
  waiting,     \* __waiting_for_resolve: id of the event of the waiting plugin
  tasks,       \* delayed tasks in the scheduler: [event, target, action]
  batch,       \* new events of the current queue check, not yet handled
  inTx,        \* is load_new_events' transaction open
  saved,       \* the database as it was when that transaction began
  crashes      \* bound: crashes so far

db   == <<eventq, alertq, open, up, lastEnd>>
mem  == <<running, unfinished, waiting, tasks, batch, inTx, saved>>
vars == <<eventq, nextid, alertq, open, up, lastEnd, running, unfinished,
          waiting, tasks, batch, inTx, saved, crashes>>

NoEvent    == 0
Id         == 1..MaxEvents
Event      == [id: Id, target: Target, state: {"s", "e", "x"}]
UpState    == {"y", "n", "s"}
AlertTypes == {"boxDownWarning", "boxShadowWarning", "boxDown", "boxShadow",
               "boxUp", "boxSunny", "warning", "down", "up", "stateless"}
NoSave     == [eventq |-> {}, alertq |-> [t \in Target |-> <<>>],
               open |-> [t \in Target |-> 0], up |-> [t \in Target |-> "y"],
               lastEnd |-> [t \in Target |-> NoEvent]]

--------------------------------------------------------------------------------
(* What the handlers are built from. *)

\* Netbox.get_unresolved_alerts('maintenanceState').count() > 0
OnMaintenance(t) ==
  \E m \in Target : /\ TypeOf[m] = "maintenanceState"
                    /\ NetboxOf[m] = NetboxOf[t]
                    /\ open[m] > 0

\* unresolved.refers_to_unresolved_alert: the map is refreshed before each event.
IsUnresolved(t) == open[t] > 0

IsWaiting(t) == waiting[t] # NoEvent

\* Mutant: only the waiting plugins are asked.
DuplicateIfWaiting(t) == IsWaiting(t)

IsDuplicate(t) == IsUnresolved(t) \/ IsWaiting(t)

\* The states _set_internal_state_down may leave: netbox_appears_reachable
\* walks the topology, which is not modelled.
DownStates(t) == CASE TypeOf[t] = "boxState"                  -> {"n", "s"}
                   [] TypeOf[t] \in HasState \ {"boxState"}   -> {"n"}
                   [] OTHER                                   -> {up[t]}

\* Mutant: the inventory is not set up again.
UpForgotten(t) == up[t]

UpValue(t) == IF TypeOf[t] \in HasState THEN "y" ELSE up[t]

\* Mutant: a box that seems to be back is marked up by the callback.
ShadowMayRecover(t) == {"y", "s"}

\* _verify_shadow, run again by both callbacks of boxState and by no other type.
ShadowStates(t) == IF TypeOf[t] = "boxState" THEN {"n", "s"} ELSE {up[t]}

\* Alert types; u is netbox.up as the handler's own Netbox object has it.
WarningType(t, u) == IF TypeOf[t] # "boxState" THEN "warning"
                     ELSE IF u = "s" THEN "boxShadowWarning" ELSE "boxDownWarning"
DownType(t, u)    == IF TypeOf[t] # "boxState" THEN "down"
                     ELSE IF u = "s" THEN "boxShadow" ELSE "boxDown"
UpType(t, u)      == IF TypeOf[t] # "boxState" THEN "up"
                     ELSE IF u = "s" THEN "boxSunny" ELSE "boxUp"

\* AlertGenerator.post: an alertq row unless post_alert is false.
Alert(t, type, post) ==
  alertq' = [alertq EXCEPT ![t] = IF post THEN Append(@, type) ELSE @]

\* _get_down_alert returns None, or _post_down_warning returns early: the
\* device itself is down (snmpAgentState, from netbox.up), the peer is down
\* (bgpState) or the chassis is gone (moduleState).
MayWithhold(t) ==
  CASE TypeOf[t] = "boxState"       -> {FALSE}
    [] TypeOf[t] = "snmpAgentState" ->
         {\E b \in Target : /\ TypeOf[b] = "boxState"
                            /\ NetboxOf[b] = NetboxOf[t]
                            /\ up[b] # "y"}
    [] OTHER                        -> BOOLEAN

\* alert.post in _handle_end and _make_down_alert
Announced(t) == ~OnMaintenance(t)
\* Mutant: the end of a transient outage is announced too.
UpOfTransient(t) == IsDuplicate(t) /\ ~OnMaintenance(t)

UpAnnounced(t) == IsUnresolved(t) /\ ~OnMaintenance(t)

\* Mutant: a row is taken to exist.
AlwaysResolved(n) == n - 1

\* _resolve_alert_history closes one row of the key, if the map has one.
Resolved(n) == IF n > 0 THEN n - 1 ELSE 0

Task(e, t, a) == [event |-> e, target |-> t, action |-> a]
FirstTask(t)  == Task(waiting'[t], t, IF TypeOf[t] \in HasWarning THEN "warning" ELSE "alert")

\* Mutants: the warning is the last task; a held event is never deleted.
NoTaskAfterWarning(k) == {}
NoRow(id)             == {}

TaskAfterWarning(k) == {Task(k.event, k.target, "alert")}
RowOf(id)     == {e \in eventq : e.id = id}

--------------------------------------------------------------------------------
(* The monitors and other subsystems insert events at any time, in their  *)
(* own transactions, addressed to the engine.                              *)
PostEvent(t, s) ==
  /\ nextid <= MaxEvents
  /\ eventq' = eventq \cup {[id |-> nextid, target |-> t, state |-> s]}
  /\ nextid' = nextid + 1
  /\ UNCHANGED <<alertq, open, up, lastEnd, mem, crashes>>

--------------------------------------------------------------------------------
(* load_new_events: one transaction around a snapshot of the new events. *)

NewEvents == {e \in eventq : e.id \notin unfinished}

BeginLoad ==
  /\ running /\ ~inTx
  /\ NewEvents # {}
  /\ batch' = NewEvents
  /\ inTx' = TRUE
  /\ saved' = [eventq |-> eventq, alertq |-> alertq, open |-> open, up |-> up,
               lastEnd |-> lastEnd]
  /\ UNCHANGED <<db, nextid, running, unfinished, waiting, tasks, crashes>>

CommitLoad ==
  /\ inTx /\ batch = {}
  /\ inTx' = FALSE
  /\ saved' = NoSave
  /\ UNCHANGED <<db, nextid, running, unfinished, waiting, tasks, batch, crashes>>

\* Events are handled in the order of their ids.
IsNext(e) == e \in batch /\ \A f \in batch : e.id <= f.id

Frame == UNCHANGED <<nextid, running, inTx, saved, crashes>>

\* Mutant: a start event is deleted as soon as it is handled.
DisposedAtOnce(e) == {e}

\* The rows _handle_start deletes when it starts to wait: none, the event stays
\* in the queue so that an engine that is restarted finds it again.
Disposed(e) == {}

\* DelayedStateHandler._handle_start
HandleStart(e) ==
  LET t == e.target IN
  /\ IsNext(e) /\ TypeOf[t] \in Delayed /\ e.state = "s"
  /\ batch' = batch \ {e}
  /\ \/ /\ IsDuplicate(t)
        /\ eventq' = eventq \ {e}
        /\ UNCHANGED <<up, waiting, tasks, unfinished>>
     \/ /\ ~IsDuplicate(t)
        /\ \E u \in DownStates(t) : up' = [up EXCEPT ![t] = u]
        /\ waiting' = [waiting EXCEPT ![t] = e.id]
        /\ tasks' = tasks \cup {FirstTask(t)}
        /\ unfinished' = unfinished \cup {e.id}
        /\ eventq' = eventq \ Disposed(e)
  /\ UNCHANGED <<alertq, open, lastEnd>>
  /\ Frame

\* DelayedStateHandler.deschedule.  Cancelling a task that is no longer in the
\* scheduler raises ValueError, and nothing after the cancel happens.
TaskOf(t) == {k \in tasks : k.event = waiting[t]}


\* Mutants: the task stays; the start event that was held stays.
KeepTask(t, e)  == /\ waiting' = [waiting EXCEPT ![t] = NoEvent]
                   /\ eventq' = eventq \ ({e} \cup RowOf(waiting[t]))
                   /\ UNCHANGED tasks
KeepEvent(t, e) == /\ tasks' = tasks \ TaskOf(t)
                   /\ waiting' = [waiting EXCEPT ![t] = NoEvent]
                   /\ eventq' = eventq \ {e}

Deschedule(t, e) ==
  \/ /\ TaskOf(t) # {}
     /\ tasks' = tasks \ TaskOf(t)
     /\ waiting' = [waiting EXCEPT ![t] = NoEvent]
     /\ eventq' = eventq \ ({e} \cup RowOf(waiting[t]))
  \/ /\ TaskOf(t) = {}
     /\ eventq' = eventq \ {e}
     /\ UNCHANGED <<tasks, waiting>>

\* What an end event makes of the inventory and of the open alert states.  The
\* inventory is also corrected when nothing is unresolved (_is_internally_down).
UpAfterEnd(t)   == IF IsDuplicate(t) \/ TypeOf[t] \in HasState THEN UpValue(t) ELSE up[t]
OpenAfterEnd(t) == Resolved(open[t])

\* DelayedStateHandler._handle_end.  The internal state is set up before
\* _get_up_alert looks at it.
HandleEnd(e) ==
  LET t == e.target IN
  /\ IsNext(e) /\ TypeOf[t] \in Delayed /\ e.state = "e"
  /\ batch' = batch \ {e}
  /\ lastEnd' = [lastEnd EXCEPT ![t] = e.id]
  /\ up' = [up EXCEPT ![t] = UpAfterEnd(t)]
  /\ open' = [open EXCEPT ![t] = OpenAfterEnd(t)]
  /\ Alert(t, UpType(t, up'[t]), UpAnnounced(t))
  /\ IF IsWaiting(t) THEN Deschedule(t, e)
                     ELSE eventq' = eventq \ {e} /\ UNCHANGED <<tasks, waiting>>
  /\ UNCHANGED unfinished
  /\ Frame

\* DelayedStateHandler.handle, "ignoring strange stateless event".
HandleStrange(e) ==
  /\ IsNext(e) /\ TypeOf[e.target] \in Delayed /\ e.state = "x"
  /\ batch' = batch \ {e}
  /\ eventq' = eventq \ {e}
  /\ UNCHANGED <<alertq, open, up, lastEnd, waiting, tasks, unfinished>>
  /\ Frame

\* The handlers that act at once.  serviceState has no check for duplicates;
\* thresholdState and maintenanceState ignore stateless events and do not look
\* at the maintenance state of the device.
Ignores(e) ==
  LET type == TypeOf[e.target] IN
  \/ e.state = "x" /\ type \in {"thresholdState", "maintenanceState"}
  \/ e.state = "s" /\ type # "serviceState" /\ IsUnresolved(e.target)

ServiceUp(e) == IF TypeOf[e.target] # "serviceState" \/ e.state = "x" THEN up[e.target]
                ELSE IF e.state = "s" THEN "n" ELSE "y"
OpenAfterDirect(e) == IF Ignores(e) \/ e.state = "x" THEN open[e.target]
                      ELSE IF e.state = "s" THEN open[e.target] + 1
                      ELSE OpenAfterEnd(e.target)

DirectType(s) == CASE s = "s" -> "down" [] s = "e" -> "up" [] OTHER -> "stateless"

HandleDirect(e) ==
  LET t == e.target IN
  /\ IsNext(e) /\ TypeOf[t] \in Direct
  /\ batch' = batch \ {e}
  /\ eventq' = eventq \ {e}
  /\ lastEnd' = IF e.state = "e" THEN [lastEnd EXCEPT ![t] = e.id] ELSE lastEnd
  /\ up' = [up EXCEPT ![t] = ServiceUp(e)]
  /\ open' = [open EXCEPT ![t] = OpenAfterDirect(e)]
  /\ Alert(t, DirectType(e.state),
           /\ ~Ignores(e)
           /\ TypeOf[t] \in {"serviceState", "other"} => Announced(t))
  /\ UNCHANGED <<waiting, tasks, unfinished>>
  /\ Frame

\* A handler raises and its event is deleted.  Nothing else is left when it raises
\* at once, or when a database error rolls its savepoint back.  When the messages
\* of the history row cannot be rendered, the inventory and the row are kept and
\* the alert is not posted; severity rules may fail even before the row is saved.
HandlerFails(e) ==
  LET t   == e.target
      end == e.state = "e" IN
  /\ "exception" \in Faults
  /\ IsNext(e)
  /\ batch' = batch \ {e}
  /\ eventq' = eventq \ {e}
  /\ \/ UNCHANGED <<open, up, lastEnd>>
     \/ /\ TypeOf[t] \in Delayed /\ end /\ IsUnresolved(t)
        /\ open' = [open EXCEPT ![t] = OpenAfterEnd(t)]
        /\ up' = [up EXCEPT ![t] = UpAfterEnd(t)]
        /\ lastEnd' = [lastEnd EXCEPT ![t] = e.id]
     \/ /\ TypeOf[t] \in Direct
        /\ open' \in {open, [open EXCEPT ![t] = OpenAfterDirect(e)]}
        /\ up' = [up EXCEPT ![t] = ServiceUp(e)]
        /\ lastEnd' = IF end THEN [lastEnd EXCEPT ![t] = e.id] ELSE lastEnd
  /\ UNCHANGED <<alertq, waiting, tasks, unfinished>>
  /\ Frame

--------------------------------------------------------------------------------
(* The delayed callbacks.  The scheduler pops a task before it runs it, and *)
(* each database statement of a callback commits on its own.                *)

Due(k) == running /\ ~inTx /\ k \in tasks

\* DelayedStateHandler._make_down_warning and the types' _post_down_warning.
MakeDownWarning(k) ==
  LET t == k.target IN
  /\ Due(k) /\ k.action = "warning"
  /\ \E withheld \in MayWithhold(t), u \in ShadowStates(t) :
       /\ up' = [up EXCEPT ![t] = IF OnMaintenance(t) THEN @ ELSE u]
       /\ Alert(t, WarningType(t, u), Announced(t) /\ ~withheld)
  /\ tasks' = (tasks \ {k}) \cup TaskAfterWarning(k)
  /\ UNCHANGED <<eventq, open, lastEnd, waiting, unfinished, batch>>
  /\ Frame

\* DelayedStateHandler._make_down_alert and the types' _get_down_alert.
MakeDownAlert(k) ==
  LET t == k.target IN
  /\ Due(k) /\ k.action = "alert"
  /\ \E withheld \in MayWithhold(t), u \in ShadowStates(t) :
       /\ up' = [up EXCEPT ![t] = u]
       /\ open' = [open EXCEPT ![t] = IF withheld THEN @ ELSE @ + 1]
       /\ Alert(t, DownType(t, u), ~withheld /\ Announced(t))
  /\ tasks' = tasks \ {k}
  /\ waiting' = [waiting EXCEPT ![t] = NoEvent]
  /\ eventq' = eventq \ RowOf(k.event)
  /\ UNCHANGED <<lastEnd, unfinished, batch>>
  /\ Frame

--------------------------------------------------------------------------------
(* Faults. *)

\* The process dies, or is told to stop: what it had in memory is gone.
Wipe ==
  /\ "crash" \in Faults /\ crashes < MaxCrashes
  /\ crashes' = crashes + 1
  /\ running' = FALSE
  /\ unfinished' = {}
  /\ waiting' = [t \in Target |-> NoEvent]
  /\ tasks' = {}
  /\ batch' = {}
  /\ inTx' = FALSE
  /\ saved' = NoSave

\* An open transaction is rolled back; rows other sessions inserted stay.
RollBackTx ==
  IF inTx THEN /\ eventq' = saved.eventq \cup eventq
               /\ alertq' = saved.alertq
               /\ open' = saved.open
               /\ up' = saved.up
               /\ lastEnd' = saved.lastEnd
          ELSE UNCHANGED db

Crash == running /\ Wipe /\ RollBackTx /\ UNCHANGED nextid

Restart ==
  /\ ~running
  /\ running' = TRUE
  /\ UNCHANGED <<db, nextid, unfinished, waiting, tasks, batch, inTx, saved, crashes>>

\* The connection is lost during load_new_events: the exception is swallowed,
\* the transaction is rolled back and the memory stays as it is.
LoseConnection ==
  /\ "rollback" \in Faults /\ inTx
  /\ RollBackTx
  /\ batch' = {}
  /\ inTx' = FALSE
  /\ saved' = NoSave
  /\ UNCHANGED <<nextid, running, unfinished, waiting, tasks, crashes>>

\* A callback stops half way, after n of its steps: 1 the shadow is verified,
\* 2 the history row is saved, 3 the alert is saved, 4 the plugin is no longer
\* waiting.  Either it raised, and the scheduler swallows the exception, or the
\* process died.
CallbackStops(k) ==
  LET t == k.target
      warn == k.action = "warning"
      type(u) == IF warn THEN WarningType(t, u) ELSE DownType(t, u) IN
  /\ Due(k)
  /\ \E n \in (IF warn THEN 0..3 ELSE 0..4),
        withheld \in MayWithhold(t), u \in ShadowStates(t) :
       /\ up' = [up EXCEPT ![t] = IF n = 0 \/ (warn /\ OnMaintenance(t)) THEN @ ELSE u]
       /\ open' = [open EXCEPT ![t] = IF n >= 2 /\ ~warn /\ ~withheld THEN @ + 1 ELSE @]
       /\ Alert(t, type(u), n >= 3 /\ ~withheld /\ Announced(t))
       /\ \/ /\ "exception" \in Faults
             /\ tasks' = tasks \ {k}
             /\ waiting' = [waiting EXCEPT ![t] = IF n = 4 THEN NoEvent ELSE @]
             /\ UNCHANGED <<running, unfinished, batch, inTx, saved, crashes>>
          \/ Wipe
  /\ UNCHANGED <<eventq, nextid, lastEnd>>

--------------------------------------------------------------------------------
Init ==
  /\ eventq = {} /\ nextid = 1
  /\ alertq = [t \in Target |-> <<>>]
  /\ open = [t \in Target |-> 0]
  /\ up = [t \in Target |-> "y"]
  /\ lastEnd = [t \in Target |-> NoEvent]
  /\ running = TRUE
  /\ unfinished = {}
  /\ waiting = [t \in Target |-> NoEvent]
  /\ tasks = {}
  /\ batch = {} /\ inTx = FALSE /\ saved = NoSave
  /\ crashes = 0

Handle(e) == \/ HandleStart(e) \/ HandleEnd(e) \/ HandleStrange(e)
             \/ HandleDirect(e) \/ HandlerFails(e)

Callback(k) == MakeDownWarning(k) \/ MakeDownAlert(k)

Next ==
  \/ \E t \in Target, s \in {"s", "e", "x"} : PostEvent(t, s)
  \/ BeginLoad
  \/ \E e \in batch : Handle(e)
  \/ CommitLoad
  \/ \E k \in tasks : Callback(k) \/ CallbackStops(k)
  \/ LoseConnection
  \/ Crash
  \/ Restart

Spec == Init /\ [][Next]_vars

(***************************************************************************)
(* The scheduler runs whatever is due: the periodic queue check every      *)
(* CHECK_INTERVAL seconds and each delayed task at its time.  A queue check *)
(* goes through its whole batch; a dead engine is restarted by its         *)
(* operator.  Nothing is assumed of monitors or of faults.                 *)
(***************************************************************************)
Fairness ==
  /\ WF_vars(BeginLoad) /\ WF_vars(CommitLoad) /\ WF_vars(Restart)
  /\ WF_vars(\E e \in batch : Handle(e))
  /\ \A t \in Target : WF_vars(\E k \in tasks : k.target = t /\ Callback(k))

FairSpec == Spec /\ Fairness

--------------------------------------------------------------------------------
(* Properties. *)

\* Every variable keeps its shape; a history row is never resolved twice, and an
\* inventory state is always one the web interface knows.
TypeOK ==
  /\ eventq \subseteq Event
  /\ nextid \in 1..(MaxEvents + 1)
  /\ alertq \in [Target -> Seq(AlertTypes)]
  /\ open \in [Target -> Nat]
  /\ up \in [Target -> UpState]
  /\ lastEnd \in [Target -> Id \cup {NoEvent}]
  /\ running \in BOOLEAN
  /\ unfinished \subseteq Id
  /\ waiting \in [Target -> Id \cup {NoEvent}]
  /\ tasks \subseteq [event : Id, target : Target, action : {"warning", "alert"}]
  /\ batch \subseteq Event
  /\ inTx \in BOOLEAN
  /\ saved \in [eventq : SUBSET Event,
                alertq : [Target -> Seq(AlertTypes)],
                open : [Target -> Nat],
                up : [Target -> UpState],
                lastEnd : [Target -> Id \cup {NoEvent}]]
  /\ crashes \in 0..MaxCrashes

\* A problem has at most one open alert state, however often its start event is
\* repeated and whenever the engine dies: a second row would stay open for ever,
\* as an end event resolves one row only.  serviceState has no such check.
OneOpenState == \A t \in Target : TypeOf[t] # "serviceState" => open[t] <= 1

\* A waiting plugin always has exactly one task in the scheduler, and its start
\* event is still in the queue, marked as unfinished.  Without the task nothing
\* would end the wait, and every later start event would count as a duplicate.
WaitingIsScheduled ==
  /\ \A t \in Target : IsWaiting(t) =>
       /\ \E e \in eventq : e.id = waiting[t] /\ e.target = t /\ e.state = "s"
       /\ waiting[t] \in unfinished
       /\ \E k \in tasks : TaskOf(t) = {k}
  /\ \A k \in tasks : waiting[k.target] = k.event

\* While its alert is held back, a target has no open alert state: the callback
\* inserts its row without asking again whether one is open.
WaitingIsNotOpen == \A t \in Target : IsWaiting(t) => open[t] = 0

\* A start event the engine holds is newer than every end event it has handled
\* for the target: an alert is never raised for a problem already resolved.
HeldStartIsCurrent ==
  \A e \in eventq : e.state = "s" => e.id > lastEnd[e.target]

\* The engine's memory of what it holds back, the scheduler, the queue and the alert
\* states agree: through repeated events, ends that come early and a crash anywhere.
WaitingAgrees == WaitingIsScheduled /\ WaitingIsNotOpen /\ HeldStartIsCurrent

\* What the inventory calls down is accounted for: an open alert state or a start
\* event that still will raise one.  Without it a box stays marked down, and the
\* monitor that reads netbox.up when it starts believes it.
DownIsAccounted ==
  \A t \in Target : TypeOf[t] = "boxState" /\ up[t] # "y" =>
    open[t] > 0 \/ \E e \in eventq : e.target = t /\ e.state = "s"

\* An open boxState alert state means the box is marked down.
OpenIsMarkedDown ==
  \A t \in Target : TypeOf[t] = "boxState" /\ open[t] > 0 => up[t] # "y"

\* The start event of an outage leaves the queue only when the outage has an open
\* alert state, another start event stays in its place, or a later end event is
\* being handled: no outage is forgotten, not even across a crash.
StartNeverLost ==
  [][\A e \in eventq \ eventq' :
        TypeOf[e.target] = "boxState" /\ e.state = "s" =>
          \/ open'[e.target] > 0
          \/ \E f \in eventq' : f.target = e.target /\ f.state = "s"
          \/ \E f \in eventq \ eventq' :
                f.target = e.target /\ f.state = "e" /\ f.id > e.id]_vars

\* Handling an end event leaves nothing of the outage that waited for its target: no
\* plugin waits, none of the target's tasks is in the scheduler, where it would declare
\* the outage that is over, and the start event is gone from the queue, from which a
\* restarted engine would take it up again.  (deschedule: "Deschedules any outstanding
\* task and deletes the associated event".)
EndDeschedules ==
  [][\A e \in batch \ batch' :
        inTx' /\ e.state = "e" /\ TypeOf[e.target] \in Delayed /\ IsWaiting(e.target) =>
          /\ waiting'[e.target] = NoEvent
          /\ \A k \in tasks' : k.target # e.target
          /\ \A f \in eventq' : f.id # waiting[e.target]]_vars

\* Every event is disposed of: handled at once, or when its alert is raised or its
\* end comes.  unfinished never hides a row for good.
EveryEventDisposed ==
  \A i \in Id : (\E e \in eventq : e.id = i) ~> (\A e \in eventq : e.id # i)

\* A box that went down is declared down in the end, unless an end event with a
\* later id was handled.
OutageIsDeclared ==
  \A t \in Target, i \in Id : TypeOf[t] = "boxState" =>
    ((\E e \in eventq : e.id = i /\ e.target = t /\ e.state = "s") ~>
     (open[t] > 0 \/ lastEnd[t] > i))

--------------------------------------------------------------------------------
(***************************************************************************)
(* The refinement: each box, as other sessions of the database see it,     *)
(* behaves as GracePeriod says.  A row that load_new_events deleted is      *)
(* visible to them until it commits.                                       *)
(***************************************************************************)
SeenQueue == IF inTx THEN saved.eventq \cup eventq ELSE eventq
SeenOpen  == IF inTx THEN saved.open ELSE open
SeenAlertq == IF inTx THEN saved.alertq ELSE alertq

Phase(t) == IF SeenOpen[t] > 0 THEN "down"
            ELSE IF \E e \in SeenQueue : e.target = t /\ e.state = "s" THEN "grace"
            ELSE "up"

Class(type) == CASE type \in {"boxDownWarning", "boxShadowWarning"} -> "warning"
                 [] type \in {"boxDown", "boxShadow"} -> "down"
                 [] OTHER -> "up"

Log(t) == [i \in 1..Len(SeenAlertq[t]) |-> Class(SeenAlertq[t][i])]

Box(t) == INSTANCE GracePeriod WITH phase <- Phase(t), log <- Log(t)

\* Each box goes through the grace period before it is declared down, whatever the
\* interleaving of events, callbacks, batches and crashes.
ImplementsGracePeriod ==
  /\ \A t \in Boxes : Box(t)!Init
  /\ [][\A t \in Boxes : [Box(t)!Next]_(Box(t)!vars)]_vars
================================================================================
