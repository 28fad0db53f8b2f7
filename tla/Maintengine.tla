------------------------------ MODULE Maintengine ------------------------------
(***************************************************************************)
(* The maintenance engine (maintengine.py) and what it works on: the tasks *)
(* that users edit and cancel, and the maintenance states that the event   *)
(* engine opens and closes when it gets to the events.  A run ends endless *)
(* tasks, moves tasks through their states, compares the tasks with the    *)
(* open states, and posts an event for each difference; nothing but the    *)
(* four parts are transactions.  Cron starts a run every five minutes, and *)
(* a request to the web server that puts a netbox on maintenance runs the  *)
(* same function in its own process: no lock keeps two runs apart.         *)
(***************************************************************************)
EXTENDS Naturals, FiniteSets, SequencesExt

CONSTANTS
  Task,
  Subject,      \* netboxes and services
  SubjectsOf,   \* of each Task, as it was first saved,
  Endless,      \* the tasks that had no end then,
  Invalid,      \* and those whose state was not one of States
  Cron,         \* the runs that cron starts, one after the other
  Request,      \* bound: the requests that start one, once each
  MaxChanges,   \* bound: edits and cancellations by users, and outages
  MaxQueue      \* bound: maintenance events that wait for the event engine

ASSUME BoundAssumption == MaxChanges \in Nat /\ MaxQueue \in Nat \ {0}

States  == {"scheduled", "active", "passed", "canceled"}
Windows == {"before", "within", "after"}
Phases  == {"idle", "ends", "save", "transitions", "differences", "post", "done"}

Run == {Cron} \cup Request

VARIABLES
  state,      \* of each Task; "" for anything that is not one of States
  window,     \* is it before its start_time, or after its end_time
  endless,    \* is its end_time INFINITY
  subjects,   \* get_event_subjects
  tooRecent,  \* the subjects that are down or have not been up for MINIMUM_UPTIME
  on,         \* those with an unresolved maintenanceState alert
  eventq,     \* the maintenanceState events in eventq
  phase,      \* what each Run does next
  ending,     \* the tasks that its check_tasks_without_end will end
  toPost,     \* the events that its check_state_differences will post
  withdrawn,  \* history: the tasks whose users cancelled them and left it at that
  changes

tasks == <<state, window, endless, subjects, withdrawn>>
runs  == <<phase, ending, toPost>>
vars  == <<state, window, endless, subjects, tooRecent, on, eventq, phase, ending, toPost,
           withdrawn, changes>>

StartOf(s) == [state |-> "s", subject |-> s]
EndOf(s)   == [state |-> "e", subject |-> s]

Init ==
  /\ state = [t \in Task |-> IF t \in Invalid THEN "" ELSE "scheduled"]
  /\ window = [t \in Task |-> "before"]
  /\ endless = [t \in Task |-> t \in Endless]
  /\ subjects = SubjectsOf
  /\ tooRecent = {} /\ withdrawn = {}
  /\ on = {} /\ eventq = <<>>
  /\ phase = [r \in Run |-> "idle"]
  /\ ending = [r \in Run |-> {}] /\ toPost = [r \in Run |-> {}]
  /\ changes = 0

--------------------------------------------------------------------------------
(* maintengine *)

\* A run goes on with its next part.
GoesOn(r, from, to) == phase[r] = from /\ phase' = [phase EXCEPT ![r] = to]

\* schedule: invalid states become scheduled.
Schedule(r) ==
  /\ GoesOn(r, "idle", "ends")
  /\ state' = [t \in Task |-> IF state[t] \in States THEN state[t] ELSE "scheduled"]
  /\ UNCHANGED <<window, endless, subjects, withdrawn, tooRecent, on, eventq, ending, toPost,
                 changes>>

\* Mutant: the comparison with the threshold is the wrong way round.
SomeAreDown(t) == subjects[t] \cap tooRecent # {}

AllAreUp(t) == subjects[t] \cap tooRecent = {}

\* check_tasks_without_end reads the tasks and their subjects,
FindEnding(r) ==
  /\ GoesOn(r, "ends", "save")
  /\ ending' = [ending EXCEPT ![r] = {t \in Task : endless[t] /\ state[t] = "active"
                                                  /\ AllAreUp(t)}]
  /\ UNCHANGED <<tasks, tooRecent, on, eventq, toPost, changes>>

\* and saves those it ends as it has read them, whatever became of them.
SaveEnding(r) ==
  /\ GoesOn(r, "save", "transitions")
  /\ state' = [t \in Task |-> IF t \in ending[r] THEN "active" ELSE state[t]]
  /\ window' = [t \in Task |-> IF t \in ending[r] THEN "after" ELSE window[t]]
  /\ endless' = [t \in Task |-> endless[t] /\ t \notin ending[r]]
  /\ ending' = [ending EXCEPT ![r] = {}]
  /\ UNCHANGED <<subjects, withdrawn, tooRecent, on, eventq, toPost, changes>>

\* Mutant: an active task stays active.
ScheduledPast(t) == window[t] = "after" /\ state[t] = "scheduled"

IsPast(t) == window[t] = "after" /\ state[t] \in {"active", "scheduled"}

IsCurrent(t) == window[t] = "within" /\ state[t] = "scheduled"

\* do_state_transitions
Transitions(r) ==
  /\ GoesOn(r, "transitions", "differences")
  /\ state' = [t \in Task |-> IF IsPast(t) THEN "passed"
                              ELSE IF IsCurrent(t) THEN "active" ELSE state[t]]
  /\ UNCHANGED <<window, endless, subjects, withdrawn, tooRecent, on, eventq, ending, toPost,
                 changes>>

Should == UNION {subjects[t] : t \in {u \in Task : state[u] = "active"}}

\* Mutant: what is no longer in any task is not taken off.
OnlyStarts == {StartOf(s) : s \in Should \ on}

Missing == {StartOf(s) : s \in Should \ on} \cup {EndOf(s) : s \in on \ Should}

\* check_state_differences: first all is read,
Differences(r) ==
  /\ GoesOn(r, "differences", "post")
  /\ toPost' = [toPost EXCEPT ![r] = Missing]
  /\ UNCHANGED <<tasks, tooRecent, on, eventq, ending, changes>>

\* then create_event for each difference.
Post(r, e) ==
  /\ phase[r] = "post" /\ e \in toPost[r] /\ Len(eventq) < MaxQueue
  /\ eventq' = Append(eventq, e) /\ toPost' = [toPost EXCEPT ![r] = @ \ {e}]
  /\ UNCHANGED <<tasks, tooRecent, on, phase, ending, changes>>

Exit(r) ==
  /\ toPost[r] = {} /\ GoesOn(r, "post", IF r = Cron THEN "idle" ELSE "done")
  /\ UNCHANGED <<tasks, tooRecent, on, eventq, ending, toPost, changes>>

--------------------------------------------------------------------------------
(* What happens around it. *)

\* MaintenanceStateHandler: a start of what is open, and an end of what is not, are
\* duplicates.
HandleEvent ==
  /\ eventq # <<>>
  /\ LET e == Head(eventq) IN
       on' = IF e.state = "s" THEN on \cup {e.subject} ELSE on \ {e.subject}
  /\ eventq' = Tail(eventq)
  /\ UNCHANGED <<tasks, tooRecent, runs, changes>>

\* A task's start_time is reached, then its end_time.
Tick(t) ==
  /\ window[t] = "before" \/ (window[t] = "within" /\ ~endless[t])
  /\ window' = [window EXCEPT ![t] = IF @ = "before" THEN "within" ELSE "after"]
  /\ UNCHANGED <<state, endless, subjects, withdrawn, tooRecent, on, eventq, runs, changes>>

Change == changes < MaxChanges /\ changes' = changes + 1

\* A user cancels a task.
Cancel(t) ==
  /\ Change /\ state[t] # "canceled"
  /\ state' = [state EXCEPT ![t] = "canceled"] /\ withdrawn' = withdrawn \cup {t}
  /\ UNCHANGED <<window, endless, subjects, tooRecent, on, eventq, runs>>

\* A user saves a task in the form; a task under way is scheduled again.
Edit(t) ==
  /\ Change
  /\ \E w \in {"before", "within"} : window' = [window EXCEPT ![t] = w]
  /\ \E b \in BOOLEAN : endless' = [endless EXCEPT ![t] = b]
  /\ \E ss \in SUBSET Subject \ {{}} : subjects' = [subjects EXCEPT ![t] = ss]
  /\ state' = [state EXCEPT ![t] = "scheduled"] /\ withdrawn' = withdrawn \ {t}
  /\ UNCHANGED <<tooRecent, on, eventq, runs>>

\* A subject goes down; later it has been up for long enough.
GoesDown(s) ==
  /\ Change /\ s \notin tooRecent
  /\ tooRecent' = tooRecent \cup {s}
  /\ UNCHANGED <<tasks, on, eventq, runs>>

StaysUp(s) ==
  /\ s \in tooRecent
  /\ tooRecent' = tooRecent \ {s}
  /\ UNCHANGED <<tasks, on, eventq, runs, changes>>

--------------------------------------------------------------------------------
CheckDevices(r) ==
  \/ Schedule(r) \/ FindEnding(r) \/ SaveEnding(r) \/ Transitions(r) \/ Differences(r)
  \/ Exit(r) \/ \E e \in toPost[r] : Post(r, e)

Next ==
  \/ \E r \in Run : CheckDevices(r)
  \/ HandleEvent
  \/ \E t \in Task : Tick(t) \/ Cancel(t) \/ Edit(t)
  \/ \E s \in Subject : GoesDown(s) \/ StaysUp(s)

Spec == Init /\ [][Next]_vars

(***************************************************************************)
(* Cron starts run after run, a request that has started one goes on, the  *)
(* event engine handles what is queued, and time passes.  Users need do    *)
(* nothing, and what is down may stay down.                                *)
(***************************************************************************)
Fairness == /\ WF_vars(CheckDevices(Cron)) /\ WF_vars(HandleEvent)
            /\ \A r \in Request : WF_vars(phase[r] # "idle" /\ CheckDevices(r))
            /\ \A t \in Task : WF_vars(Tick(t))

FairSpec == Spec /\ Fairness

--------------------------------------------------------------------------------
(* Properties. *)

\* When a run compares the tasks with the open states, those that count have begun, and
\* nobody has cancelled them: a cancelled task that is written back as active by a run that
\* had read it before is passed by its next part.  Only the comparison of another run comes
\* in between, and takes such a task for one under way.
OnlyCurrentTasks == [][\A r \in Run : phase[r] = "differences" /\ phase'[r] = "post" =>
  \A t \in Task : state[t] = "active" =>
    /\ window[t] # "before"
    /\ t \in withdrawn =>
         window[t] = "after" /\ \E o \in Run \ {r} : phase[o] = "transitions"]_vars

\* When users leave the tasks alone, what is on maintenance is in the end what an
\* active task names, although two runs post what each of them has seen missing, events
\* are posted again as long as the event engine has not handled them, and are handled
\* after the task they are for has changed.
Converges == <>[](on = Should)

\* A task that has no end time ends once its subjects are up again, and is not active
\* for good.
EndlessTasksEnd == \A t \in Task :
  []<>(state[t] # "active" \/ window[t] = "before" \/ subjects[t] \cap tooRecent # {})
================================================================================
