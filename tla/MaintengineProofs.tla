--------------------------- MODULE MaintengineProofs ---------------------------
(***************************************************************************)
(* What the maintenance engine compares with the open states, for any      *)
(* tasks, users, subjects and any number of runs at a time: the tasks that *)
(* count have begun, and nobody has cancelled them but while another run   *)
(* has written them back.                                                  *)
(***************************************************************************)
EXTENDS Maintengine, TLAPS

\* What the argument needs to know of the variables.
TaskTypes ==
  /\ state \in [Task -> States \cup {""}]
  /\ window \in [Task -> Windows]
  /\ phase \in [Run -> Phases]
  /\ ending \in [Run -> SUBSET Task]

\* A task that waits for its start is not one that was cancelled: saving it again is
\* what schedules a cancelled task.
ScheduledIsWanted == \A t \in Task : state[t] \in {"scheduled", ""} => t \notin withdrawn

\* An active task has begun.  SaveEnding may make a cancelled one active, but then its
\* end_time is past, and the Transitions of the same run come next.
ActiveIsCurrent == \A t \in Task :
  state[t] = "active" =>
    /\ window[t] # "before"
    /\ t \in withdrawn => window[t] = "after" /\ \E o \in Run : phase[o] = "transitions"

TasksInv == TaskTypes /\ ScheduledIsWanted /\ ActiveIsCurrent

--------------------------------------------------------------------------------
\* Init: no task is active or withdrawn.
LEMMA InitTasks == Init => TasksInv
<1> SUFFICES ASSUME Init PROVE TasksInv
  OBVIOUS
<1>1. phase \in [Run -> Phases] /\ ending \in [Run -> SUBSET Task]
  BY DEF Init, Phases
<1>2. state \in [Task -> States \cup {""}] /\ window \in [Task -> Windows]
  BY DEF Init, States, Windows
<1>3. \A t \in Task : t \notin withdrawn /\ state[t] # "active"
  BY DEF Init
<1> QED BY <1>1, <1>2, <1>3 DEF TasksInv, TaskTypes, ScheduledIsWanted, ActiveIsCurrent

\* A run that goes on changes its phase only; it leaves "transitions" only by Transitions.
LEMMA OnePhase ==
  ASSUME TasksInv, NEW r \in Run, NEW from \in Phases, NEW to \in Phases,
         GoesOn(r, from, to)
  PROVE  /\ phase' \in [Run -> Phases] /\ phase[r] = from /\ phase'[r] = to
         /\ \A o \in Run \ {r} : phase'[o] = phase[o]
BY DEF GoesOn, TasksInv, TaskTypes

\* Schedule: what had no valid state was not cancelled.
LEMMA ScheduleKeeps ==
  ASSUME NEW r \in Run, TasksInv, Schedule(r)
  PROVE  TasksInv'
<1>1. /\ phase' \in [Run -> Phases] /\ phase[r] = "idle"
      /\ \A o \in Run \ {r} : phase'[o] = phase[o]
  BY OnePhase DEF Schedule, Phases
<1> QED BY <1>1 DEF Schedule, TasksInv, TaskTypes, ScheduledIsWanted, ActiveIsCurrent, States

\* FindEnding only chooses tasks.
LEMMA FindEndingKeeps ==
  ASSUME NEW r \in Run, TasksInv, FindEnding(r)
  PROVE  TasksInv'
<1>1. /\ phase' \in [Run -> Phases] /\ phase[r] = "ends"
      /\ \A o \in Run \ {r} : phase'[o] = phase[o]
  BY OnePhase DEF FindEnding, Phases
<1> QED BY <1>1 DEF FindEnding, tasks, TasksInv, TaskTypes, ScheduledIsWanted, ActiveIsCurrent

\* SaveEnding: whatever the user did to a task since, it is past its end_time now.
LEMMA SaveEndingKeeps ==
  ASSUME NEW r \in Run, TasksInv, SaveEnding(r)
  PROVE  TasksInv'
<1>1. /\ phase' \in [Run -> Phases] /\ phase[r] = "save" /\ phase'[r] = "transitions"
      /\ \A o \in Run \ {r} : phase'[o] = phase[o]
  BY OnePhase DEF SaveEnding, Phases
<1>2. TaskTypes' /\ ScheduledIsWanted'
  BY <1>1 DEF SaveEnding, TasksInv, TaskTypes, ScheduledIsWanted, States, Windows
<1>3. ActiveIsCurrent'
  BY <1>1 DEF SaveEnding, TasksInv, TaskTypes, ActiveIsCurrent
<1> QED BY <1>2, <1>3 DEF TasksInv

\* Transitions: an active task that was withdrawn is past and becomes passed, whichever run
\* had written it back; one that becomes active was scheduled.
LEMMA TransitionsKeeps ==
  ASSUME NEW r \in Run, TasksInv, Transitions(r)
  PROVE  TasksInv'
<1>1. phase' \in [Run -> Phases]
  BY OnePhase DEF Transitions, Phases
<1>2. TaskTypes'
  BY <1>1 DEF Transitions, TasksInv, TaskTypes, States
<1>3. ASSUME NEW t \in Task
      PROVE  /\ state'[t] = "active" => (state[t] = "active" /\ ~IsPast(t)) \/ IsCurrent(t)
             /\ state'[t] \in {"scheduled", ""} => state'[t] = state[t]
  BY <1>3 DEF Transitions, IsPast, IsCurrent
<1>4. ScheduledIsWanted'
  BY <1>3 DEF Transitions, TasksInv, ScheduledIsWanted
<1>5. ActiveIsCurrent'
  BY <1>3 DEF Transitions, TasksInv, ScheduledIsWanted, ActiveIsCurrent, IsPast, IsCurrent
<1> QED BY <1>2, <1>4, <1>5 DEF TasksInv

\* What posts events and what ends a run leaves the tasks alone.
LEMMA PostKeeps ==
  ASSUME NEW r \in Run, TasksInv, Differences(r) \/ Exit(r) \/ \E e \in toPost[r] : Post(r, e)
  PROVE  TasksInv'
<1>1. UNCHANGED <<state, window, withdrawn, ending>>
  BY DEF Differences, Exit, Post, tasks
<1>2. /\ phase' \in [Run -> Phases]
      /\ \A o \in Run : phase[o] = "transitions" => phase'[o] = "transitions"
  <2>1. CASE Differences(r)
    BY <2>1, OnePhase DEF Differences, Phases
  <2>2. CASE Exit(r)
    <3>1. GoesOn(r, "post", "idle") \/ GoesOn(r, "post", "done")
      BY <2>2 DEF Exit
    <3> QED BY <3>1, OnePhase DEF Phases
  <2>3. CASE \E e \in toPost[r] : Post(r, e)
    BY <2>3 DEF Post, TasksInv, TaskTypes
  <2> QED BY <2>1, <2>2, <2>3
<1> QED BY <1>1, <1>2 DEF TasksInv, TaskTypes, ScheduledIsWanted, ActiveIsCurrent

\* Users and time: a saved task is scheduled, a cancelled one is not active, and time
\* only goes on.
LEMMA UsersKeep ==
  ASSUME NEW t \in Task, TasksInv, Tick(t) \/ Cancel(t) \/ Edit(t)
  PROVE  TasksInv'
<1>1. CASE Tick(t)
  BY <1>1 DEF Tick, runs, TasksInv, TaskTypes, ScheduledIsWanted, ActiveIsCurrent, Windows
<1>2. CASE Cancel(t)
  BY <1>2 DEF Cancel, runs, TasksInv, TaskTypes, ScheduledIsWanted, ActiveIsCurrent, States
<1>3. CASE Edit(t)
  BY <1>3 DEF Edit, runs, TasksInv, TaskTypes, ScheduledIsWanted, ActiveIsCurrent, States,
              Windows
<1> QED BY <1>1, <1>2, <1>3

\* The other steps leave the tasks and the runs alone.
LEMMA OthersKeep ==
  ASSUME TasksInv,
         HandleEvent \/ (\E s \in Subject : GoesDown(s) \/ StaysUp(s)) \/ UNCHANGED vars
  PROVE  TasksInv'
<1>1. UNCHANGED <<state, window, withdrawn, ending, phase>>
  BY DEF HandleEvent, GoesDown, StaysUp, tasks, runs, vars
<1> QED BY <1>1 DEF TasksInv, TaskTypes, ScheduledIsWanted, ActiveIsCurrent

\* The invariant behind OnlyCurrentTasks, kept by every step of every run.
THEOREM TasksInvHolds == Spec => []TasksInv
<1>1. TasksInv /\ [Next]_vars => TasksInv'
  <2> SUFFICES ASSUME TasksInv, [Next]_vars PROVE TasksInv'
    OBVIOUS
  <2>1. ASSUME NEW r \in Run, CheckDevices(r)
        PROVE  TasksInv'
    BY <2>1, ScheduleKeeps, FindEndingKeeps, SaveEndingKeeps, TransitionsKeeps, PostKeeps
       DEF CheckDevices
  <2>2. ASSUME NEW t \in Task, Tick(t) \/ Cancel(t) \/ Edit(t)
        PROVE  TasksInv'
    BY <2>2, UsersKeep
  <2> QED BY <2>1, <2>2, OthersKeep DEF Next
<1> QED BY InitTasks, <1>1, PTL DEF Spec

\* When a run compares the tasks with the open states (check_state_differences), those that
\* count have begun and nobody has cancelled them, whenever users cancel and edit tasks and
\* however many runs are under way: but for a task that another run has written back and
\* will pass by its next part.
THEOREM OnlyCurrentTasksHolds == Spec => OnlyCurrentTasks
<1>1. TasksInv /\ [Next]_vars =>
        [\A r \in Run : phase[r] = "differences" /\ phase'[r] = "post" =>
           \A t \in Task : state[t] = "active" =>
             /\ window[t] # "before"
             /\ t \in withdrawn =>
                  window[t] = "after" /\ \E o \in Run \ {r} : phase[o] = "transitions"]_vars
  BY DEF TasksInv, ActiveIsCurrent
<1> QED BY <1>1, TasksInvHolds, PTL DEF Spec, OnlyCurrentTasks
================================================================================
