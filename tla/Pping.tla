--------------------------------- MODULE Pping ---------------------------------
(***************************************************************************)
(* The parallel pinger: a main thread that pings every box in rounds and   *)
(* reports the boxes whose state changed, and a poster thread that moves   *)
(* the reports from an in-memory queue to the event queue of the database. *)
(* The event engine reads them in the order of their ids and keeps the     *)
(* state of each box in the inventory, where pping reads it when it first  *)
(* sees the box.                                                           *)
(*                                                                         *)
(*   bin/pping.py          UpdateHosts, GenerateEvents, Stop, Start        *)
(*   statemon/circbuf.py   replies, Push                                   *)
(*   statemon/db.py        the poster: Take, InsertEvent, InsertVar        *)
(***************************************************************************)
EXTENDS Naturals, SequencesExt

CONSTANTS
  Box,          \* the devices in the inventory
  NrPing,       \* pping.conf, nrping
  MaxQueue,     \* bound: events in memory, and rows in the event queue
  MaxFailures,  \* bound: failed queries and statements in a behaviour
  MaxRestarts,  \* bound: restarts of the daemon in a behaviour
  Faults        \* which faults may happen, a subset of FaultKinds

FaultKinds == {"query", "commit", "silent", "restart", "return"}

ASSUME NrPingAssumption == NrPing \in Nat \ {0}
ASSUME BoxAssumption == IsFiniteSet(Box)
ASSUME BoundAssumption == {MaxQueue, MaxFailures, MaxRestarts} \subseteq Nat
ASSUME FaultAssumption == Faults \subseteq FaultKinds

VARIABLES
  \* the world and the database
  answering,  \* the boxes that answer a ping now
  hosts,      \* the boxes that hosts_to_ping selects: the groups of a box may change
  up,         \* netbox.up
  eventq,     \* events the engine has not handled, in the order of their ids
  \* the main thread
  pc,         \* "update", "ping" (hosts updated, replies awaited) or "stopped"
  known,      \* keys of netboxmap
  down,       \* self.down
  replies,    \* self.replies: for each box, how many of its newest slots are -1
  queue,      \* _DB.queue
  \* the poster thread
  posting,    \* the event being committed
  stage,      \* "idle", "event" or "var": the statement it executes next
  \* auxiliary and bounds
  lost,       \* requests without an answer in a row, for each box, up to NrPing
  failures,
  restarts

world  == <<answering, hosts>>
main   == <<pc, known, down, replies>>
poster == <<posting, stage>>
bounds == <<failures, restarts>>
vars   == <<answering, hosts, up, eventq, pc, known, down, replies, queue,
            posting, stage, lost, failures, restarts>>

Report  == [box : Box, status : {"down", "up"}]
NoEvent == [box |-> CHOOSE b \in Box : TRUE, status |-> "none"]

\* What is under way to the engine, and what the inventory will say of a box when
\* all of it is handled.
UnderWay == eventq \o (IF stage = "event" THEN <<posting>> ELSE <<>>) \o queue
Of(b)    == {i \in DOMAIN UnderWay : UnderWay[i].box = b}
Final(b) == IF Of(b) = {} THEN up[b]
            ELSE IF UnderWay[Max(Of(b))].status = "down" THEN "n" ELSE "y"

--------------------------------------------------------------------------------
(* The world: boxes come and go, answer or not, whenever they like. *)
Flip(b) ==
  /\ answering' = IF b \in answering THEN answering \ {b} ELSE answering \cup {b}
  /\ UNCHANGED <<hosts, up, eventq, main, queue, poster, lost, bounds>>

\* A box comes back to the list while an event of it is under way only if that
\* race is among the faults.
Regroup(b) ==
  /\ b \in hosts \/ Of(b) = {} \/ "return" \in Faults
  /\ hosts' = IF b \in hosts THEN hosts \ {b} ELSE hosts \cup {b}
  /\ UNCHANGED <<answering, up, eventq, main, queue, poster, lost, bounds>>

--------------------------------------------------------------------------------
(* The main thread. *)

\* Mutants: a new box always starts with a full buffer of -1, or as if it were up.
AllLost(b)  == NrPing
NoneDown(b) == FALSE

\* The buffer of a box seen for the first time: reset_all_to(-1) if it is marked
\* down, else None in every slot.
FirstReplies(b) == IF up[b] # "y" THEN NrPing ELSE 0

StartsDown(b) == up[b] # "y"

\* update_host_list
UpdateHosts ==
  /\ pc = "update"
  /\ pc' = "ping"
  /\ known' = hosts
  /\ down' = down \cup {b \in hosts \ known : StartsDown(b)}
  /\ replies' = [b \in DOMAIN replies \cup hosts |->
                   IF b \in DOMAIN replies THEN replies[b] ELSE FirstReplies(b)]
  /\ UNCHANGED <<world, up, eventq, queue, poster, lost, bounds>>

\* hosts_to_ping when its query fails: the hosts of the last successful query.
KeepHosts ==
  /\ "query" \in Faults /\ failures < MaxFailures
  /\ pc = "update"
  /\ pc' = "ping"
  /\ failures' = failures + 1
  /\ UNCHANGED <<world, up, eventq, known, down, replies, queue, poster, lost, restarts>>

\* CircBuf.push
Push(n, answered) == IF answered THEN 0 ELSE IF n < NrPing THEN n + 1 ELSE n

\* Mutant: boxes that are no longer pinged are not considered down.
DownOfKnown(r) == {b \in DOMAIN r \cap known : r[b] = NrPing}

\* down_now: buffers are never removed, so it includes boxes no longer pinged.
DownNow(r) == {b \in DOMAIN r : r[b] = NrPing}

\* Mutants: a change in one direction is not reported.
NoReport(now) == {}

ReportDown(now) == now \ down
\* "Netbox ... is no longer with us"
ReportUp(now)   == (down \ now) \cap known

Reports(S, status) == SetToSeq({[box |-> b, status |-> status] : b \in S})

\* generate_events, after ping.  The order of the reports of one round is that of
\* a Python set: each box has one at most, so that it does not matter.
GenerateEvents ==
  LET r == [b \in DOMAIN replies |->
              IF b \in known THEN Push(replies[b], b \in answering) ELSE replies[b]]
      new == Reports(ReportDown(DownNow(r)), "down") \o Reports(ReportUp(DownNow(r)), "up") IN
  /\ pc = "ping"
  /\ Len(queue) + Len(new) <= MaxQueue
  /\ pc' = "update"
  /\ replies' = r
  /\ down' = DownNow(r)
  /\ queue' = queue \o new
  /\ lost' = [b \in Box |-> IF b \notin known THEN lost[b]
                            ELSE IF b \in answering THEN 0
                            ELSE IF lost[b] < NrPing THEN lost[b] + 1 ELSE NrPing]
  /\ UNCHANGED <<world, up, eventq, known, poster, bounds>>

--------------------------------------------------------------------------------
(* The poster thread: _DB.run and commit_event.  The two statements of *)
(* commit_event are committed one by one.                              *)

Take ==
  /\ pc # "stopped" /\ stage = "idle" /\ queue # <<>>
  /\ posting' = Head(queue)
  /\ queue' = Tail(queue)
  /\ stage' = "event"
  /\ UNCHANGED <<world, up, eventq, main, lost, bounds>>

InsertEvent ==
  /\ stage = "event" /\ Len(eventq) < MaxQueue
  /\ eventq' = Append(eventq, posting)
  /\ stage' = "var"
  /\ UNCHANGED <<world, up, main, queue, posting, lost, bounds>>

Idle == posting' = NoEvent /\ stage' = "idle"

InsertVar ==
  /\ stage = "var"
  /\ Idle
  /\ UNCHANGED <<world, up, eventq, main, queue, lost, bounds>>

\* new_event: to the end of the queue, behind the events that came later.
Requeue(event) == Append(queue, event)

\* A statement raises: run puts the event back.
InsertFails ==
  /\ "commit" \in Faults /\ failures < MaxFailures
  /\ stage \in {"event", "var"} /\ Len(queue) < MaxQueue
  /\ queue' = Requeue(posting)
  /\ Idle
  /\ failures' = failures + 1
  /\ UNCHANGED <<world, up, eventq, main, lost, restarts>>

\* execute swallows the exception of a failed commit; the variable that would
\* refer to the row that is not there violates a foreign key and is thrown away.
CommitSwallowed ==
  /\ "silent" \in Faults /\ failures < MaxFailures
  /\ stage = "event"
  /\ Idle
  /\ failures' = failures + 1
  /\ UNCHANGED <<world, up, eventq, main, queue, lost, restarts>>

--------------------------------------------------------------------------------
\* The engine handles the first event.  _set_internal_state_down and _up: a
\* duplicate finds the box already marked.
HandleEvent ==
  /\ eventq # <<>>
  /\ up' = [up EXCEPT ![Head(eventq).box] = IF Head(eventq).status = "down" THEN "n" ELSE "y"]
  /\ eventq' = Tail(eventq)
  /\ UNCHANGED <<world, main, queue, poster, lost, bounds>>

--------------------------------------------------------------------------------
\* signalhandler: sys.exit; the poster is a daemon thread and dies with the
\* process, and so does what is in memory.
Stop ==
  /\ "restart" \in Faults /\ restarts < MaxRestarts
  /\ pc # "stopped"
  /\ pc' = "stopped"
  /\ known' = {} /\ down' = {} /\ replies' = <<>>
  /\ queue' = <<>>
  /\ Idle
  /\ restarts' = restarts + 1
  /\ UNCHANGED <<world, up, eventq, lost, failures>>

Start ==
  /\ pc = "stopped"
  /\ pc' = "update"
  /\ UNCHANGED <<world, up, eventq, known, down, replies, queue, poster, lost, bounds>>

--------------------------------------------------------------------------------
Init ==
  /\ answering \in SUBSET Box /\ hosts \in SUBSET Box
  /\ up \in [Box -> {"y", "n"}]
  /\ eventq = <<>>
  /\ pc = "update"
  /\ known = {} /\ down = {} /\ replies = <<>>
  /\ queue = <<>> /\ posting = NoEvent /\ stage = "idle"
  /\ lost = [b \in Box |-> 0]
  /\ failures = 0 /\ restarts = 0

Next ==
  \/ \E b \in Box : Flip(b) \/ Regroup(b)
  \/ UpdateHosts \/ KeepHosts \/ GenerateEvents
  \/ Take \/ InsertEvent \/ InsertVar \/ InsertFails \/ CommitSwallowed
  \/ HandleEvent
  \/ Stop \/ Start

Spec == Init /\ [][Next]_vars

(***************************************************************************)
(* The threads and the engine run; a stopped daemon is started again.      *)
(* Nothing is assumed of the boxes, the inventory or the faults.           *)
(***************************************************************************)
Fairness ==
  /\ WF_vars(UpdateHosts) /\ WF_vars(GenerateEvents)
  /\ WF_vars(Take) /\ WF_vars(InsertEvent) /\ WF_vars(InsertVar)
  /\ WF_vars(HandleEvent)
  /\ WF_vars(Start)

FairSpec == Spec /\ Fairness

--------------------------------------------------------------------------------
(* Properties. *)

\* Every variable keeps its shape; no buffer holds more than its NrPing slots.
TypeOK ==
  /\ answering \subseteq Box /\ hosts \subseteq Box
  /\ up \in [Box -> {"y", "n"}]
  /\ eventq \in Seq(Report) /\ queue \in Seq(Report)
  /\ pc \in {"update", "ping", "stopped"}
  /\ known \subseteq Box /\ down \subseteq Box
  /\ DOMAIN replies \subseteq Box
  /\ \A b \in DOMAIN replies : replies[b] \in 0..NrPing
  /\ stage \in {"idle", "event", "var"}
  /\ posting \in IF stage = "idle" THEN {NoEvent} ELSE Report
  /\ lost \in [Box -> 0..NrPing]
  /\ failures \in 0..MaxFailures /\ restarts \in 0..MaxRestarts

\* Between two rounds, pping and NAV agree on every box that is pinged, but for
\* the events under way: whatever the order of pings, commits, engine steps and
\* changes of the groups, no report is missing.
Agreement ==
  pc = "update" => \A b \in known : b \in down <=> Final(b) = "n"

\* A box that pping no longer has in its list is never newly down, and
\* generate_events never looks it up in netboxmap: the KeyError would end pping.
FrozenIsKnownDown ==
  pc = "ping" => \A b \in DOMAIN replies \ known : replies[b] = NrPing => b \in down

\* A box is reported down only after NrPing requests in a row without an answer,
\* also when it was marked up or down before pping was started.
DownNeedsLosses ==
  [][pc = "ping" /\ pc' = "update" =>
       \A i \in Len(queue) + 1..Len(queue') :
         queue'[i].status = "down" => lost'[queue'[i].box] = NrPing]_vars

\* A box that answers from some time on is marked up in the end, for good.
RecoveryReported ==
  \A b \in Box : <>[](b \in answering \cap hosts) => <>[](up[b] = "y")

\* A box that never answers from some time on is marked down in the end, for good.
OutageReported ==
  \A b \in Box : <>[](b \in hosts \ answering) => <>[](up[b] = "n")
================================================================================
