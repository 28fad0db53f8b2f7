------------------------------ MODULE PpingProofs ------------------------------
(***************************************************************************)
(* Theorems about Pping, for every set of boxes, every nrping and every    *)
(* combination of faults.                                                  *)
(***************************************************************************)
EXTENDS Pping, FiniteSetTheorems, SequenceTheorems, WellFoundedInduction, TLAPS

\* What pping keeps of a box it has ever pinged: a buffer, and when that is all
\* -1 the box is in self.down.
BuffersInv ==
  /\ known \subseteq DOMAIN replies
  /\ \A b \in DOMAIN replies : replies[b] = NrPing => b \in down

\* pping starts without buffers.
LEMMA BuffersInit == Init => BuffersInv
  BY DEF Init, BuffersInv

\* A box that is seen for the first time starts with a buffer that fits its mark.
LEMMA UpdateHostsBuffers ==
  ASSUME BuffersInv, UpdateHosts
  PROVE  BuffersInv'
  <1>1. DOMAIN replies' = DOMAIN replies \cup hosts /\ known' = hosts
    BY DEF UpdateHosts
  <1>2. ASSUME NEW b \in DOMAIN replies', replies'[b] = NrPing
        PROVE  b \in down'
    <2>1. CASE b \in DOMAIN replies
      BY <1>1, <1>2, <2>1 DEF UpdateHosts, BuffersInv
    <2>2. CASE b \notin DOMAIN replies
      <3>1. b \in hosts \ known
        BY <1>1, <2>2 DEF BuffersInv
      <3>2. FirstReplies(b) = NrPing
        BY <1>1, <1>2, <2>2 DEF UpdateHosts
      <3>3. StartsDown(b)
        BY <3>2, NrPingAssumption DEF FirstReplies, StartsDown
      <3> QED
        BY <3>1, <3>3 DEF UpdateHosts
    <2> QED
      BY <2>1, <2>2
  <1> QED
    BY <1>1, <1>2 DEF BuffersInv

\* A round leaves a full buffer only to a box that it puts in down.
LEMMA GenerateEventsBuffers ==
  ASSUME BuffersInv, GenerateEvents
  PROVE  BuffersInv'
  <1>1. DOMAIN replies' = DOMAIN replies /\ down' = DownNow(replies') /\ known' = known
    BY DEF GenerateEvents, main
  <1> QED
    BY <1>1 DEF BuffersInv, DownNow

\* Every step keeps the buffers.
LEMMA BuffersStep ==
  ASSUME BuffersInv, [Next]_vars
  PROVE  BuffersInv'
  <1>1. CASE UpdateHosts
    BY <1>1, UpdateHostsBuffers
  <1>2. CASE GenerateEvents
    BY <1>2, GenerateEventsBuffers
  <1>3. CASE Stop
    BY <1>3 DEF Stop, BuffersInv
  <1>4. CASE UNCHANGED <<known, down, replies>>
    BY <1>4 DEF BuffersInv
  <1>5. ASSUME NEW b \in Box, Flip(b) \/ Regroup(b)
        PROVE  UNCHANGED <<known, down, replies>>
    BY <1>5 DEF Flip, Regroup, main
  <1>6. CASE KeepHosts \/ Start
    BY <1>6, <1>4 DEF KeepHosts, Start
  <1>7. CASE Take \/ InsertEvent \/ InsertVar \/ InsertFails \/ CommitSwallowed \/ HandleEvent
    BY <1>7, <1>4 DEF Take, InsertEvent, InsertVar, InsertFails, CommitSwallowed,
                      HandleEvent, main
  <1>8. CASE UNCHANGED vars
    BY <1>8, <1>4 DEF vars
  <1> QED
    BY <1>1, <1>2, <1>3, <1>4, <1>5, <1>6, <1>7, <1>8 DEF Next

\* No list of hosts, restart or failing statement makes pping take a box that is
\* no longer in its list for newly down.
THEOREM FrozenIsKnownDownHolds == Spec => []FrozenIsKnownDown
  <1>1. BuffersInv /\ [Next]_vars => BuffersInv'
    BY BuffersStep
  <1>2. BuffersInv => FrozenIsKnownDown
    BY DEF BuffersInv, FrozenIsKnownDown
  <1> QED
    BY BuffersInit, <1>1, <1>2, PTL DEF Spec

\* What that is for: every box that generate_events reports as down is one it can
\* look up in netboxmap.
THEOREM ReportedIsKnown ==
  ASSUME BuffersInv, GenerateEvents
  PROVE  ReportDown(DownNow(replies')) \subseteq known
  <1>1. ASSUME NEW b \in DOMAIN replies \ known
        PROVE  replies'[b] = replies[b]
    BY <1>1 DEF GenerateEvents
  <1>2. DOMAIN replies' = DOMAIN replies
    BY DEF GenerateEvents
  <1> QED
    BY <1>1, <1>2 DEF ReportDown, DownNow, BuffersInv

--------------------------------------------------------------------------------
(* A buffer never holds more -1 than there were losses, unless it is full of them. *)

QueueTypes ==
  /\ hosts \subseteq Box /\ known \subseteq Box /\ DOMAIN replies \subseteq Box
  /\ queue \in Seq(Report) /\ stage \in {"idle", "event", "var"}
  /\ stage # "idle" => posting \in Report

LossesInv ==
  /\ \A b \in Box : lost[b] \in 0..NrPing
  /\ lost \in [Box -> Nat]
  /\ \A b \in DOMAIN replies : /\ replies[b] \in 0..NrPing
                               /\ replies[b] < NrPing => replies[b] <= lost[b]

CountInv == BuffersInv /\ QueueTypes /\ LossesInv

\* A sequence of all elements of a finite set.
LEMMA SequenceOfSet ==
  ASSUME NEW S, IsFiniteSet(S)
  PROVE  SetToSeq(S) \in Seq(S)
<1>1. PICK f \in Bijection(1..Cardinality(S), S) : TRUE
  BY FS_CardinalityType DEF ExistsBijection
<1>2. f \in [1..Cardinality(S) -> S] /\ IsInjective(f)
  BY <1>1 DEF Bijection, Injection, IsInjective
<1>3. SetToSeq(S) \in [1..Cardinality(S) -> S]
  BY <1>2 DEF SetToSeq
<1>4. Cardinality(S) \in Nat
  BY FS_CardinalityType
<1> QED BY <1>3, <1>4

\* Every element is in it.
LEMMA SequenceHasAll ==
  ASSUME NEW S, IsFiniteSet(S), NEW x \in S
  PROVE  \E i \in DOMAIN SetToSeq(S) : SetToSeq(S)[i] = x
<1> DEFINE n == Cardinality(S)
           Q(f) == f \in [1..n -> S] /\ IsInjective(f)
<1>1. IsFiniteSet(S) /\ n \in Nat
  BY FS_CardinalityType
<1>2. PICK g \in Bijection(1..n, S) : TRUE
  BY FS_CardinalityType DEF ExistsBijection
<1>3. g \in [1..n -> S] /\ IsInjective(g)
  BY <1>2 DEF Bijection, Injection, IsInjective
<1>4. SetToSeq(S) \in [1..n -> S] /\ IsInjective(SetToSeq(S))
  BY <1>3 DEF SetToSeq
<1> DEFINE h == SetToSeq(S)
<1> HIDE DEF h, n
<1>5. h \in Injection(1..n, S)
  BY <1>4 DEF Injection, IsInjective, h
<1>6. h \in Surjection(1..n, S)
  <2>1. IsFiniteSet(1..n) /\ Cardinality(1..n) = n
    <3>1. Cardinality(1..n) = IF 1 > n THEN 0 ELSE n - 1 + 1
      BY <1>1, FS_Interval
    <3>2. IsFiniteSet(1..n)
      BY <1>1, FS_Interval
    <3> QED BY <1>1, <3>1, <3>2
  <2> QED BY <1>1, <1>5, <2>1, FS_Injection DEF n
<1>7. PICK i \in 1..n : h[i] = x
  BY <1>6 DEF Surjection
<1>8. DOMAIN h = 1..n
  BY <1>4 DEF h
<1> QED BY <1>7, <1>8 DEF h

\* The reports about a set of boxes.
LEMMA ReportsAreReports ==
  ASSUME NEW S \in SUBSET Box, NEW st \in {"down", "up"}
  PROVE  /\ Reports(S, st) \in Seq(Report)
         /\ \A i \in DOMAIN Reports(S, st) : /\ Reports(S, st)[i].status = st
                                             /\ Reports(S, st)[i].box \in S
<1> DEFINE T == {[box |-> b, status |-> st] : b \in S}
           f == [b \in S |-> [box |-> b, status |-> st]]
<1>1. f \in Surjection(S, T)
  BY DEF Surjection
<1>2. IsFiniteSet(S)
  BY BoxAssumption, FS_Subset
<1>3. IsFiniteSet(T)
  BY <1>1, <1>2, FS_Surjection
<1>4. SetToSeq(T) \in Seq(T)
  BY <1>3, SequenceOfSet
<1>5. \A x \in T : x \in Report /\ x.status = st /\ x.box \in S
  BY DEF Report
<1> HIDE DEF T
<1>6. SetToSeq(T) \in Seq(Report) /\ \A i \in DOMAIN SetToSeq(T) : SetToSeq(T)[i] \in T
  BY <1>4, <1>5
<1>7. Reports(S, st) = SetToSeq(T)
  BY DEF Reports, T
<1> QED BY <1>5, <1>6, <1>7

\* What generate_events puts in the queue, after what is there.
LEMMA GeneratedReports ==
  ASSUME CountInv, GenerateEvents
  PROVE  /\ queue' \in Seq(Report)
         /\ \A i \in (Len(queue) + 1)..Len(queue') :
              queue'[i].status = "down" => queue'[i].box \in ReportDown(DownNow(replies'))
<1> DEFINE downs == Reports(ReportDown(DownNow(replies')), "down")
           ups   == Reports(ReportUp(DownNow(replies')), "up")
<1>1. queue' = queue \o (downs \o ups) /\ DOMAIN replies' = DOMAIN replies
  BY DEF GenerateEvents
<1>2. ReportDown(DownNow(replies')) \subseteq Box /\ ReportUp(DownNow(replies')) \subseteq Box
  BY <1>1 DEF CountInv, QueueTypes, ReportDown, ReportUp, DownNow
<1>3. /\ downs \in Seq(Report) /\ ups \in Seq(Report)
      /\ \A i \in DOMAIN downs : downs[i].box \in ReportDown(DownNow(replies'))
      /\ \A i \in DOMAIN ups : ups[i].status = "up"
  BY <1>2, ReportsAreReports
<1>4. queue \in Seq(Report)
  BY DEF CountInv, QueueTypes
<1> HIDE DEF downs, ups
<1>5. /\ downs \o ups \in Seq(Report) /\ queue' \in Seq(Report)
      /\ Len(downs \o ups) = Len(downs) + Len(ups)
      /\ Len(queue') = Len(queue) + Len(downs) + Len(ups)
      /\ Len(queue) \in Nat /\ Len(downs) \in Nat /\ Len(ups) \in Nat
      /\ DOMAIN downs = 1..Len(downs) /\ DOMAIN ups = 1..Len(ups)
  BY <1>1, <1>3, <1>4, ConcatProperties, LenProperties
<1>6. ASSUME NEW i \in (Len(queue) + 1)..Len(queue'), queue'[i].status = "down"
      PROVE  queue'[i].box \in ReportDown(DownNow(replies'))
  <2> DEFINE k == i - Len(queue)
  <2>1. k \in 1..(Len(downs) + Len(ups)) /\ queue'[i] = (downs \o ups)[k]
    BY <1>1, <1>3, <1>4, <1>5, ConcatProperties
  <2>2. CASE k <= Len(downs)
    <3>1. k \in DOMAIN downs /\ (downs \o ups)[k] = downs[k]
      BY <1>3, <1>5, <2>1, <2>2, ConcatProperties
    <3> QED BY <1>3, <2>1, <3>1
  <2>3. CASE k > Len(downs)
    <3>1. k - Len(downs) \in DOMAIN ups /\ (downs \o ups)[k] = ups[k - Len(downs)]
      BY <1>3, <1>5, <2>1, <2>3, ConcatProperties
    <3> QED BY <1>3, <1>6, <2>1, <3>1
  <2> QED BY <1>5, <2>1, <2>2, <2>3
<1> QED BY <1>5, <1>6

\* A round adds at most one -1 to a buffer, when there was one more loss.
LEMMA GeneratedLosses ==
  ASSUME CountInv, GenerateEvents
  PROVE  /\ LossesInv'
         /\ \A b \in ReportDown(DownNow(replies')) : lost'[b] = NrPing
<1>1. /\ replies' = [b \in DOMAIN replies |-> IF b \in known
                       THEN Push(replies[b], b \in answering) ELSE replies[b]]
      /\ lost' = [b \in Box |-> IF b \notin known THEN lost[b]
                                ELSE IF b \in answering THEN 0
                                ELSE IF lost[b] < NrPing THEN lost[b] + 1 ELSE NrPing]
  BY DEF GenerateEvents
<1>2. ASSUME NEW b \in DOMAIN replies
      PROVE  /\ b \in Box /\ replies'[b] \in 0..NrPing
             /\ replies'[b] < NrPing => replies'[b] <= lost'[b]
             /\ replies[b] # NrPing /\ replies'[b] = NrPing => lost'[b] = NrPing
  <2>1. b \in Box /\ lost[b] \in 0..NrPing /\ replies[b] \in 0..NrPing
    BY DEF CountInv, QueueTypes, LossesInv
  <2>2. replies[b] < NrPing => replies[b] <= lost[b]
    BY DEF CountInv, LossesInv
  <2> QED BY <1>1, <2>1, <2>2, NrPingAssumption DEF Push
<1>3. \A b \in Box : lost'[b] \in 0..NrPing
  BY <1>1, NrPingAssumption DEF CountInv, LossesInv
<1>4. lost' \in [Box -> Nat] /\ DOMAIN replies' = DOMAIN replies
  BY <1>1, NrPingAssumption DEF CountInv, LossesInv
<1>5. LossesInv'
  BY <1>2, <1>3, <1>4 DEF LossesInv
<1>6. \A b \in ReportDown(DownNow(replies')) :
        b \in DOMAIN replies /\ replies'[b] = NrPing /\ replies[b] # NrPing
  BY <1>4 DEF ReportDown, DownNow, CountInv, BuffersInv
<1> QED BY <1>2, <1>5, <1>6

\* The invariant behind DownNeedsLosses, kept by every step.
LEMMA CountStep ==
  ASSUME CountInv, [Next]_vars
  PROVE  QueueTypes' /\ LossesInv'
<1>1. CASE UpdateHosts
  <2>1. /\ known' = hosts /\ UNCHANGED <<hosts, queue, stage, posting, lost>>
        /\ replies' = [b \in DOMAIN replies \cup hosts |->
             IF b \in DOMAIN replies THEN replies[b] ELSE FirstReplies(b)]
    BY <1>1 DEF UpdateHosts, world, poster
  <2>2. \A b : FirstReplies(b) \in {0, NrPing}
    BY DEF FirstReplies
  <2>3. QueueTypes'
    BY <2>1 DEF CountInv, QueueTypes
  <2>4. LossesInv'
    BY <2>1, <2>2, NrPingAssumption DEF CountInv, QueueTypes, LossesInv
  <2> QED BY <2>3, <2>4
<1>2. CASE GenerateEvents
  <2>1. DOMAIN replies' = DOMAIN replies /\ UNCHANGED <<hosts, known, stage, posting>>
    BY <1>2 DEF GenerateEvents, world, poster
  <2> QED BY <1>2, <2>1, GeneratedReports, GeneratedLosses DEF CountInv, QueueTypes
<1>3. CASE Stop
  <2>1. /\ known' = {} /\ replies' = <<>> /\ queue' = <<>> /\ stage' = "idle"
        /\ UNCHANGED <<hosts, lost>>
    BY <1>3 DEF Stop, Idle, world
  <2>2. queue' \in Seq(Report)
    BY <2>1
  <2> QED BY <2>1, <2>2 DEF CountInv, QueueTypes, LossesInv
<1>4. ASSUME UNCHANGED <<known, replies, lost>>, hosts' \subseteq Box, queue' \in Seq(Report),
             stage' \in {"idle", "event", "var"}, stage' # "idle" => posting' \in Report
      PROVE  QueueTypes' /\ LossesInv'
  BY <1>4 DEF CountInv, QueueTypes, LossesInv
<1>5. CASE \E b \in Box : Flip(b) \/ Regroup(b)
  <2>1. /\ UNCHANGED <<known, replies, lost, queue, stage, posting>> /\ hosts' \subseteq Box
    BY <1>5 DEF Flip, Regroup, main, poster, CountInv, QueueTypes
  <2> QED BY <1>4, <2>1 DEF CountInv, QueueTypes
<1>6. CASE KeepHosts \/ Start \/ HandleEvent \/ UNCHANGED vars
  <2>1. UNCHANGED <<known, replies, lost, queue, stage, posting, hosts>>
    BY <1>6 DEF KeepHosts, Start, HandleEvent, main, poster, world, vars
  <2> QED BY <1>4, <2>1 DEF CountInv, QueueTypes
<1>7. CASE Take
  <2>1. /\ UNCHANGED <<known, replies, lost, hosts>> /\ queue # <<>>
        /\ posting' = Head(queue) /\ queue' = Tail(queue) /\ stage' = "event"
    BY <1>7 DEF Take, main, world
  <2>2. posting' \in Report /\ queue' \in Seq(Report)
    BY <2>1, HeadTailProperties DEF CountInv, QueueTypes
  <2> QED BY <1>4, <2>1, <2>2 DEF CountInv, QueueTypes
<1>8. CASE InsertEvent \/ InsertVar \/ CommitSwallowed
  <2>1. /\ UNCHANGED <<known, replies, lost, hosts, queue>>
        /\ (stage' = "var" /\ stage = "event" /\ posting' = posting) \/ stage' = "idle"
    BY <1>8 DEF InsertEvent, InsertVar, CommitSwallowed, Idle, main, world
  <2> QED BY <1>4, <2>1 DEF CountInv, QueueTypes
<1>9. CASE InsertFails
  <2>1. /\ UNCHANGED <<known, replies, lost, hosts>> /\ stage' = "idle"
        /\ stage # "idle" /\ queue' = Append(queue, posting)
    BY <1>9 DEF InsertFails, Idle, Requeue, main, world
  <2>2. queue' \in Seq(Report)
    BY <2>1, AppendProperties DEF CountInv, QueueTypes
  <2> QED BY <1>4, <2>1, <2>2 DEF CountInv, QueueTypes
<1> QED BY <1>1, <1>2, <1>3, <1>5, <1>6, <1>7, <1>8, <1>9 DEF Next

\* A box is reported down only after NrPing requests in a row without an answer, through
\* restarts, failures and changes of the list of hosts: a buffer that is new is empty, or
\* full and then not newly so.
THEOREM DownNeedsLossesHolds == Spec => DownNeedsLosses
<1>1. Init => CountInv
  <2>1. Init => QueueTypes /\ LossesInv
    BY NrPingAssumption DEF Init, QueueTypes, LossesInv
  <2> QED BY <2>1, BuffersInit DEF CountInv
<1>2. CountInv /\ [Next]_vars => CountInv'
  BY BuffersStep, CountStep DEF CountInv
<1>3. CountInv /\ [Next]_vars =>
        [pc = "ping" /\ pc' = "update" =>
           \A i \in Len(queue) + 1..Len(queue') :
             queue'[i].status = "down" => lost'[queue'[i].box] = NrPing]_vars
  <2> SUFFICES ASSUME CountInv, Next, pc = "ping", pc' = "update",
                      NEW i \in (Len(queue) + 1)..Len(queue'), queue'[i].status = "down"
               PROVE  lost'[queue'[i].box] = NrPing
    BY Zenon
  <2>1. GenerateEvents
    BY DEF Next, Flip, Regroup, UpdateHosts, KeepHosts, Take, InsertEvent, InsertVar,
           InsertFails, CommitSwallowed, HandleEvent, Stop, Start, main
  <2> QED BY <2>1, GeneratedReports, GeneratedLosses
<1> QED BY <1>1, <1>2, <1>3, PTL DEF Spec, DownNeedsLosses

--------------------------------------------------------------------------------
(* Agreement: without faults of the database and restarts, what pping knows of a   *)
(* box is what the inventory will say when the reports under way are handled.      *)

\* Of and Final for any reports u under way and any inventory p.
About(u, b) == {i \in DOMAIN u : u[i].box = b}
Mark(e) == IF e.status = "down" THEN "n" ELSE "y"
Outcome(u, p, b) == IF About(u, b) = {} THEN p[b] ELSE Mark(u[Max(About(u, b))])

IsLast(u, b, i) == i \in About(u, b) /\ \A j \in About(u, b) : j <= i

\* Final is the outcome of what is under way now, and after a step.
LEMMA FinalIsOutcome ==
  ASSUME NEW b
  PROVE  /\ Of(b) = About(UnderWay, b) /\ Final(b) = Outcome(UnderWay, up, b)
         /\ Of(b)' = About(UnderWay', b) /\ Final(b)' = Outcome(UnderWay', up', b)
  BY DEF Of, Final, About, Outcome, Mark

\* Some report about a box is the last one.
LEMMA LastExists ==
  ASSUME NEW u \in Seq(Report), NEW b, About(u, b) # {}
  PROVE  \E i \in About(u, b) : IsLast(u, b, i)
<1> DEFINE n == Len(u)
           S == {n - i : i \in About(u, b)}
           R == {p \in Nat \X Nat : p[1] < p[2]}
<1>1. n \in Nat /\ About(u, b) \subseteq 1..n
  BY DEF About
<1>2. S \subseteq Nat /\ S # {}
  BY <1>1
<1>3. IsWellFoundedOn(R, Nat)
  BY NatLessThanWellFounded, Zenon DEF OpToRel
<1> HIDE DEF S
<1>4. PICK x \in S : \A y \in S : ~(<<y, x>> \in R)
  BY <1>2, <1>3, WFMin
<1>5. \A y \in S : y \in Nat /\ x \in Nat /\ ~(y < x)
  BY <1>2, <1>4
<1>6. PICK i \in About(u, b) : x = n - i
  BY DEF S
<1>7. ASSUME NEW j \in About(u, b) PROVE j <= i
  <2>1. ~(n - j < x)
    BY <1>5 DEF S
  <2> QED BY <1>1, <1>6, <2>1
<1> QED BY <1>7 DEF IsLast

\* The outcome is that of the last report.
LEMMA OutcomeOfLast ==
  ASSUME NEW u \in Seq(Report), NEW p, NEW b, NEW i, IsLast(u, b, i)
  PROVE  Outcome(u, p, b) = Mark(u[i])
<1>1. About(u, b) \subseteq Nat
  BY DEF About
<1>2. \A k \in About(u, b) : (\A j \in About(u, b) : k >= j) => k = i
  BY <1>1 DEF IsLast
<1>3. i \in About(u, b) /\ \A j \in About(u, b) : i >= j
  BY <1>1 DEF IsLast
<1>4. Max(About(u, b)) = i
  BY <1>2, <1>3 DEF Max
<1> QED BY <1>3, <1>4 DEF Outcome

\* Reports about other boxes change nothing for this one.
LEMMA OutcomeOfOthers ==
  ASSUME NEW u \in Seq(Report), NEW v \in Seq(Report), NEW p, NEW b,
         About(v, b) = {}
  PROVE  About(u \o v, b) = About(u, b) /\ Outcome(u \o v, p, b) = Outcome(u, p, b)
<1>1. /\ u \o v \in Seq(Report) /\ Len(u \o v) = Len(u) + Len(v)
      /\ Len(u) \in Nat /\ Len(v) \in Nat
      /\ \A i \in 1..Len(u) : (u \o v)[i] = u[i]
      /\ \A i \in 1..Len(v) : (u \o v)[Len(u) + i] = v[i]
  BY ConcatProperties
<1>2. ASSUME NEW i \in About(u \o v, b) PROVE i \in About(u, b)
  <2>1. i \in 1..(Len(u) + Len(v)) /\ (u \o v)[i].box = b
    BY <1>1, <1>2 DEF About
  <2>2. CASE i <= Len(u)
    BY <1>1, <2>1, <2>2 DEF About
  <2>3. CASE i > Len(u)
    <3>1. i - Len(u) \in 1..Len(v) /\ Len(u) + (i - Len(u)) = i
      BY <1>1, <2>1, <2>3
    <3>2. v[i - Len(u)].box = b
      BY <1>1, <2>1, <3>1
    <3> QED BY <3>1, <3>2 DEF About
  <2> QED BY <1>1, <2>1, <2>2, <2>3
<1>3. ASSUME NEW i \in About(u, b)
      PROVE  i \in About(u \o v, b) /\ (u \o v)[i] = u[i]
  <2>1. i \in 1..Len(u) /\ u[i].box = b
    BY <1>3 DEF About
  <2>2. i \in 1..Len(u \o v) /\ (u \o v)[i] = u[i]
    BY <1>1, <2>1
  <2> QED BY <1>1, <2>1, <2>2 DEF About
<1>4. About(u \o v, b) = About(u, b)
  BY <1>2, <1>3
<1>5. CASE About(u, b) = {}
  BY <1>4, <1>5 DEF Outcome
<1>6. CASE About(u, b) # {}
  <2>1. PICK i \in About(u, b) : IsLast(u, b, i)
    BY <1>6, LastExists
  <2>2. IsLast(u \o v, b, i)
    BY <1>4, <2>1 DEF IsLast
  <2>3. Outcome(u \o v, p, b) = Mark((u \o v)[i])
    <3>1. u \o v \in Seq(Report)
      BY <1>1
    <3> QED BY <2>2, <3>1, OutcomeOfLast, Zenon
  <2>4. Outcome(u, p, b) = Mark(u[i])
    BY <2>1, OutcomeOfLast
  <2> QED BY <1>3, <1>4, <2>3, <2>4
<1> QED BY <1>4, <1>5, <1>6

\* New reports that say the same of a box decide the outcome.
LEMMA OutcomeOfReports ==
  ASSUME NEW u \in Seq(Report), NEW v \in Seq(Report), NEW p, NEW b, NEW m,
         About(v, b) # {}, \A i \in About(v, b) : Mark(v[i]) = m
  PROVE  Outcome(u \o v, p, b) = m
<1>1. /\ u \o v \in Seq(Report) /\ Len(u \o v) = Len(u) + Len(v)
      /\ Len(u) \in Nat /\ Len(v) \in Nat
      /\ \A i \in 1..Len(u) : (u \o v)[i] = u[i]
      /\ \A i \in 1..Len(v) : (u \o v)[Len(u) + i] = v[i]
  BY ConcatProperties
<1>2. PICK k \in About(v, b) : IsLast(v, b, k)
  BY LastExists
<1>3. k \in 1..Len(v) /\ v[k].box = b /\ Mark(v[k]) = m
  BY <1>2 DEF About
<1>4. Len(u) + k \in 1..Len(u \o v) /\ (u \o v)[Len(u) + k] = v[k]
  BY <1>1, <1>3
<1>5. ASSUME NEW j \in About(u \o v, b) PROVE j <= Len(u) + k
  <2>1. j \in 1..(Len(u) + Len(v)) /\ (u \o v)[j].box = b
    BY <1>1 DEF About
  <2>2. CASE j > Len(u)
    <3>1. j - Len(u) \in 1..Len(v) /\ Len(u) + (j - Len(u)) = j
      BY <1>1, <2>1, <2>2
    <3>2. v[j - Len(u)].box = b
      BY <1>1, <2>1, <3>1
    <3>3. j - Len(u) <= k
      BY <1>2, <3>1, <3>2 DEF About, IsLast
    <3> QED BY <1>1, <1>3, <2>1, <3>3
  <2> QED BY <1>1, <1>3, <2>1, <2>2
<1>6. IsLast(u \o v, b, Len(u) + k)
  BY <1>1, <1>3, <1>4, <1>5 DEF About, IsLast
<1>7. Outcome(u \o v, p, b) = Mark((u \o v)[Len(u) + k])
  <2>1. u \o v \in Seq(Report)
    BY <1>1
  <2> QED BY <1>6, <2>1, OutcomeOfLast, Zenon
<1> QED BY <1>3, <1>4, <1>7

\* The engine writes to the inventory what the first report says: the outcome stays.
LEMMA OutcomeOfTail ==
  ASSUME NEW u \in Seq(Report), u # <<>>, NEW p \in [Box -> {"y", "n"}], NEW b \in Box
  PROVE  /\ Outcome(Tail(u), [p EXCEPT ![Head(u).box] = Mark(Head(u))], b) = Outcome(u, p, b)
         /\ About(u, b) = {} => About(Tail(u), b) = {}
<1> DEFINE t == Tail(u)
           q == [p EXCEPT ![Head(u).box] = Mark(Head(u))]
<1>1. /\ t \in Seq(Report) /\ Len(t) = Len(u) - 1 /\ Len(u) \in Nat
      /\ \A i \in 1..Len(t) : t[i] = u[i + 1]
      /\ Head(u) = u[1] /\ 1 \in 1..Len(u)
  BY HeadTailProperties
<1> HIDE DEF t
<1>2. ASSUME NEW i \in About(t, b) PROVE i + 1 \in About(u, b) /\ u[i + 1] = t[i]
  <2>1. i \in 1..Len(t) /\ t[i].box = b
    BY <1>1 DEF About
  <2>2. i + 1 \in 1..Len(u) /\ u[i + 1] = t[i]
    BY <1>1, <2>1
  <2> QED BY <2>1, <2>2 DEF About
<1>3. ASSUME NEW i \in About(u, b), i # 1 PROVE i - 1 \in About(t, b) /\ t[i - 1] = u[i]
  <2>1. i \in 1..Len(u) /\ u[i].box = b
    BY <1>1, <1>3 DEF About
  <2>2. i - 1 \in 1..Len(t) /\ t[i - 1] = u[(i - 1) + 1] /\ (i - 1) + 1 = i
    BY <1>1, <1>3, <2>1
  <2> QED BY <1>1, <2>1, <2>2 DEF About
<1>4. CASE About(t, b) # {}
  <2>1. PICK k \in About(t, b) : IsLast(t, b, k)
    BY <1>1, <1>4, LastExists
  <2>2. k \in Nat /\ k >= 1
    BY <1>1, <2>1 DEF About
  <2>3. ASSUME NEW j \in About(u, b) PROVE j <= k + 1
    <3>1. j \in Nat
      BY DEF About
    <3>2. CASE j = 1
      BY <2>2, <3>2
    <3>3. CASE j # 1
      <4>1. j - 1 <= k
        BY <1>3, <2>1, <3>3 DEF IsLast
      <4> QED BY <2>2, <3>1, <4>1
    <3> QED BY <3>2, <3>3
  <2>4. IsLast(u, b, k + 1) /\ u[k + 1] = t[k]
    BY <1>2, <2>1, <2>3 DEF IsLast
  <2>5. Outcome(u, p, b) = Mark(u[k + 1])
    BY <2>4, OutcomeOfLast
  <2>6. Outcome(t, q, b) = Mark(t[k])
    BY <1>1, <2>1, OutcomeOfLast
  <2>7. Outcome(t, q, b) = Outcome(u, p, b)
    BY <2>4, <2>5, <2>6
  <2>8. About(u, b) # {}
    BY <1>2, <2>1
  <2> QED BY <2>7, <2>8 DEF t
<1>5. CASE About(t, b) = {} /\ About(u, b) = {}
  <2>1. Head(u).box # b
    BY <1>1, <1>5 DEF About
  <2>2. q[b] = p[b]
    BY <2>1
  <2> QED BY <1>5, <2>2 DEF Outcome, t
<1>6. CASE About(t, b) = {} /\ About(u, b) # {}
  <2>1. About(u, b) = {1}
    BY <1>3, <1>6
  <2>2. IsLast(u, b, 1) /\ u[1].box = b
    BY <2>1 DEF IsLast, About
  <2>3. q[b] = Mark(u[1])
    BY <1>1, <2>2
  <2> QED BY <1>6, <2>2, <2>3, OutcomeOfLast DEF Outcome, t
<1>7. About(u, b) = {} => About(t, b) = {}
  BY <1>2
<1> QED BY <1>4, <1>5, <1>6, <1>7 DEF t

AgreeTypes ==
  /\ eventq \in Seq(Report) /\ up \in [Box -> {"y", "n"}]
  /\ pc \in {"update", "ping"} /\ down \subseteq Box

\* What Agreement says holds in the middle of a round too, and also of the boxes pping
\* no longer pings and still has in down; and nothing is under way about a box that
\* it will see for the first time, or again.
Agrees ==
  /\ \A b \in known \cup down : b \in down <=> Final(b) = "n"
  /\ \A b \in hosts \ known : Of(b) = {}

AgreeInv == CountInv /\ AgreeTypes /\ Agrees

\* What is under way is a sequence of reports.
LEMMA UnderWayIsReports == CountInv /\ AgreeTypes => UnderWay \in Seq(Report)
<1> SUFFICES ASSUME CountInv, AgreeTypes PROVE UnderWay \in Seq(Report)
  OBVIOUS
<1> DEFINE m == IF stage = "event" THEN <<posting>> ELSE <<>>
<1>1. m \in Seq(Report) /\ eventq \in Seq(Report) /\ queue \in Seq(Report)
  BY DEF CountInv, QueueTypes, AgreeTypes
<1> HIDE DEF m
<1>2. eventq \o m \in Seq(Report)
  BY <1>1
<1>3. (eventq \o m) \o queue \in Seq(Report)
  BY <1>1, <1>2
<1> QED BY <1>3 DEF UnderWay, m

\* A step that leaves what is under way, the inventory and the lists alone.
LEMMA SameAgrees ==
  ASSUME Agrees, UNCHANGED <<up, known, down, hosts>>, UnderWay' = UnderWay
  PROVE  Agrees'
<1>1. \A b : Final(b)' = Final(b) /\ Of(b)' = Of(b)
  BY FinalIsOutcome
<1> QED BY <1>1 DEF Agrees

\* What is under way does not change as it goes from hand to hand.
LEMMA TakeAgrees ==
  ASSUME AgreeInv, Take \/ InsertEvent \/ InsertVar
  PROVE  Agrees'
<1>1. /\ eventq \in Seq(Report) /\ queue \in Seq(Report)
      /\ stage # "idle" => posting \in Report
  BY DEF AgreeInv, CountInv, QueueTypes, AgreeTypes
<1>2. UNCHANGED <<up, known, down, hosts>>
  BY DEF Take, InsertEvent, InsertVar, main, world
<1>3. CASE Take
  <2>1. /\ UnderWay = (eventq \o <<>>) \o queue /\ queue # <<>>
        /\ UnderWay' = (eventq \o <<Head(queue)>>) \o Tail(queue)
    BY <1>3 DEF Take, UnderWay
  <2>2. Head(queue) \in Report /\ Tail(queue) \in Seq(Report)
    BY <1>1, <2>1
  <2>3. UnderWay' = UnderWay
    <3>1. eventq \o <<>> = eventq
      BY <1>1
    <3>2. queue = <<Head(queue)>> \o Tail(queue)
      BY <1>1, <2>1
    <3>3. <<Head(queue)>> \in Seq(Report)
      BY <2>2
    <3>4. (eventq \o <<Head(queue)>>) \o Tail(queue) = eventq \o (<<Head(queue)>> \o Tail(queue))
      BY <1>1, <2>2, <3>3, ConcatAssociative
    <3> QED BY <2>1, <3>1, <3>2, <3>4
  <2> QED BY <1>2, <2>3, SameAgrees DEF AgreeInv
<1>4. CASE InsertEvent
  <2>1. /\ UnderWay = (eventq \o <<posting>>) \o queue /\ posting \in Report
        /\ UnderWay' = (Append(eventq, posting) \o <<>>) \o queue
    BY <1>1, <1>4 DEF InsertEvent, UnderWay
  <2>2. UnderWay' = UnderWay
    <3>1. Append(eventq, posting) = eventq \o <<posting>>
      BY <1>1, <2>1
    <3>2. Append(eventq, posting) \in Seq(Report)
      BY <1>1, <2>1
    <3>3. Append(eventq, posting) \o <<>> = Append(eventq, posting)
      BY <3>2
    <3> QED BY <2>1, <3>1, <3>3
  <2> QED BY <1>2, <2>2, SameAgrees DEF AgreeInv
<1>5. CASE InsertVar
  <2>1. UnderWay' = UnderWay
    BY <1>5 DEF InsertVar, Idle, UnderWay
  <2> QED BY <1>2, <2>1, SameAgrees DEF AgreeInv
<1> QED BY <1>3, <1>4, <1>5

\* The engine handles the first report.
LEMMA HandleAgrees ==
  ASSUME AgreeInv, HandleEvent
  PROVE  Agrees'
<1> DEFINE m == IF stage = "event" THEN <<posting>> ELSE <<>>
           r == m \o queue
<1>1. /\ eventq \in Seq(Report) /\ queue \in Seq(Report) /\ eventq # <<>>
      /\ m \in Seq(Report) /\ up \in [Box -> {"y", "n"}]
  BY DEF AgreeInv, CountInv, QueueTypes, AgreeTypes, HandleEvent
<1>2. /\ UNCHANGED <<known, down, hosts, stage, posting, queue>>
      /\ up' = [up EXCEPT ![Head(eventq).box] = Mark(Head(eventq))]
      /\ eventq' = Tail(eventq)
  BY DEF HandleEvent, main, world, poster, Mark
<1>3. UnderWay = (eventq \o m) \o queue /\ UnderWay' = (Tail(eventq) \o m) \o queue
  BY <1>2 DEF UnderWay
<1> HIDE DEF m
<1>4. r \in Seq(Report) /\ Tail(eventq) \in Seq(Report)
  BY <1>1
<1>5. UnderWay = eventq \o r /\ UnderWay' = Tail(eventq) \o r
  <2>1. (eventq \o m) \o queue = eventq \o (m \o queue)
    BY <1>1, ConcatAssociative
  <2>2. (Tail(eventq) \o m) \o queue = Tail(eventq) \o (m \o queue)
    BY <1>1, <1>4, ConcatAssociative
  <2> QED BY <1>3, <2>1, <2>2, Zenon
<1> HIDE DEF r
<1>6. /\ UnderWay \in Seq(Report) /\ UnderWay # <<>>
      /\ Head(UnderWay) = Head(eventq) /\ Tail(UnderWay) = UnderWay'
  <2>1. UnderWay \in Seq(Report)
    BY <1>1, <1>4, <1>5
  <2>2. Len(UnderWay) # 0 /\ UnderWay[1] = eventq[1]
    BY <1>1, <1>4, <1>5
  <2>3. Head(UnderWay) = Head(eventq)
    BY <1>1, <2>1, <2>2, HeadTailProperties
  <2>4. /\ eventq = <<Head(eventq)>> \o Tail(eventq) /\ Head(eventq) \in Report
    BY <1>1
  <2>5. UnderWay = <<Head(eventq)>> \o (Tail(eventq) \o r)
    <3>1. <<Head(eventq)>> \in Seq(Report)
      BY <2>4
    <3> QED BY <1>4, <1>5, <2>4, <3>1, ConcatAssociative
  <2>6. Tail(UnderWay) = Tail(eventq) \o r
    <3> DEFINE z == Tail(eventq) \o r
    <3>1. z \in Seq(Report)
      BY <1>4
    <3> HIDE DEF z
    <3>2. Tail(<<Head(eventq)>> \o z) = z
      BY <2>4, <3>1
    <3> QED BY <2>5, <3>2 DEF z
  <2> QED BY <1>5, <2>1, <2>2, <2>3, <2>6
<1>7. ASSUME NEW b \in Box
      PROVE  Final(b)' = Final(b) /\ (Of(b) = {} => Of(b)' = {})
  <2>1. /\ Outcome(Tail(UnderWay), [up EXCEPT ![Head(UnderWay).box] = Mark(Head(UnderWay))], b)
             = Outcome(UnderWay, up, b)
        /\ About(UnderWay, b) = {} => About(Tail(UnderWay), b) = {}
    BY <1>1, <1>6, OutcomeOfTail
  <2> QED BY <1>2, <1>6, <2>1, FinalIsOutcome
<1>8. known \cup down \subseteq Box /\ hosts \subseteq Box
  BY DEF AgreeInv, CountInv, QueueTypes, AgreeTypes
<1> QED BY <1>2, <1>7, <1>8 DEF AgreeInv, Agrees

\* The list of hosts is read again: a box that comes, or comes back, is taken for what
\* the inventory says, and nothing is under way about it.
LEMMA UpdateAgrees ==
  ASSUME AgreeInv, UpdateHosts
  PROVE  Agrees'
<1>1. /\ known' = hosts /\ hosts' = hosts /\ up' = up /\ UnderWay' = UnderWay
      /\ down' = down \cup {b \in hosts \ known : up[b] # "y"}
  BY DEF UpdateHosts, StartsDown, world, poster, UnderWay
<1>2. \A b : Final(b)' = Final(b)
  BY <1>1, FinalIsOutcome
<1>3. ASSUME NEW b \in known' \cup down' PROVE b \in down' <=> Final(b) = "n"
  <2>1. CASE b \in known \cup down
    <3>1. CASE b \in hosts \ known
      <4>1. Final(b) = up[b] /\ Final(b) = "n"
        BY <2>1, <3>1 DEF AgreeInv, Agrees, Final
      <4> QED BY <1>1, <3>1, <2>1, <4>1 DEF AgreeInv, Agrees
    <3>2. CASE b \notin hosts \ known
      BY <1>1, <2>1, <3>2 DEF AgreeInv, Agrees
    <3> QED BY <3>1, <3>2
  <2>2. CASE b \notin known \cup down
    <3>1. b \in hosts \ known /\ b \in Box
      BY <1>1, <1>3, <2>2 DEF AgreeInv, CountInv, QueueTypes
    <3>2. Final(b) = up[b] /\ up[b] \in {"y", "n"}
      BY <3>1 DEF AgreeInv, AgreeTypes, Agrees, Final
    <3> QED BY <1>1, <2>2, <3>1, <3>2
  <2> QED BY <2>1, <2>2
<1> QED BY <1>1, <1>2, <1>3 DEF Agrees

\* The reports of a round, and whom they are about.
LEMMA ReportsAbout ==
  ASSUME NEW S \in SUBSET Box, NEW st \in {"down", "up"}, NEW b
  PROVE  /\ About(Reports(S, st), b) # {} <=> b \in S
         /\ \A i \in About(Reports(S, st), b) : Reports(S, st)[i].status = st
<1> DEFINE T == {[box |-> c, status |-> st] : c \in S}
           f == [c \in S |-> [box |-> c, status |-> st]]
<1>1. \A i \in About(Reports(S, st), b) : Reports(S, st)[i].status = st /\ b \in S
  BY ReportsAreReports DEF About
<1>2. ASSUME b \in S PROVE About(Reports(S, st), b) # {}
  <2>1. f \in Surjection(S, T)
    BY DEF Surjection
  <2>2. IsFiniteSet(S)
    BY BoxAssumption, FS_Subset
  <2>3. IsFiniteSet(T)
    BY <2>1, <2>2, FS_Surjection
  <2>4. [box |-> b, status |-> st] \in T
    BY <1>2
  <2> HIDE DEF T
  <2>5. PICK i \in DOMAIN SetToSeq(T) : SetToSeq(T)[i] = [box |-> b, status |-> st]
    BY <2>3, <2>4, SequenceHasAll
  <2>6. Reports(S, st) = SetToSeq(T)
    BY DEF Reports, T
  <2> QED BY <2>5, <2>6 DEF About
<1> QED BY <1>1, <1>2

\* A round reports exactly the boxes whose state is new to pping.
LEMMA GenerateAgrees ==
  ASSUME AgreeInv, GenerateEvents
  PROVE  Agrees'
<1> DEFINE now   == DownNow(replies')
           downs == Reports(ReportDown(now), "down")
           ups   == Reports(ReportUp(now), "up")
           new   == downs \o ups
           m     == IF stage = "event" THEN <<posting>> ELSE <<>>
<1>1. /\ queue' = queue \o new /\ down' = now /\ UNCHANGED <<hosts, known, up, eventq>>
      /\ DOMAIN replies' = DOMAIN replies /\ stage' = stage /\ posting' = posting
      /\ \A b \in DOMAIN replies \ known : replies'[b] = replies[b]
  BY DEF GenerateEvents, world, poster
<1>2. /\ known \subseteq Box /\ down \subseteq Box /\ now \subseteq Box
      /\ ReportDown(now) = now \ down /\ ReportUp(now) = (down \ now) \cap known
      /\ queue \in Seq(Report) /\ eventq \in Seq(Report) /\ hosts \subseteq Box
  BY <1>1 DEF AgreeInv, CountInv, QueueTypes, AgreeTypes, DownNow, ReportDown, ReportUp
\* What is frozen at NrPing is in down already.
<1>3. now \ known \subseteq down
  BY <1>1 DEF AgreeInv, CountInv, BuffersInv, DownNow
<1>4. /\ downs \in Seq(Report) /\ ups \in Seq(Report)
      /\ \A b : /\ About(downs, b) # {} <=> b \in now \ down
                /\ About(ups, b) # {} <=> b \in (down \ now) \cap known
      /\ \A b : \A i \in About(downs, b) : downs[i].status = "down"
      /\ \A b : \A i \in About(ups, b) : ups[i].status = "up"
  <2>1. ReportDown(now) \in SUBSET Box /\ ReportUp(now) \in SUBSET Box
    BY <1>2
  <2> HIDE DEF now, downs, ups
  <2>2. downs \in Seq(Report) /\ ups \in Seq(Report)
    BY <2>1, ReportsAreReports DEF downs, ups
  <2>3. ASSUME NEW b
        PROVE  /\ About(downs, b) # {} <=> b \in now \ down
               /\ About(ups, b) # {} <=> b \in (down \ now) \cap known
               /\ \A i \in About(downs, b) : downs[i].status = "down"
               /\ \A i \in About(ups, b) : ups[i].status = "up"
    <3>1. /\ About(downs, b) # {} <=> b \in ReportDown(now)
          /\ \A i \in About(downs, b) : downs[i].status = "down"
      BY <2>1, ReportsAbout DEF downs
    <3>2. /\ About(ups, b) # {} <=> b \in ReportUp(now)
          /\ \A i \in About(ups, b) : ups[i].status = "up"
      BY <2>1, ReportsAbout DEF ups
    <3> QED BY <1>2, <3>1, <3>2
  <2> QED BY <2>2, <2>3
<1> HIDE DEF downs, ups, now
<1>5. UnderWay \in Seq(Report)
  BY UnderWayIsReports DEF AgreeInv
<1>6. UnderWay' = (UnderWay \o downs) \o ups
  <2>1. m \in Seq(Report)
    BY DEF AgreeInv, CountInv, QueueTypes
  <2> HIDE DEF m
  <2>2. UnderWay = (eventq \o m) \o queue
    BY DEF UnderWay, m
  <2>3. UnderWay' = (eventq \o m) \o (queue \o (downs \o ups))
    BY <1>1 DEF UnderWay, m
  <2>4. eventq \o m \in Seq(Report) /\ downs \o ups \in Seq(Report)
    BY <1>2, <1>4, <2>1
  <2>5. UnderWay' = UnderWay \o (downs \o ups)
    <3>1. queue \in Seq(Report)
      BY <1>2
    <3>2. ((eventq \o m) \o queue) \o (downs \o ups)
            = (eventq \o m) \o (queue \o (downs \o ups))
      <4> DEFINE e == eventq \o m
                 n == downs \o ups
      <4>1. e \in Seq(Report) /\ n \in Seq(Report)
        BY <2>4
      <4> HIDE DEF e, n
      <4>2. (e \o queue) \o n = e \o (queue \o n)
        BY <3>1, <4>1, ConcatAssociative
      <4> QED BY <4>2 DEF e, n
    <3> QED BY <2>2, <2>3, <3>2, Zenon
  <2>6. UnderWay \o (downs \o ups) = (UnderWay \o downs) \o ups
    BY <1>4, <1>5, ConcatAssociative
  <2> QED BY <2>5, <2>6, Zenon
<1> DEFINE w == UnderWay \o downs
<1>7. w \in Seq(Report) /\ UnderWay' = w \o ups
  BY <1>4, <1>5, <1>6
<1>8. downs \in Seq(Report) /\ ups \in Seq(Report)
  BY <1>4
<1>9. ASSUME NEW b, About(downs, b) = {}
      PROVE  Outcome(w, up, b) = Outcome(UnderWay, up, b) /\ About(w, b) = About(UnderWay, b)
  <2> DEFINE u == UnderWay
  <2>1. u \in Seq(Report)
    BY <1>5
  <2> HIDE DEF u
  <2>2. Outcome(u \o downs, up, b) = Outcome(u, up, b) /\ About(u \o downs, b) = About(u, b)
    BY <1>8, <1>9, <2>1, OutcomeOfOthers
  <2> QED BY <2>2 DEF u
<1>10. ASSUME NEW b, b \in now, b \notin down PROVE Outcome(w, up, b) = "n"
  <2>1. About(downs, b) # {} /\ \A i \in About(downs, b) : Mark(downs[i]) = "n"
    BY <1>4, <1>10 DEF Mark
  <2> QED BY <1>5, <1>8, <2>1, OutcomeOfReports, Zenon
<1> HIDE DEF w
<1>11. ASSUME NEW b, About(ups, b) = {}
       PROVE  Final(b)' = Outcome(w, up, b) /\ Of(b)' = About(w, b)
  <2>1. Outcome(w \o ups, up, b) = Outcome(w, up, b) /\ About(w \o ups, b) = About(w, b)
    BY <1>7, <1>8, <1>11, OutcomeOfOthers
  <2> QED BY <1>1, <1>7, <2>1, FinalIsOutcome
<1>12. ASSUME NEW b, b \in known, b \in down, b \notin now PROVE Final(b)' = "y"
  <2>1. About(ups, b) # {} /\ \A i \in About(ups, b) : Mark(ups[i]) = "y"
    BY <1>4, <1>12 DEF Mark
  <2>2. Outcome(w \o ups, up, b) = "y"
    BY <1>7, <1>8, <2>1, OutcomeOfReports, Zenon
  <2> QED BY <1>1, <1>7, <2>2, FinalIsOutcome
<1>13. ASSUME NEW b, b \in now, b \notin down PROVE Final(b)' = "n"
  <2>1. About(ups, b) = {}
    BY <1>4, <1>13
  <2> QED BY <1>10, <1>11, <1>13, <2>1
<1>14. ASSUME NEW b, b \in now <=> b \in down
       PROVE  Final(b)' = Final(b) /\ Of(b)' = Of(b)
  <2>1. About(ups, b) = {} /\ About(downs, b) = {}
    BY <1>4, <1>14
  <2> QED BY <1>9, <1>11, <2>1, FinalIsOutcome
<1>15. ASSUME NEW b \in known \cup now PROVE b \in now <=> Final(b)' = "n"
  <2>1. CASE b \in now <=> b \in down
    BY <1>14, <1>15, <2>1 DEF AgreeInv, Agrees
  <2>2. CASE b \in now /\ b \notin down
    BY <1>13, <2>2
  <2>3. CASE b \notin now /\ b \in down
    BY <1>12, <1>15, <2>3
  <2> QED BY <2>1, <2>2, <2>3
<1>16. ASSUME NEW b \in hosts \ known PROVE Of(b)' = {}
  <2>1. About(ups, b) = {} /\ About(downs, b) = {}
    BY <1>3, <1>4, <1>16
  <2> QED BY <1>9, <1>11, <1>16, <2>1, FinalIsOutcome DEF AgreeInv, Agrees
<1> QED BY <1>1, <1>15, <1>16 DEF Agrees

\* The types that Agreement needs beside those of CountInv.
LEMMA AgreeTypesStep ==
  ASSUME AgreeInv, Faults \subseteq {"query"}, [Next]_vars
  PROVE  AgreeTypes'
<1>1. ASSUME UNCHANGED <<eventq, up, pc, down>> PROVE AgreeTypes'
  BY <1>1 DEF AgreeInv, AgreeTypes
<1>2. CASE UpdateHosts \/ KeepHosts
  BY <1>2 DEF UpdateHosts, KeepHosts, AgreeInv, AgreeTypes, CountInv, QueueTypes
<1>3. CASE GenerateEvents
  <2>1. /\ DOMAIN replies' = DOMAIN replies /\ down' = DownNow(replies') /\ pc' = "update"
        /\ UNCHANGED <<eventq, up>>
    BY <1>3 DEF GenerateEvents
  <2> QED BY <2>1 DEF AgreeInv, AgreeTypes, CountInv, QueueTypes, DownNow
<1>4. CASE InsertEvent
  <2>1. /\ UNCHANGED <<up, pc, down>> /\ eventq' = Append(eventq, posting)
        /\ posting \in Report
    BY <1>4 DEF InsertEvent, main, AgreeInv, CountInv, QueueTypes
  <2>2. eventq' \in Seq(Report)
    BY <2>1, AppendProperties DEF AgreeInv, AgreeTypes
  <2> QED BY <2>1, <2>2 DEF AgreeInv, AgreeTypes
<1>5. CASE HandleEvent
  <2>1. /\ UNCHANGED <<pc, down>> /\ eventq' = Tail(eventq) /\ eventq # <<>>
        /\ up' = [up EXCEPT ![Head(eventq).box] =
                    IF Head(eventq).status = "down" THEN "n" ELSE "y"]
    BY <1>5 DEF HandleEvent, main
  <2>2. eventq' \in Seq(Report)
    BY <2>1, HeadTailProperties DEF AgreeInv, AgreeTypes
  <2> QED BY <2>1, <2>2 DEF AgreeInv, AgreeTypes
<1>6. CASE Take \/ InsertVar \/ UNCHANGED vars \/ \E b \in Box : Flip(b) \/ Regroup(b)
  BY <1>1, <1>6 DEF Take, InsertVar, Flip, Regroup, main, vars
<1>7. ~InsertFails /\ ~CommitSwallowed /\ ~Stop /\ ~Start
  BY DEF InsertFails, CommitSwallowed, Stop, Start, AgreeInv, AgreeTypes
<1> QED BY <1>2, <1>3, <1>4, <1>5, <1>6, <1>7 DEF Next

\* Every step keeps the agreement.
LEMMA AgreesStep ==
  ASSUME AgreeInv, Faults \subseteq {"query"}, [Next]_vars
  PROVE  Agrees'
<1>1. CASE UpdateHosts
  BY <1>1, UpdateAgrees
<1>2. CASE GenerateEvents
  BY <1>2, GenerateAgrees
<1>3. CASE Take \/ InsertEvent \/ InsertVar
  BY <1>3, TakeAgrees
<1>4. CASE HandleEvent
  BY <1>4, HandleAgrees
<1>5. ASSUME NEW b \in Box, Regroup(b) PROVE Agrees'
  <2>1. /\ UNCHANGED <<up, known, down>> /\ UnderWay' = UnderWay
        /\ b \in hosts \/ Of(b) = {}
        /\ hosts' = IF b \in hosts THEN hosts \ {b} ELSE hosts \cup {b}
    BY <1>5 DEF Regroup, main, poster, UnderWay
  <2>2. \A c : Final(c)' = Final(c) /\ Of(c)' = Of(c)
    BY <2>1, FinalIsOutcome
  <2> QED BY <2>1, <2>2 DEF AgreeInv, Agrees
<1>6. CASE KeepHosts \/ UNCHANGED vars \/ \E b \in Box : Flip(b)
  <2>1. UNCHANGED <<up, known, down, hosts>> /\ UnderWay' = UnderWay
    BY <1>6 DEF KeepHosts, Flip, main, world, poster, vars, UnderWay
  <2> QED BY <2>1, SameAgrees DEF AgreeInv
<1>7. ~InsertFails /\ ~CommitSwallowed /\ ~Stop /\ ~Start
  BY DEF InsertFails, CommitSwallowed, Stop, Start, AgreeInv, AgreeTypes
<1> QED BY <1>1, <1>2, <1>3, <1>4, <1>5, <1>6, <1>7 DEF Next

\* Between two rounds pping and the inventory agree on every box that is pinged, but for
\* the reports under way, as long as the statements of the poster succeed and pping is
\* not restarted: a list of hosts that cannot be read does no harm.
THEOREM AgreementHolds ==
  ASSUME Faults \subseteq {"query"}
  PROVE  Spec => []Agreement
<1>1. Init => AgreeInv
  <2> SUFFICES ASSUME Init PROVE AgreeInv
    OBVIOUS
  <2>1. BuffersInv /\ QueueTypes /\ LossesInv
    BY BuffersInit, NrPingAssumption DEF Init, QueueTypes, LossesInv
  <2>2. AgreeTypes
    BY DEF Init, AgreeTypes
  <2>3. UnderWay = <<>>
    BY DEF Init, UnderWay
  <2>4. Agrees
    BY <2>3 DEF Init, Agrees, Of
  <2> QED BY <2>1, <2>2, <2>4 DEF AgreeInv, CountInv
<1>2. AgreeInv /\ [Next]_vars => AgreeInv'
  BY BuffersStep, CountStep, AgreeTypesStep, AgreesStep DEF AgreeInv, CountInv
<1>3. AgreeInv => Agreement
  BY DEF AgreeInv, Agrees, Agreement
<1> QED BY <1>1, <1>2, <1>3, PTL DEF Spec
================================================================================
