----------------------------- MODULE DeliveryProofs ------------------------------
(***************************************************************************)
(* Theorems about Delivery, for any alerts, subscriptions and dispatchers  *)
(* and any number of faults.                                               *)
(***************************************************************************)
EXTENDS Delivery, WellFoundedInduction, FiniteSetTheorems, SequenceTheorems, TLAPS

Sms     == [alert : Alert, phone : Phone, sent : {"N", "Y", "I"}, heard : Nat]
RowType == [alert : Alert, sub : Subscription, early : BOOLEAN]

EngineTypes ==
  /\ alertq \subseteq posted /\ posted \subseteq Alert
  /\ rows \subseteq RowType /\ due \subseteq RowType /\ todo \subseteq RowType
  /\ over \subseteq due
  /\ subscribed \subseteq Subscription /\ afternoon \in BOOLEAN
  /\ phase \in {"idle", "new", "walk", "delete", "count", "clean"}
  /\ new \subseteq Alert
  /\ phase \in {"delete", "count"} => row \in RowType

DaemonTypes == smsq \in Seq(Sms) /\ msgs \in Seq(Nat) /\ pending \in Seq(Nat \X {"Y", "I"})

\* Nobody waits for an alert that is not in the queue, nor for one that is new; each row is
\* of the subscription that its alert was queued for, and what is to be ignored is over.
RowsAreQueued ==
  /\ \A r \in rows : /\ r.alert \in alertq
                     /\ r.sub \in Queued(r.alert, PhoneOf[r.sub])
                     /\ phase = "new" => r.alert \notin new
  /\ phase = "new" => new \subseteq alertq
  /\ \A r \in over : IsOver(r.alert, r.sub)

TablesInv == EngineTypes /\ DaemonTypes /\ RowsAreQueued

Served(a, p) == Texts(a, p) # {} \/ RowIsGone(a, p)

\* Each phone that waits for the alert has a row, unless it was served.
Covered(a) == \A p \in Phone : Wanting(a, p) # {} =>
  Served(a, p) \/ \E r \in rows : r.alert = a /\ PhoneOf[r.sub] = p

\* An alert may leave the queue only as one that somebody waited for, or as one of those
\* the run has matched.
MayLeave(a) ==
  \/ Engine!HasRow(a, rows)
  \/ phase \in {"walk", "delete", "count", "clean"} /\ a \in new
  \/ phase \in {"delete", "count"} /\ a = row.alert

LeavingIsCovered == \A a \in Alert : MayLeave(a) => Covered(a)

\* The row that is being deleted was served.
RowIsServed == phase \in {"delete", "count"} => Served(row.alert, PhoneOf[row.sub])

\* What is still to be walked is in the queue, or was deleted with its subscription.
TodoIsQueued == phase \in {"walk", "delete", "count"} =>
  \A r \in todo : r.sub \in subscribed => r \in rows \/ (phase = "count" /\ r = row)

WaitInv == TablesInv /\ LostOnlyWithItsRow /\ LeavingIsCovered /\ RowIsServed /\ TodoIsQueued

--------------------------------------------------------------------------------
(* Data. *)

\* A set of numbers that is not empty has a least one.
LEMMA Smallest ==
  ASSUME NEW S \in SUBSET Nat, S # {}
  PROVE  \E m \in S : \A k \in S : m <= k
<1> DEFINE R == {p \in Nat \X Nat : p[1] < p[2]}
<1>1. IsWellFoundedOn(R, Nat)
  BY NatLessThanWellFounded, Zenon DEF OpToRel
<1>2. PICK x \in S : \A y \in S : ~(<<y, x>> \in R)
  BY <1>1, WFMin
<1>3. \A y \in S : y \in Nat /\ x \in Nat /\ ~(y < x)
  BY <1>2
<1> QED BY <1>3

\* First chooses a subscription for each phone that has one.
LEMMA FirstServes ==
  ASSUME NEW S \in SUBSET Subscription, NEW s \in S
  PROVE  \E m \in Engine!First(S) : PhoneOf[m] = PhoneOf[s]
<1> DEFINE All == {o \in S : PhoneOf[o] = PhoneOf[s]}
           Now == {o \in All : TypeOf[o] = "now"}
<1>1. /\ All \subseteq Nat /\ s \in All
      /\ \A o \in All : TypeOf[o] \in {"now", "daily"}
  BY TypeAssumption
<1>2. CASE Now # {}
  <2>1. PICK m \in Now : \A o \in Now : m <= o
    BY <1>1, <1>2, Smallest
  <2>2. ASSUME NEW o \in S, PhoneOf[o] = PhoneOf[m]
        PROVE  ~Engine!Before(o, m)
    <3>1. CASE o \in Now
      BY <1>1, <2>1, <3>1 DEF Engine!Before
    <3>2. CASE o \notin Now
      BY <2>1, <2>2, <3>2 DEF Engine!Before
    <3> QED BY <3>1, <3>2
  <2> QED BY <2>1, <2>2 DEF Engine!First
<1>3. CASE Now = {}
  <2>1. PICK m \in All : \A o \in All : m <= o
    BY <1>1, Smallest
  <2>2. ASSUME NEW o \in S, PhoneOf[o] = PhoneOf[m]
        PROVE  ~Engine!Before(o, m)
    <3>1. o \in All /\ TypeOf[o] = "daily" /\ TypeOf[m] = "daily"
      BY <1>1, <1>3, <2>1, <2>2
    <3> QED BY <1>1, <2>1, <3>1 DEF Engine!Before
  <2> QED BY <2>1, <2>2 DEF Engine!First
<1> QED BY <1>2, <1>3

\* Texts stay what they are for.
TextsStay == \A i \in DOMAIN smsq :
  i \in DOMAIN smsq' /\ smsq'[i].alert = smsq[i].alert /\ smsq'[i].phone = smsq[i].phone

\* The alert was not matched anew.
SameMatches(a) == \A p : Wanting(a, p)' = Wanting(a, p)

\* Who was served stays so: texts are never deleted, subscriptions do not come back, and
\* what is over stays over.
LEMMA ServedStays ==
  ASSUME TextsStay, subscribed' \subseteq subscribed, resolved \subseteq resolved',
         NEW a, SameMatches(a), NEW p, Served(a, p)
  PROVE  Served(a, p)'
<1>1. CASE Texts(a, p) # {}
  <2>1. PICK i \in DOMAIN smsq : smsq[i].alert = a /\ smsq[i].phone = p
    BY <1>1 DEF Texts
  <2>2. i \in Texts(a, p)'
    BY <2>1 DEF TextsStay, Texts
  <2> QED BY <2>2 DEF Served
<1>2. CASE RowIsGone(a, p)
  <2>1. Queued(a, p)' = Queued(a, p)
    BY DEF Queued, SameMatches
  <2> QED BY <1>2, <2>1 DEF Served, RowIsGone, IsOver
<1> QED BY <1>1, <1>2 DEF Served

\* So it is for every alert when none is matched anew.
LEMMA AllServedStay ==
  ASSUME TextsStay, subscribed' \subseteq subscribed, resolved \subseteq resolved',
         matched' = matched
  PROVE  /\ \A a : SameMatches(a)
         /\ \A a, p : Served(a, p) => Served(a, p)'
         /\ \A a, p : Queued(a, p)' = Queued(a, p)
<1>1. \A a : SameMatches(a)
  BY DEF SameMatches, Wanting
<1>2. \A a, p : Queued(a, p)' = Queued(a, p)
  BY <1>1 DEF Queued, SameMatches
<1> QED BY <1>1, <1>2, ServedStays

\* A new text leaves the others alone, and is a text.
LEMMA AppendText ==
  ASSUME DaemonTypes, NEW r \in RowType, smsq' = Engine!Text(r)
  PROVE  /\ smsq' \in Seq(Sms) /\ TextsStay
         /\ Texts(r.alert, PhoneOf[r.sub])' # {}
<1> DEFINE x == [alert |-> r.alert, phone |-> PhoneOf[r.sub], sent |-> "N", heard |-> 0]
<1>1. x \in Sms /\ smsq' = Append(smsq, x) /\ smsq \in Seq(Sms)
  BY TypeAssumption DEF Engine!Text, DaemonTypes, RowType, Sms
<1>2. /\ smsq' \in Seq(Sms) /\ DOMAIN smsq = 1..Len(smsq) /\ DOMAIN smsq' = 1..(Len(smsq) + 1)
      /\ \A i \in 1..Len(smsq) : smsq'[i] = smsq[i]
      /\ smsq'[Len(smsq) + 1] = x /\ Len(smsq) \in Nat
  BY <1>1, AppendProperties, LenProperties
<1>3. TextsStay
  BY <1>2 DEF TextsStay
<1>4. Len(smsq) + 1 \in Texts(r.alert, PhoneOf[r.sub])'
  BY <1>2 DEF Texts
<1> QED BY <1>2, <1>3, <1>4

--------------------------------------------------------------------------------
(* The SMS daemon changes nothing but the status of texts. *)

\* A function on the places of smsq is a sequence.
LEMMA SameLength ==
  ASSUME NEW S, NEW q \in Seq(S), NEW T, NEW f \in [DOMAIN q -> T]
  PROVE  f \in Seq(T)
<1>1. DOMAIN q = 1..Len(q) /\ Len(q) \in Nat
  BY LenProperties
<1> QED BY <1>1

\* A text that is heard remains what it is but for that.
LEMMA HeardStays ==
  ASSUME DaemonTypes, NEW n
  PROVE  /\ Daemon!Heard(n) \in Seq(Sms)
         /\ DOMAIN Daemon!Heard(n) = DOMAIN smsq
         /\ \A i \in DOMAIN smsq : /\ Daemon!Heard(n)[i].alert = smsq[i].alert
                                   /\ Daemon!Heard(n)[i].phone = smsq[i].phone
                                   /\ Daemon!Heard(n)[i].sent = smsq[i].sent
<1>1. smsq \in Seq(Sms) /\ \A i \in DOMAIN smsq : smsq[i] \in Sms
  BY LenProperties DEF DaemonTypes
<1>2. \A x \in Sms : [x EXCEPT !.heard = @ + 1] \in Sms
  BY DEF Sms
<1>3. Daemon!Heard(n) \in [DOMAIN smsq -> Sms]
  BY <1>1, <1>2 DEF Daemon!Heard
<1>4. \A i \in DOMAIN smsq :
        Daemon!Heard(n)[i] = smsq[i] \/ Daemon!Heard(n)[i] = [smsq[i] EXCEPT !.heard = @ + 1]
  BY DEF Daemon!Heard
<1>5. \A x \in Sms : LET y == [x EXCEPT !.heard = @ + 1]
                     IN y.alert = x.alert /\ y.phone = x.phone /\ y.sent = x.sent
  BY DEF Sms
<1>6. Daemon!Heard(n) \in Seq(Sms) /\ DOMAIN Daemon!Heard(n) = DOMAIN smsq
  BY <1>1, <1>3, SameLength
<1> QED BY <1>1, <1>4, <1>5, <1>6

\* A text that is given up remains what it is but for its status.
LEMMA CancelledStays ==
  ASSUME DaemonTypes
  PROVE  /\ Daemon!Cancelled \in Seq(Sms)
         /\ DOMAIN Daemon!Cancelled = DOMAIN smsq
         /\ \A i \in DOMAIN smsq : /\ Daemon!Cancelled[i].alert = smsq[i].alert
                                   /\ Daemon!Cancelled[i].phone = smsq[i].phone
<1>1. smsq \in Seq(Sms) /\ \A i \in DOMAIN smsq : smsq[i] \in Sms
  BY LenProperties DEF DaemonTypes
<1>2. \A x \in Sms : [x EXCEPT !.sent = "I"] \in Sms
  BY DEF Sms
<1>3. Daemon!Cancelled \in [DOMAIN smsq -> Sms]
  BY <1>1, <1>2 DEF Daemon!Cancelled
<1>4. \A i \in DOMAIN smsq :
        Daemon!Cancelled[i] = smsq[i] \/ Daemon!Cancelled[i] = [smsq[i] EXCEPT !.sent = "I"]
  BY DEF Daemon!Cancelled
<1> QED BY <1>1, <1>3, <1>4, SameLength DEF Sms

\* setsentstatus
LEMMA StoreStays ==
  ASSUME DaemonTypes, Daemon!Store
  PROVE  DaemonTypes' /\ TextsStay /\ DOMAIN smsq' = DOMAIN smsq
<1> DEFINE p == Head(pending)
<1>1. smsq' = [smsq EXCEPT ![p[1]].sent = p[2]]
  BY Zenon DEF Daemon!Store
<1>2. pending # <<>> /\ pending' = Tail(pending) /\ (msgs' = <<>> \/ msgs' = msgs)
  BY Zenon DEF Daemon!Store
<1>3. p \in Nat \X {"Y", "I"} /\ pending' \in Seq(Nat \X {"Y", "I"}) /\ msgs' \in Seq(Nat)
  <2>1. pending \in Seq(Nat \X {"Y", "I"}) /\ msgs \in Seq(Nat)
    BY DEF DaemonTypes
  <2>2. p \in Nat \X {"Y", "I"} /\ pending' \in Seq(Nat \X {"Y", "I"})
    BY <1>2, <2>1, HeadTailProperties, Zenon
  <2>3. msgs' \in Seq(Nat)
    BY <1>2, <2>1, EmptySeq, Zenon
  <2> QED BY <2>2, <2>3
<1>4. smsq \in Seq(Sms) /\ \A i \in DOMAIN smsq : smsq[i] \in Sms
  BY LenProperties DEF DaemonTypes
<1> HIDE DEF p
<1>5. \A x \in Sms : LET y == [x EXCEPT !.sent = p[2]]
                     IN y \in Sms /\ y.alert = x.alert /\ y.phone = x.phone
  BY <1>3 DEF Sms
<1>6. DOMAIN smsq' = DOMAIN smsq
  BY <1>1, Zenon
<1>7. \A i \in DOMAIN smsq : smsq'[i] = smsq[i] \/ smsq'[i] = [smsq[i] EXCEPT !.sent = p[2]]
  BY <1>1, Zenon
<1>8. \A i \in DOMAIN smsq : /\ smsq'[i] \in Sms
                             /\ smsq'[i].alert = smsq[i].alert /\ smsq'[i].phone = smsq[i].phone
  BY <1>4, <1>5, <1>7, Zenon
<1>9. smsq' \in Seq(Sms)
  <2>1. smsq' \in [DOMAIN smsq -> Sms]
    <3>1. smsq' = [i \in DOMAIN smsq |-> smsq'[i]]
      BY <1>1, Zenon
    <3> QED BY <1>8, <3>1
  <2> QED BY <1>4, <2>1, SameLength
<1> QED BY <1>3, <1>6, <1>8, <1>9 DEF DaemonTypes, TextsStay

\* Nor does any other step of the daemon lose a text.
LEMMA DaemonStays ==
  ASSUME DaemonTypes, Daemon!Next
  PROVE  DaemonTypes' /\ TextsStay /\ DOMAIN smsq' = DOMAIN smsq
<1>1. ASSUME smsq' = smsq \/ smsq' = Daemon!Cancelled \/ \E n : smsq' = Daemon!Heard(n)
      PROVE  smsq' \in Seq(Sms) /\ TextsStay /\ DOMAIN smsq' = DOMAIN smsq
  BY <1>1, HeardStays, CancelledStays DEF DaemonTypes, TextsStay
<1>2. CASE Daemon!GetUsers \/ Daemon!FailsForGood
  <2>1. UNCHANGED <<smsq, msgs, pending>>
    BY <1>2 DEF Daemon!GetUsers, Daemon!FailsForGood
  <2> QED BY <1>1, <2>1 DEF DaemonTypes
<1>3. CASE Daemon!NextUser
  <2>1. PICK places : /\ places = Daemon!UnsentOf(user')
                      /\ msgs' \in [1..Cardinality(places) -> places]
    BY <1>3, Zenon DEF Daemon!NextUser, Daemon!Cardinality, Cardinality
  <2>2. smsq' = smsq /\ pending' = pending
    BY <1>3 DEF Daemon!NextUser
  <2>3. DOMAIN smsq = 1..Len(smsq) /\ Len(smsq) \in Nat
    BY LenProperties DEF DaemonTypes
  <2>4. places \subseteq 1..Len(smsq)
    BY <2>1, <2>3 DEF Daemon!UnsentOf, Daemon!Unsent
  <2>5. Cardinality(places) \in Nat
    <3>1. IsFiniteSet(1..Len(smsq))
      BY <2>3, FS_Interval
    <3>2. IsFiniteSet(places)
      BY <2>4, <3>1, FS_Subset
    <3> QED BY <3>2, FS_CardinalityType
  <2>6. msgs' \in Seq(Nat)
    <3>1. msgs' \in [1..Cardinality(places) -> Nat]
      BY <2>1, <2>3, <2>4
    <3> QED BY <2>5, <3>1
  <2> QED BY <1>1, <2>2, <2>6 DEF DaemonTypes
<1>4. CASE Daemon!Sends
  <2> DEFINE n == Daemon!Fitting(msgs)
  <2>1. smsq' = Daemon!Heard(n) /\ pending' = Daemon!Statuses(n) /\ msgs' = msgs
    BY <1>4 DEF Daemon!Sends
  <2> HIDE DEF n
  <2>2. \A k \in DOMAIN msgs : msgs[k] \in Nat
    BY LenProperties DEF DaemonTypes
  <2>3. Daemon!Statuses(n) \in [DOMAIN msgs -> Nat \X {"Y", "I"}]
    BY <2>2 DEF Daemon!Statuses
  <2>4. pending' \in Seq(Nat \X {"Y", "I"})
    BY <2>1, <2>3, SameLength DEF DaemonTypes
  <2> QED BY <1>1, <2>1, <2>4 DEF DaemonTypes
<1>5. CASE Daemon!Fails
  <2>1. (smsq' = smsq \/ \E n : smsq' = Daemon!Heard(n)) /\ UNCHANGED <<msgs, pending>>
    BY <1>5 DEF Daemon!Fails
  <2> QED BY <1>1, <2>1 DEF DaemonTypes
<1>6. CASE Daemon!GiveUp
  BY <1>1, <1>6 DEF Daemon!GiveUp, DaemonTypes
<1>7. CASE Daemon!Crash
  BY <1>1, <1>7 DEF Daemon!Crash, DaemonTypes
<1> QED BY <1>2, <1>3, <1>4, <1>5, <1>6, <1>7, StoreStays DEF Daemon!Next, Daemon!Loop

--------------------------------------------------------------------------------
(* What every step owes the invariant. *)

TimeGoesOn == TextsStay /\ subscribed' \subseteq subscribed /\ resolved \subseteq resolved'

\* An alert that is matched anew is still in the queue, with whom it matches.
MatchedAnew == \A a : SameMatches(a) \/ (a \in alertq' /\ Covered(a)')

\* A row goes only when its phone has been served.
RowsStay == \A r \in rows : \/ Served(r.alert, PhoneOf[r.sub])'
                            \/ \E q \in rows' : q.alert = r.alert /\ q.sub = r.sub

\* If rows go only when they were served, alerts leave the queue only when they may and
\* have no row, and those that may leave next are covered, then no alert is lost.
LEMMA LostStays ==
  ASSUME LostOnlyWithItsRow, LeavingIsCovered, TimeGoesOn, MatchedAnew, RowsStay,
         posted' \subseteq Alert,
         \A a \in posted' \ alertq' :
           a \in posted \ alertq \/ (MayLeave(a) /\ ~Engine!HasRow(a, rows')),
         \A a \in Alert : MayLeave(a)' => MayLeave(a) \/ Covered(a)'
  PROVE  LostOnlyWithItsRow' /\ LeavingIsCovered'
<1>1. \A a, p : SameMatches(a) /\ Served(a, p) => Served(a, p)'
  BY ServedStays DEF TimeGoesOn
<1>2. ASSUME NEW a \in Alert, Covered(a)
      PROVE  Covered(a)'
  <2>1. CASE SameMatches(a)
    <3>1. ASSUME NEW p \in Phone, Wanting(a, p)' # {}
          PROVE  Served(a, p)' \/ \E r \in rows' : r.alert = a /\ PhoneOf[r.sub] = p
      <4>1. Served(a, p) \/ \E r \in rows : r.alert = a /\ PhoneOf[r.sub] = p
        BY <1>2, <2>1, <3>1 DEF Covered, SameMatches
      <4>2. ASSUME NEW r \in rows, r.alert = a, PhoneOf[r.sub] = p
            PROVE  Served(a, p)' \/ \E q \in rows' : q.alert = a /\ PhoneOf[q.sub] = p
        BY <4>2 DEF RowsStay
      <4> QED BY <1>1, <2>1, <4>1, <4>2
    <3> QED BY <3>1 DEF Covered
  <2> QED BY <2>1 DEF MatchedAnew
<1>3. LeavingIsCovered'
  BY <1>2 DEF LeavingIsCovered
<1>4. ASSUME NEW a \in posted' \ alertq', NEW p \in Phone, Wanting(a, p)' # {}
      PROVE  Served(a, p)'
  <2> SameMatches(a) /\ Wanting(a, p) # {}
    BY <1>4 DEF MatchedAnew, SameMatches
  <2>1. CASE a \in posted \ alertq
    BY <1>1, <2>1 DEF LostOnlyWithItsRow, Served
  <2>2. CASE MayLeave(a) /\ ~Engine!HasRow(a, rows')
    <3>1. Covered(a)'
      BY <1>2, <2>2 DEF LeavingIsCovered
    <3>2. Served(a, p)' \/ \E r \in rows' : r.alert = a
      BY <1>4, <3>1 DEF Covered
    <3> QED BY <2>2, <3>2 DEF Engine!HasRow
  <2> QED BY <1>4, <2>1, <2>2
<1>5. LostOnlyWithItsRow'
  BY <1>4 DEF LostOnlyWithItsRow, Served
<1> QED BY <1>3, <1>5

\* In most steps no alert is matched anew.
LEMMA MostStay ==
  ASSUME WaitInv, TimeGoesOn, matched' = matched, RowsStay, posted' \subseteq Alert,
         \A a \in posted' \ alertq' :
           a \in posted \ alertq \/ (MayLeave(a) /\ ~Engine!HasRow(a, rows')),
         \A a \in Alert : MayLeave(a)' => MayLeave(a)
  PROVE  LostOnlyWithItsRow' /\ LeavingIsCovered'
<1>1. MatchedAnew
  BY AllServedStay DEF MatchedAnew, TimeGoesOn
<1> QED BY <1>1, LostStays DEF WaitInv

\* No step that changes but the status of texts, and who has a profile, loses an alert.
LEMMA OthersKeep ==
  ASSUME WaitInv, DaemonTypes', TextsStay,
         UNCHANGED <<alertq, posted, resolved, rows, subscribed, afternoon, matched, phase,
                     new, todo, due, over, row>>
  PROVE  WaitInv'
<1>1. /\ \A a, p : Served(a, p) => Served(a, p)'
      /\ \A a, p : Queued(a, p)' = Queued(a, p)
  BY AllServedStay
<1>2. EngineTypes' /\ RowsAreQueued'
  BY <1>1 DEF WaitInv, TablesInv, EngineTypes, RowsAreQueued, IsOver
<1>3. LostOnlyWithItsRow' /\ LeavingIsCovered'
  <2>1. TimeGoesOn /\ RowsStay /\ posted' \subseteq Alert
    BY <1>2 DEF TimeGoesOn, RowsStay, EngineTypes
  <2>2. \A a \in Alert : MayLeave(a)' => MayLeave(a)
    BY DEF MayLeave, Engine!HasRow
  <2> QED BY <2>1, <2>2, MostStay
<1>4. RowIsServed' /\ TodoIsQueued'
  BY <1>1 DEF WaitInv, RowIsServed, TodoIsQueued
<1> QED BY <1>2, <1>3, <1>4 DEF WaitInv, TablesInv

\* No step of the daemon loses an alert.
LEMMA DaemonKeeps ==
  ASSUME WaitInv, Daemon!Next, UNCHANGED engine
  PROVE  WaitInv'
BY DaemonStays, OthersKeep DEF WaitInv, TablesInv, engine

--------------------------------------------------------------------------------
(* The steps around the alert engine. *)

\* Where smsq and the daemon stay, so do the types of the daemon.
LEMMA SmsqStays ==
  ASSUME DaemonTypes, UNCHANGED <<smsq, daemon>>
  PROVE  DaemonTypes' /\ TextsStay
BY DEF DaemonTypes, TextsStay, daemon

\* A posted alert is in the queue; one that is resolved changes what is waived only.
LEMMA AlertsKeep ==
  ASSUME WaitInv, NEW a \in Alert, Engine!Post(a) \/ Engine!Resolve(a), UNCHANGED daemon
  PROVE  WaitInv'
<1> USE DEF Engine!run, Engine!choice, Engine!out, Engine!tables
<1>1. /\ UNCHANGED <<rows, subscribed, afternoon, matched, phase, new, due, over, todo, row, smsq>>
      /\ posted' \subseteq Alert /\ resolved \subseteq resolved'
      /\ alertq \subseteq alertq' /\ alertq' \subseteq posted'
      /\ posted' \ alertq' \subseteq posted \ alertq
  BY DEF Engine!Post, Engine!Resolve, WaitInv, TablesInv, EngineTypes
<1>2. DaemonTypes' /\ TextsStay
  BY <1>1, SmsqStays DEF WaitInv, TablesInv
<1>3. EngineTypes' /\ RowsAreQueued'
  <2>1. \A b, p : Queued(b, p)' = Queued(b, p)
    BY <1>1, <1>2, AllServedStay
  <2> QED BY <1>1, <2>1 DEF WaitInv, TablesInv, EngineTypes, RowsAreQueued, IsOver
<1>4. LostOnlyWithItsRow' /\ LeavingIsCovered'
  <2>1. TimeGoesOn /\ RowsStay
    BY <1>1, <1>2 DEF TimeGoesOn, RowsStay
  <2>2. \A b \in Alert : MayLeave(b)' => MayLeave(b)
    BY <1>1 DEF MayLeave, Engine!HasRow
  <2> QED BY <1>1, <2>1, <2>2, MostStay
<1>5. RowIsServed'
  <2>1. \A b, p : Served(b, p) => Served(b, p)'
    BY <1>1, <1>2, AllServedStay
  <2> QED BY <1>1, <2>1 DEF WaitInv, RowIsServed
<1>6. TodoIsQueued'
  BY <1>1 DEF WaitInv, TodoIsQueued
<1> QED BY <1>2, <1>3, <1>4, <1>5, <1>6 DEF WaitInv, TablesInv

\* Who has an active profile changes nothing about what was matched.
LEMMA ProfilesKeep ==
  ASSUME WaitInv, NEW c, Engine!Deactivate(c) \/ Engine!Activate(c), UNCHANGED daemon
  PROVE  WaitInv'
<1> USE DEF Engine!run, Engine!choice, Engine!out, Engine!tables
<1>1. UNCHANGED <<alertq, posted, resolved, rows, subscribed, afternoon, matched, phase, new,
                  todo, due, over, row, smsq>>
  BY DEF Engine!Deactivate, Engine!Activate
<1> QED BY <1>1, SmsqStays, OthersKeep DEF WaitInv, TablesInv

\* At midnight the rows stay but for their time.
LEMMA TickKeeps ==
  ASSUME WaitInv, Engine!Tick, UNCHANGED daemon
  PROVE  WaitInv'
<1> USE DEF Engine!run, Engine!choice, Engine!out
<1>1. /\ UNCHANGED <<posted, resolved, subscribed, matched, alertq, phase, new, due, over, todo,
                     row, smsq>>
      /\ phase = "idle" /\ afternoon' \in BOOLEAN
  BY DEF Engine!Tick, WaitInv, TablesInv, EngineTypes
<1>2. rows' = rows \/ rows' = {[r EXCEPT !.early = TRUE] : r \in rows}
  BY DEF Engine!Tick
<1>3. \A r \in RowType : LET q == [r EXCEPT !.early = TRUE]
                         IN q \in RowType /\ q.alert = r.alert /\ q.sub = r.sub
  BY DEF RowType
<1>4. rows \subseteq RowType
  BY DEF WaitInv, TablesInv, EngineTypes
<1>5. /\ rows' \subseteq RowType
      /\ \A q \in rows' : \E r \in rows : q.alert = r.alert /\ q.sub = r.sub
      /\ \A r \in rows : \E q \in rows' : q.alert = r.alert /\ q.sub = r.sub
  <2>1. CASE rows' = rows
    BY <1>4, <2>1
  <2>2. CASE rows' = {[r EXCEPT !.early = TRUE] : r \in rows}
    <3>1. \A r \in rows : LET q == [r EXCEPT !.early = TRUE]
                          IN q \in RowType /\ q.alert = r.alert /\ q.sub = r.sub
      BY <1>3, <1>4
    <3> QED BY <2>2, <3>1, Zenon
  <2> QED BY <1>2, <2>1, <2>2
<1>6. DaemonTypes' /\ TextsStay
  BY <1>1, SmsqStays DEF WaitInv, TablesInv
<1>7. EngineTypes' /\ RowsAreQueued'
  <2>1. \A b, p : Queued(b, p)' = Queued(b, p)
    BY <1>1, <1>6, AllServedStay
  <2>2. EngineTypes'
    BY <1>1, <1>5 DEF WaitInv, TablesInv, EngineTypes
  <2>3. RowsAreQueued'
    BY <1>1, <1>5, <2>1 DEF WaitInv, TablesInv, RowsAreQueued, IsOver
  <2> QED BY <2>2, <2>3
<1>8. LostOnlyWithItsRow' /\ LeavingIsCovered'
  <2>1. TimeGoesOn /\ RowsStay /\ posted' \subseteq Alert
    BY <1>1, <1>5, <1>6, <1>7 DEF TimeGoesOn, RowsStay, EngineTypes
  <2>2. \A b \in Alert : MayLeave(b)' => MayLeave(b)
    BY <1>1, <1>5 DEF MayLeave, Engine!HasRow
  <2> QED BY <1>1, <2>1, <2>2, MostStay
<1>9. RowIsServed' /\ TodoIsQueued'
  BY <1>1 DEF RowIsServed, TodoIsQueued
<1> QED BY <1>6, <1>7, <1>8, <1>9 DEF WaitInv, TablesInv

\* The rows that go with a subscription are gone.
LEMMA UnsubscribeKeeps ==
  ASSUME WaitInv, NEW s \in Subscription, Engine!Unsubscribe(s), UNCHANGED daemon
  PROVE  WaitInv'
<1> USE DEF Engine!run, Engine!choice
<1>1. /\ UNCHANGED <<posted, resolved, afternoon, matched, alertq, phase, new, due, over, todo,
                     row, smsq>>
      /\ subscribed' = subscribed \ {s}
      /\ rows' = {r \in rows : r.sub # s}
  BY DEF Engine!Unsubscribe
<1>2. DaemonTypes' /\ TextsStay
  BY <1>1, SmsqStays DEF WaitInv, TablesInv
<1>3. EngineTypes' /\ RowsAreQueued'
  <2>1. \A b, p : Queued(b, p)' = Queued(b, p)
    BY <1>1, <1>2, AllServedStay
  <2> QED BY <1>1, <2>1 DEF WaitInv, TablesInv, EngineTypes, RowsAreQueued, IsOver
<1>4. LostOnlyWithItsRow' /\ LeavingIsCovered'
  <2>1. TimeGoesOn /\ posted' \subseteq Alert
    BY <1>1, <1>2, <1>3 DEF TimeGoesOn, EngineTypes
  <2>2. ASSUME NEW r \in rows, r.sub = s
        PROVE  RowIsGone(r.alert, PhoneOf[r.sub])'
    <3>1. s \in Queued(r.alert, PhoneOf[s])
      BY <2>2 DEF WaitInv, TablesInv, RowsAreQueued
    <3>2. s \in Queued(r.alert, PhoneOf[s])'
      BY <1>1, <1>2, <3>1, AllServedStay
    <3> QED BY <1>1, <2>2, <3>2 DEF RowIsGone
  <2>3. RowsStay
    BY <1>1, <2>2 DEF RowsStay, Served
  <2>4. \A b \in Alert : MayLeave(b)' => MayLeave(b)
    BY <1>1 DEF MayLeave, Engine!HasRow
  <2> QED BY <1>1, <2>1, <2>3, <2>4, MostStay
<1>5. RowIsServed'
  <2>1. \A b, p : Served(b, p) => Served(b, p)'
    BY <1>1, <1>2, AllServedStay
  <2> QED BY <1>1, <2>1 DEF WaitInv, RowIsServed
<1>6. TodoIsQueued'
  BY <1>1 DEF WaitInv, TodoIsQueued
<1> QED BY <1>2, <1>3, <1>4, <1>5, <1>6 DEF WaitInv, TablesInv

--------------------------------------------------------------------------------
(* The steps of a run. *)

\* The new alerts are in the queue when the run reads them.
LEMMA BeginKeeps ==
  ASSUME WaitInv, Engine!Begin, UNCHANGED daemon
  PROVE  WaitInv'
<1> USE DEF Engine!tables, Engine!out
<1>1. /\ UNCHANGED <<posted, resolved, subscribed, afternoon, matched, alertq, rows, todo, row,
                     smsq>>
      /\ phase' = "new" /\ new' = {a \in alertq : ~Engine!HasRow(a, rows)}
      /\ due' \subseteq rows /\ over' = {r \in due' : Engine!IsIgnored(r)}
  BY DEF Engine!Begin
<1>2. DaemonTypes' /\ TextsStay
  BY <1>1, SmsqStays DEF WaitInv, TablesInv
<1>3. EngineTypes' /\ RowsAreQueued'
  <2>1. \A b, p : Queued(b, p)' = Queued(b, p)
    BY <1>1, <1>2, AllServedStay
  <2>2. EngineTypes'
    BY <1>1 DEF WaitInv, TablesInv, EngineTypes
  <2>3. RowsAreQueued'
    BY <1>1, <2>1 DEF WaitInv, TablesInv, RowsAreQueued, Engine!IsIgnored, IsOver,
       Engine!HasRow
  <2> QED BY <2>2, <2>3
<1>4. LostOnlyWithItsRow' /\ LeavingIsCovered'
  <2>1. TimeGoesOn /\ RowsStay /\ posted' \subseteq Alert
    BY <1>1, <1>2, <1>3 DEF TimeGoesOn, RowsStay, EngineTypes
  <2>2. \A b \in Alert : MayLeave(b)' => MayLeave(b)
    BY <1>1 DEF MayLeave, Engine!HasRow
  <2> QED BY <1>1, <2>1, <2>2, MostStay
<1>5. RowIsServed' /\ TodoIsQueued'
  BY <1>1 DEF RowIsServed, TodoIsQueued
<1> QED BY <1>2, <1>3, <1>4, <1>5 DEF WaitInv, TablesInv

RowsOf(a) == {[alert |-> a, sub |-> s, early |-> ~afternoon] :
                s \in Engine!First(Engine!EveryMatch(a))}

\* Each phone that waits for a new alert gets a row, of one of the subscriptions for it.
LEMMA HandleNewKeeps ==
  ASSUME WaitInv, Engine!HandleNew, UNCHANGED daemon
  PROVE  WaitInv'
<1> USE DEF Engine!world, Engine!out
<1> DEFINE Chosen(a) == Engine!First(Engine!EveryMatch(a))
<1>1. PICK added :
        /\ added = UNION {RowsOf(a) : a \in new}
        /\ rows' = rows \cup added /\ todo' = rows'
        /\ due' = due \cup {r \in added : TypeOf[r.sub] = "now"}
        /\ matched' = {q \in matched : q[1] \notin new}
                        \cup {q \in Matches : q[1] \in new /\ q[2] \in Engine!EveryMatch(q[1])}
  BY DEF Engine!HandleNew, RowsOf
<1>2. /\ UNCHANGED <<posted, resolved, subscribed, afternoon, alertq, new, over, row, smsq>>
      /\ phase = "new" /\ phase' = "walk"
  BY DEF Engine!HandleNew
<1>3. /\ new \subseteq alertq /\ new \subseteq Alert /\ subscribed \subseteq Subscription
      /\ afternoon \in BOOLEAN
  BY <1>2 DEF WaitInv, TablesInv, EngineTypes, RowsAreQueued
<1>4. \A q \in added : q \in RowType /\ q.alert \in new
  <2>1. ASSUME NEW a \in new, NEW s \in Chosen(a)
        PROVE  LET q == [alert |-> a, sub |-> s, early |-> ~afternoon]
               IN q \in RowType /\ q.alert \in new
    <3>1. s \in Subscription
      BY <1>3 DEF Engine!First, Engine!EveryMatch
    <3> QED BY <1>3, <3>1 DEF RowType
  <2>2. \A q \in added : \E a \in new : q \in RowsOf(a)
    BY <1>1
  <2>3. \A a \in new : \A q \in RowsOf(a) : q \in RowType /\ q.alert \in new
    BY <2>1 DEF RowsOf
  <2> QED BY <2>2, <2>3
<1>5. \A a \in new : \A s \in Chosen(a) : \E q \in added : q.alert = a /\ q.sub = s
  <2>1. \A a, s : LET q == [alert |-> a, sub |-> s, early |-> ~afternoon]
                  IN q.alert = a /\ q.sub = s
    OBVIOUS
  <2>2. \A a \in new : \A s \in Chosen(a) :
          [alert |-> a, sub |-> s, early |-> ~afternoon] \in added
    <3>1. \A a \in new : RowsOf(a) \subseteq added
      BY <1>1
    <3> QED BY <3>1 DEF RowsOf
  <2> QED BY <2>1, <2>2, Zenon
<1>6. DaemonTypes' /\ TextsStay
  BY <1>2, SmsqStays DEF WaitInv, TablesInv
<1>7. \A a, p : a \notin new => Wanting(a, p)' = Wanting(a, p)
  BY <1>1 DEF Wanting
<1>8. ASSUME NEW r \in rows
       PROVE  r.sub \in Queued(r.alert, PhoneOf[r.sub])'
  <2>1. r.alert \notin new /\ r.sub \in Queued(r.alert, PhoneOf[r.sub])
    BY <1>2 DEF WaitInv, TablesInv, RowsAreQueued
  <2> QED BY <1>7, <2>1 DEF Queued
<1>9. \A a \in new : \A p : Wanting(a, p)' = {s \in Engine!EveryMatch(a) : PhoneOf[s] = p}
  <2>1. \A a \in new : \A s : <<a, s>> \in matched' <=> s \in Engine!EveryMatch(a)
    BY <1>1 DEF Engine!EveryMatch
  <2>2. \A a : Engine!EveryMatch(a) \subseteq Subscription
    BY <1>3 DEF Engine!EveryMatch
  <2> QED BY <2>1, <2>2 DEF Wanting
<1>10. ASSUME NEW q \in added
       PROVE  q.sub \in Queued(q.alert, PhoneOf[q.sub])'
  <2>1. q.alert \in new /\ q.sub \in Chosen(q.alert)
    <3>1. PICK a \in new : q \in RowsOf(a)
      BY <1>1
    <3>2. PICK s \in Chosen(a) : q = [alert |-> a, sub |-> s, early |-> ~afternoon]
      BY <3>1 DEF RowsOf
    <3>3. q.alert = a /\ q.sub = s
      BY <3>2
    <3> QED BY <3>3
  <2> DEFINE W == {s \in Engine!EveryMatch(q.alert) : PhoneOf[s] = PhoneOf[q.sub]}
  <2>2. Queued(q.alert, PhoneOf[q.sub])' = Engine!First(W)
    BY <1>9, <2>1 DEF Queued
  <2>3. q.sub \in Engine!First(W)
    BY <2>1 DEF Engine!First
  <2> QED BY <2>2, <2>3
<1>11. EngineTypes' /\ RowsAreQueued'
  <2>1. EngineTypes'
    BY <1>1, <1>2, <1>4 DEF WaitInv, TablesInv, EngineTypes
  <2>2. RowsAreQueued'
    BY <1>1, <1>2, <1>3, <1>4, <1>8, <1>10 DEF WaitInv, TablesInv, RowsAreQueued, IsOver
  <2> QED BY <2>1, <2>2
<1>12. \A a \in new : Covered(a)'
  <2>1. ASSUME NEW a \in new, NEW p \in Phone, Wanting(a, p)' # {}
        PROVE  \E r \in rows' : r.alert = a /\ PhoneOf[r.sub] = p
    <3>1. PICK s \in Engine!EveryMatch(a) : PhoneOf[s] = p
      BY <1>9, <2>1
    <3>2. Engine!EveryMatch(a) \in SUBSET Subscription
      BY <1>3 DEF Engine!EveryMatch
    <3>3. PICK m \in Chosen(a) : PhoneOf[m] = p
      BY <3>1, <3>2, FirstServes
    <3> QED BY <1>1, <1>5, <3>3
  <2> QED BY <2>1 DEF Covered
<1>13. LostOnlyWithItsRow' /\ LeavingIsCovered'
  <2>1. MatchedAnew
    BY <1>2, <1>3, <1>12, <1>7 DEF MatchedAnew, SameMatches
  <2>2. RowsStay
    BY <1>1 DEF RowsStay
  <2>3. TimeGoesOn /\ posted' \subseteq Alert
    BY <1>2, <1>6, <1>11 DEF TimeGoesOn, EngineTypes
  <2>4. ASSUME NEW b \in Alert, MayLeave(b)'
        PROVE  MayLeave(b) \/ Covered(b)'
    <3>1. b \in new \/ Engine!HasRow(b, rows')
      BY <1>2, <2>4 DEF MayLeave, Engine!HasRow
    <3>2. b \in new \/ Engine!HasRow(b, rows)
      BY <1>1, <1>4, <3>1 DEF Engine!HasRow
    <3> QED BY <1>12, <3>2 DEF MayLeave
  <2>5. posted' \ alertq' = posted \ alertq
    BY <1>2
  <2> QED BY <2>1, <2>2, <2>3, <2>4, <2>5, LostStays DEF WaitInv
<1>14. RowIsServed' /\ TodoIsQueued'
  BY <1>1, <1>2 DEF RowIsServed, TodoIsQueued
<1> QED BY <1>6, <1>11, <1>13, <1>14 DEF WaitInv, TablesInv

\* Rows that are passed by stay as they are: a failure, or the end of the walk.
LEMMA PassingKeeps ==
  ASSUME WaitInv, UNCHANGED daemon,
         (\E r \in todo : Engine!Skip(r) \/ Engine!SendFails(r)) \/ Engine!EndWalk
           \/ Engine!Crash
  PROVE  WaitInv'
<1> USE DEF Engine!world, Engine!tables, Engine!out, Engine!choice
<1>1. /\ UNCHANGED <<posted, resolved, subscribed, afternoon, matched, alertq, rows, smsq>>
      /\ new' \subseteq new /\ todo' \subseteq todo
      /\ (due' = due /\ over' = over) \/ (due' = {} /\ over' = {})
      /\ \/ phase' = "idle"
         \/ phase = "walk" /\ phase' \in {"walk", "clean"}
  BY DEF Engine!Skip, Engine!SendFails, Engine!MaySend, Engine!EndWalk, Engine!Crash
<1>2. DaemonTypes' /\ TextsStay
  BY <1>1, SmsqStays DEF WaitInv, TablesInv
<1>3. EngineTypes' /\ RowsAreQueued'
  <2>1. EngineTypes'
    BY <1>1 DEF WaitInv, TablesInv, EngineTypes
  <2>2. \A b, p : Queued(b, p)' = Queued(b, p)
    BY <1>1, <1>2, AllServedStay
  <2>3. RowsAreQueued'
    BY <2>2, <1>1 DEF WaitInv, TablesInv, RowsAreQueued, IsOver
  <2> QED BY <2>1, <2>3
<1>4. LostOnlyWithItsRow' /\ LeavingIsCovered'
  <2>1. TimeGoesOn /\ RowsStay /\ posted' \subseteq Alert
    BY <1>1, <1>2, <1>3 DEF TimeGoesOn, RowsStay, EngineTypes
  <2>2. \A b \in Alert : MayLeave(b)' => MayLeave(b)
    BY <1>1 DEF MayLeave, Engine!HasRow
  <2> QED BY <1>1, <2>1, <2>2, MostStay
<1>5. RowIsServed' /\ TodoIsQueued'
  BY <1>1 DEF WaitInv, RowIsServed, TodoIsQueued
<1> QED BY <1>2, <1>3, <1>4, <1>5 DEF WaitInv, TablesInv

\* A row is deleted only after its text was put in smsq, or when it is over.
LEMMA SendKeeps ==
  ASSUME WaitInv, NEW r \in todo, Engine!Send(r), UNCHANGED daemon
  PROVE  WaitInv'
<1> USE DEF Engine!world, Engine!tables, Engine!choice
<1>1. /\ UNCHANGED <<posted, resolved, subscribed, afternoon, matched, alertq, rows, new, due, over,
                     todo>>
      /\ phase = "walk" /\ phase' = "delete" /\ row' = r /\ r.sub \in subscribed
      /\ (r \in over /\ smsq' = smsq) \/ smsq' = Engine!Text(r)
  BY DEF Engine!Send, Engine!MaySend, Engine!Ignored
<1>2. r \in RowType /\ r \in rows
  BY <1>1 DEF WaitInv, TablesInv, EngineTypes, TodoIsQueued
<1>3. DaemonTypes' /\ TextsStay /\ Served(r.alert, PhoneOf[r.sub])'
  <2>1. CASE r \in over /\ smsq' = smsq
    <3>1. IsOver(r.alert, r.sub) /\ r.sub \in Queued(r.alert, PhoneOf[r.sub])
      BY <1>2, <2>1 DEF WaitInv, TablesInv, RowsAreQueued
    <3>2. DaemonTypes' /\ TextsStay
      BY <2>1, SmsqStays DEF WaitInv, TablesInv
    <3>3. RowIsGone(r.alert, PhoneOf[r.sub])'
      BY <1>1, <3>1, <3>2, AllServedStay DEF RowIsGone, IsOver
    <3> QED BY <3>2, <3>3 DEF Served
  <2>2. CASE smsq' = Engine!Text(r)
    <3>1. /\ smsq' \in Seq(Sms) /\ TextsStay /\ Texts(r.alert, PhoneOf[r.sub])' # {}
      BY <1>2, <2>2, AppendText DEF WaitInv, TablesInv
    <3>2. DaemonTypes'
      BY <3>1 DEF WaitInv, TablesInv, DaemonTypes, daemon
    <3> QED BY <3>1, <3>2 DEF Served
  <2> QED BY <1>1, <2>1, <2>2
<1>4. EngineTypes' /\ RowsAreQueued'
  <2>1. EngineTypes'
    BY <1>1, <1>2 DEF WaitInv, TablesInv, EngineTypes
  <2>2. \A b, p : Queued(b, p)' = Queued(b, p)
    BY <1>1, <1>3, AllServedStay
  <2>3. RowsAreQueued'
    BY <2>2, <1>1 DEF WaitInv, TablesInv, RowsAreQueued, IsOver
  <2> QED BY <2>1, <2>3
<1>5. LostOnlyWithItsRow' /\ LeavingIsCovered'
  <2>1. TimeGoesOn /\ RowsStay /\ posted' \subseteq Alert
    BY <1>1, <1>3, <1>4 DEF TimeGoesOn, RowsStay, EngineTypes
  <2>2. \A b \in Alert : MayLeave(b)' => MayLeave(b)
    BY <1>1, <1>2 DEF MayLeave, Engine!HasRow
  <2> QED BY <1>1, <2>1, <2>2, MostStay
<1>6. RowIsServed'
  BY <1>1, <1>3 DEF RowIsServed
<1>7. TodoIsQueued'
  BY <1>1 DEF WaitInv, TodoIsQueued
<1> QED BY <1>3, <1>4, <1>5, <1>6, <1>7 DEF WaitInv, TablesInv

\* The row that goes was served.
LEMMA DeleteRowKeeps ==
  ASSUME WaitInv, Engine!DeleteRow, UNCHANGED daemon
  PROVE  WaitInv'
<1> USE DEF Engine!world, Engine!choice, Engine!out
<1>1. /\ UNCHANGED <<posted, resolved, subscribed, afternoon, matched, alertq, new, due, over, todo,
                     row, smsq>>
      /\ phase = "delete" /\ phase' = "count" /\ rows' = rows \ {row}
  BY DEF Engine!DeleteRow, Engine!RowGone
<1>2. DaemonTypes' /\ TextsStay
  BY <1>1, SmsqStays DEF WaitInv, TablesInv
<1>3. EngineTypes' /\ RowsAreQueued'
  <2>1. EngineTypes'
    BY <1>1 DEF WaitInv, TablesInv, EngineTypes
  <2>2. \A b, p : Queued(b, p)' = Queued(b, p)
    BY <1>1, <1>2, AllServedStay
  <2>3. RowsAreQueued'
    BY <2>2, <1>1 DEF WaitInv, TablesInv, RowsAreQueued, IsOver
  <2> QED BY <2>1, <2>3
<1>4. RowIsServed' /\ Served(row.alert, PhoneOf[row.sub])'
  <2>1. \A b, p : Served(b, p) => Served(b, p)'
    BY <1>1, <1>2, AllServedStay
  <2>2. Served(row.alert, PhoneOf[row.sub])
    BY <1>1 DEF WaitInv, RowIsServed
  <2>3. Served(row.alert, PhoneOf[row.sub])'
    BY <1>1, <2>1, <2>2
  <2> QED BY <1>1, <2>3 DEF RowIsServed
<1>5. LostOnlyWithItsRow' /\ LeavingIsCovered'
  <2>1. TimeGoesOn /\ posted' \subseteq Alert
    BY <1>1, <1>2, <1>3 DEF TimeGoesOn, EngineTypes
  <2>2. RowsStay
    BY <1>1, <1>4 DEF RowsStay
  <2>3. \A b \in Alert : MayLeave(b)' => MayLeave(b)
    BY <1>1 DEF MayLeave, Engine!HasRow
  <2> QED BY <1>1, <2>1, <2>2, <2>3, MostStay
<1>6. TodoIsQueued'
  BY <1>1 DEF WaitInv, TodoIsQueued
<1> QED BY <1>2, <1>3, <1>4, <1>5, <1>6 DEF WaitInv, TablesInv

\* The alert goes with the last row of it.
LEMMA DeleteAlertKeeps ==
  ASSUME WaitInv, Engine!DeleteAlert, UNCHANGED daemon
  PROVE  WaitInv'
<1> USE DEF Engine!world, Engine!choice, Engine!out
<1>1. /\ UNCHANGED <<posted, resolved, subscribed, afternoon, matched, new, due, over, smsq>>
      /\ phase = "count" /\ phase' = "walk" /\ todo' = todo \ {row}
      /\ alertq' = alertq \/ (alertq' = alertq \ {row.alert} /\ ~Engine!HasRow(row.alert, rows))
      /\ rows' = {r \in rows : r.alert \in alertq'}
  BY DEF Engine!DeleteAlert, Engine!IsLast
<1>2. rows' = rows
  BY <1>1 DEF WaitInv, TablesInv, RowsAreQueued, Engine!HasRow
<1>3. DaemonTypes' /\ TextsStay
  BY <1>1, SmsqStays DEF WaitInv, TablesInv
<1>4. EngineTypes' /\ RowsAreQueued'
  <2>1. EngineTypes'
    BY <1>1, <1>2 DEF WaitInv, TablesInv, EngineTypes
  <2>2. \A b, p : Queued(b, p)' = Queued(b, p)
    BY <1>1, <1>3, AllServedStay
  <2>3. RowsAreQueued'
    BY <2>2, <1>1 DEF WaitInv, TablesInv, RowsAreQueued, IsOver
  <2> QED BY <2>1, <2>3
<1>5. LostOnlyWithItsRow' /\ LeavingIsCovered'
  <2>1. TimeGoesOn /\ RowsStay /\ posted' \subseteq Alert
    BY <1>1, <1>2, <1>3, <1>4 DEF TimeGoesOn, RowsStay, EngineTypes
  <2>2. \A b \in Alert : MayLeave(b)' => MayLeave(b)
    BY <1>1, <1>2 DEF MayLeave, Engine!HasRow
  <2>3. ASSUME NEW b \in posted' \ alertq', b \notin posted \ alertq
        PROVE  MayLeave(b) /\ ~Engine!HasRow(b, rows')
    <3>1. b = row.alert /\ ~Engine!HasRow(b, rows)
      BY <1>1, <2>3
    <3> QED BY <1>1, <1>2, <3>1 DEF MayLeave
  <2> QED BY <1>1, <2>1, <2>2, <2>3, MostStay
<1>6. RowIsServed' /\ TodoIsQueued'
  BY <1>1, <1>2 DEF WaitInv, RowIsServed, TodoIsQueued
<1> QED BY <1>3, <1>4, <1>5, <1>6 DEF WaitInv, TablesInv

\* A new alert that nobody waits for goes.
LEMMA CleanKeeps ==
  ASSUME WaitInv, Engine!Clean, UNCHANGED daemon
  PROVE  WaitInv'
<1> USE DEF Engine!world, Engine!out
<1>1. /\ UNCHANGED <<posted, resolved, subscribed, afternoon, matched, due, over, smsq, row>>
      /\ phase = "clean" /\ phase' = "idle" /\ new' = {} /\ todo' = todo
      /\ alertq' = alertq \ Engine!Handled
      /\ rows' = {r \in rows : r.alert \in alertq'}
  BY DEF Engine!Clean
<1>2. rows' = rows
  BY <1>1 DEF WaitInv, TablesInv, RowsAreQueued, Engine!Handled, Engine!HasRow
<1>3. DaemonTypes' /\ TextsStay
  BY <1>1, SmsqStays DEF WaitInv, TablesInv
<1>4. EngineTypes' /\ RowsAreQueued'
  <2>1. EngineTypes'
    BY <1>1, <1>2 DEF WaitInv, TablesInv, EngineTypes
  <2>2. \A b, p : Queued(b, p)' = Queued(b, p)
    BY <1>1, <1>3, AllServedStay
  <2>3. RowsAreQueued'
    BY <2>2, <1>1 DEF WaitInv, TablesInv, RowsAreQueued, IsOver
  <2> QED BY <2>1, <2>3
<1>5. LostOnlyWithItsRow' /\ LeavingIsCovered'
  <2>1. TimeGoesOn /\ RowsStay /\ posted' \subseteq Alert
    BY <1>1, <1>2, <1>3, <1>4 DEF TimeGoesOn, RowsStay, EngineTypes
  <2>2. \A b \in Alert : MayLeave(b)' => MayLeave(b)
    BY <1>1, <1>2 DEF MayLeave, Engine!HasRow
  <2>3. ASSUME NEW b \in posted' \ alertq', b \notin posted \ alertq
        PROVE  MayLeave(b) /\ ~Engine!HasRow(b, rows')
    <3>1. b \in new /\ ~Engine!HasRow(b, rows)
      BY <1>1, <2>3 DEF Engine!Handled
    <3> QED BY <1>1, <1>2, <3>1 DEF MayLeave
  <2> QED BY <1>1, <2>1, <2>2, <2>3, MostStay
<1>6. RowIsServed' /\ TodoIsQueued'
  BY <1>1 DEF RowIsServed, TodoIsQueued
<1> QED BY <1>3, <1>4, <1>5, <1>6 DEF WaitInv, TablesInv

--------------------------------------------------------------------------------
(* Theorems: no alert is lost. *)

\* What is there at first has been sent to those it is for.
LEMMA FirstWait == Init => WaitInv
<1> SUFFICES ASSUME Init PROVE WaitInv
  OBVIOUS
<1>1. /\ posted = {m.alert : m \in Engine!Range(Earlier)} /\ resolved = posted
      /\ matched = {q \in Matches : q[1] \in posted}
      /\ subscribed = Subscription /\ afternoon = FALSE
      /\ alertq = {} /\ rows = {} /\ phase = "idle" /\ new = {} /\ due = {} /\ over = {}
      /\ todo = {} /\ smsq = Earlier
      /\ msgs = <<>> /\ pending = <<>>
  BY DEF Init, Engine!Init, Daemon!Init
<1>2. Earlier \in Seq(Sms) /\ \A i \in DOMAIN Earlier : Earlier[i] \in Sms
  <2>1. Earlier \in Seq(Sms)
    BY EarlierAssumption DEF Sms
  <2> QED BY <2>1, LenProperties
<1>3. \A a \in posted : \E i \in DOMAIN Earlier : a = Earlier[i].alert
  BY <1>1 DEF Engine!Range
<1>4. posted \subseteq Alert
  BY <1>2, <1>3 DEF Sms
<1>5. TablesInv
  <2>1. EngineTypes
    BY <1>1, <1>4 DEF EngineTypes
  <2>2. DaemonTypes
    BY <1>1, <1>2, EmptySeq DEF DaemonTypes
  <2>3. RowsAreQueued
    BY <1>1 DEF RowsAreQueued
  <2> QED BY <2>1, <2>2, <2>3 DEF TablesInv
<1>6. LostOnlyWithItsRow
  <2>1. ASSUME NEW a \in posted, NEW p \in Phone, Wanting(a, p) # {}
        PROVE  Texts(a, p) # {}
    <3>1. PICK i \in DOMAIN Earlier : a = Earlier[i].alert
      BY <1>3
    <3>2. PICK s \in Subscription : PhoneOf[s] = p /\ <<a, s>> \in Matches
      BY <1>1, <2>1 DEF Wanting
    <3>3. PICK k \in DOMAIN Earlier : Earlier[k].alert = a /\ Earlier[k].phone = p
      BY <3>1, <3>2, EarlierAssumption
    <3> QED BY <1>1, <3>3 DEF Texts
  <2> QED BY <2>1 DEF LostOnlyWithItsRow
<1>7. LeavingIsCovered /\ RowIsServed /\ TodoIsQueued
  BY <1>1 DEF LeavingIsCovered, MayLeave, Engine!HasRow, RowIsServed, TodoIsQueued
<1> QED BY <1>5, <1>6, <1>7 DEF WaitInv

\* Who waits for an alert has a row as long as the alert may leave the queue, through every
\* step of the two daemons, of users and of time.
THEOREM WaitInvHolds == Spec => []WaitInv
<1>1. WaitInv /\ [Next]_vars => WaitInv'
  <2> SUFFICES ASSUME WaitInv, [Next]_vars PROVE WaitInv'
    OBVIOUS
  <2>1. CASE Engine!Next /\ UNCHANGED daemon
    BY <2>1, AlertsKeep, ProfilesKeep, TickKeeps, UnsubscribeKeeps, BeginKeeps, HandleNewKeeps,
       PassingKeeps, SendKeeps, DeleteRowKeeps, DeleteAlertKeeps, CleanKeeps
       DEF Engine!Next, Engine!CheckAlerts
  <2>2. CASE Daemon!Next /\ UNCHANGED engine
    BY <2>2, DaemonKeeps
  <2>3. CASE UNCHANGED vars
    <3>1. DaemonTypes' /\ TextsStay
      BY <2>3, SmsqStays DEF WaitInv, TablesInv, vars
    <3> QED BY <2>3, <3>1, OthersKeep DEF vars, engine
  <2> QED BY <2>1, <2>2, <2>3 DEF Next
<1> QED BY <1>1, FirstWait, PTL DEF Spec

\* No alert leaves the alert queue before each phone that it matched was sent its text, unless
\* the subscription it was queued for was deleted, or was to ignore what is over: whatever
\* shares the alert and wherever the runs are cut short.
THEOREM LostOnlyWithItsRowHolds == Spec => []LostOnlyWithItsRow
<1>1. WaitInv => LostOnlyWithItsRow
  BY DEF WaitInv
<1> QED BY <1>1, WaitInvHolds, PTL

--------------------------------------------------------------------------------
(* How many texts an alert may still become. *)

\* The alert is one of those that the run has matched.
InOrder(a) == phase \in {"walk", "delete", "count", "clean"} /\ a \in new

\* Alert a may still become a text for phone p: it is yet to be posted, it has a row that is
\* not that of a text that was just written, or it will be matched as a new one.
Open(a, p) ==
  \/ a \notin posted
  \/ \E r \in rows : r.alert = a /\ PhoneOf[r.sub] = p /\ ~(phase = "delete" /\ r = row)
  \/ a \in alertq /\ ~Engine!HasRow(a, rows) /\ ~InOrder(a) /\ ~(phase = "count" /\ row.alert = a)

\* A phone waits once for an alert.
RowsOnce == \A r, q \in rows :
  r.alert = q.alert /\ PhoneOf[r.sub] = PhoneOf[q.sub] => r = q

\* Nobody waits for a new alert.
NewNoRows == phase = "new" => \A a \in new : ~Engine!HasRow(a, rows)

\* The texts there are, and the one there may still be, are one and those of faults.
TextBudget == \A a \in Alert, p \in Phone :
  Cardinality(Texts(a, p)) <= IF Open(a, p) THEN faults ELSE 1 + faults

OnceInv == faults \in Nat /\ RowsOnce /\ NewNoRows /\ TextBudget

\* The texts are finitely many.
LEMMA TextsAreFinite ==
  ASSUME DaemonTypes, NEW a, NEW p
  PROVE  IsFiniteSet(Texts(a, p)) /\ Cardinality(Texts(a, p)) \in Nat
<1>1. DOMAIN smsq = 1..Len(smsq) /\ Len(smsq) \in Nat
  BY LenProperties DEF DaemonTypes
<1>2. IsFiniteSet(1..Len(smsq))
  BY <1>1, FS_Interval
<1>3. IsFiniteSet(Texts(a, p))
  BY <1>1, <1>2, FS_Subset DEF Texts
<1> QED BY <1>3, FS_CardinalityType

SameTexts == \A a, p : Texts(a, p)' = Texts(a, p)

\* A step that writes no text keeps the budget, when it opens nothing or is a fault.
LEMMA BudgetStays ==
  ASSUME DaemonTypes, faults \in Nat, TextBudget, SameTexts, faults' \in Nat,
         \/ faults' > faults
         \/ faults' = faults /\ \A a \in Alert, p \in Phone : Open(a, p)' => Open(a, p)
  PROVE  TextBudget'
<1>1. ASSUME NEW a \in Alert, NEW p \in Phone
      PROVE  Cardinality(Texts(a, p))' <= IF Open(a, p)' THEN faults' ELSE 1 + faults'
  <2> DEFINE T == Texts(a, p)
  <2>1. T' = T
    BY DEF SameTexts
  <2>2. Cardinality(T) <= (IF Open(a, p) THEN faults ELSE 1 + faults) /\ Cardinality(T) \in Nat
    BY TextsAreFinite DEF TextBudget
  <2> HIDE DEF T
  <2>3. CASE faults' > faults
    <3>1. Cardinality(T') <= IF Open(a, p)' THEN faults' ELSE 1 + faults'
      BY <2>1, <2>2, <2>3
    <3> QED BY <3>1 DEF T
  <2>4. CASE faults' = faults /\ (Open(a, p)' => Open(a, p))
    <3>1. Cardinality(T') <= IF Open(a, p)' THEN faults' ELSE 1 + faults'
      BY <2>1, <2>2, <2>4
    <3> QED BY <3>1 DEF T
  <2> QED BY <2>3, <2>4
<1> QED BY <1>1 DEF TextBudget

\* Where smsq stays, so do the texts.
LEMMA TextsAreSame ==
  ASSUME smsq' = smsq
  PROVE  SameTexts
BY DEF SameTexts, Texts

\* The daemon writes none.
LEMMA DaemonOnce ==
  ASSUME WaitInv, OnceInv, Daemon!Next, UNCHANGED engine
  PROVE  OnceInv'
<1> USE DEF engine
<1>1. SameTexts
  <2>1. TextsStay /\ DOMAIN smsq' = DOMAIN smsq
    BY DaemonStays DEF WaitInv, TablesInv
  <2> QED BY <2>1 DEF TextsStay, SameTexts, Texts
<1>2. faults' = faults \/ faults' = faults + 1
  BY DEF Daemon!Next, Daemon!Loop, Daemon!GetUsers, Daemon!NextUser, Daemon!Sends,
         Daemon!Fails, Daemon!FailsForGood, Daemon!GiveUp, Daemon!Store, Daemon!Crash
<1>3. RowsOnce' /\ NewNoRows'
  BY DEF OnceInv, RowsOnce, NewNoRows, Engine!HasRow
<1>4. \A a \in Alert, p \in Phone : Open(a, p)' => Open(a, p)
  BY DEF Open, InOrder, Engine!HasRow
<1>5. faults' \in Nat /\ (faults' > faults \/ faults' = faults)
  BY <1>2 DEF OnceInv
<1>6. TextBudget'
  BY <1>1, <1>4, <1>5, BudgetStays DEF WaitInv, TablesInv, OnceInv
<1> QED BY <1>3, <1>5, <1>6 DEF OnceInv

\* Steps of the engine that write no text and make no row.
LEMMA QuietOnce ==
  ASSUME WaitInv, OnceInv, smsq' = smsq, rows' \subseteq rows, NewNoRows',
         \/ faults' = faults + 1
         \/ faults' = faults /\ \A a \in Alert, p \in Phone : Open(a, p)' => Open(a, p)
  PROVE  OnceInv'
<1>1. faults' \in Nat /\ (faults' > faults \/ faults' = faults)
  BY DEF OnceInv
<1>2. RowsOnce'
  BY DEF OnceInv, RowsOnce
<1>3. TextBudget'
  BY <1>1, BudgetStays, TextsAreSame DEF WaitInv, TablesInv, OnceInv
<1> QED BY <1>1, <1>2, <1>3 DEF OnceInv

\* What happens around the engine: an alert that is posted was open, and what a deleted
\* subscription opens is its fault.
LEMMA AroundOnce ==
  ASSUME WaitInv, OnceInv,
         \/ \E a \in Alert : Engine!Post(a) \/ Engine!Resolve(a)
         \/ \E s \in Subscription : Engine!Unsubscribe(s)
         \/ \E c : Engine!Deactivate(c) \/ Engine!Activate(c)
         \/ Engine!Crash
  PROVE  OnceInv'
<1> USE DEF Engine!run, Engine!choice, Engine!out, Engine!tables, Engine!world
<1>1. ASSUME NEW a \in Alert, Engine!Post(a) \/ Engine!Resolve(a)
      PROVE  OnceInv'
  <2>1. /\ UNCHANGED <<rows, phase, new, row, smsq, faults>> /\ posted \subseteq posted'
        /\ (alertq' = alertq \/ (a \notin posted /\ alertq' = alertq \cup {a}))
    BY <1>1 DEF Engine!Post, Engine!Resolve
  <2>2. \A b \in Alert, p \in Phone : Open(b, p)' => Open(b, p)
    BY <2>1 DEF Open, InOrder, Engine!HasRow
  <2>3. NewNoRows'
    BY <2>1 DEF OnceInv, NewNoRows, Engine!HasRow
  <2> QED BY <2>1, <2>2, <2>3, QuietOnce
<1>2. ASSUME NEW s \in Subscription, Engine!Unsubscribe(s)
      PROVE  OnceInv'
  <2>1. smsq' = smsq /\ rows' \subseteq rows /\ faults' = faults + 1 /\ UNCHANGED <<phase, new>>
    BY <1>2 DEF Engine!Unsubscribe
  <2>2. NewNoRows'
    BY <2>1 DEF OnceInv, NewNoRows, Engine!HasRow
  <2> QED BY <2>1, <2>2, QuietOnce
<1>3. CASE Engine!Crash
  <2>1. smsq' = smsq /\ rows' = rows /\ faults' = faults + 1 /\ phase' = "idle"
    BY <1>3 DEF Engine!Crash
  <2>2. NewNoRows'
    BY <2>1 DEF NewNoRows
  <2> QED BY <2>1, <2>2, QuietOnce
<1>4. ASSUME NEW c, Engine!Deactivate(c) \/ Engine!Activate(c)
      PROVE  OnceInv'
  <2>1. /\ UNCHANGED <<posted, alertq, rows, phase, new, row, smsq>>
        /\ faults' = faults \/ faults' = faults + 1
    BY <1>4 DEF Engine!Deactivate, Engine!Activate
  <2>2. NewNoRows'
    BY <2>1 DEF OnceInv, NewNoRows, Engine!HasRow
  <2>3. \A b \in Alert, p \in Phone : Open(b, p)' => Open(b, p)
    BY <2>1 DEF Open, InOrder, Engine!HasRow
  <2> QED BY <2>1, <2>2, <2>3, QuietOnce
<1> QED BY <1>1, <1>2, <1>3, <1>4

\* At midnight each row becomes one.
LEMMA TickOnce ==
  ASSUME WaitInv, OnceInv, Engine!Tick
  PROVE  OnceInv'
<1> USE DEF Engine!run, Engine!choice, Engine!out
<1>1. /\ UNCHANGED <<posted, alertq, phase, new, row, smsq, faults>> /\ phase = "idle"
      /\ rows' = rows \/ rows' = {[r EXCEPT !.early = TRUE] : r \in rows}
  BY DEF Engine!Tick
<1>2. CASE rows' = rows
  <2>1. \A b \in Alert, p \in Phone : Open(b, p)' => Open(b, p)
    BY <1>1, <1>2 DEF Open, InOrder, Engine!HasRow
  <2>2. NewNoRows'
    BY <1>1 DEF NewNoRows
  <2> QED BY <1>1, <1>2, <2>1, <2>2, QuietOnce
<1>3. CASE rows' = {[r EXCEPT !.early = TRUE] : r \in rows}
  <2> DEFINE E(r) == [r EXCEPT !.early = TRUE]
  <2>1. \A r \in rows : E(r).alert = r.alert /\ E(r).sub = r.sub
    BY DEF WaitInv, TablesInv, EngineTypes, RowType
  <2>2. rows' = {E(r) : r \in rows}
    BY <1>3
  <2> HIDE DEF E
  <2>3. /\ \A q \in rows' : \E r \in rows : q = E(r) /\ q.alert = r.alert /\ q.sub = r.sub
        /\ \A r \in rows : \E q \in rows' : q.alert = r.alert
    BY <2>1, <2>2
  <2>4. RowsOnce'
    <3>1. ASSUME NEW q \in rows', NEW o \in rows', q.alert = o.alert,
                 PhoneOf[q.sub] = PhoneOf[o.sub]
          PROVE  q = o
      <4>1. PICK r \in rows : q = E(r) /\ q.alert = r.alert /\ q.sub = r.sub
        BY <2>3
      <4>2. PICK t \in rows : o = E(t) /\ o.alert = t.alert /\ o.sub = t.sub
        BY <2>3
      <4>3. r = t
        BY <3>1, <4>1, <4>2 DEF OnceInv, RowsOnce
      <4> QED BY <4>1, <4>2, <4>3
    <3> QED BY <3>1 DEF RowsOnce
  <2>5. NewNoRows'
    BY <1>1 DEF NewNoRows
  <2>6. \A b \in Alert, p \in Phone : Open(b, p)' => Open(b, p)
    <3>1. \A b : Engine!HasRow(b, rows) => Engine!HasRow(b, rows')
      BY <2>3 DEF Engine!HasRow
    <3>2. \A b, p : (\E q \in rows' : q.alert = b /\ PhoneOf[q.sub] = p) =>
                    \E r \in rows : r.alert = b /\ PhoneOf[r.sub] = p
      BY <2>3
    <3> QED BY <1>1, <3>1, <3>2 DEF Open, InOrder
  <2>7. TextBudget'
    BY <1>1, <2>6, BudgetStays, TextsAreSame DEF WaitInv, TablesInv, OnceInv
  <2> QED BY <1>1, <2>4, <2>5, <2>7 DEF OnceInv
<1> QED BY <1>1, <1>2, <1>3

\* What the run takes as new had no row, and so was open already.
LEMMA BeginOnce ==
  ASSUME WaitInv, OnceInv, Engine!Begin
  PROVE  OnceInv'
<1> USE DEF Engine!tables, Engine!out
<1>1. /\ UNCHANGED <<posted, alertq, rows, row, smsq, faults>>
      /\ phase = "idle" /\ phase' = "new" /\ new' = {a \in alertq : ~Engine!HasRow(a, rows)}
  BY DEF Engine!Begin
<1>2. NewNoRows'
  BY <1>1 DEF NewNoRows, Engine!HasRow
<1>3. \A b \in Alert, p \in Phone : Open(b, p)' => Open(b, p)
  BY <1>1 DEF Open, InOrder, Engine!HasRow
<1> QED BY <1>1, <1>2, <1>3, QuietOnce

\* First has one subscription for each phone.
LEMMA FirstOfPhone ==
  ASSUME NEW S \in SUBSET Subscription, NEW s \in Engine!First(S), NEW t \in Engine!First(S),
         PhoneOf[s] = PhoneOf[t]
  PROVE  s = t
<1>1. /\ s \in Nat /\ t \in Nat
      /\ TypeOf[s] \in {"now", "daily"} /\ TypeOf[t] \in {"now", "daily"}
  BY TypeAssumption DEF Engine!First
<1>2. ~Engine!Before(s, t) /\ ~Engine!Before(t, s)
  BY DEF Engine!First
<1> QED BY <1>1, <1>2 DEF Engine!Before

\* Each phone gets one row of a new alert, which had none.
LEMMA HandleNewOnce ==
  ASSUME WaitInv, OnceInv, Engine!HandleNew
  PROVE  OnceInv'
<1> USE DEF Engine!world, Engine!out
<1>1. PICK added : added = UNION {RowsOf(a) : a \in new} /\ rows' = rows \cup added
  BY DEF Engine!HandleNew, RowsOf
<1>2. /\ UNCHANGED <<posted, alertq, new, row, smsq, faults>>
      /\ phase = "new" /\ phase' = "walk"
  BY DEF Engine!HandleNew
<1>3. new \subseteq alertq /\ \A a \in new : ~Engine!HasRow(a, rows)
  BY <1>2 DEF WaitInv, TablesInv, RowsAreQueued, OnceInv, NewNoRows
<1>4. ASSUME NEW q \in added
      PROVE  q.alert \in new /\ q.sub \in Engine!First(Engine!EveryMatch(q.alert))
               /\ q = [alert |-> q.alert, sub |-> q.sub, early |-> ~afternoon]
  <2>1. PICK a \in new : q \in RowsOf(a)
    BY <1>1
  <2>2. PICK s \in Engine!First(Engine!EveryMatch(a)) :
          q = [alert |-> a, sub |-> s, early |-> ~afternoon]
    BY <2>1 DEF RowsOf
  <2>3. q.alert = a /\ q.sub = s
    BY <2>2
  <2> QED BY <2>2, <2>3
<1>5. RowsOnce'
  <2>1. ASSUME NEW r \in rows', NEW q \in rows', r.alert = q.alert,
               PhoneOf[r.sub] = PhoneOf[q.sub]
        PROVE  r = q
    <3>1. CASE r \in rows /\ q \in rows
      BY <2>1, <3>1 DEF OnceInv, RowsOnce
    <3>2. CASE r \in added /\ q \in added
      <4>1. r.sub = q.sub
        <5>1. Engine!EveryMatch(q.alert) \in SUBSET Subscription
          BY DEF Engine!EveryMatch, WaitInv, TablesInv, EngineTypes
        <5> QED BY <1>4, <2>1, <3>2, <5>1, FirstOfPhone
      <4> QED BY <1>4, <2>1, <3>2, <4>1
    <3>3. CASE (r \in rows /\ q \in added) \/ (r \in added /\ q \in rows)
      BY <1>3, <1>4, <2>1, <3>3 DEF Engine!HasRow
    <3> QED BY <1>1, <3>1, <3>2, <3>3
  <2> QED BY <2>1 DEF RowsOnce
<1>6. NewNoRows'
  BY <1>2 DEF NewNoRows
<1>7. \A b \in Alert, p \in Phone : Open(b, p)' => Open(b, p)
  <2>1. ASSUME NEW b \in Alert, NEW p \in Phone, Open(b, p)'
        PROVE  Open(b, p)
    <3>1. CASE b \notin posted'
      BY <1>2, <3>1 DEF Open
    <3>2. ASSUME NEW r \in rows', r.alert = b, PhoneOf[r.sub] = p
          PROVE  Open(b, p)
      <4>1. CASE r \in rows
        BY <1>2, <3>2, <4>1 DEF Open
      <4>2. CASE r \in added
        BY <1>2, <1>3, <1>4, <3>2, <4>2 DEF Open, InOrder
      <4> QED BY <1>1, <3>2, <4>1, <4>2
    <3>3. CASE b \in alertq' /\ ~Engine!HasRow(b, rows') /\ ~InOrder(b)'
      BY <1>1, <1>2, <3>3 DEF Open, InOrder, Engine!HasRow
    <3> QED BY <2>1, <3>1, <3>2, <3>3 DEF Open
  <2> QED BY <2>1
<1>8. TextBudget'
  BY <1>2, <1>7, BudgetStays, TextsAreSame DEF WaitInv, TablesInv, OnceInv
<1> QED BY <1>2, <1>5, <1>6, <1>8 DEF OnceInv

\* Rows that are passed by, and the end of the walk.
LEMMA PassingOnce ==
  ASSUME WaitInv, OnceInv,
         (\E r \in todo : Engine!Skip(r) \/ Engine!SendFails(r)) \/ Engine!EndWalk
  PROVE  OnceInv'
<1> USE DEF Engine!world, Engine!tables, Engine!out, Engine!choice
<1>1. /\ UNCHANGED <<posted, alertq, rows, row, smsq, new>>
      /\ phase = "walk" /\ phase' \in {"walk", "clean"}
      /\ faults' = faults \/ faults' = faults + 1
  BY DEF Engine!Skip, Engine!SendFails, Engine!MaySend, Engine!EndWalk
<1>2. NewNoRows'
  BY <1>1 DEF NewNoRows
<1>3. \A b \in Alert, p \in Phone : Open(b, p)' => Open(b, p)
  BY <1>1 DEF Open, InOrder, Engine!HasRow
<1> QED BY <1>1, <1>2, <1>3, QuietOnce

\* A text that is written is one more, and its row is no longer open.
LEMMA SendOnce ==
  ASSUME WaitInv, OnceInv, NEW r \in todo, Engine!Send(r)
  PROVE  OnceInv'
<1> USE DEF Engine!world, Engine!tables, Engine!choice
<1>1. /\ UNCHANGED <<posted, alertq, rows, new, faults>>
      /\ phase = "walk" /\ phase' = "delete" /\ row' = r /\ r.sub \in subscribed
      /\ smsq' = smsq \/ smsq' = Engine!Text(r)
  BY DEF Engine!Send, Engine!MaySend
<1>2. r \in RowType /\ r \in rows /\ r.alert \in posted
  BY <1>1 DEF WaitInv, TablesInv, EngineTypes, TodoIsQueued, RowsAreQueued
<1>3. NewNoRows' /\ RowsOnce'
  BY <1>1 DEF NewNoRows, OnceInv, RowsOnce
<1>4. \A b \in Alert, p \in Phone : Open(b, p)' => Open(b, p)
  BY <1>1 DEF Open, InOrder, Engine!HasRow
<1>5. CASE smsq' = smsq
  BY <1>1, <1>3, <1>4, <1>5, QuietOnce
<1>6. CASE smsq' = Engine!Text(r)
  <2> DEFINE x == [alert |-> r.alert, phone |-> PhoneOf[r.sub], sent |-> "N", heard |-> 0]
             n == Len(smsq) + 1
  <2>1. /\ DOMAIN smsq = 1..Len(smsq) /\ DOMAIN smsq' = 1..n /\ Len(smsq) \in Nat
        /\ (\A i \in 1..Len(smsq) : smsq'[i] = smsq[i]) /\ smsq'[n] = x
    <3>1. x \in Sms /\ smsq' = Append(smsq, x) /\ smsq \in Seq(Sms)
      BY <1>2, <1>6, TypeAssumption DEF Engine!Text, WaitInv, TablesInv, DaemonTypes,
         RowType, Sms
    <3> QED BY <3>1, AppendProperties, LenProperties
  <2>2. DOMAIN smsq' = DOMAIN smsq \cup {n} /\ n \notin DOMAIN smsq
    BY <2>1
  <2>3. x.alert = r.alert /\ x.phone = PhoneOf[r.sub]
    OBVIOUS
  <2> HIDE DEF x, n
  <2>4. ASSUME NEW a \in Alert, NEW p \in Phone
        PROVE  Cardinality(Texts(a, p))' <= IF Open(a, p)' THEN faults' ELSE 1 + faults'
    <3> DEFINE T == Texts(a, p)
    <3>1. IsFiniteSet(T) /\ Cardinality(T) \in Nat
      BY TextsAreFinite DEF WaitInv, TablesInv
    <3>2. /\ Cardinality(T) <= (IF Open(a, p) THEN faults ELSE 1 + faults)
          /\ faults \in Nat /\ faults' = faults
      BY <1>1 DEF OnceInv, TextBudget
    <3>3. CASE a = r.alert /\ p = PhoneOf[r.sub]
      <4>1. T' = T \cup {n}
        BY <2>1, <2>2, <2>3, <3>3 DEF Texts
      <4>2. n \notin T
        BY <2>2 DEF Texts
      <4>3. Open(a, p)
        BY <1>1, <1>2, <3>3 DEF Open
      <4>4. ~Open(a, p)'
        <5>1. \A q \in rows' : q.alert = a /\ PhoneOf[q.sub] = p => q = row'
          BY <1>1, <1>2, <3>3 DEF OnceInv, RowsOnce
        <5> QED BY <1>1, <1>2, <3>3, <5>1 DEF Open, Engine!HasRow
      <4> HIDE DEF T
      <4>5. Cardinality(T \cup {n}) = Cardinality(T) + 1
        BY <3>1, <4>2, FS_AddElement
      <4>6. Cardinality(T') <= 1 + faults'
        BY <3>1, <3>2, <4>1, <4>3, <4>5
      <4> QED BY <4>4, <4>6 DEF T
    <3>4. CASE ~(a = r.alert /\ p = PhoneOf[r.sub])
      <4>1. T' = T
        BY <2>1, <2>2, <2>3, <3>4 DEF Texts
      <4>2. Open(a, p)' => Open(a, p)
        BY <1>4
      <4> HIDE DEF T
      <4>3. Cardinality(T') <= IF Open(a, p)' THEN faults' ELSE 1 + faults'
        BY <3>1, <3>2, <4>1, <4>2
      <4> QED BY <4>3 DEF T
    <3> QED BY <3>3, <3>4
  <2>5. TextBudget'
    BY <2>4 DEF TextBudget
  <2> QED BY <1>1, <1>3, <2>5 DEF OnceInv
<1> QED BY <1>1, <1>5, <1>6

\* A row that goes was that of the text; the alert is closed with it.
LEMMA DeleteOnce ==
  ASSUME WaitInv, OnceInv, Engine!DeleteRow \/ Engine!DeleteAlert \/ Engine!Clean
  PROVE  OnceInv'
<1> USE DEF Engine!world, Engine!choice, Engine!out
<1>1. CASE Engine!DeleteRow
  <2>1. /\ UNCHANGED <<posted, alertq, new, row, smsq, faults>>
        /\ phase = "delete" /\ phase' = "count" /\ rows' = rows \ {row}
    BY <1>1 DEF Engine!DeleteRow, Engine!RowGone
  <2>2. NewNoRows'
    BY <2>1 DEF NewNoRows
  <2>3. \A b \in Alert, p \in Phone : Open(b, p)' => Open(b, p)
    BY <2>1 DEF Open, InOrder, Engine!HasRow
  <2> QED BY <2>1, <2>2, <2>3, QuietOnce
<1>2. CASE Engine!DeleteAlert
  <2>1. /\ UNCHANGED <<posted, new, smsq, faults>>
        /\ phase = "count" /\ phase' = "walk"
        /\ \/ alertq' = alertq /\ Engine!HasRow(row.alert, rows)
           \/ alertq' = alertq \ {row.alert} /\ ~Engine!HasRow(row.alert, rows)
        /\ rows' = {r \in rows : r.alert \in alertq'}
    BY <1>2 DEF Engine!DeleteAlert, Engine!IsLast
  <2>2. rows' = rows
    BY <2>1 DEF WaitInv, TablesInv, RowsAreQueued, Engine!HasRow
  <2>3. NewNoRows'
    BY <2>1 DEF NewNoRows
  <2>4. \A b \in Alert, p \in Phone : Open(b, p)' => Open(b, p)
    BY <2>1, <2>2 DEF Open, InOrder
  <2> QED BY <2>1, <2>2, <2>3, <2>4, QuietOnce
<1>3. CASE Engine!Clean
  <2>1. /\ UNCHANGED <<posted, smsq, faults, row>>
        /\ phase = "clean" /\ phase' = "idle" /\ new' = {}
        /\ alertq' = alertq \ Engine!Handled
        /\ rows' = {r \in rows : r.alert \in alertq'}
    BY <1>3 DEF Engine!Clean
  <2>2. rows' = rows
    BY <2>1 DEF WaitInv, TablesInv, RowsAreQueued, Engine!Handled, Engine!HasRow
  <2>3. NewNoRows'
    BY <2>1 DEF NewNoRows
  <2>4. \A b \in Alert, p \in Phone : Open(b, p)' => Open(b, p)
    BY <2>1, <2>2 DEF Open, InOrder, Engine!Handled
  <2> QED BY <2>1, <2>2, <2>3, <2>4, QuietOnce
<1> QED BY <1>1, <1>2, <1>3

\* What is there at first is there once.
LEMMA FirstOnce == Init => OnceInv
<1> SUFFICES ASSUME Init PROVE OnceInv
  OBVIOUS
<1>1. /\ posted = {m.alert : m \in Engine!Range(Earlier)}
      /\ alertq = {} /\ rows = {} /\ phase = "idle" /\ smsq = Earlier /\ faults = 0
  BY DEF Init, Engine!Init
<1>2. DaemonTypes
  BY FirstWait DEF WaitInv, TablesInv
<1>3. ASSUME NEW a \in Alert, NEW p \in Phone
      PROVE  Cardinality(Texts(a, p)) <= IF Open(a, p) THEN faults ELSE 1 + faults
  <2>1. CASE Texts(a, p) = {}
    BY <1>1, <2>1, FS_EmptySet
  <2>2. ASSUME NEW i \in Texts(a, p)
        PROVE  Cardinality(Texts(a, p)) = 1 /\ ~Open(a, p)
    <3>1. i \in DOMAIN Earlier /\ Earlier[i].alert = a /\ Earlier[i].phone = p
      BY <1>1 DEF Texts
    <3>2. Texts(a, p) = {i}
      BY <1>1, <3>1, EarlierAssumption DEF Texts
    <3>3. a \in posted
      BY <1>1, <3>1 DEF Engine!Range
    <3> QED BY <1>1, <3>2, <3>3, FS_Singleton DEF Open
  <2> QED BY <1>1, <2>1, <2>2
<1>4. TextBudget
  BY <1>3 DEF TextBudget
<1> QED BY <1>1, <1>4 DEF OnceInv, RowsOnce, NewNoRows

\* Texts and rows are counted through every step of the two daemons, of users and of time.
THEOREM OnceInvHolds == Spec => []OnceInv
<1>1. WaitInv /\ OnceInv /\ [Next]_vars => OnceInv'
  <2> SUFFICES ASSUME WaitInv, OnceInv, [Next]_vars PROVE OnceInv'
    OBVIOUS
  <2>1. CASE Engine!Next /\ UNCHANGED daemon
    BY <2>1, AroundOnce, TickOnce, BeginOnce, HandleNewOnce, PassingOnce, SendOnce,
       DeleteOnce DEF Engine!Next, Engine!CheckAlerts
  <2>2. CASE Daemon!Next /\ UNCHANGED engine
    BY <2>2, DaemonOnce
  <2>3. CASE UNCHANGED vars
    <3>1. /\ UNCHANGED <<posted, alertq, rows, phase, new, row, smsq, faults>>
      BY <2>3 DEF vars, engine
    <3>2. NewNoRows'
      BY <3>1 DEF OnceInv, NewNoRows, Engine!HasRow
    <3>3. \A b \in Alert, p \in Phone : Open(b, p)' => Open(b, p)
      BY <3>1 DEF Open, InOrder, Engine!HasRow
    <3> QED BY <3>1, <3>2, <3>3, QuietOnce
  <2> QED BY <2>1, <2>2, <2>3 DEF Next
<1> QED BY <1>1, FirstOnce, WaitInvHolds, PTL DEF Spec

--------------------------------------------------------------------------------
(* What the daemon does to the status of texts, and how often they are heard. *)

\* The status of text i is not stored, and none waits to be.
IsOpen(i) == smsq[i].sent = "N" /\ \A k \in DOMAIN pending : pending[k][1] # i

\* While dispatchers are tried the messages are unsent, each is there once, and no status
\* waits to be stored.
Serving == turn > 0 =>
  /\ pending = <<>> /\ user # Daemon!NoUser
  /\ \A j, k \in DOMAIN msgs : msgs[j] = msgs[k] => j = k
  /\ \A k \in DOMAIN msgs : msgs[k] \in Daemon!Unsent

\* No status waits when nobody is served.
NobodyWaits == user = Daemon!NoUser => pending = <<>>

\* The times a text was heard, and may still be, are one and those of faults.
HeardBudget == \A i \in DOMAIN smsq :
  smsq[i].heard <= IF IsOpen(i) THEN faults ELSE 1 + faults

\* The status that waits to be stored is true.
PendingIsTrue == \A k \in DOMAIN pending : LET i == pending[k][1] IN
  /\ i \in DOMAIN smsq
  /\ pending[k][2] = "Y" => smsq[i].heard > 0
  /\ pending[k][2] = "I" /\ faults = 0 => smsq[i].heard = 0

SmsTypes == /\ faults \in Nat /\ users \subseteq Phone /\ turn \in Nat
            /\ dispatchers \in Seq(STRING)

SmsInv == /\ SmsTypes /\ Serving /\ NobodyWaits /\ HeardBudget /\ PendingIsTrue
          /\ StatusIsTrue

\* A set of numbers up to n that is not empty has a greatest one.
LEMMA Largest ==
  ASSUME NEW n \in Nat, NEW S \in SUBSET (0..n), S # {}
  PROVE  \E m \in S : \A k \in S : m >= k
<1> DEFINE R == {n - k : k \in S}
<1>1. R \in SUBSET Nat /\ R # {}
  <2>1. \A k \in S : n - k \in Nat
    OBVIOUS
  <2> QED BY <2>1
<1>2. PICK m \in R : \A k \in R : m <= k
  BY <1>1, Smallest
<1>3. PICK x \in S : m = n - x
  BY <1>2
<1>4. \A k \in S : n - x <= n - k
  BY <1>2, <1>3
<1>5. \A k \in S : x >= k
  BY <1>4
<1> QED BY <1>5

\* An SMS holds some of the first messages, or none.
LEMMA FittingIsSome ==
  ASSUME msgs \in Seq(Nat)
  PROVE  Daemon!Fitting(msgs) \in 0..Len(msgs)
<1> DEFINE S == {0} \cup {k \in DOMAIN msgs : \A i \in 1..k : i \in Daemon!Within(msgs)}
<1>1. Len(msgs) \in Nat /\ DOMAIN msgs = 1..Len(msgs)
  BY LenProperties
<1>2. S \in SUBSET (0..Len(msgs)) /\ S # {}
  BY <1>1
<1> HIDE DEF S
<1>3. \E m \in S : \A k \in S : m >= k
  BY <1>1, <1>2, Largest
<1>4. Daemon!Max(S) \in S
  BY <1>3 DEF Daemon!Max
<1>5. Daemon!Fitting(msgs) = Daemon!Max(S)
  BY DEF Daemon!Fitting, S
<1> QED BY <1>2, <1>4, <1>5

\* What an SMS has said is heard once more.
LEMMA HeardCounts ==
  ASSUME DaemonTypes, NEW n \in 0..Len(msgs)
  PROVE  /\ DOMAIN Daemon!Heard(n) = DOMAIN smsq
         /\ \A i \in DOMAIN smsq :
              /\ Daemon!Heard(n)[i].sent = smsq[i].sent
              /\ \/ /\ Daemon!Heard(n)[i].heard = smsq[i].heard + 1
                    /\ \E k \in DOMAIN msgs : k <= n /\ msgs[k] = i
                 \/ /\ Daemon!Heard(n)[i].heard = smsq[i].heard
                    /\ \A k \in DOMAIN msgs : k <= n => msgs[k] # i
<1>1. \A i \in DOMAIN smsq : smsq[i] \in Sms
  BY LenProperties DEF DaemonTypes
<1>2. Len(msgs) \in Nat /\ DOMAIN msgs = 1..Len(msgs)
  BY LenProperties DEF DaemonTypes
<1>3. \A i : (\E k \in 1..n : msgs[k] = i) <=> (\E k \in DOMAIN msgs : k <= n /\ msgs[k] = i)
  BY <1>2
<1>4. \A x \in Sms : LET y == [x EXCEPT !.heard = @ + 1]
                     IN y.sent = x.sent /\ y.heard = x.heard + 1
  BY DEF Sms
<1>5. \A i \in DOMAIN smsq :
        \/ (\E k \in 1..n : msgs[k] = i) /\ Daemon!Heard(n)[i] = [smsq[i] EXCEPT !.heard = @ + 1]
        \/ ~(\E k \in 1..n : msgs[k] = i) /\ Daemon!Heard(n)[i] = smsq[i]
  BY DEF Daemon!Heard
<1>6. DOMAIN Daemon!Heard(n) = DOMAIN smsq
  BY DEF Daemon!Heard
<1>7. ASSUME NEW i \in DOMAIN smsq
      PROVE  /\ Daemon!Heard(n)[i].sent = smsq[i].sent
             /\ \/ /\ Daemon!Heard(n)[i].heard = smsq[i].heard + 1
                   /\ \E k \in DOMAIN msgs : k <= n /\ msgs[k] = i
                \/ /\ Daemon!Heard(n)[i].heard = smsq[i].heard
                   /\ \A k \in DOMAIN msgs : k <= n => msgs[k] # i
  BY <1>1, <1>3, <1>4, <1>5
<1> QED BY <1>6, <1>7

\* Giving up ends what is unsent.
LEMMA CancelledEnds ==
  ASSUME DaemonTypes
  PROVE  /\ DOMAIN Daemon!Cancelled = DOMAIN smsq
         /\ \A i \in DOMAIN smsq :
              /\ Daemon!Cancelled[i].heard = smsq[i].heard
              /\ \/ smsq[i].sent = "N" /\ Daemon!Cancelled[i].sent = "I"
                 \/ smsq[i].sent # "N" /\ Daemon!Cancelled[i].sent = smsq[i].sent
<1>1. \A i \in DOMAIN smsq : smsq[i] \in Sms
  BY LenProperties DEF DaemonTypes
<1>2. \A x \in Sms : LET y == [x EXCEPT !.sent = "I"] IN y.sent = "I" /\ y.heard = x.heard
  BY DEF Sms
<1>3. \A i \in DOMAIN smsq :
        \/ smsq[i].sent = "N" /\ Daemon!Cancelled[i] = [smsq[i] EXCEPT !.sent = "I"]
        \/ smsq[i].sent # "N" /\ Daemon!Cancelled[i] = smsq[i]
  BY DEF Daemon!Cancelled, Daemon!Unsent
<1> QED BY <1>1, <1>2, <1>3 DEF Daemon!Cancelled

\* Storing changes one status, and how often no text was heard.
LEMMA StoreStores ==
  ASSUME DaemonTypes, Daemon!Store
  PROVE  /\ DOMAIN smsq' = DOMAIN smsq
         /\ \A i \in DOMAIN smsq :
              /\ smsq'[i].heard = smsq[i].heard
              /\ \/ i = pending[1][1] /\ smsq'[i].sent = pending[1][2]
                 \/ i # pending[1][1] /\ smsq'[i].sent = smsq[i].sent
<1> DEFINE p == Head(pending)
<1>1. smsq' = [smsq EXCEPT ![p[1]].sent = p[2]] /\ pending # <<>>
  BY Zenon DEF Daemon!Store
<1>2. p = pending[1]
  BY <1>1, HeadTailProperties DEF DaemonTypes
<1> HIDE DEF p
<1>3. \A i \in DOMAIN smsq : smsq[i] \in Sms
  BY LenProperties DEF DaemonTypes
<1>4. \A x \in Sms : LET y == [x EXCEPT !.sent = p[2]] IN y.sent = p[2] /\ y.heard = x.heard
  BY DEF Sms
<1>5. \A i \in DOMAIN smsq : \/ i = p[1] /\ smsq'[i] = [smsq[i] EXCEPT !.sent = p[2]]
                             \/ i # p[1] /\ smsq'[i] = smsq[i]
  BY <1>1, Zenon
<1>6. DOMAIN smsq' = DOMAIN smsq
  BY <1>1, Zenon
<1>7. ASSUME NEW i \in DOMAIN smsq
      PROVE  /\ smsq'[i].heard = smsq[i].heard
             /\ \/ i = p[1] /\ smsq'[i].sent = p[2]
                \/ i # p[1] /\ smsq'[i].sent = smsq[i].sent
  BY <1>3, <1>4, <1>5, Zenon
<1> QED BY <1>2, <1>6, <1>7, Zenon

\* Numbers of texts.
LEMMA HeardIsNat ==
  ASSUME DaemonTypes
  PROVE  \A i \in DOMAIN smsq : smsq[i].heard \in Nat /\ smsq[i].sent \in {"N", "Y", "I"}
<1>1. \A i \in DOMAIN smsq : smsq[i] \in Sms
  BY LenProperties DEF DaemonTypes
<1> QED BY <1>1 DEF Sms

--------------------------------------------------------------------------------
(* Every step keeps them. *)

\* The engine adds texts that nobody has heard, and leaves the others alone.
LEMMA EngineSms ==
  ASSUME WaitInv, SmsInv, UNCHANGED daemon, faults' \in Nat, faults' >= faults,
         smsq' = smsq \/ \E r \in RowType : smsq' = Engine!Text(r)
  PROVE  SmsInv'
<1> USE DEF daemon
<1>1. /\ DOMAIN smsq \subseteq DOMAIN smsq'
      /\ \A i \in DOMAIN smsq : smsq'[i] = smsq[i]
      /\ \A i \in DOMAIN smsq' \ DOMAIN smsq : smsq'[i].sent = "N" /\ smsq'[i].heard = 0
  <2>1. CASE smsq' = smsq
    BY <2>1
  <2>2. ASSUME NEW r \in RowType, smsq' = Engine!Text(r)
        PROVE  /\ DOMAIN smsq \subseteq DOMAIN smsq'
               /\ \A i \in DOMAIN smsq : smsq'[i] = smsq[i]
               /\ \A i \in DOMAIN smsq' \ DOMAIN smsq :
                    smsq'[i].sent = "N" /\ smsq'[i].heard = 0
    <3> DEFINE x == [alert |-> r.alert, phone |-> PhoneOf[r.sub], sent |-> "N", heard |-> 0]
               n == Len(smsq) + 1
    <3>1. x \in Sms /\ smsq' = Append(smsq, x) /\ smsq \in Seq(Sms)
      BY <2>2, TypeAssumption DEF Engine!Text, WaitInv, TablesInv, DaemonTypes, RowType, Sms
    <3>2. /\ DOMAIN smsq = 1..Len(smsq) /\ DOMAIN smsq' = 1..n /\ Len(smsq) \in Nat
          /\ (\A i \in 1..Len(smsq) : smsq'[i] = smsq[i]) /\ smsq'[n] = x
      BY <3>1, AppendProperties, LenProperties
    <3>3. x.sent = "N" /\ x.heard = 0
      OBVIOUS
    <3> HIDE DEF x
    <3>4. DOMAIN smsq' \ DOMAIN smsq = {n} /\ DOMAIN smsq \subseteq DOMAIN smsq'
      BY <3>2
    <3> HIDE DEF n
    <3> QED BY <3>2, <3>3, <3>4
  <2> QED BY <2>1, <2>2
<1>2. \A i \in DOMAIN smsq : smsq[i].heard \in Nat /\ smsq[i].sent \in {"N", "Y", "I"}
  BY HeardIsNat DEF WaitInv, TablesInv
<1>3. faults \in Nat /\ (faults' = 0 => faults = 0)
  BY DEF SmsInv, SmsTypes
<1>4. SmsTypes' /\ NobodyWaits'
  BY DEF SmsInv, SmsTypes, NobodyWaits
<1>5. Serving'
  BY <1>1 DEF SmsInv, Serving, Daemon!Unsent
<1>6. HeardBudget'
  <2>1. ASSUME NEW i \in DOMAIN smsq'
        PROVE  smsq'[i].heard <= IF IsOpen(i)' THEN faults' ELSE 1 + faults'
    <3>1. CASE i \in DOMAIN smsq
      <4>1. smsq'[i] = smsq[i] /\ (IsOpen(i)' <=> IsOpen(i))
        BY <1>1, <3>1 DEF IsOpen
      <4>2. smsq[i].heard <= (IF IsOpen(i) THEN faults ELSE 1 + faults)
        BY <3>1 DEF SmsInv, HeardBudget
      <4> QED BY <1>2, <1>3, <3>1, <4>1, <4>2
    <3>2. CASE i \notin DOMAIN smsq
      <4>1. smsq'[i].heard = 0
        BY <1>1, <3>2
      <4> QED BY <4>1
    <3> QED BY <3>1, <3>2
  <2> QED BY <2>1 DEF HeardBudget
<1>7. PendingIsTrue'
  BY <1>1, <1>3 DEF SmsInv, PendingIsTrue
<1>8. StatusIsTrue'
  <2>1. ASSUME NEW i \in DOMAIN smsq'
        PROVE  /\ smsq'[i].sent = "Y" => smsq'[i].heard > 0
               /\ smsq'[i].sent = "I" /\ faults' = 0 => smsq'[i].heard = 0
    <3>1. CASE i \in DOMAIN smsq
      BY <1>1, <1>3, <3>1 DEF SmsInv, StatusIsTrue
    <3>2. CASE i \notin DOMAIN smsq
      BY <1>1, <3>2
    <3> QED BY <3>1, <3>2
  <2> QED BY <2>1 DEF StatusIsTrue
<1> QED BY <1>4, <1>5, <1>6, <1>7, <1>8 DEF SmsInv

\* Only Send writes texts.
LEMMA EngineWrites ==
  ASSUME WaitInv, faults \in Nat, Engine!Next
  PROVE  /\ smsq' = smsq \/ \E r \in RowType : smsq' = Engine!Text(r)
         /\ faults' \in Nat /\ faults' >= faults
<1> USE DEF Engine!world, Engine!tables, Engine!choice, Engine!run, Engine!out
<1>1. CASE \E r \in todo : Engine!Send(r)
  <2>1. PICK r \in todo : Engine!Send(r)
    BY <1>1
  <2>2. r \in RowType
    BY DEF WaitInv, TablesInv, EngineTypes
  <2>3. (smsq' = smsq \/ smsq' = Engine!Text(r)) /\ faults' = faults
    BY <2>1 DEF Engine!Send
  <2> QED BY <2>2, <2>3
<1>2. CASE ~\E r \in todo : Engine!Send(r)
  <2>1. smsq' = smsq /\ (faults' = faults \/ faults' = faults + 1)
    <3>1. CASE Engine!CheckAlerts
      BY <1>2, <3>1 DEF Engine!CheckAlerts, Engine!Begin, Engine!HandleNew, Engine!DeleteRow,
         Engine!DeleteAlert, Engine!EndWalk, Engine!Clean, Engine!Skip, Engine!SendFails
    <3>2. CASE Engine!Crash \/ Engine!Tick
      BY <3>2 DEF Engine!Crash, Engine!Tick
    <3>3. CASE \E a \in Alert : Engine!Post(a) \/ Engine!Resolve(a)
      BY <3>3 DEF Engine!Post, Engine!Resolve
    <3>4. CASE \E s \in Subscription : Engine!Unsubscribe(s)
      BY <3>4 DEF Engine!Unsubscribe
    <3>5. CASE \E c : Engine!Deactivate(c) \/ Engine!Activate(c)
      BY <3>5 DEF Engine!Deactivate, Engine!Activate
    <3> QED BY <3>1, <3>2, <3>3, <3>4, <3>5 DEF Engine!Next
  <2> QED BY <2>1
<1> QED BY <1>1, <1>2

\* A status is stored that is true, and ends the text.
LEMMA StoreSms ==
  ASSUME WaitInv, SmsInv, Daemon!Store
  PROVE  SmsInv'
<1>1. DaemonTypes
  BY DEF WaitInv, TablesInv
<1>2. /\ pending # <<>> /\ pending' = Tail(pending)
      /\ UNCHANGED <<users, turn, dispatchers, faults>>
      /\ (user' = Daemon!NoUser /\ pending' = <<>>) \/ user' = user
  BY Zenon DEF Daemon!Store
<1>3. /\ pending \in Seq(Nat \X {"Y", "I"}) /\ pending' \in Seq(Nat \X {"Y", "I"})
      /\ DOMAIN pending = 1..Len(pending) /\ DOMAIN pending' = 1..Len(pending')
      /\ Len(pending) \in Nat /\ Len(pending') = Len(pending) - 1
      /\ \A k \in 1..Len(pending') : pending'[k] = pending[k + 1]
      /\ pending[1] \in Nat \X {"Y", "I"}
  <2>1. pending \in Seq(Nat \X {"Y", "I"})
    BY <1>1 DEF DaemonTypes
  <2> QED BY <1>2, <2>1, HeadTailProperties, LenProperties
<1>4. /\ 1 \in DOMAIN pending
      /\ \A k \in DOMAIN pending' : k + 1 \in DOMAIN pending /\ pending'[k] = pending[k + 1]
      /\ \A j \in DOMAIN pending : j = 1 \/ (j - 1 \in DOMAIN pending'
                                             /\ pending'[j - 1] = pending[j])
  <2>1. 1 \in DOMAIN pending
    BY <1>2, <1>3, EmptySeq
  <2>2. ASSUME NEW k \in DOMAIN pending'
        PROVE  k + 1 \in DOMAIN pending /\ pending'[k] = pending[k + 1]
    BY <1>3
  <2>3. ASSUME NEW j \in DOMAIN pending, j # 1
        PROVE  j - 1 \in DOMAIN pending' /\ pending'[j - 1] = pending[j]
    <3> DEFINE k == j - 1
    <3>1. k \in 1..Len(pending') /\ k + 1 = j
      BY <1>3, <2>3
    <3> HIDE DEF k
    <3>2. pending'[k] = pending[j]
      BY <1>3, <3>1
    <3> QED BY <1>3, <3>1, <3>2 DEF k
  <2> QED BY <2>1, <2>2, <2>3
<1>5. /\ DOMAIN smsq' = DOMAIN smsq
      /\ \A i \in DOMAIN smsq :
              /\ smsq'[i].heard = smsq[i].heard
              /\ \/ i = pending[1][1] /\ smsq'[i].sent = pending[1][2]
                 \/ i # pending[1][1] /\ smsq'[i].sent = smsq[i].sent
  BY <1>1, StoreStores
<1>6. \A i \in DOMAIN smsq : smsq[i].heard \in Nat
  BY <1>1, HeardIsNat
<1>7. pending[1][2] \in {"Y", "I"}
  BY <1>3
<1>8. SmsTypes' /\ NobodyWaits'
  BY <1>2 DEF SmsInv, SmsTypes, NobodyWaits
<1>9. Serving'
  BY <1>2 DEF SmsInv, Serving
<1>10. HeardBudget'
  <2>1. ASSUME NEW i \in DOMAIN smsq
        PROVE  smsq'[i].heard <= IF IsOpen(i)' THEN faults' ELSE 1 + faults'
    <3>1. smsq[i].heard <= (IF IsOpen(i) THEN faults ELSE 1 + faults) /\ faults \in Nat
      BY DEF SmsInv, HeardBudget, SmsTypes
    <3>2. IsOpen(i)' => IsOpen(i)
      <4>1. SUFFICES ASSUME IsOpen(i)' PROVE IsOpen(i)
        OBVIOUS
      <4>2. i # pending[1][1] /\ smsq[i].sent = "N"
        BY <1>5, <1>7, <4>1 DEF IsOpen
      <4>3. \A k \in DOMAIN pending : pending[k][1] # i
        BY <1>4, <4>1, <4>2 DEF IsOpen
      <4> QED BY <4>2, <4>3 DEF IsOpen
    <3> QED BY <1>2, <1>5, <1>6, <3>1, <3>2
  <2> QED BY <1>5, <2>1 DEF HeardBudget
<1>11. PendingIsTrue'
  BY <1>2, <1>4, <1>5 DEF SmsInv, PendingIsTrue
<1>12. StatusIsTrue'
  <2>1. ASSUME NEW i \in DOMAIN smsq
        PROVE  /\ smsq'[i].sent = "Y" => smsq'[i].heard > 0
               /\ smsq'[i].sent = "I" /\ faults' = 0 => smsq'[i].heard = 0
    <3>1. CASE i = pending[1][1]
      BY <1>2, <1>4, <1>5, <3>1 DEF SmsInv, PendingIsTrue
    <3>2. CASE i # pending[1][1]
      BY <1>2, <1>5, <3>2 DEF SmsInv, StatusIsTrue
    <3> QED BY <3>1, <3>2
  <2> QED BY <1>5, <2>1 DEF StatusIsTrue
<1> QED BY <1>8, <1>9, <1>10, <1>11, <1>12 DEF SmsInv

\* An SMS that is sent leaves a status for each of its messages.
LEMMA SendsSms ==
  ASSUME WaitInv, SmsInv, Daemon!Sends
  PROVE  SmsInv'
<1>1. DaemonTypes
  BY DEF WaitInv, TablesInv
<1> DEFINE n == Daemon!Fitting(msgs)
<1>2. n \in 0..Len(msgs) /\ Len(msgs) \in Nat
  BY <1>1, FittingIsSome, LenProperties DEF DaemonTypes
<1>3. /\ smsq' = Daemon!Heard(n) /\ pending' = Daemon!Statuses(n) /\ turn' = 0
      /\ UNCHANGED <<users, user, dispatchers, faults>> /\ turn \in DOMAIN dispatchers
  BY DEF Daemon!Sends, Daemon!Trying
<1> HIDE DEF n
<1>4. turn > 0
  BY <1>3, LenProperties DEF SmsInv, SmsTypes
<1>5. /\ pending = <<>> /\ user # Daemon!NoUser
      /\ \A j, k \in DOMAIN msgs : msgs[j] = msgs[k] => j = k
      /\ \A k \in DOMAIN msgs : msgs[k] \in DOMAIN smsq /\ smsq[msgs[k]].sent = "N"
  BY <1>4 DEF SmsInv, Serving, Daemon!Unsent
<1>6. /\ DOMAIN smsq' = DOMAIN smsq
      /\ \A i \in DOMAIN smsq :
           /\ smsq'[i].sent = smsq[i].sent
           /\ \/ smsq'[i].heard = smsq[i].heard + 1 /\ \E k \in DOMAIN msgs : k <= n /\ msgs[k] = i
              \/ smsq'[i].heard = smsq[i].heard /\ \A k \in DOMAIN msgs : k <= n => msgs[k] # i
  BY <1>1, <1>2, <1>3, HeardCounts
<1>7. /\ DOMAIN pending' = DOMAIN msgs
      /\ \A k \in DOMAIN msgs : /\ pending'[k][1] = msgs[k]
                                /\ pending'[k][2] = IF k <= n THEN "Y" ELSE "I"
  BY <1>3 DEF Daemon!Statuses
<1>8. \A i \in DOMAIN smsq : smsq[i].heard \in Nat
  BY <1>1, HeardIsNat
<1>9. SmsTypes' /\ NobodyWaits' /\ Serving'
  BY <1>3, <1>5 DEF SmsInv, SmsTypes, NobodyWaits, Serving
<1>10. faults \in Nat
  BY DEF SmsInv, SmsTypes
<1>11. \A i \in DOMAIN smsq : smsq[i].sent = "N" => smsq[i].heard <= faults
  BY <1>5 DEF SmsInv, HeardBudget, IsOpen
<1>12. HeardBudget'
  <2>1. ASSUME NEW i \in DOMAIN smsq
        PROVE  smsq'[i].heard <= IF IsOpen(i)' THEN faults' ELSE 1 + faults'
    <3>1. CASE \E k \in DOMAIN msgs : k <= n /\ msgs[k] = i
      <4>1. smsq[i].sent = "N" /\ ~IsOpen(i)'
        BY <1>5, <1>7, <3>1 DEF IsOpen
      <4>2. smsq'[i].heard = smsq[i].heard + 1
        BY <1>6, <3>1
      <4> QED BY <1>3, <1>8, <1>10, <1>11, <4>1, <4>2
    <3>2. CASE \A k \in DOMAIN msgs : k <= n => msgs[k] # i
      <4>1. smsq'[i].heard = smsq[i].heard /\ smsq'[i].sent = smsq[i].sent
        BY <1>6, <3>2
      <4>2. IsOpen(i)' => IsOpen(i)
        BY <1>5, <4>1 DEF IsOpen
      <4>3. smsq[i].heard <= (IF IsOpen(i) THEN faults ELSE 1 + faults)
        BY DEF SmsInv, HeardBudget
      <4> QED BY <1>3, <1>8, <1>10, <4>1, <4>2, <4>3
    <3> QED BY <3>1, <3>2
  <2> QED BY <1>6, <2>1 DEF HeardBudget
<1>13. PendingIsTrue'
  <2>1. ASSUME NEW k \in DOMAIN msgs
        PROVE  /\ msgs[k] \in DOMAIN smsq
               /\ k <= n => smsq'[msgs[k]].heard > 0
               /\ ~(k <= n) /\ faults = 0 => smsq'[msgs[k]].heard = 0
    <3>1. msgs[k] \in DOMAIN smsq /\ smsq[msgs[k]].sent = "N"
      BY <1>5
    <3>2. CASE k <= n
      BY <1>6, <1>8, <3>1, <3>2
    <3>3. CASE ~(k <= n)
      <4>1. \A j \in DOMAIN msgs : j <= n => msgs[j] # msgs[k]
        BY <1>5, <3>3
      <4>2. smsq'[msgs[k]].heard = smsq[msgs[k]].heard
        BY <1>6, <3>1, <4>1
      <4> QED BY <1>8, <1>11, <3>1, <3>3, <4>2
    <3> QED BY <3>2, <3>3
  <2> QED BY <1>3, <1>6, <1>7, <2>1 DEF PendingIsTrue
<1>14. StatusIsTrue'
  <2>1. ASSUME NEW i \in DOMAIN smsq
        PROVE  /\ smsq'[i].sent = "Y" => smsq'[i].heard > 0
               /\ smsq'[i].sent = "I" /\ faults' = 0 => smsq'[i].heard = 0
    BY <1>3, <1>5, <1>6, <1>8 DEF SmsInv, StatusIsTrue
  <2> QED BY <1>6, <2>1 DEF StatusIsTrue
<1> QED BY <1>9, <1>12, <1>13, <1>14 DEF SmsInv

\* Failures of dispatchers: an SMS that was sent all the same is the fault.
LEMMA FailsSms ==
  ASSUME WaitInv, SmsInv, Daemon!Fails \/ Daemon!FailsForGood
  PROVE  SmsInv'
<1>1. DaemonTypes
  BY DEF WaitInv, TablesInv
<1> DEFINE n == Daemon!Fitting(msgs)
<1>2. n \in 0..Len(msgs) /\ Len(msgs) \in Nat
  BY <1>1, FittingIsSome, LenProperties DEF DaemonTypes
<1>3. /\ UNCHANGED <<users, user, msgs, pending>> /\ turn' = turn + 1 /\ turn \in DOMAIN dispatchers
      /\ \/ smsq' = smsq /\ faults' = faults
         \/ smsq' = Daemon!Heard(n) /\ faults' = faults + 1
      /\ dispatchers' = dispatchers \/ dispatchers' = Daemon!RemoveAt(dispatchers, turn)
  BY DEF Daemon!Fails, Daemon!FailsForGood, Daemon!Trying
<1> HIDE DEF n
<1>4. turn > 0 /\ SmsTypes'
  <2>1. /\ dispatchers \in Seq(STRING) /\ Len(dispatchers) \in Nat /\ turn \in 1..Len(dispatchers)
        /\ \A i \in 1..Len(dispatchers) : dispatchers[i] \in STRING
    BY <1>3, LenProperties DEF SmsInv, SmsTypes
  <2>2. dispatchers' \in Seq(STRING)
    <3>1. /\ SubSeq(dispatchers, 1, turn - 1) \in Seq(STRING)
          /\ SubSeq(dispatchers, turn + 1, Len(dispatchers)) \in Seq(STRING)
      <4>1. /\ turn - 1 \in Int /\ turn + 1 \in Int /\ Len(dispatchers) \in Int /\ 1 \in Int
            /\ \A i \in 1..(turn - 1) : dispatchers[i] \in STRING
            /\ \A i \in (turn + 1)..Len(dispatchers) : dispatchers[i] \in STRING
        BY <2>1
      <4> QED BY <4>1, SubSeqProperties
    <3>2. Daemon!RemoveAt(dispatchers, turn) \in Seq(STRING)
      BY <3>1, ConcatProperties DEF Daemon!RemoveAt
    <3> QED BY <1>3, <2>1, <3>2
  <2>3. turn > 0 /\ turn' \in Nat /\ faults' \in Nat
    BY <1>3, <2>1 DEF SmsInv, SmsTypes
  <2> QED BY <1>3, <2>2, <2>3 DEF SmsInv, SmsTypes
<1>5. /\ pending = <<>> /\ user # Daemon!NoUser
      /\ \A j, k \in DOMAIN msgs : msgs[j] = msgs[k] => j = k
      /\ \A k \in DOMAIN msgs : msgs[k] \in DOMAIN smsq /\ smsq[msgs[k]].sent = "N"
  BY <1>4 DEF SmsInv, Serving, Daemon!Unsent
<1>6. /\ DOMAIN smsq' = DOMAIN smsq
      /\ \A i \in DOMAIN smsq :
           /\ smsq'[i].sent = smsq[i].sent
           /\ \/ /\ smsq'[i].heard = smsq[i].heard + 1 /\ faults' = faults + 1
                 /\ smsq[i].sent = "N"
              \/ smsq'[i].heard = smsq[i].heard /\ (faults' = faults + 1 \/ faults' = faults)
  <2>1. CASE smsq' = smsq /\ faults' = faults
    BY <2>1
  <2>2. CASE smsq' = Daemon!Heard(n) /\ faults' = faults + 1
    BY <1>1, <1>2, <1>5, <2>2, HeardCounts
  <2> QED BY <1>3, <2>1, <2>2
<1>7. (\A i \in DOMAIN smsq : smsq[i].heard \in Nat) /\ faults \in Nat
  BY <1>1, HeardIsNat DEF SmsInv, SmsTypes
<1>8. NobodyWaits' /\ Serving' /\ PendingIsTrue'
  <2>1. DOMAIN pending' = {}
    BY <1>3, <1>5, EmptySeq
  <2> QED BY <1>3, <1>5, <1>6, <2>1 DEF NobodyWaits, Serving, PendingIsTrue, Daemon!Unsent
<1>9. HeardBudget'
  <2>1. ASSUME NEW i \in DOMAIN smsq
        PROVE  smsq'[i].heard <= IF IsOpen(i)' THEN faults' ELSE 1 + faults'
    <3>1. smsq[i].heard <= (IF IsOpen(i) THEN faults ELSE 1 + faults)
      BY DEF SmsInv, HeardBudget
    <3>2. (IsOpen(i)' <=> IsOpen(i)) /\ (smsq[i].sent = "N" => IsOpen(i))
      BY <1>3, <1>5, <1>6 DEF IsOpen
    <3> QED BY <1>6, <1>7, <3>1, <3>2
  <2> QED BY <1>6, <2>1 DEF HeardBudget
<1>10. StatusIsTrue'
  <2>1. ASSUME NEW i \in DOMAIN smsq
        PROVE  /\ smsq'[i].sent = "Y" => smsq'[i].heard > 0
               /\ smsq'[i].sent = "I" /\ faults' = 0 => smsq'[i].heard = 0
    BY <1>6, <1>7 DEF SmsInv, StatusIsTrue
  <2> QED BY <1>6, <2>1 DEF StatusIsTrue
<1> QED BY <1>4, <1>8, <1>9, <1>10 DEF SmsInv

\* The messages of the next user are unsent, and each is there once.
LEMMA UsersSms ==
  ASSUME WaitInv, SmsInv, Daemon!GetUsers \/ Daemon!NextUser
  PROVE  SmsInv'
<1>1. smsq \in Seq(Sms) /\ \A i \in DOMAIN smsq : smsq[i] \in Sms
  BY LenProperties DEF WaitInv, TablesInv, DaemonTypes
<1>2. UNCHANGED <<smsq, dispatchers, pending, faults>>
  BY DEF Daemon!GetUsers, Daemon!NextUser
<1>3. HeardBudget' /\ PendingIsTrue' /\ StatusIsTrue'
  BY <1>2 DEF SmsInv, HeardBudget, IsOpen, PendingIsTrue, StatusIsTrue
<1>4. CASE Daemon!GetUsers
  <2>1. users' = {smsq[i].phone : i \in Daemon!Unsent} /\ UNCHANGED <<user, msgs, turn>>
    BY <1>4 DEF Daemon!GetUsers
  <2>2. users' \subseteq Phone
    BY <1>1, <2>1 DEF Daemon!Unsent, Sms
  <2>3. SmsTypes' /\ Serving' /\ NobodyWaits'
    BY <1>2, <2>1, <2>2 DEF SmsInv, SmsTypes, Serving, NobodyWaits, Daemon!Unsent
  <2> QED BY <1>3, <2>3 DEF SmsInv
<1>5. CASE Daemon!NextUser
  <2>1. /\ user = Daemon!NoUser /\ users # {} /\ user' = Daemon!Min(users)
        /\ users' = users \ {user'} /\ turn' = 1
    BY <1>5 DEF Daemon!NextUser
  <2>2. user' \in Phone /\ user' # Daemon!NoUser
    <3>1. users \in SUBSET Nat /\ users \subseteq Phone
      BY TypeAssumption DEF SmsInv, SmsTypes
    <3>2. Daemon!Min(users) \in users
      BY <2>1, <3>1, Smallest DEF Daemon!Min
    <3> QED BY <2>1, <3>1, <3>2, TypeAssumption DEF Daemon!NoUser
  <2>3. PICK places : /\ places = Daemon!UnsentOf(user')
                      /\ msgs' \in [1..Cardinality(places) -> places]
                      /\ Daemon!MostSevereFirst(msgs')
    BY <1>5, Zenon DEF Daemon!NextUser, Daemon!Cardinality, Cardinality
  <2>4. places \subseteq Daemon!Unsent /\ Daemon!Unsent \subseteq DOMAIN smsq
    BY <2>3 DEF Daemon!UnsentOf, Daemon!Unsent
  <2>5. DOMAIN smsq = 1..Len(smsq) /\ Len(smsq) \in Nat
    BY <1>1, LenProperties
  <2>6. \A k \in DOMAIN msgs' : k \in Int /\ msgs'[k] \in Daemon!Unsent
    BY <2>3, <2>4
  <2>7. ASSUME NEW i \in DOMAIN smsq
        PROVE  ~Daemon!MoreSevere(i, i)
    <3>1. SeverityOf[smsq[i].alert] \in Nat /\ i \in Nat
      BY <1>1, <2>5, TypeAssumption DEF Sms
    <3> QED BY <3>1 DEF Daemon!MoreSevere
  <2>8. ASSUME NEW j \in DOMAIN msgs', NEW k \in DOMAIN msgs', msgs'[j] = msgs'[k]
        PROVE  j = k
    <3>1. ~Daemon!MoreSevere(msgs'[j], msgs'[k]) /\ ~Daemon!MoreSevere(msgs'[k], msgs'[j])
      BY <2>4, <2>6, <2>7, <2>8
    <3>2. ~(j < k) /\ ~(k < j)
      BY <2>3, <3>1 DEF Daemon!MostSevereFirst
    <3> QED BY <2>6, <3>2
  <2>9. pending' = <<>>
    BY <1>2, <2>1 DEF SmsInv, NobodyWaits
  <2>10. Serving' /\ NobodyWaits'
    <3>1. \A k \in DOMAIN msgs' : msgs'[k] \in Daemon!Unsent'
      BY <1>2, <2>6 DEF Daemon!Unsent
    <3> QED BY <2>2, <2>8, <2>9, <3>1 DEF Serving, NobodyWaits, Daemon!NoUser
  <2>11. SmsTypes'
    BY <1>2, <2>1 DEF SmsInv, SmsTypes
  <2> QED BY <1>3, <2>10, <2>11 DEF SmsInv
<1> QED BY <1>4, <1>5

\* Giving up ends texts that wait for nothing; a crash forgets what was to be stored.
LEMMA EndSms ==
  ASSUME WaitInv, SmsInv, Daemon!GiveUp \/ Daemon!Crash
  PROVE  SmsInv'
<1>1. DaemonTypes
  BY DEF WaitInv, TablesInv
<1>2. /\ (\A i \in DOMAIN smsq : smsq[i].heard \in Nat /\ smsq[i].sent \in {"N", "Y", "I"})
      /\ faults \in Nat
  BY <1>1, HeardIsNat DEF SmsInv, SmsTypes
<1>3. users' = {} /\ user' = Daemon!NoUser /\ turn' = 0
  BY DEF Daemon!GiveUp, Daemon!Crash
<1>4. CASE Daemon!GiveUp
  <2>1. /\ UNCHANGED <<dispatchers, pending, faults>> /\ turn > Len(dispatchers)
        /\ smsq' = smsq \/ smsq' = Daemon!Cancelled
    BY <1>4 DEF Daemon!GiveUp
  <2>2. pending = <<>>
    <3>1. turn > 0
      BY <2>1, LenProperties DEF SmsInv, SmsTypes
    <3> QED BY <3>1 DEF SmsInv, Serving
  <2>3. /\ DOMAIN smsq' = DOMAIN smsq
        /\ \A i \in DOMAIN smsq :
             /\ smsq'[i].heard = smsq[i].heard
             /\ smsq'[i].sent = smsq[i].sent \/ (smsq[i].sent = "N" /\ smsq'[i].sent = "I")
    BY <1>1, <2>1, CancelledEnds
  <2>4. DOMAIN pending' = {} /\ DOMAIN pending = {}
    BY <2>1, <2>2, EmptySeq
  <2>5. SmsTypes' /\ Serving' /\ NobodyWaits' /\ PendingIsTrue'
    BY <1>3, <2>1, <2>2, <2>4 DEF SmsInv, SmsTypes, Serving, NobodyWaits, PendingIsTrue
  <2>6. \A i \in DOMAIN smsq :
          smsq[i].heard <= IF smsq[i].sent = "N" THEN faults ELSE 1 + faults
    BY <2>4 DEF SmsInv, HeardBudget, IsOpen
  <2>7. HeardBudget'
    <3>1. ASSUME NEW i \in DOMAIN smsq
          PROVE  smsq'[i].heard <= IF IsOpen(i)' THEN faults' ELSE 1 + faults'
      <4>1. IsOpen(i)' => smsq[i].sent = "N"
        BY <2>3 DEF IsOpen
      <4> QED BY <1>2, <2>1, <2>3, <2>6, <4>1
    <3> QED BY <2>3, <3>1 DEF HeardBudget
  <2>8. StatusIsTrue'
    <3>1. ASSUME NEW i \in DOMAIN smsq
          PROVE  /\ smsq'[i].sent = "Y" => smsq'[i].heard > 0
                 /\ smsq'[i].sent = "I" /\ faults' = 0 => smsq'[i].heard = 0
      BY <1>2, <2>1, <2>3, <2>6 DEF SmsInv, StatusIsTrue
    <3> QED BY <2>3, <3>1 DEF StatusIsTrue
  <2> QED BY <2>5, <2>7, <2>8 DEF SmsInv
<1>5. CASE Daemon!Crash
  <2>1. /\ faults' = faults + 1 /\ smsq' = smsq /\ pending' = <<>>
        /\ dispatchers' = Dispatchers
    BY <1>5 DEF Daemon!Crash
  <2>2. DOMAIN pending' = {}
    BY <2>1, EmptySeq
  <2>3. SmsTypes' /\ Serving' /\ NobodyWaits' /\ PendingIsTrue'
    BY <1>2, <1>3, <2>1, <2>2, TypeAssumption DEF SmsTypes, Serving, NobodyWaits, PendingIsTrue
  <2>4. HeardBudget'
    <3>1. ASSUME NEW i \in DOMAIN smsq
          PROVE  smsq'[i].heard <= IF IsOpen(i)' THEN faults' ELSE 1 + faults'
      <4>1. smsq[i].heard <= (IF IsOpen(i) THEN faults ELSE 1 + faults)
        BY DEF SmsInv, HeardBudget
      <4> QED BY <1>2, <2>1, <4>1
    <3> QED BY <2>1, <3>1 DEF HeardBudget
  <2>5. StatusIsTrue'
    BY <1>2, <2>1 DEF SmsInv, StatusIsTrue
  <2> QED BY <2>3, <2>4, <2>5 DEF SmsInv
<1> QED BY <1>4, <1>5

\* What is there at first was heard if it is stored as sent.
LEMMA FirstSms == Init => SmsInv
<1> SUFFICES ASSUME Init PROVE SmsInv
  OBVIOUS
<1>1. /\ smsq = Earlier /\ faults = 0 /\ users = {} /\ turn = 0 /\ pending = <<>>
      /\ dispatchers = Dispatchers
  BY DEF Init, Engine!Init, Daemon!Init
<1>2. DaemonTypes
  BY FirstWait DEF WaitInv, TablesInv
<1>3. \A i \in DOMAIN smsq : /\ smsq[i].sent \in {"N", "Y", "I"}
                             /\ smsq[i].heard = IF smsq[i].sent = "Y" THEN 1 ELSE 0
  BY <1>1, <1>2, HeardIsNat, EarlierAssumption
<1>4. DOMAIN pending = {}
  BY <1>1, EmptySeq
<1>5. SmsTypes /\ Serving /\ NobodyWaits /\ PendingIsTrue
  BY <1>1, <1>4, TypeAssumption DEF SmsTypes, Serving, NobodyWaits, PendingIsTrue
<1>6. HeardBudget /\ StatusIsTrue
  BY <1>1, <1>3 DEF HeardBudget, IsOpen, StatusIsTrue
<1> QED BY <1>5, <1>6 DEF SmsInv

\* How often each text was heard and what is stored of it agree through every step of the
\* two daemons.
THEOREM SmsInvHolds == Spec => []SmsInv
<1>1. WaitInv /\ SmsInv /\ [Next]_vars => SmsInv'
  <2> SUFFICES ASSUME WaitInv, SmsInv, [Next]_vars PROVE SmsInv'
    OBVIOUS
  <2>1. CASE Engine!Next /\ UNCHANGED daemon
    <3>1. faults \in Nat
      BY DEF SmsInv, SmsTypes
    <3> QED BY <2>1, <3>1, EngineWrites, EngineSms
  <2>2. CASE Daemon!Next /\ UNCHANGED engine
    BY <2>2, StoreSms, SendsSms, FailsSms, UsersSms, EndSms DEF Daemon!Next, Daemon!Loop
  <2>3. CASE UNCHANGED vars
    <3>1. UNCHANGED daemon /\ smsq' = smsq /\ faults' = faults
      BY <2>3 DEF vars
    <3>2. faults' \in Nat /\ faults' >= faults
      BY <3>1 DEF SmsInv, SmsTypes
    <3> QED BY <3>1, <3>2, EngineSms
  <2> QED BY <2>1, <2>2, <2>3 DEF Next
<1> QED BY <1>1, FirstSms, WaitInvHolds, PTL DEF Spec

\* A text that is stored as sent was sent, and one that was sent is not given up, but for
\* crashes and dispatchers that fail after they have sent it.
THEOREM StatusIsTrueHolds == Spec => []StatusIsTrue
<1>1. SmsInv => StatusIsTrue
  BY DEF SmsInv
<1> QED BY <1>1, SmsInvHolds, PTL

\* A phone is not texted about an alert twice, nor is a text heard twice, but for crashes,
\* dispatchers that fail after they have sent it, and subscriptions that are deleted: each
\* of those costs one text, or one SMS, at most.
THEOREM NotifiedOnceHolds == Spec => []NotifiedOnce
<1>1. WaitInv /\ OnceInv /\ SmsInv => NotifiedOnce
  <2> SUFFICES ASSUME WaitInv, OnceInv, SmsInv, NEW a \in Alert, NEW p \in Phone
               PROVE  /\ Cardinality(Texts(a, p)) <= 1 + faults
                      /\ \A i \in Texts(a, p) : smsq[i].heard <= 1 + faults
    BY DEF NotifiedOnce
  <2>1. DaemonTypes /\ faults \in Nat
    BY DEF WaitInv, TablesInv, OnceInv
  <2>2. Cardinality(Texts(a, p)) <= 1 + faults
    BY <2>1, TextsAreFinite DEF OnceInv, TextBudget
  <2>3. ASSUME NEW i \in Texts(a, p)
        PROVE  smsq[i].heard <= 1 + faults
    <3>1. i \in DOMAIN smsq
      BY DEF Texts
    <3> QED BY <2>1, <3>1, HeardIsNat DEF SmsInv, HeardBudget
  <2> QED BY <2>2, <2>3
<1> QED BY <1>1, WaitInvHolds, OnceInvHolds, SmsInvHolds, PTL
================================================================================
