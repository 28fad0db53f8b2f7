-------------------------------- MODULE Delivery --------------------------------
(***************************************************************************)
(* From the alert queue to the phone: the alert engine and the SMS daemon, *)
(* two processes that share nothing but the table smsq.                    *)
(***************************************************************************)
EXTENDS Naturals, FiniteSets, SequencesExt

CONSTANTS
  Alert, Subscription, TypeOf, PhoneOf, AccountOf, Matches, Patient, Earlier, Phone, LengthOf,
  SeverityOf, Dispatchers, RetryLimit, RetryLimitAction, Cull, MaxFaults

ASSUME TypeAssumption ==
  /\ Subscription \subseteq Nat /\ TypeOf \in [Subscription -> {"now", "daily"}]
  /\ Phone \subseteq Nat \ {0} /\ PhoneOf \in [Subscription -> Phone]
  /\ DOMAIN AccountOf = Phone
  /\ SeverityOf \in [Alert -> Nat] /\ Dispatchers \in Seq(STRING)
  /\ Matches \subseteq Alert \X Subscription
  /\ RetryLimit \in Nat /\ MaxFaults \in Nat
  /\ RetryLimitAction \in {"ignore", "shutdown"} /\ Cull \in BOOLEAN

\* What is there from before was queued once for each phone it is for, and heard if it is
\* stored as sent: it has a past without faults.
ASSUME EarlierAssumption ==
  /\ Earlier \in Seq([alert : Alert, phone : Phone, sent : {"N", "Y", "I"}, heard : Nat])
  /\ \A i \in DOMAIN Earlier, s \in Subscription :
       <<Earlier[i].alert, s>> \in Matches =>
         \E k \in DOMAIN Earlier : Earlier[k].alert = Earlier[i].alert
                                 /\ Earlier[k].phone = PhoneOf[s]
  /\ \A i, k \in DOMAIN Earlier :
       Earlier[i].alert = Earlier[k].alert /\ Earlier[i].phone = Earlier[k].phone => i = k
  /\ \A i \in DOMAIN Earlier : Earlier[i].heard = IF Earlier[i].sent = "Y" THEN 1 ELSE 0

VARIABLES
  alertq, posted, resolved, rows, subscribed, enabled, afternoon, ran, sentToday, matched,
  phase, new, todo, due, over, daily, row, blacklisted,
  smsq, faults,
  users, user, msgs, turn, dispatchers, pending, failed, alive, hollow

Engine == INSTANCE AlertEngine
Daemon == INSTANCE Smsd

engine == <<alertq, posted, resolved, rows, subscribed, enabled, afternoon, ran, sentToday,
            matched, phase, new, todo, due, over, daily, row, blacklisted>>
daemon == <<users, user, msgs, turn, dispatchers, pending, failed, alive, hollow>>
vars   == <<engine, smsq, faults, daemon>>

Init == Engine!Init /\ Daemon!Init

Next == \/ Engine!Next /\ UNCHANGED daemon
        \/ Daemon!Next /\ UNCHANGED engine

Spec == Init /\ [][Next]_vars

FairSpec == Spec /\ Engine!Fairness /\ Daemon!Fairness

--------------------------------------------------------------------------------
(* Properties. *)

Texts(a, p) == {i \in DOMAIN smsq : smsq[i].alert = a /\ smsq[i].phone = p}

\* Every variable keeps its shape.
TypeOK ==
  /\ alertq \subseteq posted /\ posted \subseteq Alert /\ resolved \subseteq posted
  /\ rows \subseteq [alert : Alert, sub : Subscription, early : BOOLEAN]
  /\ subscribed \subseteq Subscription /\ matched \subseteq Matches
  /\ enabled \cup sentToday \cup daily \subseteq Engine!Range(AccountOf)
  /\ afternoon \in BOOLEAN /\ ran \in BOOLEAN /\ blacklisted \in BOOLEAN
  /\ phase \in {"idle", "new", "walk", "delete", "count", "clean"}
  /\ new \subseteq Alert /\ over \subseteq due
  /\ smsq \in Seq([alert : Alert, phone : Phone, sent : {"N", "Y", "I"}, heard : Nat])
  /\ users \subseteq Phone /\ user \in Phone \cup {Daemon!NoUser}
  /\ failed \in 0..RetryLimit /\ alive \in BOOLEAN /\ faults \in 0..MaxFaults

\* A phone is not texted about the same alert twice, however its owner subscribes to it
\* and whoever else waits for it: but once more for each crash, failure of a dispatcher that
\* had sent the SMS, or edit of a profile: a deleted subscription makes an alert new again.
NotifiedOnce == \A a \in Alert, p \in Phone :
  /\ Cardinality(Texts(a, p)) <= 1 + faults
  /\ \A i \in Texts(a, p) : smsq[i].heard <= 1 + faults

\* The subscriptions of the phone that the alert matched, when it was matched last
Wanting(a, p) == {s \in Subscription : PhoneOf[s] = p /\ <<a, s>> \in matched}

IsOver(a, s) == a \in resolved /\ s \in Patient /\ TypeOf[s] # "now"

\* The one that it was queued for
Queued(a, p) == Engine!First(Wanting(a, p))

\* What the phone's one row of the alert was for is deleted, or was to be ignored.
RowIsGone(a, p) == \E s \in Queued(a, p) : s \notin subscribed \/ IsOver(a, s)

\* No alert leaves the alert queue before each phone that it matched was sent its text: but
\* if the very subscription it was queued for was deleted, or was to ignore what is over;
\* whatever else shares the alert, and wherever a run was cut short.
LostOnlyWithItsRow == \A a \in posted \ alertq, p \in Phone :
  Wanting(a, p) # {} => Texts(a, p) # {} \/ RowIsGone(a, p)

\* "The Alert Engine monitors the alert queue and dispatches alerts according to the
\* individual users' active alert profiles": no alert leaves the queue before each phone was
\* sent its text that the alert matched through a subscription which still wants it.
NoneLost == \A a \in posted \ alertq, p \in Phone :
  (\E s \in Wanting(a, p) \cap subscribed : ~IsOver(a, s)) => Texts(a, p) # {}

\* A text that is stored as sent was sent, and one that was sent is not given up: unless
\* a crash or a dispatcher's late failure intervened.
StatusIsTrue == \A i \in DOMAIN smsq :
  /\ smsq[i].sent = "Y" => smsq[i].heard > 0
  /\ smsq[i].sent = "I" /\ faults = 0 => smsq[i].heard = 0

Settled(a, p) == /\ a \notin alertq
                 /\ \A i \in Texts(a, p) : smsq[i].sent # "N"
                 /\ Wanting(a, p) # {} => Texts(a, p) # {} \/ RowIsGone(a, p)

\* Each alert leaves the alert queue, and each text for it is sent or given up; whom it
\* matched has such a text, but for a row that went as in LostOnlyWithItsRow: through digests,
\* crashes, failing dispatchers and users that edit their profiles, unless one of the daemons
\* has stopped, or holds SMS for broken.
EveryAlertIsSettled == []<>(\/ blacklisted \/ ~alive
                            \/ \A a \in posted, p \in Phone : Settled(a, p))

\* Dispatcher.formatsms: "Attempts to squeeze as many messages into the 160-characters
\* that an SMS is limited to."
NoHollowSms == ~hollow
================================================================================
