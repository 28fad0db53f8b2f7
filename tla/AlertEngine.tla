------------------------------ MODULE AlertEngine ------------------------------
(***************************************************************************)
(* The alert engine (alertengine/base.py and the queue models of           *)
(* models/profiles.py): one run of check_alerts after the other matches    *)
(* the alerts that are in nobody's queue with the users' subscriptions,    *)
(* then walks the account queue and hands what is due to the dispatcher of *)
(* SMS, which puts it in smsq.  Nothing but the matching is a transaction  *)
(* of its own: text, row, alert and last_sent_day are written one by one,  *)
(* while users edit their profiles.                                        *)
(*                                                                         *)
(* Times are relative to the dispatch time of the day: a row was inserted  *)
(* before it or not.  Weekly dispatch is daily dispatch on one day of the  *)
(* week, and is left out like the timeperiods; the owner of each address   *)
(* may use SMS.  An account's subscriptions belong to its active profile,  *)
(* which its user may deactivate and activate.                             *)
(***************************************************************************)
EXTENDS Naturals, FiniteSets, SequencesExt

CONSTANTS
  Alert,
  Subscription, \* by id
  TypeOf,       \* of each Subscription: "now" or "daily"
  PhoneOf,      \* its address
  AccountOf,    \* of each address
  Matches,      \* the pairs of Alert and Subscription that its filters let through
  Patient,      \* those with ignore_resolved_alerts
  Earlier,      \* what smsq holds from before, of alerts that are over
  MaxFaults     \* bound: crashes and failures, of this daemon and of smsd, subscriptions
                \* that users delete and profiles that they deactivate

VARIABLES
  posted,       \* the alerts that have ever been in alertq
  resolved,     \* those whose problem is over
  subscribed,   \* the subscriptions there are
  enabled,      \* the accounts whose profile is active
  afternoon,    \* past the dispatch time of today
  ran,          \* a run began since
  alertq,       \* the alerts in alertq
  rows,         \* accountalertqueue: early if before the dispatch time of today
  sentToday,    \* the accounts whose last_sent_day is today
  matched,      \* history: the pairs of Matches as each alert was matched last
  phase,        \* of check_alerts
  new,          \* new_alerts
  todo,         \* queued_alerts that are yet to be processed
  due,          \* of those, the ones its time tests let through
  over,         \* and of these, the ones that alert_should_be_ignored
  daily,        \* accounts_sent_daily
  row,          \* queued_alert
  blacklisted,  \* the dispatcher of SMS is
  smsq,         \* the rows of smsq, in the order of their id
  faults

world  == <<posted, resolved, subscribed, enabled, afternoon, ran>>
tables == <<alertq, rows, sentToday, matched>>
choice == <<new, due, over>>
run    == <<phase, choice, todo, daily, row, blacklisted>>
out    == <<smsq, faults>>
vars   == <<world, tables, run, out>>

NoRow == [alert |-> "none"]

HasRow(a, q) == \E r \in q : r.alert = a

Init ==
  /\ posted = {m.alert : m \in Range(Earlier)} /\ resolved = posted
  /\ matched = {q \in Matches : q[1] \in posted}
  /\ subscribed = Subscription /\ enabled = Range(AccountOf)
  /\ afternoon = FALSE /\ ran = FALSE
  /\ alertq = {} /\ rows = {} /\ sentToday = {}
  /\ phase = "idle" /\ new = {} /\ due = {} /\ over = {} /\ todo = {} /\ daily = {}
  /\ row = NoRow /\ blacklisted = FALSE
  /\ smsq = Earlier /\ faults = 0

--------------------------------------------------------------------------------
(* What happens around the daemon. *)

\* The event engine posts an alert.
Post(a) ==
  /\ a \notin posted
  /\ posted' = posted \cup {a} /\ alertq' = alertq \cup {a}
  /\ UNCHANGED <<resolved, subscribed, enabled, afternoon, ran, rows, sentToday, matched,
                 run, out>>

\* The end_time of the alert's history is set.
Resolve(a) ==
  /\ a \in posted \ resolved
  /\ resolved' = resolved \cup {a}
  /\ UNCHANGED <<posted, subscribed, enabled, afternoon, ran, tables, run, out>>

\* The dispatch time passes, then midnight: both between two runs, as these are short,
\* and with a run in between.
Tick ==
  /\ phase = "idle" /\ (afternoon => ran)
  /\ afternoon' = ~afternoon /\ ran' = FALSE
  /\ IF afternoon
     THEN sentToday' = {} /\ rows' = {[r EXCEPT !.early = TRUE] : r \in rows}
     ELSE UNCHANGED <<sentToday, rows>>
  /\ UNCHANGED <<posted, resolved, subscribed, enabled, alertq, matched, run, out>>

\* A user deletes a subscription, or what it belongs to.  Rows go with it, by a cascade
\* that does not call AccountAlertQueue.delete.
Unsubscribe(s) ==
  /\ s \in subscribed /\ faults < MaxFaults
  /\ faults' = faults + 1
  /\ subscribed' = subscribed \ {s}
  /\ rows' = {r \in rows : r.sub # s}
  /\ UNCHANGED <<posted, resolved, enabled, afternoon, ran, alertq, sentToday, matched, run,
                 smsq>>

\* A user deactivates the profile, or activates another.
Deactivate(c) ==
  /\ c \in enabled /\ faults < MaxFaults
  /\ faults' = faults + 1
  /\ enabled' = enabled \ {c}
  /\ UNCHANGED <<posted, resolved, subscribed, afternoon, ran, tables, run, smsq>>

Activate(c) ==
  /\ c \notin enabled
  /\ enabled' = enabled \cup {c}
  /\ UNCHANGED <<posted, resolved, subscribed, afternoon, ran, tables, run, out>>

--------------------------------------------------------------------------------
(* check_alerts *)

Owner(s) == AccountOf[PhoneOf[s]]

Disabled(s) == Owner(s) \notin enabled

\* Mutant: what was inserted after the dispatch time is sent, not what was before.
LateOnes(r) == afternoon /\ ~r.early /\ Owner(r.sub) \notin sentToday

\* _verify_daily_dispatch
DailyDue(r) == afternoon /\ r.early /\ Owner(r.sub) \notin sentToday

\* alert_should_be_ignored, which compares with the start of the run
IsIgnored(r) == r.alert \in resolved /\ r.sub \in Patient /\ TypeOf[r.sub] # "now"

Begin ==
  /\ phase = "idle"
  /\ new' = {a \in alertq : ~HasRow(a, rows)}
  /\ due' = {r \in rows : TypeOf[r.sub] = "now" \/ DailyDue(r)}
  /\ over' = {r \in due' : IsIgnored(r)}
  /\ phase' = "new" /\ ran' = TRUE
  /\ UNCHANGED <<posted, resolved, subscribed, enabled, afternoon, tables, todo, daily, row,
                 blacklisted, out>>

EveryMatch(a) == {s \in subscribed : <<a, s>> \in Matches /\ ~Disabled(s)}

\* The order of subscription_sort_key
Before(o, s) == IF TypeOf[o] = TypeOf[s] THEN o < s ELSE TypeOf[o] = "now"

\* Of these subscriptions, the first for each address.
First(S) == {s \in S : \A o \in S : PhoneOf[o] = PhoneOf[s] => ~Before(o, s)}

\* handle_new_alerts, in one transaction; then the queue is read.
HandleNew ==
  /\ phase = "new"
  /\ LET added == UNION {{[alert |-> a, sub |-> s, early |-> ~afternoon] :
                            s \in First(EveryMatch(a))} : a \in new}
     IN /\ rows' = rows \cup added
        /\ todo' = rows'
        /\ due' = due \cup {r \in added : TypeOf[r.sub] = "now"}
  /\ matched' = {q \in matched : q[1] \notin new}
                  \cup {q \in Matches : q[1] \in new /\ q[2] \in EveryMatch(q[1])}
  /\ phase' = "walk"
  /\ UNCHANGED <<world, alertq, sentToday, new, over, daily, row, blacklisted, out>>

\* Due, or its profile is no longer active
IsSent(r) == r \in due \/ Disabled(r.sub)

\* Not due, or its subscription is no longer there.
Skip(r) ==
  /\ phase = "walk" /\ r \in todo
  /\ ~IsSent(r) \/ r.sub \notin subscribed
  /\ todo' = todo \ {r}
  /\ UNCHANGED <<world, tables, phase, choice, daily, row, blacklisted, out>>

MaySend(r) == phase = "walk" /\ r \in todo /\ IsSent(r) /\ r.sub \in subscribed

Ignored(r) == r \in over /\ ~Disabled(r.sub)

\* AlertAddress.send puts the message in smsq, and so commits.
Text(r) == Append(smsq, [alert |-> r.alert, phone |-> PhoneOf[r.sub], sent |-> "N",
                         heard |-> 0])

Send(r) ==
  /\ MaySend(r)
  /\ IF Ignored(r) THEN UNCHANGED <<smsq, daily>>
     ELSE /\ ~blacklisted /\ smsq' = Text(r)
          /\ daily' = IF TypeOf[r.sub] = "daily" /\ ~Disabled(r.sub)
                      THEN daily \cup {Owner(r.sub)} ELSE daily
  /\ phase' = "delete" /\ row' = r
  /\ UNCHANGED <<world, tables, choice, todo, blacklisted, faults>>

\* DispatcherException, or any other, which blacklists the dispatcher
SendFails(r) ==
  /\ MaySend(r) /\ ~Ignored(r)
  /\ \/ blacklisted /\ UNCHANGED <<blacklisted, faults>>
     \/ /\ ~blacklisted /\ faults < MaxFaults
        /\ faults' = faults + 1 /\ blacklisted' \in BOOLEAN
  /\ todo' = todo \ {r}
  /\ UNCHANGED <<world, tables, phase, choice, daily, row, smsq>>

\* Mutant: the row stays in the queue.
RowStays(r) == rows

RowGone(r) == rows \ {r}

\* AccountAlertQueue.delete: first the row
DeleteRow ==
  /\ phase = "delete"
  /\ rows' = RowGone(row)
  /\ phase' = "count"
  /\ UNCHANGED <<world, alertq, sentToday, matched, choice, todo, daily, row, blacklisted,
                 out>>

IsLast(a) == ~HasRow(a, rows)

\* and then the alert, with nobody left to wait for it
DeleteAlert ==
  /\ phase = "count"
  /\ alertq' = IF IsLast(row.alert) THEN alertq \ {row.alert} ELSE alertq
  /\ rows' = {r \in rows : r.alert \in alertq'}
  /\ phase' = "walk" /\ todo' = todo \ {row} /\ row' = NoRow
  /\ UNCHANGED <<world, sentToday, matched, choice, daily, blacklisted, out>>

\* last_sent_day is set when the whole queue was walked.
EndWalk ==
  /\ phase = "walk" /\ todo = {}
  /\ sentToday' = sentToday \cup daily
  /\ phase' = "clean" /\ daily' = {} /\ due' = {} /\ over' = {}
  /\ UNCHANGED <<world, alertq, rows, matched, new, todo, row, blacklisted, out>>

\* Mutant: also those that wait in somebody's queue.
AllNew == new

\* The new alerts that nobody waits for.
Handled == {a \in new : ~HasRow(a, rows)}

Clean ==
  /\ phase = "clean"
  /\ alertq' = alertq \ Handled
  /\ rows' = {r \in rows : r.alert \in alertq'}
  /\ phase' = "idle" /\ new' = {}
  /\ UNCHANGED <<world, sentToday, matched, todo, due, over, daily, row, blacklisted, out>>

\* The process dies and is started again, or the main loop catches a DatabaseError; only
\* the first forgets the blacklist.
Crash ==
  /\ phase # "idle" /\ faults < MaxFaults
  /\ faults' = faults + 1
  /\ phase' = "idle" /\ new' = {} /\ due' = {} /\ over' = {} /\ todo' = {} /\ daily' = {}
  /\ row' = NoRow /\ blacklisted' \in {blacklisted, FALSE}
  /\ UNCHANGED <<world, tables, smsq>>

--------------------------------------------------------------------------------
CheckAlerts ==
  \/ Begin \/ HandleNew \/ DeleteRow \/ DeleteAlert \/ EndWalk \/ Clean
  \/ \E r \in todo : Skip(r) \/ Send(r) \/ SendFails(r)

Next ==
  \/ CheckAlerts \/ Crash \/ Tick
  \/ \E a \in Alert : Post(a) \/ Resolve(a)
  \/ \E s \in Subscription : Unsubscribe(s)
  \/ \E c \in Range(AccountOf) : Deactivate(c) \/ Activate(c)

\* The daemon goes on with its loop and time passes; users and alerts need not come.
Fairness == WF_vars(CheckAlerts) /\ SF_vars(Tick)
================================================================================
