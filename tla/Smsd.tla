--------------------------------- MODULE Smsd ----------------------------------
(***************************************************************************)
(* The SMS daemon (bin/smsd.py, smsd/dispatcher.py, smsd/navdbqueue.py):   *)
(* one phone number after the other it formats the unsent messages as one  *)
(* SMS, tries its dispatchers until one has sent it, and stores the status *)
(* of each message.  When none could it gives the round up, and after      *)
(* RetryLimit of those in a row gives all messages up or exits.            *)
(***************************************************************************)
EXTENDS Naturals, FiniteSets, SequencesExt

CONSTANTS
  Phone,              \* numbers, in the order in which they are served
  LengthOf,           \* of each alert's message
  SeverityOf,         \* of each alert; low is severe
  Dispatchers,        \* the sequence of configured dispatchers
  RetryLimit,         \* retrylimit, 0 for none
  RetryLimitAction,   \* retrylimitaction
  Cull,               \* exit_on_permanent_error
  MaxFaults           \* bound: crashes and failures, as in AlertEngine

VARIABLES
  smsq,         \* the rows of smsq; heard counts the SMSes with that message
  users,        \* the phone numbers of this round that are yet to be served
  user,
  msgs,         \* its unsent messages: their places in smsq
  turn,         \* the index in the list of dispatchers, 0 if none is tried
  dispatchers,  \* self.dispatchers
  pending,      \* status to be stored: pairs of a place in smsq and "Y" or "I"
  failed,       \* rounds that failed in a row, if there is a limit
  alive,
  hollow,       \* an SMS with none of the messages was sent
  faults

vars == <<smsq, users, user, msgs, turn, dispatchers, pending, failed, alive, hollow, faults>>

NoUser == 0

Init ==
  /\ users = {} /\ user = NoUser /\ msgs = <<>> /\ turn = 0
  /\ dispatchers = Dispatchers /\ pending = <<>> /\ failed = 0 /\ alive = TRUE
  /\ hollow = FALSE

Unsent      == {i \in DOMAIN smsq : smsq[i].sent = "N"}
UnsentOf(p) == {i \in Unsent : smsq[i].phone = p}

--------------------------------------------------------------------------------
(* Dispatcher.formatsms *)

MaxLen == 160
IgnLen == 15

\* The length of the text of the first k of ms, with numbers before them if k > 1.
TextLength(ms, k) ==
  FoldFunctionOnSet(LAMBDA a, b : LengthOf[smsq[a].alert] + b,
                    IF k = 1 THEN 0 ELSE 8 + 5 * (k - 2), ms, 1..k)

\* The places of messages that end within the limit, with room for the number of ignored
\* ones unless there is none after it.
Within(ms) ==
  {k \in DOMAIN ms : TextLength(ms, k) < MaxLen - (IF k = Len(ms) THEN 0 ELSE IgnLen)}

\* How many of the first messages of ms are sent.
Fitting(ms) ==
  Max({0} \cup {k \in DOMAIN ms : \A i \in 1..k : i \in Within(ms)})

--------------------------------------------------------------------------------
(* The main loop. *)

GetUsers ==
  /\ alive /\ user = NoUser /\ users = {}
  /\ Unsent # {}
  /\ users' = {smsq[i].phone : i \in Unsent}
  /\ UNCHANGED <<smsq, user, msgs, turn, dispatchers, pending, failed, alive, hollow, faults>>

MoreSevere(i, j) ==
  LET a == SeverityOf[smsq[i].alert]
      b == SeverityOf[smsq[j].alert] IN a < b \/ (a = b /\ i < j)

\* getusermsgs, the most severe first
MostSevereFirst(ms) == \A i, j \in DOMAIN ms : i < j => MoreSevere(ms[i], ms[j])

NextUser ==
  /\ alive /\ user = NoUser /\ users # {}
  /\ user' = Min(users) /\ users' = users \ {user'}
  /\ LET places == UnsentOf(user') IN
       \E ms \in [1..Cardinality(places) -> places] : MostSevereFirst(ms) /\ msgs' = ms
  /\ turn' = 1
  /\ UNCHANGED <<smsq, dispatchers, pending, failed, alive, hollow, faults>>

\* The SMS reaches the phone.
Heard(n) == [i \in DOMAIN smsq |->
               IF \E k \in 1..n : msgs[k] = i THEN [smsq[i] EXCEPT !.heard = @ + 1] ELSE smsq[i]]

Trying == alive /\ turn \in DOMAIN dispatchers

\* Mutant: the ignored ones are stored as sent.
AllSent(n) == [k \in DOMAIN msgs |-> <<msgs[k], "Y">>]

Statuses(n) == [k \in DOMAIN msgs |-> <<msgs[k], IF k <= n THEN "Y" ELSE "I">>]

Sends ==
  /\ Trying
  /\ LET n == Fitting(msgs) IN
       /\ smsq' = Heard(n) /\ pending' = Statuses(n)
       /\ hollow' = (hollow \/ n = 0)
  /\ turn' = 0 /\ failed' = 0
  /\ UNCHANGED <<users, user, msgs, dispatchers, alive, faults>>

\* The next dispatcher is tried; it may be that the SMS was sent all the same.
Fails ==
  /\ Trying
  /\ turn' = turn + 1
  /\ \/ UNCHANGED <<smsq, faults>>
     \/ faults < MaxFaults /\ faults' = faults + 1 /\ smsq' = Heard(Fitting(msgs))
  /\ UNCHANGED <<users, user, msgs, dispatchers, pending, failed, alive, hollow>>

\* The one after it takes its place in the list that is walked, and is skipped.
FailsForGood ==
  /\ Trying /\ Cull
  /\ dispatchers' = RemoveAt(dispatchers, turn)
  /\ turn' = turn + 1
  /\ UNCHANGED <<smsq, users, user, msgs, pending, failed, alive, hollow, faults>>

\* cancel, with no minimum age
Cancelled == [i \in DOMAIN smsq |-> IF i \in Unsent THEN [smsq[i] EXCEPT !.sent = "I"]
                                    ELSE smsq[i]]

GiveUp ==
  /\ alive /\ turn > Len(dispatchers)
  /\ LET limit == RetryLimit # 0 /\ failed + 1 >= RetryLimit
         exits == dispatchers = <<>> \/ (limit /\ RetryLimitAction = "shutdown")
     IN /\ alive' = ~exits
        /\ smsq' = IF limit /\ ~exits THEN Cancelled ELSE smsq
        /\ failed' = IF limit \/ exits \/ RetryLimit = 0 THEN 0 ELSE failed + 1
  /\ users' = {} /\ user' = NoUser /\ msgs' = <<>> /\ turn' = 0
  /\ UNCHANGED <<dispatchers, pending, hollow, faults>>

\* setsentstatus for one message after the other; then the next user.
Store ==
  /\ alive /\ pending # <<>>
  /\ LET p == Head(pending) IN smsq' = [smsq EXCEPT ![p[1]].sent = p[2]]
  /\ pending' = Tail(pending)
  /\ IF pending' = <<>> THEN user' = NoUser /\ msgs' = <<>> ELSE UNCHANGED <<user, msgs>>
  /\ UNCHANGED <<users, turn, dispatchers, failed, alive, hollow, faults>>

\* The process dies, or an exception of the database ends it; it is started again.
Crash ==
  /\ alive /\ user # NoUser /\ faults < MaxFaults
  /\ faults' = faults + 1
  /\ users' = {} /\ user' = NoUser /\ msgs' = <<>> /\ turn' = 0
  /\ dispatchers' = Dispatchers /\ pending' = <<>> /\ failed' = 0
  /\ UNCHANGED <<smsq, alive, hollow>>

--------------------------------------------------------------------------------
Loop == GetUsers \/ NextUser \/ Sends \/ Fails \/ FailsForGood \/ GiveUp \/ Store

Next == Loop \/ Crash

\* The loop goes on; whether a dispatcher can send is not up to it.
Fairness == WF_vars(Loop)
================================================================================
