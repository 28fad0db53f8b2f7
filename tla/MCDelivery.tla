------------------------------- MODULE MCDelivery -------------------------------
(* Delivery for TLC: a phone with an immediate and a daily subscription, one with a   *)
(* daily one, and a text that is still to be sent to the first.                       *)
EXTENDS Delivery

MCType     == [s \in Subscription |-> IF s = 2 THEN "now" ELSE "daily"]
MCPhone    == [s \in Subscription |-> IF s = 3 THEN 20 ELSE 10]
MCAccount  == [p \in Phone |-> IF p = 10 THEN "ann" ELSE "bo"]
MCMatches  == (Alert \X Subscription) \ {<<"up", 3>>}
MCEarlier  == <<[alert |-> "up", phone |-> 10, sent |-> "N", heard |-> 0]>>
MCLength   == [a \in Alert |-> IF a = "down" THEN 100 ELSE 60]
MCCutOff   == [a \in Alert |-> 145]   \* what SMSQueue.save leaves of a longer text
MCSeverity == [a \in Alert |-> IF a = "down" THEN 1 ELSE 3]
MCDispatchers == <<"gammu", "mail">>
================================================================================
