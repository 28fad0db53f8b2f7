-------------------------------- MODULE WorkPool --------------------------------
(***************************************************************************)
(* What servicemon's run queue promises: a pool of at most MaxThreads      *)
(* threads takes what it is given, each piece once, until it is closed.    *)
(***************************************************************************)
EXTENDS Naturals

CONSTANT MaxThreads

VARIABLES
  pending,  \* how many runnables were submitted and not taken
  running,  \* how many threads execute one
  open      \* may runnables still be taken

vars == <<pending, running, open>>

Init == pending = 0 /\ running = 0 /\ open = TRUE

Submit == pending' = pending + 1 /\ UNCHANGED <<running, open>>

Take == /\ open /\ pending > 0 /\ running < MaxThreads
        /\ pending' = pending - 1
        /\ running' = running + 1
        /\ UNCHANGED open

Finish == running > 0 /\ running' = running - 1 /\ UNCHANGED <<pending, open>>

Close == open' = FALSE /\ UNCHANGED <<pending, running>>

Next == Submit \/ Take \/ Finish \/ Close

Spec == Init /\ [][Next]_vars
================================================================================
