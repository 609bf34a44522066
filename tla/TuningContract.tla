---------------------------- MODULE TuningContract ----------------------------
(***************************************************************************)
(* What tuning several tasks under one budget promises, without saying how *)
(* the next task is chosen: only tasks that are still alive are tuned, and *)
(* only while budget is left; the best cost of a task never gets worse;    *)
(* and a round that spends nothing takes its task out of the race, so that *)
(* every round is progress.                                                *)
(***************************************************************************)
EXTENDS Integers

CONSTANTS Tasks, Trials, RoundMax, Costs, Failed

VARIABLES
  spent,  \* measurements so far
  alive,  \* tasks worth another round
  cost,   \* best cost of each task
  open    \* tuning has not returned

vars == <<spent, alive, cost, open>>

Init ==
  /\ spent = 0
  /\ alive = Tasks
  /\ cost = [i \in Tasks |-> Failed]
  /\ open = TRUE

Tune(i) ==
  /\ open /\ i \in alive /\ spent < Trials
  /\ spent' \in spent .. spent + RoundMax
  /\ alive' \in {alive, alive \ {i}}
  /\ spent' = spent => alive' = alive \ {i}
  /\ \E c \in Costs : c <= cost[i] /\ cost' = [cost EXCEPT ![i] = c]
  /\ open' \in BOOLEAN

Close == open /\ open' = FALSE /\ UNCHANGED <<spent, alive, cost>>

Next == Close \/ \E i \in Tasks : Tune(i)

Spec == Init /\ [][Next]_vars
=============================================================================
