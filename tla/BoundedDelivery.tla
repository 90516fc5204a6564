-------------------------- MODULE BoundedDelivery --------------------------
(***************************************************************************)
(* What src/background_delivery.py promises to those who submit a          *)
(* notification: a bounded number of them is outstanding, one that was     *)
(* accepted runs at most once, it is cancelled only when the pool closes   *)
(* and before it runs, and nothing is accepted after that.                 *)
(***************************************************************************)
EXTENDS Integers, FiniteSets

CONSTANTS Jobs, Capacity

VARIABLES
    status,   \* what became of each notification
    open      \* shutdown() was not called yet

vars == <<status, open>>

Init ==
    /\ status = [j \in Jobs |-> "new"]
    /\ open = TRUE

Outstanding == {j \in Jobs : status[j] \in {"pending", "running"}}

Become(j, from, to) == status[j] = from /\ status' = [status EXCEPT ![j] = to]

Accept(j) ==
    /\ open
    /\ Cardinality(Outstanding) < Capacity
    /\ Become(j, "new", "pending")
    /\ UNCHANGED open

Refuse(j) == Become(j, "new", "refused") /\ UNCHANGED open

Start(j) == Become(j, "pending", "running") /\ UNCHANGED open

Finish(j) == Become(j, "running", "finished") /\ UNCHANGED open

Cancel(j) == ~open /\ Become(j, "pending", "cancelled") /\ UNCHANGED open

Close == open' = FALSE /\ UNCHANGED status

Next ==
    \/ Close
    \/ \E j \in Jobs : Accept(j) \/ Refuse(j) \/ Start(j) \/ Finish(j) \/ Cancel(j)

Spec == Init /\ [][Next]_vars
=============================================================================
