----------------------------- MODULE MCWorkflow -----------------------------
(* Two items: independent, dependent, or sharing a resource lock; one plan is *)
(* revised.                                                                   *)
EXTENDS Workflow, TLC

CONSTANTS i1, i2, w1, w2

MCOrder == <<i1, i2>>
MCSeparate == i1 :> {"db"} @@ i2 :> {}
MCShared == i1 :> {"db"} @@ i2 :> {"db"}

Flat == i1 :> {} @@ i2 :> {}
Chain == i1 :> {} @@ i2 :> {i1}
Single == i1 :> {}

Parallel == [hybrid |-> TRUE, graphs |-> <<Flat>>]
Revised == [hybrid |-> TRUE, graphs |-> <<Flat, Chain>>]
Sequential == [hybrid |-> FALSE, graphs |-> <<Single, Chain>>]

One == [hybrid |-> TRUE, graphs |-> <<Single>>]

TakeoverPlans == {Parallel}
RevisedPlans == {Revised, Sequential}
LivePlans == {Revised}
SinglePlan == {One}

Interchangeable == Permutations(Coordinators)
===============================================================================
