------------------------------- MODULE OneShot -------------------------------
(***************************************************************************)
(* The promise made for everything CodeFleet must not do twice: a task is  *)
(* reserved durably, started at most once, and then ends as succeeded or   *)
(* failed for good.  A task whose outcome nobody learned stays where it is *)
(* for ever; it is never started again.  Workflow (alpha/controller.mjs and *)
(* workflow/persistence.mjs) is shown to implement it for its attempts,    *)
(* LocalDecision (product/reservations.mjs) for its decisions.             *)
(***************************************************************************)
CONSTANT Tasks

VARIABLE phase  \* [Tasks -> unused, reserved, started, succeeded or failed]

Init == phase = [t \in Tasks |-> "unused"]

Move(t, from, to) == phase[t] \in from /\ phase' = [phase EXCEPT ![t] = to]

Reserve(t) == Move(t, {"unused"}, "reserved")
Start(t) == Move(t, {"reserved"}, "started")
Succeed(t) == Move(t, {"started"}, "succeeded")
Fail(t) == Move(t, {"reserved", "started"}, "failed")

Next == \E t \in Tasks : Reserve(t) \/ Start(t) \/ Succeed(t) \/ Fail(t)

Spec == Init /\ [][Next]_phase
==============================================================================
