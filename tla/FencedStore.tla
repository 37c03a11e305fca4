----------------------------- MODULE FencedStore -----------------------------
(***************************************************************************)
(* What a run row promises to the coordinator that uses it, without clocks, *)
(* processes or SQL: grants are numbered, at most one grant is in force,    *)
(* only the grant in force commits, and a grant that went out of force      *)
(* never comes back.  WorkerLease (alpha/store.mjs) is shown to implement  *)
(* it; TaskRun relies on it for every save of alpha/controller.mjs.         *)
(***************************************************************************)
EXTENDS Naturals

VARIABLES
  issued,   \* number of grants handed out so far; grant g is the g-th claim
  holder,   \* the grant in force, NoGrant when none is
  version,  \* number of commits made to the run body by workers
  writer    \* the grant that made the last of them, NoGrant before any

vars == <<issued, holder, version, writer>>

NoGrant == 0

Init ==
  /\ issued = 0
  /\ holder = NoGrant
  /\ version = 0
  /\ writer = NoGrant

\* A claim hands out the next grant; whoever held the previous one is fenced off.
Grant ==
  /\ issued' = issued + 1
  /\ holder' = issued'
  /\ UNCHANGED <<version, writer>>

Commit ==
  /\ holder # NoGrant
  /\ version' = version + 1
  /\ writer' = holder
  /\ UNCHANGED <<issued, holder>>

\* Release, expiry that somebody noticed, invalidation: no way back but Grant.
Lose ==
  /\ holder' = NoGrant
  /\ UNCHANGED <<issued, version, writer>>

Next == Grant \/ Commit \/ Lose

Spec == Init /\ [][Next]_vars
==============================================================================
