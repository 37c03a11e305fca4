------------------------------ MODULE ItemQueue ------------------------------
(***************************************************************************)
(* What the queue of an Objective promises (the fixed rules of ledger.ts): *)
(* a task revision enters it once, one command moves one item at a time    *)
(* along the table, a skipped item comes back only by an explicit unskip,  *)
(* and a canceled one never does.  ObjectiveLedger is shown to implement   *)
(* it for as long as the ledger can be trusted.                            *)
(***************************************************************************)
CONSTANT Items

VARIABLES
  state,  \* [Items -> ABSENT, WAITING, BLOCKED, SKIPPED or CANCELED]
  lost    \* the ledger can no longer be trusted

Init == state = [i \in Items |-> "ABSENT"] /\ lost = FALSE

Move(i, from, to) ==
  /\ ~lost
  /\ state[i] \in from
  /\ state' = [state EXCEPT ![i] = to]
  /\ UNCHANGED lost

Attach(i) == Move(i, {"ABSENT"}, "WAITING")
Block(i) == Move(i, {"WAITING"}, "BLOCKED")
Unblock(i) == Move(i, {"BLOCKED"}, "WAITING")
Skip(i) == Move(i, {"WAITING", "BLOCKED"}, "SKIPPED")
Unskip(i) == Move(i, {"SKIPPED"}, "WAITING")
Cancel(i) == Move(i, {"WAITING", "BLOCKED", "SKIPPED"}, "CANCELED")

\* Nothing is promised from here on.
Lose ==
  /\ lost' = TRUE
  /\ state' \in [Items -> {"ABSENT", "WAITING", "BLOCKED", "SKIPPED", "CANCELED"}]

Next ==
  \/ \E i \in Items :
       Attach(i) \/ Block(i) \/ Unblock(i) \/ Skip(i) \/ Unskip(i) \/ Cancel(i)
  \/ Lose

Spec == Init /\ [][Next]_<<state, lost>>
==============================================================================
