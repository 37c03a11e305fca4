---------------------------- MODULE LocalDecision ----------------------------
(***************************************************************************)
(* The decision to execute a verification once                             *)
(* (src/product/reservations.mjs).  A decision binds one revision of the    *)
(* task, its contract and the tree of its repository.  It is issued,        *)
(* reserved and started in transactions of their own, and its result is     *)
(* recorded in the transaction that updates the task.  What cannot be       *)
(* recorded is handed to a human and never executed again.                  *)
(*                                                                         *)
(* `late` says that the clock has passed the decision's expiry, `seen` that *)
(* the event of its expiry has been recorded.                               *)
(***************************************************************************)
EXTENDS BootstrapTask

CONSTANT MaxAttempts   \* settings.maxAttempts

vars == <<task, runs, proc, trouble, disk, decisions>>

DecisionSet ==
  [rev : Nat, contract : Nat, tree : Written \cup {None}, repair : 1..MaxRev \cup {None},
   state : Executed \cup {"ABSENT", "ISSUED"}, late : BOOLEAN, seen : BOOLEAN,
   revoked : BOOLEAN, owner : Procs \cup {None}, lease : BOOLEAN, ev : EvidenceSet \cup {None}]

TypeOK ==
  /\ task \in TaskSet
  /\ runs \in [1..MaxRev -> RunSet \cup {None}]
  /\ disk \in Trees
  /\ decisions \in [Decisions -> DecisionSet]

InitDecisions ==
  Init /\ disk = [f \in Files |-> None] /\ decisions = [d \in Decisions |-> Absent]

\* Reservations of the contract the task has now.
Priors == {d \in Reserved : decisions[d].contract = task.contract}

-----------------------------------------------------------------------------
(* Validity of a decision and of a repair.                                  *)

\* Mutant: an expiry that was observed does not count when the clock is set back.
Mutant_Valid(d) == ~decisions[d].late /\ ~decisions[d].revoked

Valid(d) == ~decisions[d].late /\ ~decisions[d].seen /\ ~decisions[d].revoked

\* validDecision records the expiry it observes, also when the transaction it
\* is called in is rolled back.
Observe(d) == decisions' = [decisions EXCEPT ![d].seen = @ \/ decisions[d].late]

\* validateRepairDecision for the repair r, which answers the one failure of the
\* contract, and the tree that is to be verified.
ValidRepair(r, tree) ==
  \E d \in Priors :
    /\ CompletedRepair(r, d) /\ MayStart(r) /\ task.run = r /\ Agrees(d)
    /\ runs[r].base = decisions[d].ev.tree
    /\ tree = [f \in Files |-> r]

\* currentBinding, for the terms b that a decision binds.
Current(b) ==
  /\ Prepared /\ task.rev = b.rev /\ task.contract = b.contract /\ task.src = "MATERIALIZED"
  /\ b.repair # None => ValidRepair(b.repair, b.tree)

Fenced(p, d, state) ==
  /\ Valid(d) /\ Current(decisions[d])
  /\ decisions[d].state = state /\ decisions[d].owner = p /\ decisions[d].lease

-----------------------------------------------------------------------------
(* issue, issueRepair, revokeDecision.                                      *)

Repairs ==
  {None} \cup (IF \E d \in Priors : Priors = {d} /\ decisions[d].state = "LOCAL_FAILED"
               THEN {task.run} ELSE {})

BeginIssue(p) ==
  /\ Verifiable /\ task.rev < MaxRev /\ Known # Decisions
  /\ \E r \in Repairs :
       Enter(p, "issue", r, [rev |-> task.rev, contract |-> task.contract, tree |-> disk, repair |-> r])
  /\ UNCHANGED <<task, runs, trouble, bootVars>>

Issued(b) ==
  [Absent EXCEPT !.rev = b.rev, !.contract = b.contract, !.tree = b.tree,
                 !.repair = b.repair, !.state = "ISSUED"]

CommitIssue(p) ==
  /\ At(p, "issue") /\ Done(p)
  /\ \/ /\ ~Current(proc[p].arg) /\ UNCHANGED decisions
     \/ /\ Current(proc[p].arg)
        /\ \E d \in Decisions \ Known :
             /\ \A e \in Decisions \ Known : d <= e
             /\ decisions' = [decisions EXCEPT ![d] = Issued(proc[p].arg)]
  /\ UNCHANGED <<task, runs, trouble, disk>>

Revoke(d) ==
  /\ d \in Known /\ ~decisions[d].revoked /\ Trouble
  /\ decisions' = [decisions EXCEPT ![d].revoked = TRUE]
  /\ UNCHANGED <<task, runs, proc, disk>>

-----------------------------------------------------------------------------
(* executeOfflineDecision.                                                  *)

BeginExecute(p, d) ==
  /\ proc[p] = Idle /\ d \in Known \ Reserved
  /\ \/ ~Valid(d) /\ Observe(d) /\ UNCHANGED proc
     \/ /\ Valid(d) /\ Verifiable /\ disk = decisions[d].tree
        /\ proc' = [proc EXCEPT ![p] = [Idle EXCEPT !.at = "reserve", !.arg = [decision |-> d]]]
        /\ UNCHANGED decisions
  /\ UNCHANGED <<task, runs, trouble, disk>>

\* The active reservation of a repository is unique; a failure of the contract
\* allows one more execution only for its repair.
Budget(d) ==
  /\ \A e \in Reserved : decisions[e].state \in Results
  /\ Cardinality(Reserved) < MaxAttempts
  /\ \A e \in Priors : decisions[e].state # "LOCAL_PASSED" =>
       decisions[d].repair # None /\ Priors = {e} /\ decisions[e].state = "LOCAL_FAILED"

Reserve(p) ==
  /\ At(p, "reserve")
  /\ LET d == proc[p].arg.decision
         executable == Valid(d) /\ Current(decisions[d]) /\ Budget(d)
     IN  \/ /\ d \in Reserved \/ (Valid(d) /\ ~executable)
            /\ Done(p) /\ UNCHANGED decisions
         \/ /\ d \notin Reserved /\ ~Valid(d)
            /\ Done(p) /\ Observe(d)
         \/ /\ d \notin Reserved /\ executable
            /\ decisions' = [decisions EXCEPT ![d].state = "RESERVED", ![d].owner = p,
                                              ![d].lease = TRUE]
            /\ Goto(p, "start")
  /\ UNCHANGED <<task, runs, trouble, disk>>

\* Mutant: an execution that failed is refunded.
Mutant_HandOff(p, d) ==
  decisions' = [decisions EXCEPT ![d].state = "ISSUED", ![d].owner = None] /\ Done(p)

\* What was consumed stays consumed.
HandOff(p, d) ==
  /\ decisions' = [decisions EXCEPT ![d].state = "HUMAN_HANDOFF", ![d].owner = None,
                                    ![d].lease = FALSE]
  /\ Done(p)

\* beforeSpawn: the command is inspected again, then the start is committed.
Start(p) ==
  /\ At(p, "start")
  /\ LET d == proc[p].arg.decision IN
       IF Verifiable /\ disk = decisions[d].tree /\ Fenced(p, d, "RESERVED")
       THEN decisions' = [decisions EXCEPT ![d].state = "STARTED"] /\ Goto(p, "commit")
       ELSE HandOff(p, d)
  /\ UNCHANGED <<task, runs, trouble, disk>>

\* Mutant: the reservation ends before the row is updated, which may be refused.
Mutant_Commit(p) ==
  /\ At(p, "commit")
  /\ LET d == proc[p].arg.decision
         b == decisions[d] IN
       \E status \in Verdicts(b.tree) :
         LET e == [Evidence(p, status, b.tree, d) EXCEPT !.contract = b.contract, !.rev = b.rev]
         IN  /\ task' = IF task.rev # b.rev THEN task
                        ELSE [task EXCEPT !.rev = @ + 1, !.ver = status, !.ev = e, !.digests = b.tree]
             /\ decisions' = [decisions EXCEPT ![d].state = status, ![d].ev = e, ![d].owner = None]
             /\ Done(p)
  /\ UNCHANGED <<runs, trouble, disk>>

\* The evidence is stored; then one transaction updates the task and ends the
\* reservation, or the reservation is handed off.
Commit(p) ==
  /\ At(p, "commit")
  /\ LET d == proc[p].arg.decision
         b == decisions[d] IN
       IF Fenced(p, d, "STARTED")
       THEN \E status \in Verdicts(b.tree) :
              LET e == [Evidence(p, status, b.tree, d) EXCEPT !.contract = b.contract, !.rev = b.rev]
              IN  /\ task' = [task EXCEPT !.rev = @ + 1, !.ver = status, !.ev = e, !.digests = b.tree]
                  /\ decisions' = [decisions EXCEPT ![d].state = status, ![d].ev = e,
                                                    ![d].owner = None, ![d].lease = FALSE]
                  /\ Done(p)
       ELSE HandOff(p, d) /\ UNCHANGED task
  /\ UNCHANGED <<runs, trouble, disk>>

-----------------------------------------------------------------------------
(* Time passes, the clock is set back, a lease is lost.                     *)

DecisionLapses(d) ==
  /\ d \in Known /\ ~decisions[d].late /\ Trouble
  /\ decisions' = [decisions EXCEPT ![d].late = TRUE]
  /\ UNCHANGED <<task, runs, proc, disk>>

ClockSetBack(d) ==
  /\ d \in Known /\ decisions[d].late
  /\ decisions' = [decisions EXCEPT ![d].late = FALSE]
  /\ UNCHANGED <<task, runs, proc, trouble, disk>>

\* Also the deadline of an execution and its cancellation: its fence fails.
ReservationLapses(d) ==
  /\ d \in Known /\ decisions[d].lease /\ Trouble
  /\ decisions' = [decisions EXCEPT ![d].lease = FALSE]
  /\ UNCHANGED <<task, runs, proc, disk>>

Decides(p) ==
  \/ BeginIssue(p) \/ CommitIssue(p) \/ \E d \in Decisions : BeginExecute(p, d)
  \/ Reserve(p) \/ Start(p) \/ Commit(p)

DecisionNext ==
  \/ \E p \in Procs : Decides(p)
  \/ \E d \in Decisions : Revoke(d) \/ DecisionLapses(d) \/ ClockSetBack(d) \/ ReservationLapses(d)

Next == DecisionNext \/ BuildNext \/ (TaskNext /\ UNCHANGED bootVars)

Spec == InitDecisions /\ [][Next]_vars

-----------------------------------------------------------------------------
\* Approval binds one proposal: a workflow is attempted and a file is written only
\* for the run that the row names, approved, of an objective that is not rejected,
\* whatever reviews, rejections and proposals of other processes are on the way.
Acts(r) ==
  \/ \E f \in Files : disk[f] # r /\ disk'[f] = r
  \/ runs[r] # None /\ runs[r].op = "workflow" /\ ~runs[r].tried /\ runs'[r].tried

OnlyTheNamedRunActs ==
  [][\A r \in DOMAIN runs : Acts(r) =>
       runs[r].approved /\ task.run = r /\ task.state # "REJECTED"]_vars

\* A result that is shown as passed is about the bytes that are on the disk.
PassIsCurrent ==
  EffectiveVer(Drift) \in {"LOCAL_PASSED", "LOCAL_CHECKPOINT"} => task.ev.tree = disk

\* A decision whose expiry was recorded is never executed, also when the clock
\* is set back before it.
ExpiryIsFinal ==
  [][\A d \in Known : decisions[d].seen =>
       decisions'[d].state \in {decisions[d].state, "HUMAN_HANDOFF"}]_vars

\* A reservation that ended and its task agree: what the task shows is its result,
\* or that of a later execution, unless files were written since, which is marked,
\* or the contract was revised.
RecordsAgree ==
  \A d \in Reserved : decisions[d].state \in Results =>
    \/ Agrees(d) \/ task.ver = "VERIFICATION_STALE"
    \/ \E e \in Reserved : decisions[e].state \in Results /\ decisions[e].rev > decisions[d].rev

\* A decision is a one-shot: handed off counts as failed.
Phase(d) ==
  IF d \notin Reserved THEN "unused"
  ELSE CASE decisions[d].state = "RESERVED" -> "reserved"
         [] decisions[d].state = "STARTED" -> "started"
         [] decisions[d].state = "LOCAL_PASSED" -> "succeeded"
         [] OTHER -> "failed"

Once == INSTANCE OneShot WITH Tasks <- Decisions, phase <- [d \in Decisions |-> Phase(d)]

ImplementsOneShot == Once!Spec
=============================================================================
