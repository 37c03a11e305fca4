----------------------------- MODULE ProductTask -----------------------------
(***************************************************************************)
(* The life of one objective (src/product/tasks.mjs): planning, drafts,    *)
(* clarification, review, preparation, approval and rejection.  The task   *)
(* is one row with a revision.  A command reads the row, inspects the      *)
(* repository and the plan, and updates the row only if its revision is    *)
(* still the one it read.  What a command does to runs before that update  *)
(* is not undone when the update is refused.                               *)
(*                                                                         *)
(* A run is named by the revision of the task it was made for              *)
(* (`id + '-r' + revision`), which is a number here.                       *)
(*                                                                         *)
(* Every update raises the revision, so a row with the revision a command  *)
(* read is the row it read: a command remembers the revision, the run the  *)
(* row named and its own input.                                            *)
(***************************************************************************)
EXTENDS Naturals, FiniteSets

CONSTANTS
  Procs,        \* processes that run commands, one at a time
  Kinds,        \* what the probe finds: NEW_PROJECT, EXISTING_REPOSITORY
  MaxRev,       \* bound: revisions of the task
  Overlap,      \* bound: revisions at which commands overlap, by what the probe found
  Last,         \* bound: revisions at which a command begins
  MaxTrouble,   \* bound: crashes, lost leases, foreign edits, expired approvals, clock changes
  None

ASSUME BoundsAssumption ==
  /\ MaxRev \in Nat
  /\ {Overlap, Last} \subseteq [Kinds \cup {None} -> 0..(MaxRev - 1)]

VARIABLES
  task,      \* the row of product_tasks
  runs,      \* the rows of runs and their approvals, by number
  proc,      \* what each process is doing
  trouble    \* number of disturbances so far

taskVars == <<task, runs, proc, trouble>>

Idle == [at |-> "idle", rev |-> 0, run |-> None, arg |-> None]

NoTask ==
  [rev |-> 0, kind |-> None, state |-> None, drafted |-> FALSE, clarified |-> FALSE,
   prepared |-> FALSE, run |-> None, src |-> None, ver |-> None, ev |-> None,
   digests |-> None, contract |-> 1]

Init ==
  /\ task = NoTask
  /\ runs = [r \in 1..MaxRev |-> None]
  /\ proc = [p \in Procs |-> Idle]
  /\ trouble = 0

-----------------------------------------------------------------------------
(* Reading the row, and the compare-and-swap of update().                  *)

Enter(p, at, run, arg) ==
  /\ proc[p] = Idle
  /\ task.rev <= Overlap[task.kind] \/ \A q \in Procs : proc[q] = Idle
  /\ proc' = [proc EXCEPT ![p] = [at |-> at, rev |-> task.rev, run |-> run, arg |-> arg]]

Begin(p, at, run, arg) == task.rev \in 1..Last[task.kind] /\ Enter(p, at, run, arg)

At(p, at) == proc[p].at = at
Goto(p, at) == proc' = [proc EXCEPT ![p].at = at]
Done(p) == proc' = [proc EXCEPT ![p] = Idle]

Unchanged(p) == task.rev = proc[p].rev

Update(p, next) ==
  task' = IF Unchanged(p) THEN [next EXCEPT !.rev = @ + 1] ELSE task

Finish(p, next) == Update(p, next) /\ Done(p) /\ UNCHANGED <<runs, trouble>>

Closed == {"PLANNING", "BLOCKED", "REJECTED"}

-----------------------------------------------------------------------------
(* createTask: the intent is recorded before the repository is probed and a *)
(* planner is called; what they find is recorded by an update.              *)

CreateTask(p) ==
  /\ task.rev = 0 /\ proc[p] = Idle
  /\ task' = [task EXCEPT !.rev = 1, !.state = "PLANNING"]
  /\ proc' = [proc EXCEPT ![p] = [Idle EXCEPT !.at = "plan", !.rev = 1]]
  /\ UNCHANGED <<runs, trouble>>

\* validateBootstrapDraft and the validation of a semantic plan: open questions
\* need an input, and an unknown that the objective of a new project may have
\* has to be clarified.
Status(t) ==
  IF t.drafted /\ (t.kind = "NEW_PROJECT" => t.clarified) THEN "VALIDATED" ELSE "NEEDS_INPUT"

Validated(t) == [t EXCEPT !.state = Status(t)]

RecordPlan(p) ==
  /\ At(p, "plan")
  /\ \/ \E k \in Kinds, d \in BOOLEAN, known \in BOOLEAN :
          /\ IF k = "NEW_PROJECT" THEN ~d ELSE known
          /\ Finish(p, Validated([task EXCEPT !.kind = k, !.drafted = d, !.clarified = known]))
     \/ Finish(p, [task EXCEPT !.state = "BLOCKED"])

-----------------------------------------------------------------------------
(* submitTaskDraft, clarifyTask, prepareTask: read, inspect, update.        *)

Open == task.run = None /\ ~task.prepared /\ task.state # "REJECTED" /\ task.kind # None

BeginDraft(p) ==
  /\ Open
  /\ Begin(p, "draft", None, None)
  /\ UNCHANGED <<task, runs, trouble>>

CommitDraft(p) ==
  At(p, "draft") /\ \E d \in BOOLEAN : Finish(p, Validated([task EXCEPT !.drafted = d]))

BeginClarify(p) ==
  /\ Open /\ task.kind = "NEW_PROJECT" /\ ~task.clarified
  /\ Begin(p, "clarify", None, None)
  /\ UNCHANGED <<task, runs, trouble>>

CommitClarify(p) ==
  At(p, "clarify") /\ Finish(p, Validated([task EXCEPT !.clarified = TRUE]))

BeginPrepare(p) ==
  /\ Open /\ task.state = "VALIDATED"
  /\ Begin(p, IF task.kind = "NEW_PROJECT" THEN "prepare" ELSE "create", None, None)
  /\ UNCHANGED <<task, runs, trouble>>

\* prepareBootstrap: the row gets a workflow of its own and no run.
CommitPrepare(p) ==
  /\ At(p, "prepare")
  /\ Finish(p, [task EXCEPT !.state = "BOOTSTRAP_PREPARED", !.prepared = TRUE,
                            !.src = "PENDING_FILESET", !.ver = "PENDING_VERIFICATION"])

\* A fileset that repairs names the contents it replaces and the failure it repairs.
NewRun(op, base, failure) ==
  [op |-> op, state |-> "WAITING_APPROVAL", control |-> "run", approved |-> FALSE,
   owner |-> None, lease |-> FALSE, tried |-> FALSE,
   base |-> base, failure |-> failure, contract |-> task.contract]

\* createWorkflow: "Deterministic id makes a crash between creation and
\* attachment recoverable": a run that is already there is taken as it is.
CreateRun(p) ==
  /\ At(p, "create") /\ Goto(p, "attach")
  /\ runs' = IF runs[proc[p].rev] = None
             THEN [runs EXCEPT ![proc[p].rev] = NewRun("workflow", None, None)] ELSE runs
  /\ UNCHANGED <<task, trouble>>

AttachRun(p) ==
  /\ At(p, "attach")
  /\ Finish(p, [task EXCEPT !.state = "WAITING_APPROVAL", !.run = proc[p].rev])

-----------------------------------------------------------------------------
(* reviewTask and rejectTask revoke and cancel the run the row named before *)
(* they update the row.                                                     *)

Unstarted(r) == runs[r].owner = None /\ ~runs[r].tried

BeginReview(p) ==
  /\ task.kind = "EXISTING_REPOSITORY" /\ task.state \notin Closed
  /\ task.run # None => Unstarted(task.run)
  /\ Begin(p, IF task.run = None THEN "review" ELSE "revoke", task.run, [then |-> "review"])
  /\ UNCHANGED <<task, runs, trouble>>

\* Mutant: a rejection that leaves the run as it is.
Mutant_BeginReject(p) ==
  /\ Begin(p, "reject", task.run, [then |-> "reject"])
  /\ UNCHANGED <<task, runs, trouble>>

BeginReject(p) ==
  /\ Begin(p, IF task.run = None THEN "reject" ELSE "revoke", task.run, [then |-> "reject"])
  /\ UNCHANGED <<task, runs, trouble>>

RevokeRun(p) ==
  /\ At(p, "revoke") /\ Goto(p, "cancel")
  /\ runs' = [runs EXCEPT ![proc[p].run].approved = FALSE]
  /\ UNCHANGED <<task, trouble>>

\* store.control for a workflow; only the control column of a fileset.
Cancelled(r) ==
  [r EXCEPT !.control = "cancel",
            !.state = IF r.op = "workflow" /\ @ # "COMPLETED" THEN "CANCELLED" ELSE @]

CancelRun(p) ==
  /\ At(p, "cancel") /\ Goto(p, proc[p].arg.then)
  /\ runs' = [runs EXCEPT ![proc[p].run] = Cancelled(@)]
  /\ UNCHANGED <<task, trouble>>

CommitReview(p) ==
  /\ At(p, "review")
  /\ Finish(p, [task EXCEPT !.state = "VALIDATED", !.drafted = TRUE, !.run = None])

CommitReject(p) ==
  At(p, "reject") /\ Finish(p, [task EXCEPT !.state = "REJECTED"])

-----------------------------------------------------------------------------
(* approveTask reads the row; approveWorkflow decides in a transaction.     *)

BeginApprove(p) ==
  /\ task.run # None /\ task.state # "REJECTED"
  /\ Begin(p, "approve", task.run, None)
  /\ UNCHANGED <<task, runs, trouble>>

\* idle(): the state is asked, the control column is not.
IdleRun(r) == runs[r].owner = None /\ runs[r].state \notin {"COMPLETED", "CANCELLED"}

ApproveRun(p) ==
  /\ At(p, "approve") /\ Done(p)
  /\ runs' = IF IdleRun(proc[p].run)
             THEN [runs EXCEPT ![proc[p].run].approved = TRUE, ![proc[p].run].state = "READY"]
             ELSE runs
  /\ UNCHANGED <<task, trouble>>

-----------------------------------------------------------------------------
(* The coordinator that executes an approved workflow (module Workflow).    *)

Workflows == {r \in 1..MaxRev : runs[r] # None /\ runs[r].op = "workflow"}

MayStart(r) == runs[r].approved /\ runs[r].control = "run"

WorkerClaims(r) ==
  /\ r \in Workflows /\ runs[r].state = "READY" /\ runs[r].owner = None /\ MayStart(r)
  /\ runs' = [runs EXCEPT ![r].owner = "worker"]
  /\ UNCHANGED <<task, proc, trouble>>

WorkerAttempts(r) ==
  /\ r \in Workflows /\ runs[r].owner = "worker" /\ MayStart(r) /\ ~runs[r].tried
  /\ runs' = [runs EXCEPT ![r].tried = TRUE]
  /\ UNCHANGED <<task, proc, trouble>>

WorkerEnds(r) ==
  /\ r \in Workflows /\ runs[r].owner = "worker"
  /\ \E s \in {"WAITING_HUMAN"} \cup (IF runs[r].tried THEN {"COMPLETED"} ELSE {}) :
       runs' = [runs EXCEPT ![r].owner = None, ![r].state = s]
  /\ UNCHANGED <<task, proc, trouble>>

-----------------------------------------------------------------------------
(* Disturbances.                                                            *)

Trouble == trouble < MaxTrouble /\ trouble' = trouble + 1

\* The process of a command dies and another one takes its place: the pid that
\* is stored with its lease belongs to nobody.
Crash(p) ==
  /\ Trouble /\ proc[p] # Idle /\ Done(p)
  /\ runs' = [r \in 1..MaxRev |-> IF runs[r] # None /\ runs[r].owner = p
                                  THEN [runs[r] EXCEPT !.owner = "dead"] ELSE runs[r]]
  /\ UNCHANGED task

ApprovalExpires(r) ==
  /\ Trouble /\ runs[r] # None /\ runs[r].approved
  /\ runs' = [runs EXCEPT ![r].approved = FALSE]
  /\ UNCHANGED <<task, proc>>

Plans(p) ==
  \/ CreateTask(p) \/ RecordPlan(p)
  \/ BeginDraft(p) \/ CommitDraft(p) \/ BeginClarify(p) \/ CommitClarify(p)
  \/ BeginPrepare(p) \/ CommitPrepare(p) \/ CreateRun(p) \/ AttachRun(p)
  \/ BeginReview(p) \/ BeginReject(p) \/ RevokeRun(p) \/ CancelRun(p)
  \/ CommitReview(p) \/ CommitReject(p)
  \/ BeginApprove(p) \/ ApproveRun(p) \/ Crash(p)

WorkerStep(r) == WorkerClaims(r) \/ WorkerAttempts(r) \/ WorkerEnds(r) \/ ApprovalExpires(r)

TaskNext == (\E p \in Procs : Plans(p)) \/ (\E r \in 1..MaxRev : WorkerStep(r))

=============================================================================
