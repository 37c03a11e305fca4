------------------------------- MODULE Workflow -------------------------------
(***************************************************************************)
(* One workflow of src/alpha/controller.mjs (executeWorkflow) with its row, *)
(* its approvals and its attempts (workflow/persistence.mjs), the scheduler *)
(* of workflow/definition.mjs and the child runs it launches.  A child is a *)
(* run of its own (module TaskRun); here it is reduced to what its          *)
(* coordinator sees of it: the checks at its entry, its guard, the one      *)
(* provider call, the verdict and the commit of COMPLETED.                  *)
(*                                                                          *)
(* Several coordinators may overlap: one that hangs past its lease goes on  *)
(* with its in-memory `run` and its children after another has taken over.  *)
(*                                                                          *)
(* Abstracted: hashes are the values they name, item files are disjoint by  *)
(* validateWorkflow, the time budget and every error a service can throw    *)
(* are the nondeterministic actions Fail and ChildFail.                     *)
(***************************************************************************)
EXTENDS Integers, FiniteSets, SequencesExt

CONSTANTS
  Coordinators,   \* executions of the workflow, each in its own process
  Items,          \* WorkItem ids
  Order,          \* the items by priority, then id
  Resources,      \* [Items -> set of resource locks]
  Plans,          \* [hybrid, graphs]: schema version 2 or 1, and the graph of each
                  \*   revision; a graph is [its items -> their dependencies]
  MaxParallel,    \* maxParallel of a hybrid graph
  Withheld,       \* bound: items a policy or an operator grant may hold back
  Requests,       \* bound: what the operator may request of a running workflow
  MaxGrants,      \* bound: number of claims
  MaxSaveErrors   \* bound: transactions SQLite refuses (busy, I/O error)

Final == "final"  \* the integration attempt
Tasks == Items \cup {Final}

\* What validateWorkflow accepts: ids are unique, dependencies exist and are acyclic,
\* and no revision removes an item.
Acyclic(g) == \A S \in SUBSET DOMAIN g : S # {} => \E i \in S : g[i] \cap S = {}

ASSUME WorkflowAssumption ==
  /\ Final \notin Items
  /\ Order \in Seq(Items) /\ \A i \in Items : \E k \in DOMAIN Order : Order[k] = i
  /\ \A j, k \in DOMAIN Order : Order[j] = Order[k] => j = k
  /\ Withheld \subseteq Items /\ Requests \subseteq {"pause", "cancel"}
  /\ MaxParallel \in Nat \ {0} /\ MaxGrants \in Nat /\ MaxSaveErrors \in Nat
  /\ \A p \in Plans :
       /\ p.hybrid \in BOOLEAN
       /\ Len(p.graphs) \in Nat \ {0} /\ DOMAIN p.graphs = 1..Len(p.graphs)
       /\ \A r \in DOMAIN p.graphs : LET g == p.graphs[r] IN
            /\ DOMAIN g \subseteq Items /\ DOMAIN g # {}
            /\ \A i \in DOMAIN g : g[i] \subseteq DOMAIN g
            /\ Acyclic(g)
            /\ r > 1 => DOMAIN p.graphs[r - 1] \subseteq DOMAIN g

NoGrant == 0
RunState == {"WAITING_APPROVAL", "READY", "RUNNING", "VERIFYING", "RECONCILING",
             "WAITING_HUMAN", "PAUSED", "CANCELLED", "COMPLETED"}
ItemState == {"PENDING", "READY", "BLOCKED", "RUNNING", "SUCCEEDED"}

Body ==
  [state : RunState,
   revision : Nat,
   states : [Items -> ItemState],
   final : BOOLEAN,      \* finalRunId is set
   evidence : BOOLEAN]   \* acceptedHash, evidenceHash and candidateHash are

NewRun ==
  [state |-> "WAITING_APPROVAL", revision |-> 1,
   states |-> [i \in Items |-> "PENDING"], final |-> FALSE, evidence |-> FALSE]

\* The row of a child run: OPEN stands for every state but READY and COMPLETED.
Child == [state : {"none", "READY", "OPEN", "COMPLETED"},
          control : {"run", "pause", "cancel"}, revision : Nat, fence : Nat]
NoChild == [state |-> "none", control |-> "run", revision |-> 0, fence |-> NoGrant]

\* Where a coordinator is.  At an await its heartbeat timer can run.
Awaits == {"loop", "choosing", "confirming", "waiting"}
Labels == Awaits \cup
  {"idle", "claimed", "pinning", "reconciling", "unresolved", "dispatching",
   "reserving", "stopping", "completing", "failed", "recording", "done"}
ChildLabels == {"none", "entering", "entered", "cleared", "called", "judged", "ended"}
Live == ChildLabels \ {"none", "ended"}

VARIABLES
  plan,        \* the graphs of this workflow
  body,        \* the workflow's row: column body, ...
  control,     \* ... control, ...
  owner,       \* ... owner: index of the claim, or NoGrant
  leaseLive,   \* the owner's lease has not run out
  issued,      \* number of claims so far
  saveErrors,  \* number of transactions SQLite has refused
  approved,    \* the revisions with an approval in force (workflow_approvals)
  attempts,    \* workflow_attempts: [Tasks -> none or status]
  child,       \* [Tasks -> row of the attempt's child run]
  tampered,    \* the final candidate's directory was changed after verification
  pc,          \* [Coordinators -> Labels]
  token,       \* [Coordinators -> `owner` in executeWorkflow]
  run,         \* [Coordinators -> `run` in executeWorkflow, the in-memory copy]
  lost,        \* the coordinators with leaseLost set
  todo,        \* [Coordinators -> tasks of the batch still to be reserved]
  batch,       \* [Coordinators -> `batch`, without the results already reduced]
  childPc,     \* [Tasks -> where the execution of the child is]
  launches     \* history: [Tasks -> provider calls (final: integrations) begun]

row == <<body, control, owner, leaseLive, issued, saveErrors>>
coordinator == <<pc, token, run, lost, todo, batch>>
tasks == <<attempts, child, childPc, launches>>
vars == <<plan, row, approved, tampered, coordinator, tasks>>

TypeOK ==
  /\ plan \in Plans
  /\ body \in Body /\ body.revision \in DOMAIN plan.graphs
  /\ control \in {"run", "pause", "cancel"}
  /\ owner \in Nat /\ leaseLive \in BOOLEAN /\ issued \in Nat /\ saveErrors \in Nat
  /\ approved \subseteq DOMAIN plan.graphs
  /\ attempts \in [Tasks -> {"none", "STARTED", "SUCCEEDED", "FAILED"}]
  /\ child \in [Tasks -> Child]
  /\ \A t \in Tasks : attempts[t] = "none" <=> child[t] = NoChild
  /\ tampered \in BOOLEAN
  /\ pc \in [Coordinators -> Labels]
  /\ token \in [Coordinators -> Nat]
  /\ run \in [Coordinators -> Body]
  /\ lost \subseteq Coordinators
  /\ todo \in [Coordinators -> Seq(Tasks)]
  /\ batch \in [Coordinators -> Seq(Tasks)]
  /\ childPc \in [Tasks -> ChildLabels]
  /\ launches \in [Tasks -> Nat]

Init ==
  /\ plan \in Plans
  /\ body = NewRun
  /\ control = "run"
  /\ owner = NoGrant /\ leaseLive = FALSE /\ issued = 0 /\ saveErrors = 0
  /\ approved = {}
  /\ attempts = [t \in Tasks |-> "none"]
  /\ child = [t \in Tasks |-> NoChild]
  /\ tampered = FALSE
  /\ pc = [w \in Coordinators |-> "idle"]
  /\ token = [w \in Coordinators |-> NoGrant]
  /\ run = [w \in Coordinators |-> NewRun]
  /\ lost = {}
  /\ todo = [w \in Coordinators |-> <<>>]
  /\ batch = [w \in Coordinators |-> <<>>]
  /\ childPc = [t \in Tasks |-> "none"]
  /\ launches = [t \in Tasks |-> 0]

-----------------------------------------------------------------------------
(* The graph and its scheduler: workflow/definition.mjs                     *)

GraphOf(b) == plan.graphs[b.revision]
Started == {t \in Tasks : attempts[t] = "STARTED"}
Attempted == {t \in Tasks : attempts[t] # "none"}

Limit == IF plan.hybrid THEN MaxParallel ELSE 1

Conflict(i, j) == plan.hybrid /\ Resources[i] \cap Resources[j] # {}

Mutant_DependenciesSettled(b, i) ==
  \A j \in GraphOf(b)[i] : b.states[j] \in {"SUCCEEDED", "BLOCKED"}
DependenciesMet(b, i) == \A j \in GraphOf(b)[i] : b.states[j] = "SUCCEEDED"

Integrable(b) == \A i \in DOMAIN GraphOf(b) : b.states[i] = "SUCCEEDED"

\* An item with an attempt is never tried again; `denied`: the items that the
\* capability policy or a missing operator grant holds back now.
Admitted(b, denied) ==
  [i \in Items |->
     IF i \notin DOMAIN GraphOf(b) \/ b.states[i] = "SUCCEEDED" THEN b.states[i]
     ELSE IF i \in denied \cup Attempted \/ ~DependenciesMet(b, i) THEN "BLOCKED"
     ELSE "READY"]

\* The ready items in order, each one that conflicts with none taken before.
ReadyBatch(b) ==
  LET Take(chosen, i) ==
        IF /\ i \in DOMAIN GraphOf(b) /\ b.states[i] = "READY" /\ DependenciesMet(b, i)
           /\ Len(chosen) < Limit
           /\ \A k \in DOMAIN chosen : ~Conflict(i, chosen[k])
          THEN Append(chosen, i) ELSE chosen
  IN FoldLeft(Take, <<>>, Order)

-----------------------------------------------------------------------------
(* The operator: approveWorkflow, revokeWorkflow, reviseWorkflow, control   *)

Mutant_IdleWhenUnowned == owner = NoGrant /\ Started = {}
Idle == owner = NoGrant /\ Started = {} /\ body.state \notin {"COMPLETED", "CANCELLED"}

Approve ==
  /\ Idle
  /\ approved' = approved \cup {body.revision}
  /\ body' = [body EXCEPT !.state = "READY"]
  /\ UNCHANGED <<plan, control, owner, leaseLive, issued, saveErrors, tampered,
                 coordinator, tasks>>

\* Revoked (every revision) or expired (one); no check of what is running.
Withdraw(gone) ==
  /\ gone # {}
  /\ approved' = approved \ gone
  /\ UNCHANGED <<plan, row, tampered, coordinator, tasks>>

\* What was attempted is immutable, and hybrid graphs are not mixed at all.
Revisable ==
  LET old == plan.graphs[body.revision]  new == plan.graphs[body.revision + 1] IN
  /\ plan.hybrid => Attempted = {}
  /\ \A t \in Attempted : t # Final /\ new[t] = old[t]

Revise ==
  /\ Idle
  /\ body.revision < Len(plan.graphs)
  /\ Revisable
  /\ body' = [body EXCEPT !.revision = @ + 1, !.state = "WAITING_APPROVAL"]
  /\ UNCHANGED <<plan, control, owner, leaseLive, issued, saveErrors, approved,
                 tampered, coordinator, tasks>>

Cancelled == control = "cancel" \/ body.state = "CANCELLED"

Control(c) ==
  /\ Cancelled => c = "cancel"
  /\ control' = c
  /\ body' = IF c = "cancel" /\ body.state \notin {"COMPLETED", "RECONCILING"}
               THEN [body EXCEPT !.state = "CANCELLED"] ELSE body
  /\ UNCHANGED <<plan, owner, leaseLive, issued, saveErrors, approved, tampered,
                 coordinator, tasks>>

\* Somebody edits the final candidate's directory after its verification.
Tamper ==
  /\ child[Final].state = "COMPLETED" /\ ~tampered
  /\ tampered' = TRUE
  /\ UNCHANGED <<plan, row, approved, coordinator, tasks>>

-----------------------------------------------------------------------------
(* The row: Store.claim, heartbeat, save, release                           *)

Goto(w, label) == pc' = [pc EXCEPT ![w] = label]

Claim(w, resume) ==
  /\ pc[w] = "idle"
  /\ issued < MaxGrants
  /\ leaseLive => \A v \in Coordinators : token[v] # owner
  /\ resume /\ Cancelled => body.state = "RECONCILING"
  /\ control' = IF resume /\ ~Cancelled THEN "run" ELSE control
  /\ issued' = issued + 1
  /\ owner' = issued' /\ leaseLive' = TRUE
  /\ token' = [token EXCEPT ![w] = issued']
  /\ Goto(w, "claimed")
  /\ UNCHANGED <<plan, body, saveErrors, approved, tampered, run, lost, todo, batch,
                 tasks>>

LeaseExpires ==
  /\ owner # NoGrant /\ leaseLive
  /\ leaseLive' = FALSE
  /\ UNCHANGED <<plan, body, control, owner, issued, saveErrors, approved, tampered,
                 coordinator, tasks>>

Fenced(w) == owner = token[w] /\ leaseLive

\* Everything a save leaves alone.
unsaved == <<plan, control, owner, leaseLive, issued, approved, tampered, token, lost>>

\* A transaction on the row: committed, refused by its own conditions or by SQLite.
\* `run` has changed in memory before in each case.
Transact(w, b, allowed, next, onError) ==
  /\ run' = [run EXCEPT ![w] = b]
  /\ \/ allowed /\ body' = b /\ Goto(w, next) /\ UNCHANGED saveErrors
     \/ ~allowed /\ Goto(w, onError) /\ UNCHANGED <<body, saveErrors>>
     \/ /\ allowed /\ saveErrors < MaxSaveErrors
        /\ saveErrors' = saveErrors + 1
        /\ Goto(w, onError)
        /\ UNCHANGED body
  /\ UNCHANGED unsaved

Save(w, b, next, onError) ==
  Transact(w, b, Fenced(w), next, onError) /\ UNCHANGED <<todo, batch, tasks>>

SaveState(w, s, next) == Save(w, [run[w] EXCEPT !.state = s], next, "failed")

\* What a coordinator forgets when executeWorkflow returns or its process dies.
Forget(w) ==
  /\ Goto(w, "idle")
  /\ token' = [token EXCEPT ![w] = NoGrant]
  /\ run' = [run EXCEPT ![w] = NewRun]
  /\ lost' = lost \ {w}
  /\ todo' = [todo EXCEPT ![w] = <<>>]
  /\ batch' = [batch EXCEPT ![w] = <<>>]

Release(w) ==
  /\ pc[w] = "done"
  /\ IF owner = token[w]
       THEN owner' = NoGrant /\ leaseLive' = FALSE
       ELSE UNCHANGED <<owner, leaseLive>>
  /\ Forget(w)
  /\ UNCHANGED <<plan, body, control, issued, saveErrors, approved, tampered, tasks>>

\* The children run in the coordinator's process and end with it.
Crash(w) ==
  /\ pc[w] # "idle"
  /\ Forget(w)
  /\ childPc' = [t \in Tasks |->
       IF childPc[t] \in Live /\ child[t].fence = token[w] THEN "ended" ELSE childPc[t]]
  /\ UNCHANGED <<plan, row, approved, tampered, attempts, child, launches>>

-----------------------------------------------------------------------------
(* executeWorkflow: entry and reconciliation                                *)

Guard(w) == w \notin lost /\ control = "run" /\ run[w].revision \in approved

\* A step in memory that leaves the rows and the other coordinators alone.
Think(w, b, label) ==
  /\ run' = [run EXCEPT ![w] = b]
  /\ Goto(w, label)
  /\ UNCHANGED <<plan, row, approved, tampered, token, lost, tasks>>

Checked(w, ok, next) ==
  Think(w, run[w], IF ok THEN next ELSE "failed") /\ UNCHANGED <<todo, batch>>

\* A completed hybrid workflow is verified again; `pin`: a policy is supplied that
\* the row does not name yet.
Load(w, pin) ==
  /\ pc[w] = "claimed"
  /\ Think(w, body,
       CASE body.state = "COMPLETED" -> IF plan.hybrid /\ tampered THEN "failed" ELSE "done"
         [] body.state = "CANCELLED" -> "done"
         [] OTHER -> IF pin THEN "pinning" ELSE "reconciling")
  /\ UNCHANGED <<todo, batch>>

PinPolicy(w) ==
  /\ pc[w] = "pinning"
  /\ IF Attempted = {} THEN Save(w, run[w], "reconciling", "failed")
                       ELSE Checked(w, FALSE, "failed")

Succeeded(b, t) ==
  IF t = Final THEN [b EXCEPT !.final = TRUE, !.evidence = TRUE]
               ELSE [b EXCEPT !.states[t] = "SUCCEEDED"]

\* finish(): the fence is checked, the operator's control is not.
Finish(w, t, b, status, next) ==
  LET allowed == Fenced(w) /\ body.revision = b.revision /\ attempts[t] = "STARTED" IN
  /\ Transact(w, b, allowed, next, "failed")
  /\ attempts' = IF pc'[w] = next THEN [attempts EXCEPT ![t] = status] ELSE attempts
  /\ UNCHANGED <<todo, child, childPc, launches>>

Mutant_AnyOutcome(t) == child[t].state # "READY"
Mutant_ReplayUnknown(t) == childPc[t] = "ended"
Confirmed(t) == child[t].state = "COMPLETED"

\* A STARTED attempt may be a launch window, a live child or a lost response: it
\* is settled from the child's evidence or left for a human, never replayed.
ReconcileOne(w, t) ==
  /\ pc[w] = "reconciling" /\ t \in Started
  /\ IF Confirmed(t)
       THEN /\ Finish(w, t, Succeeded(run[w], t), "SUCCEEDED", "reconciling")
            /\ UNCHANGED batch
       ELSE Checked(w, TRUE, "unresolved")

Reconciled(w) ==
  /\ pc[w] = "reconciling" /\ Started = {}
  /\ Checked(w, TRUE, "loop")

Unresolved(w) == pc[w] = "unresolved" /\ SaveState(w, "RECONCILING", "done")

-----------------------------------------------------------------------------
(* executeWorkflow: the loop                                                *)

Mutant_KeepPolling == "loop"
WhenBlocked == "stopping"  \* not "loop": nothing is polled

\* Entered when repository() has answered and after each batch.
Loop(w, denied) ==
  /\ pc[w] = "loop"
  /\ LET b == [run[w] EXCEPT !.states = Admitted(run[w], denied)] IN
       IF ~Guard(w) THEN Checked(w, FALSE, "failed")
       ELSE IF run[w].final THEN Checked(w, Confirmed(Final), "confirming")
       ELSE IF ReadyBatch(b) = <<>> /\ ~Integrable(b)
         THEN Think(w, b, WhenBlocked) /\ UNCHANGED <<todo, batch>>
       ELSE /\ Think(w, b, "choosing")
            /\ todo' = [todo EXCEPT ![w] = IF Integrable(b) THEN <<Final>> ELSE ReadyBatch(b)]
            /\ UNCHANGED batch

\* The attempts so far cost an unknown amount, or more than the contract allows.
CostUnknown(w) ==
  /\ pc[w] = "loop" /\ Attempted # {}
  /\ Checked(w, Guard(w), "stopping")

\* The final tree is hashed again before the workflow is completed.
Confirm(w) ==
  /\ pc[w] = "confirming"
  /\ Checked(w, Guard(w) /\ ~(plan.hybrid /\ tampered), "completing")

Complete(w) == pc[w] = "completing" /\ SaveState(w, "COMPLETED", "done")

Stop(w) == pc[w] = "stopping" /\ SaveState(w, "WAITING_HUMAN", "done")

\* choose() has a provider.  Integration needs every attempt's accepted patch.
Chosen(w) ==
  /\ pc[w] = "choosing"
  /\ Checked(w, Guard(w) /\ (todo[w] = <<Final>> => \A t \in Attempted : Confirmed(t)),
             "dispatching")

Dispatch(w) ==
  /\ pc[w] = "dispatching"
  /\ SaveState(w, IF todo[w] = <<Final>> THEN "VERIFYING" ELSE "RUNNING", "reserving")

\* reserve(): everything is checked again in the transaction that records the
\* attempt and its child.  With the last one, all children of the batch start.
Reservable(w, t) ==
  LET b == run[w] IN
  /\ b.revision \in approved
  /\ Final \notin Started /\ Cardinality(Started) < Limit
  /\ Fenced(w) /\ control = "run" /\ body.revision = b.revision
  /\ attempts[t] = "none"
  /\ IF t = Final THEN Started = {} /\ Integrable(b)
     ELSE /\ b.states[t] = "READY" /\ DependenciesMet(b, t)
          /\ \A u \in Started : child[u].revision = b.revision /\ ~Conflict(t, u)

Reserve(w) ==
  /\ pc[w] = "reserving" /\ todo[w] # <<>>
  /\ \E t \in Tasks : t = Head(todo[w]) /\
     \/ /\ Reservable(w, t)
        /\ attempts' = [attempts EXCEPT ![t] = "STARTED"]
        /\ child' = [child EXCEPT ![t] = [state |-> "READY", control |-> "run",
                       revision |-> run[w].revision, fence |-> token[w]]]
        /\ run' = [run EXCEPT ![w].states =
                     [i \in Items |-> IF i = t THEN "RUNNING" ELSE @[i]]]
        /\ batch' = [batch EXCEPT ![w] = Append(@, t)]
        /\ todo' = [todo EXCEPT ![w] = Tail(@)]
        /\ IF todo'[w] = <<>>
             THEN Goto(w, "waiting") /\ childPc' = [u \in Tasks |->
                    IF u \in Range(batch'[w]) THEN "entering" ELSE childPc[u]]
             ELSE Goto(w, "reserving") /\ UNCHANGED childPc
        /\ UNCHANGED <<plan, row, approved, tampered, token, lost, launches>>
     \/ ~Reservable(w, t) /\ Checked(w, FALSE, "failed")

Mutant_EndedIsAccepted(t) == childPc[t] = "ended"
Accepted(t) == child[t].state = "COMPLETED"

Reduced(b, t) ==
  IF Accepted(t) THEN Succeeded(b, t)
  ELSE IF t = Final THEN b ELSE [b EXCEPT !.states[t] = "BLOCKED"]

AllSettled(w) == pc[w] = "waiting" /\ \A t \in Range(batch[w]) : childPc[t] = "ended"

\* Results are reduced in the order of reservation, not of completion.
Reduce(w) ==
  /\ AllSettled(w) /\ batch[w] # <<>>
  /\ LET t == Head(batch[w]) IN
       Finish(w, t, Reduced(run[w], t), IF Accepted(t) THEN "SUCCEEDED" ELSE "FAILED",
              "waiting")
  /\ batch' = [batch EXCEPT ![w] = Tail(@)]

BatchDone(w) ==
  /\ AllSettled(w) /\ batch[w] = <<>>
  /\ Checked(w, Guard(w), IF attempts[Final] = "FAILED" THEN "stopping" ELSE "loop")

-----------------------------------------------------------------------------
(* executeWorkflow: the heartbeat and the catch block                       *)

\* store.control on the children of the batch, in order.  A request to pause a
\* cancelled child throws, and the timer's catch takes that for a lost lease.  The
\* end of the time budget does to the children what a withdrawn approval does.
Halted(w, c) ==
  LET Refused(k) == c = "pause" /\ child[batch[w][k]].control = "cancel" IN
  [children |-> {batch[w][k] : k \in {n \in DOMAIN batch[w] : \A m \in 1..n : ~Refused(m)}},
   thrown |-> \E k \in DOMAIN batch[w] : Refused(k)]

Heartbeat(w) ==
  /\ pc[w] \in Awaits
  /\ LET dead == w \in lost \/ ~Fenced(w)
         halt == Halted(w, IF control = "pause" THEN "pause" ELSE "cancel")
         acts == dead \/ control # "run" \/ run[w].revision \notin approved
     IN /\ lost' = IF dead \/ (acts /\ halt.thrown) THEN lost \cup {w} ELSE lost
        /\ child' = [t \in Tasks |->
             IF ~acts \/ t \notin halt.children THEN child[t]
             ELSE IF control = "pause" THEN [child[t] EXCEPT !.control = "pause"]
             ELSE [child[t] EXCEPT !.control = "cancel",
                     !.state = IF child[t].state = "COMPLETED" THEN "COMPLETED" ELSE "OPEN"]]
  /\ UNCHANGED <<plan, row, approved, tampered, pc, token, run, todo, batch,
                 attempts, childPc, launches>>

\* A service or an artifact fails, or the time budget is used up at a guard.
Fail(w) ==
  /\ pc[w] \in {"reconciling", "loop", "choosing", "confirming", "reserving"}
  /\ Checked(w, FALSE, "failed")

StateAfterError ==
  CASE control = "cancel" -> "CANCELLED"
    [] control = "pause" -> "PAUSED"
    [] OTHER -> "WAITING_HUMAN"

\* A hybrid workflow drops its evidence references here, but not finalRunId.
Catch(w) ==
  /\ pc[w] = "failed"
  /\ IF w \in lost
       THEN Checked(w, TRUE, "done")
       ELSE /\ Think(w, [run[w] EXCEPT !.state = StateAfterError,
                                       !.evidence = @ /\ ~plan.hybrid], "recording")
            /\ UNCHANGED <<todo, batch>>

Record(w) == pc[w] = "recording" /\ Save(w, run[w], "done", "done")

-----------------------------------------------------------------------------
(* A child run: execute with workflowParent                                 *)

ChildStep(t, label, state) ==
  /\ childPc' = [childPc EXCEPT ![t] = label]
  /\ child' = [child EXCEPT ![t].state = state]
  /\ UNCHANGED <<plan, row, approved, tampered, coordinator, attempts>>

\* The parent's side of cancelled().
Uncancelled(t) ==
  /\ child[t].control = "run"
  /\ owner = child[t].fence /\ leaseLive /\ control = "run"
  /\ body.revision = child[t].revision /\ body.revision \in approved

ChildEnter(t) ==
  /\ childPc[t] = "entering"
  /\ LET admitted ==
           /\ owner = child[t].fence /\ leaseLive /\ body.revision \in approved
           /\ plan.hybrid => /\ child[t].revision = body.revision
                             /\ child[t].state = "READY" /\ attempts[t] = "STARTED"
     IN IF admitted THEN ChildStep(t, "entered", "OPEN")
                    ELSE ChildStep(t, "ended", child[t].state)
  /\ UNCHANGED launches

\* It has claimed its row and moves it on.  The child's guard, then the coordinator's inside propose.
ChildClear(t, w) ==
  /\ childPc[t] = "entered" /\ token[w] = child[t].fence
  /\ ChildStep(t, IF Uncancelled(t) /\ Guard(w) THEN "cleared" ELSE "ended", child[t].state)
  /\ UNCHANGED launches

ChildCall(t) ==
  /\ childPc[t] = "cleared"
  /\ launches' = [launches EXCEPT ![t] = @ + 1]
  /\ ChildStep(t, "called", child[t].state)

\* The proposal and its verification are accepted.
ChildJudge(t) ==
  /\ childPc[t] = "called"
  /\ ChildStep(t, IF Uncancelled(t) THEN "judged" ELSE "ended", child[t].state)
  /\ UNCHANGED launches

ChildCommit(t) ==
  /\ childPc[t] = "judged"
  /\ ChildStep(t, "ended", "COMPLETED")
  /\ UNCHANGED launches

\* It stops in any other way: rejected, unsuccessful, its own lease lost.
ChildFail(t) ==
  /\ childPc[t] \in Live
  /\ ChildStep(t, "ended", child[t].state)
  /\ UNCHANGED launches

ChildRuns(t) ==
  \/ ChildEnter(t) \/ ChildCall(t) \/ ChildJudge(t) \/ ChildCommit(t) \/ ChildFail(t)
  \/ \E w \in Coordinators : ChildClear(t, w)

-----------------------------------------------------------------------------

Proceed(w) ==
  \/ \E pin \in BOOLEAN : Load(w, pin)
  \/ PinPolicy(w)
  \/ \E t \in Tasks : ReconcileOne(w, t)
  \/ Reconciled(w) \/ Unresolved(w)
  \/ \E denied \in SUBSET Withheld : Loop(w, denied)
  \/ Confirm(w) \/ Complete(w) \/ Stop(w) \/ Chosen(w) \/ Dispatch(w)
  \/ Reserve(w) \/ Reduce(w) \/ BatchDone(w)
  \/ Catch(w) \/ Record(w) \/ Release(w)

Next ==
  \/ Approve \/ Revise \/ Tamper \/ LeaseExpires
  \/ \E gone \in SUBSET approved : Withdraw(gone)
  \/ \E c \in Requests : Control(c)
  \/ \E w \in Coordinators, resume \in BOOLEAN : Claim(w, resume)
  \/ \E w \in Coordinators : Proceed(w) \/ CostUnknown(w) \/ Fail(w) \/ Heartbeat(w) \/ Crash(w)
  \/ \E t \in Tasks : ChildRuns(t)

Safety == Init /\ [][Next]_vars

\* An execution that has begun goes on: every wait has a timeout.  It is not
\* assumed to fail or to run out of money.
Spec ==
  /\ Safety
  /\ \A w \in Coordinators : WF_vars(Proceed(w))
  /\ \A t \in Tasks : WF_vars(ChildRuns(t))

-----------------------------------------------------------------------------
(* Properties                                                               *)

\* Each attempt is reserved, launched at most once and settled for good; one whose
\* outcome was lost in a crash or a takeover stays STARTED and is not replayed.
Phase(t) ==
  IF launches[t] > 1 THEN "launched twice"
  ELSE IF attempts[t] = "none" THEN "unused"
  ELSE IF attempts[t] = "STARTED" THEN IF launches[t] = 0 THEN "reserved" ELSE "started"
  ELSE IF attempts[t] = "SUCCEEDED" THEN "succeeded" ELSE "failed"
Once == INSTANCE OneShot WITH phase <- [t \in Tasks |-> Phase(t)]
ImplementsOneShot == Once!Spec

\* Whatever runs, also under a coordinator that was replaced, holds a reservation,
\* stays within the limit, shares no resource and never overlaps the integration.
RunningIsReserved ==
  LET running == {t \in Tasks : childPc[t] \in {"cleared", "called", "judged"}} IN
  /\ running \subseteq Started
  /\ Cardinality(running) <= (IF plan.hybrid THEN MaxParallel ELSE 1)
  /\ Final \in running => running = {Final}
  /\ plan.hybrid => \A i, j \in running \cap Items :
       i # j => Resources[i] \cap Resources[j] = {}

Verified(t) == child[t].state = "COMPLETED"

\* No item counts as succeeded, and no workflow as completed, without children that
\* committed their verified candidates: through crashes, takeovers and revisions.
SuccessIsVerified ==
  /\ \A i \in Items : body.states[i] = "SUCCEEDED" => Verified(i)
  /\ body.final => Verified(Final)
  /\ body.state = "COMPLETED" =>
       \A t \in DOMAIN GraphOf(body) \cup {Final} :
         attempts[t] = "SUCCEEDED" /\ Verified(t)

\* A child is launched only when everything it depends on in the graph of its own
\* revision is verified; the integration only when all items are.
DependencyOrder ==
  \A t \in Tasks : launches[t] > 0 =>
    LET g == plan.graphs[child[t].revision] IN
    \A d \in (IF t = Final THEN DOMAIN g ELSE g[t]) : Verified(d)

\* A completed workflow stays completed, unless its candidate was changed on disk.
CompletedStays ==
  [][body.state = "COMPLETED" => body' = body \/ (plan.hybrid /\ tampered)]_vars

\* Every execution ends and releases what it holds.
ExecutionEnds == \A w \in Coordinators : pc[w] # "idle" ~> pc[w] = "idle"

\* "Final evidence binding mismatch" is never thrown: a completed workflow names the
\* evidence of its final child.  It fails (run evidence_dropped): the catch block of a
\* hybrid workflow drops the references but keeps finalRunId, from which the next
\* execution completes it.
CompletedCarriesEvidence == body.state = "COMPLETED" => body.evidence
===============================================================================
