---------------------------- MODULE WorkflowProofs ----------------------------
(***************************************************************************)
(* Proofs about Workflow for every set of coordinators and items, every     *)
(* plan and every number of claims, withdrawals, crashes and failures.      *)
(***************************************************************************)
EXTENDS Workflow, FiniteSetTheorems, TLAPS

AttemptState == {"none", "STARTED", "SUCCEEDED", "FAILED"}

\* The columns that the launches of a child depend on.
Typed ==
  /\ attempts \in [Tasks -> AttemptState]
  /\ DOMAIN child = Tasks
  /\ childPc \in [Tasks -> ChildLabels]
  /\ launches \in [Tasks -> Nat]
  /\ pc \in [Coordinators -> Labels]
  /\ token \in [Coordinators -> Nat]
  /\ batch \in [Coordinators -> Seq(Tasks)]
  /\ issued \in Nat

\* No two executions hold the same claim.
TokensDiffer ==
  /\ \A w \in Coordinators : token[w] <= issued
  /\ \A w, v \in Coordinators : token[w] = token[v] /\ token[w] # NoGrant => w = v
  /\ \A w \in Coordinators : pc[w] # "idle" => token[w] # NoGrant

\* Where a child is, and how often it was launched.
Fresh == {"none", "entering", "entered", "cleared"}
ChildFits(t) ==
  /\ DOMAIN child[t] = {"state", "control", "revision", "fence"}
  /\ attempts[t] = "none" => childPc[t] = "none"
  /\ childPc[t] \in Live => attempts[t] = "STARTED"
  /\ childPc[t] \in Fresh => launches[t] = 0
  /\ childPc[t] \in {"called", "judged"} => launches[t] = 1
  /\ launches[t] <= 1
  /\ child[t].state = "COMPLETED" => childPc[t] = "ended" /\ launches[t] = 1
  /\ attempts[t] = "SUCCEEDED" => launches[t] = 1

\* The batch of a coordinator: attempts made under its claim, none of them
\* running before the last is reserved.
InFlight == {"reserving", "waiting", "failed", "recording", "done"}
BatchFits(w) ==
  /\ pc[w] \notin InFlight => batch[w] = <<>>
  /\ \A t \in Range(batch[w]) :
       /\ attempts[t] # "none"
       /\ child[t].fence = token[w]
       /\ pc[w] = "reserving" => childPc[t] = "none" /\ attempts[t] = "STARTED"

LaunchInv ==
  /\ Typed
  /\ TokensDiffer
  /\ \A t \in Tasks : ChildFits(t)
  /\ \A w \in Coordinators : BatchFits(w)

LEMMA InitLaunch == Init => LaunchInv
<1> SUFFICES ASSUME Init PROVE LaunchInv
  OBVIOUS
<1>2. Typed
  BY DEF Init, Typed, AttemptState, ChildLabels, Labels, Awaits, NoGrant
<1>3. TokensDiffer
  BY DEF Init, TokensDiffer, NoGrant
<1>4. \A t \in Tasks : ChildFits(t)
  BY DEF Init, ChildFits, NoChild, Live, ChildLabels
<1>5. \A w \in Coordinators : BatchFits(w)
  BY DEF Init, BatchFits, Range
<1> QED
  BY <1>2, <1>3, <1>4, <1>5 DEF LaunchInv

\* A step that moves one coordinator on and touches no attempt.
LEMMA Relabel ==
  ASSUME LaunchInv, NEW w \in Coordinators, NEW label \in Labels \ {"idle"},
         Goto(w, label), pc[w] # "idle", UNCHANGED <<tasks, token, batch, issued>>,
         label \notin InFlight \ {"reserving"} => batch[w] = <<>>
  PROVE  LaunchInv'
<1>1. pc' \in [Coordinators -> Labels] /\ pc'[w] = label
      /\ \A v \in Coordinators \ {w} : pc'[v] = pc[v]
  BY DEF Goto, LaunchInv, Typed
<1>2. Typed'
  BY <1>1 DEF LaunchInv, Typed, tasks
<1>3. TokensDiffer'
  BY <1>1 DEF LaunchInv, TokensDiffer
<1>4. \A t \in Tasks : ChildFits(t)'
  BY DEF LaunchInv, ChildFits, tasks
<1>5. ASSUME NEW v \in Coordinators PROVE BatchFits(v)'
  <2>1. CASE v = w /\ batch[w] = <<>>
    BY <2>1 DEF BatchFits, Range
  <2>2. CASE v = w /\ batch[w] # <<>>
    BY <1>1, <2>2 DEF LaunchInv, BatchFits, InFlight, tasks
  <2>3. CASE v # w
    BY <1>1, <2>3 DEF LaunchInv, BatchFits, tasks
  <2> QED
    BY <2>1, <2>2, <2>3
<1> QED
  BY <1>2, <1>3, <1>4, <1>5 DEF LaunchInv

LEMMA Aside ==
  ASSUME LaunchInv, UNCHANGED <<tasks, pc, token, batch, issued>> PROVE LaunchInv'
  BY DEF LaunchInv, Typed, TokensDiffer, ChildFits, BatchFits, tasks

\* The steps of executeWorkflow that touch no attempt.
LEMMA EntrySteps ==
  ASSUME LaunchInv, NEW w \in Coordinators,
         \/ \E pin \in BOOLEAN : Load(w, pin)
         \/ PinPolicy(w) \/ Reconciled(w) \/ Unresolved(w) \/ Confirm(w) \/ Complete(w)
         \/ Stop(w) \/ Chosen(w) \/ Dispatch(w) \/ Catch(w) \/ Record(w) \/ CostUnknown(w)
         \/ Fail(w) \/ BatchDone(w)
         \/ \E denied \in SUBSET Withheld : Loop(w, denied)
  PROVE  LaunchInv'
<1> USE DEF Checked, Think, Save, SaveState, Transact, unsaved, row, InFlight, Labels, Awaits
<1>1. BatchFits(w)
  BY DEF LaunchInv
<1>2. CASE \E pin \in BOOLEAN : Load(w, pin)
  <2>1. \E label \in {"failed", "done", "pinning", "reconciling"} : Goto(w, label)
    BY <1>2 DEF Load
  <2> QED
    BY <1>1, <1>2, <2>1, Relabel DEF Load, BatchFits
<1>3. CASE PinPolicy(w) \/ Reconciled(w) \/ Unresolved(w)
  BY <1>1, <1>3, Relabel DEF PinPolicy, Reconciled, Unresolved, BatchFits
<1>4. CASE Confirm(w) \/ Complete(w) \/ Stop(w)
  BY <1>1, <1>4, Relabel DEF Confirm, Complete, Stop, BatchFits
<1>5. CASE Chosen(w) \/ Dispatch(w)
  BY <1>1, <1>5, Relabel DEF Chosen, Dispatch, BatchFits
<1>6. CASE Catch(w) \/ Record(w)
  BY <1>1, <1>6, Relabel DEF Catch, Record, BatchFits
<1>7. CASE CostUnknown(w) \/ Fail(w)
  BY <1>1, <1>7, Relabel DEF CostUnknown, Fail, BatchFits
<1>8. CASE BatchDone(w)
  BY <1>1, <1>8, Relabel DEF BatchDone, BatchFits, AllSettled
<1>9. CASE \E denied \in SUBSET Withheld : Loop(w, denied)
  BY <1>1, <1>9, Relabel DEF Loop, BatchFits, WhenBlocked
<1> QED
  BY <1>2, <1>3, <1>4, <1>5, <1>6, <1>7, <1>8, <1>9

LEMMA OperatorSteps ==
  ASSUME LaunchInv,
         \/ Approve \/ Revise \/ Tamper \/ LeaseExpires
         \/ \E gone \in SUBSET approved : Withdraw(gone)
         \/ \E c \in Requests : Control(c)
         \/ UNCHANGED vars
  PROVE  LaunchInv'
  BY Aside DEF Approve, Revise, Tamper, LeaseExpires, Withdraw, Control, vars,
               coordinator, row

LEMMA ClaimStep ==
  ASSUME LaunchInv, NEW w \in Coordinators, NEW resume \in BOOLEAN, Claim(w, resume)
  PROVE  LaunchInv'
<1>1. /\ pc' \in [Coordinators -> Labels] /\ pc'[w] = "claimed"
      /\ token' \in [Coordinators -> Nat] /\ token'[w] = issued + 1
      /\ \A v \in Coordinators \ {w} : pc'[v] = pc[v] /\ token'[v] = token[v]
      /\ issued' = issued + 1 /\ UNCHANGED <<tasks, batch>> /\ pc[w] = "idle"
  BY DEF Claim, Goto, LaunchInv, Typed, Labels, Awaits
<1>2. batch[w] = <<>>
  BY <1>1 DEF LaunchInv, BatchFits, InFlight
<1>3. Typed'
  BY <1>1 DEF LaunchInv, Typed, tasks
<1>4. TokensDiffer'
  <2>1. \A v \in Coordinators \ {w} : token'[v] \in Nat /\ token'[v] <= issued
    BY <1>1 DEF LaunchInv, TokensDiffer, Typed
  <2>2. issued \in Nat
    BY DEF LaunchInv, Typed
  <2>3. \A v \in Coordinators : token'[v] <= issued'
    BY <1>1, <2>1, <2>2
  <2>4. \A u, v \in Coordinators : token'[u] = token'[v] /\ token'[u] # NoGrant => u = v
    BY <1>1, <2>1, <2>2 DEF LaunchInv, TokensDiffer
  <2>5. \A v \in Coordinators : pc'[v] # "idle" => token'[v] # NoGrant
    BY <1>1, <2>2 DEF LaunchInv, TokensDiffer, NoGrant
  <2> QED
    BY <2>3, <2>4, <2>5 DEF TokensDiffer
<1>5. \A t \in Tasks : ChildFits(t)'
  BY <1>1 DEF LaunchInv, ChildFits, tasks
<1>6. \A v \in Coordinators : BatchFits(v)'
  BY <1>1, <1>2 DEF LaunchInv, BatchFits, tasks, Range
<1> QED
  BY <1>3, <1>4, <1>5, <1>6 DEF LaunchInv

\* An execution ends; with its process, its children end as well.
LEMMA ForgetStep ==
  ASSUME LaunchInv, NEW w \in Coordinators, Forget(w),
         UNCHANGED <<attempts, child, launches, issued>>,
         childPc' \in [Tasks -> ChildLabels],
         \A t \in Tasks : childPc'[t] = childPc[t] \/ (childPc[t] \in Live /\ childPc'[t] = "ended")
  PROVE  LaunchInv'
<1>1. /\ pc' \in [Coordinators -> Labels] /\ pc'[w] = "idle"
      /\ token' \in [Coordinators -> Nat] /\ token'[w] = NoGrant
      /\ batch' \in [Coordinators -> Seq(Tasks)] /\ batch'[w] = <<>>
      /\ \A v \in Coordinators \ {w} :
           pc'[v] = pc[v] /\ token'[v] = token[v] /\ batch'[v] = batch[v]
  BY DEF Forget, Goto, LaunchInv, Typed, Labels, Awaits, NoGrant
<1>2. Typed'
  BY <1>1 DEF LaunchInv, Typed
<1>3. TokensDiffer'
  <2>1. issued \in Nat /\ UNCHANGED issued
    BY DEF LaunchInv, Typed
  <2>2. \A v \in Coordinators : token'[v] <= issued'
    <3>1. \A v \in Coordinators \ {w} : token'[v] <= issued
      BY <1>1 DEF LaunchInv, TokensDiffer
    <3>2. token'[w] = 0
      BY <1>1 DEF NoGrant
    <3> QED
      BY <2>1, <3>1, <3>2
  <2>3. \A u, v \in Coordinators : token'[u] = token'[v] /\ token'[u] # NoGrant => u = v
    <3>1. \A u \in Coordinators : token'[u] # NoGrant => u # w /\ token'[u] = token[u]
      BY <1>1
    <3>2. \A u, v \in Coordinators : token[u] = token[v] /\ token[u] # NoGrant => u = v
      BY DEF LaunchInv, TokensDiffer
    <3> QED
      BY <3>1, <3>2, Zenon
  <2>4. \A v \in Coordinators : pc'[v] # "idle" => token'[v] # NoGrant
    BY <1>1 DEF LaunchInv, TokensDiffer
  <2> QED
    BY <2>2, <2>3, <2>4 DEF TokensDiffer
<1>4. \A t \in Tasks : ChildFits(t)'
  BY DEF LaunchInv, ChildFits, Live, Fresh, ChildLabels
<1>5. ASSUME NEW v \in Coordinators PROVE BatchFits(v)'
  <2>1. CASE v = w
    BY <1>1, <2>1 DEF BatchFits, Range
  <2>2. CASE v # w
    BY <1>1, <2>2 DEF LaunchInv, BatchFits, Live, Range, Typed
  <2> QED
    BY <2>1, <2>2
<1> QED
  BY <1>2, <1>3, <1>4, <1>5 DEF LaunchInv

LEMMA EndSteps ==
  ASSUME LaunchInv, NEW w \in Coordinators, Release(w) \/ Crash(w) PROVE LaunchInv'
<1>1. CASE Release(w)
  <2>1. childPc' \in [Tasks -> ChildLabels] /\ UNCHANGED <<childPc, attempts, child, launches, issued>>
    BY <1>1 DEF Release, tasks, LaunchInv, Typed
  <2> QED
    BY <1>1, <2>1, ForgetStep DEF Release
<1>2. CASE Crash(w)
  <2>1. /\ childPc' \in [Tasks -> ChildLabels]
        /\ \A t \in Tasks : childPc'[t] = childPc[t]
                          \/ (childPc[t] \in Live /\ childPc'[t] = "ended")
    BY <1>2 DEF Crash, LaunchInv, Typed, ChildLabels
  <2> QED
    BY <1>2, <2>1, ForgetStep DEF Crash, row
<1> QED
  BY <1>1, <1>2

\* A settlement is of an attempt whose child has ended.
LEMMA SettleStep ==
  ASSUME LaunchInv, NEW w \in Coordinators, NEW t \in Tasks,
         NEW label \in {"reconciling", "waiting", "failed"}, Goto(w, label),
         pc[w] \in {"reconciling", "waiting"}, label \in {pc[w], "failed"},
         NEW status \in {"SUCCEEDED", "FAILED"},
         attempts' = attempts \/ attempts' = [attempts EXCEPT ![t] = status],
         UNCHANGED <<child, childPc, launches, token, issued>>,
         childPc[t] = "ended", status = "SUCCEEDED" => launches[t] = 1,
         batch' \in [Coordinators -> Seq(Tasks)],
         \A v \in Coordinators : Range(batch'[v]) \subseteq Range(batch[v]),
         \A v \in Coordinators : (v = w /\ pc[w] = "waiting") \/ batch'[v] = batch[v]
  PROVE  LaunchInv'
<1>1. UNCHANGED <<child, childPc, launches, token, issued>>
  OBVIOUS
<1>3. /\ pc' \in [Coordinators -> Labels] /\ pc'[w] = label
      /\ \A v \in Coordinators \ {w} : pc'[v] = pc[v]
  BY DEF Goto, LaunchInv, Typed, Labels, Awaits
<1>4. /\ attempts' \in [Tasks -> AttemptState]
      /\ \A u \in Tasks \ {t} : attempts'[u] = attempts[u]
      /\ attempts'[t] = attempts[t] \/ attempts'[t] = status
  BY DEF LaunchInv, Typed, AttemptState
<1>5. \A v \in Coordinators : Range(batch'[v]) \subseteq Range(batch[v])
  OBVIOUS
<1>6. Typed'
  <2>1. DOMAIN child' = Tasks /\ childPc' \in [Tasks -> ChildLabels]
    BY <1>1 DEF LaunchInv, Typed
  <2>2. launches' \in [Tasks -> Nat] /\ token' \in [Coordinators -> Nat] /\ issued' \in Nat
    BY <1>1 DEF LaunchInv, Typed
  <2> QED
    BY <1>3, <1>4, <2>1, <2>2 DEF Typed
<1>7. TokensDiffer'
  <2>1. \A v \in Coordinators : pc'[v] # "idle" => pc[v] # "idle"
    BY <1>3
  <2> QED
    BY <1>1, <2>1 DEF LaunchInv, TokensDiffer
<1>8. ASSUME NEW u \in Tasks PROVE ChildFits(u)'
  <2>1. CASE u = t
    BY <1>1, <1>4, <2>1 DEF LaunchInv, ChildFits, Live, Fresh, ChildLabels
  <2>2. CASE u # t
    BY <1>1, <1>4, <2>2 DEF LaunchInv, ChildFits
  <2> QED
    BY <2>1, <2>2
<1>9. ASSUME NEW v \in Coordinators PROVE BatchFits(v)'
  <2>1. pc'[v] \notin InFlight => batch'[v] = <<>>
    BY <1>3 DEF LaunchInv, BatchFits, InFlight
  <2>2. ASSUME NEW u \in Range(batch'[v])
        PROVE  /\ attempts'[u] # "none" /\ child'[u].fence = token'[v]
               /\ pc'[v] = "reserving" => childPc'[u] = "none" /\ attempts'[u] = "STARTED"
    <3>1. u \in Range(batch[v]) /\ u \in Tasks
      <4>1. Range(batch[v]) \subseteq Tasks
        BY DEF LaunchInv, Typed, Range
      <4> QED
        BY <1>5, <2>2, <4>1
    <3>2. attempts[u] # "none" /\ child[u].fence = token[v]
      BY <3>1 DEF LaunchInv, BatchFits
    <3>3. pc'[v] = "reserving" => pc[v] = "reserving" /\ u # t
      BY <1>3, <3>1 DEF LaunchInv, BatchFits
    <3> QED
      BY <1>1, <1>4, <3>1, <3>2, <3>3 DEF LaunchInv, BatchFits
  <2> QED
    BY <2>1, <2>2 DEF BatchFits
<1> QED
  BY <1>6, <1>7, <1>8, <1>9 DEF LaunchInv

\* finish() changes an attempt only when it was STARTED.
LEMMA Finished ==
  ASSUME LaunchInv, NEW w \in Coordinators, NEW t \in Tasks, NEW b, NEW status,
         NEW next \in {"reconciling", "waiting"}, Finish(w, t, b, status, next)
  PROVE  /\ UNCHANGED <<plan, child, childPc, launches, token, issued>>
         /\ Goto(w, next) \/ Goto(w, "failed")
         /\ \/ attempts' = attempts
            \/ attempts[t] = "STARTED" /\ attempts' = [attempts EXCEPT ![t] = status]
<1>1. pc \in [Coordinators -> Labels]
  BY DEF LaunchInv, Typed
<1>2. Goto(w, "failed") => pc'[w] # next
  BY <1>1 DEF Goto
<1> QED
  BY <1>2 DEF Finish, Transact, unsaved

LEMMA ReduceStep == ASSUME LaunchInv, NEW w \in Coordinators, Reduce(w) PROVE LaunchInv'
<1>1. /\ batch \in [Coordinators -> Seq(Tasks)] /\ batch[w] # <<>>
      /\ batch' = [batch EXCEPT ![w] = Tail(batch[w])] /\ pc[w] = "waiting"
  BY DEF Reduce, AllSettled, LaunchInv, Typed
<1>2. PICK t \in Tasks : t = Head(batch[w]) /\ t \in Range(batch[w])
  BY <1>1 DEF Range
<1>3. PICK status \in {"SUCCEEDED", "FAILED"} :
        /\ Finish(w, t, Reduced(run[w], t), status, "waiting")
        /\ status = "SUCCEEDED" => Accepted(t)
  BY <1>2 DEF Reduce
<1>4. childPc[t] = "ended" /\ (Accepted(t) => launches[t] = 1)
  BY <1>2 DEF Reduce, AllSettled, LaunchInv, ChildFits, Accepted
<1>5. /\ Tail(batch[w]) \in Seq(Tasks)
      /\ Range(Tail(batch[w])) \subseteq Range(batch[w])
  BY <1>1 DEF Range
<1>6. PICK label \in {"waiting", "failed"} : Goto(w, label)
  BY <1>3, Finished
<1>7. /\ UNCHANGED <<child, childPc, launches, token, issued>>
      /\ attempts' = attempts \/ attempts' = [attempts EXCEPT ![t] = status]
  BY <1>3, Finished
<1> QED
  BY <1>1, <1>3, <1>4, <1>5, <1>6, <1>7, SettleStep

LEMMA ReconcileStep ==
  ASSUME LaunchInv, NEW w \in Coordinators, NEW t \in Tasks, ReconcileOne(w, t)
  PROVE  LaunchInv'
<1>1. CASE Confirmed(t)
  <2>1. childPc[t] = "ended" /\ launches[t] = 1
    BY <1>1 DEF LaunchInv, ChildFits, Confirmed
  <2>2. PICK status \in {"SUCCEEDED", "FAILED"} :
          Finish(w, t, Succeeded(run[w], t), status, "reconciling")
    BY <1>1 DEF ReconcileOne
  <2>5. /\ batch' = batch /\ pc[w] = "reconciling" /\ batch \in [Coordinators -> Seq(Tasks)]
    BY <1>1 DEF ReconcileOne, LaunchInv, Typed
  <2>3. PICK label \in {"reconciling", "failed"} : Goto(w, label)
    BY <2>2, Finished
  <2>4. /\ UNCHANGED <<child, childPc, launches, token, issued>>
        /\ attempts' = attempts \/ attempts' = [attempts EXCEPT ![t] = status]
    BY <2>2, Finished
  <2> QED
    BY <2>1, <2>3, <2>4, <2>5, SettleStep
<1>2. CASE ~Confirmed(t)
  BY <1>2, Relabel
  DEF ReconcileOne, Checked, Think, row, LaunchInv, BatchFits, Labels, Awaits, InFlight
<1> QED
  BY <1>1, <1>2

-----------------------------------------------------------------------------

\* How a child's execution goes on; only the call is counted.
Hops == {"entering", "entered", "cleared", "called", "judged"} \X {"ended"}
        \cup {<<"entering", "entered">>, <<"entered", "cleared">>,
              <<"cleared", "called">>, <<"called", "judged">>}
Moved(t, label, state) ==
  /\ <<childPc[t], label>> \in Hops
  /\ childPc' = [childPc EXCEPT ![t] = label]
  /\ child' = [child EXCEPT ![t].state = state]
  /\ state = "COMPLETED" => childPc[t] = "judged" /\ label = "ended"
  /\ IF label = "called" THEN launches' = [launches EXCEPT ![t] = @ + 1]
                         ELSE UNCHANGED launches

LEMMA ChildMoves ==
  ASSUME LaunchInv, NEW t \in Tasks, ChildRuns(t)
  PROVE  /\ attempts[t] = "STARTED" /\ UNCHANGED <<plan, attempts, pc, token, batch, issued>>
         /\ \E label \in ChildLabels : \E state : Moved(t, label, state)
<1>1. /\ childPc[t] \in ChildLabels
      /\ childPc[t] \in Live => attempts[t] = "STARTED" /\ child[t].state # "COMPLETED"
  BY DEF LaunchInv, Typed, ChildFits, Live
<1>2. UNCHANGED <<plan, attempts, pc, token, batch, issued>> /\ childPc[t] \in Live
  BY DEF ChildRuns, ChildEnter, ChildClear, ChildCall, ChildJudge, ChildCommit, ChildFail,
         ChildStep, coordinator, row, Live, ChildLabels
<1>3. \E label \in ChildLabels : \E state : Moved(t, label, state)
  <2> USE DEF ChildStep, Live, ChildLabels, Hops, Moved
  <2>2. CASE ChildEnter(t)
    <3>1. Moved(t, "entered", "OPEN") \/ Moved(t, "ended", child[t].state)
      BY <1>1, <1>2, <2>2 DEF ChildEnter
    <3> QED
      BY <3>1 DEF ChildLabels
  <2>3. CASE ChildCall(t)
    <3>1. Moved(t, "called", child[t].state)
      BY <1>1, <1>2, <2>3 DEF ChildCall
    <3> QED
      BY <3>1 DEF ChildLabels
  <2>4. CASE ChildJudge(t)
    <3>1. Moved(t, "judged", child[t].state) \/ Moved(t, "ended", child[t].state)
      BY <1>1, <1>2, <2>4 DEF ChildJudge
    <3> QED
      BY <3>1 DEF ChildLabels
  <2>5. CASE ChildCommit(t)
    <3>1. Moved(t, "ended", "COMPLETED")
      BY <1>1, <1>2, <2>5 DEF ChildCommit
    <3> QED
      BY <3>1 DEF ChildLabels
  <2>6. CASE ChildFail(t)
    <3>1. Moved(t, "ended", child[t].state)
      BY <1>1, <1>2, <2>6 DEF ChildFail
    <3> QED
      BY <3>1 DEF ChildLabels
  <2>7. CASE \E w \in Coordinators : ChildClear(t, w)
    <3>1. Moved(t, "cleared", child[t].state) \/ Moved(t, "ended", child[t].state)
      BY <1>1, <1>2, <2>7 DEF ChildClear
    <3> QED
      BY <3>1 DEF ChildLabels
  <2> QED
    BY <2>2, <2>3, <2>4, <2>5, <2>6, <2>7 DEF ChildRuns
<1> QED
  BY <1>1, <1>2, <1>3

LEMMA ChildSteps == ASSUME LaunchInv, NEW t \in Tasks, ChildRuns(t) PROVE LaunchInv'
<1>0a. PICK label \in ChildLabels : \E state : Moved(t, label, state)
  BY ChildMoves
<1>0. PICK state : Moved(t, label, state)
  BY <1>0a
<1>1. /\ childPc' = [childPc EXCEPT ![t] = label] /\ <<childPc[t], label>> \in Hops
      /\ IF label = "called" THEN launches' = [launches EXCEPT ![t] = @ + 1]
                             ELSE UNCHANGED launches
  BY <1>0 DEF Moved
<1>2. /\ child' = [child EXCEPT ![t].state = state]
      /\ state = "COMPLETED" => childPc[t] = "judged" /\ label = "ended"
  BY <1>0 DEF Moved
<1>3. attempts[t] = "STARTED" /\ UNCHANGED <<attempts, pc, token, batch, issued>>
  BY ChildMoves
<1>4. Typed /\ ChildFits(t)
  BY DEF LaunchInv
<1>5. /\ childPc' \in [Tasks -> ChildLabels] /\ launches' \in [Tasks -> Nat]
      /\ DOMAIN child' = Tasks /\ childPc'[t] = label
      /\ launches'[t] = IF label = "called" THEN launches[t] + 1 ELSE launches[t]
      /\ \A u \in Tasks \ {t} :
           childPc'[u] = childPc[u] /\ launches'[u] = launches[u] /\ child'[u] = child[u]
  <2>1. /\ childPc' \in [Tasks -> ChildLabels] /\ childPc'[t] = label
        /\ \A u \in Tasks \ {t} : childPc'[u] = childPc[u]
    BY <1>1, <1>4 DEF Typed
  <2>2. DOMAIN child' = Tasks /\ \A u \in Tasks \ {t} : child'[u] = child[u]
    BY <1>2, <1>4 DEF Typed
  <2>3. /\ launches' \in [Tasks -> Nat]
        /\ launches'[t] = IF label = "called" THEN launches[t] + 1 ELSE launches[t]
        /\ \A u \in Tasks \ {t} : launches'[u] = launches[u]
    <3>1. launches \in [Tasks -> Nat]
      BY <1>4 DEF Typed
    <3>2. CASE label = "called"
      BY <1>1, <3>1, <3>2
    <3>3. CASE label # "called"
      BY <1>1, <3>1, <3>3
    <3> QED
      BY <3>2, <3>3
  <2> QED
    BY <2>1, <2>2, <2>3
<1>6. /\ DOMAIN child'[t] = {"state", "control", "revision", "fence"}
      /\ child'[t].fence = child[t].fence /\ child'[t].state = state
  BY <1>2, <1>4 DEF Typed, ChildFits
<1>7. Typed'
  BY <1>3, <1>4, <1>5 DEF Typed
<1>8. TokensDiffer'
  BY <1>3 DEF LaunchInv, TokensDiffer
<1>9. ChildFits(t)'
  <2>1. childPc[t] \in Fresh => launches[t] = 0
    BY <1>4 DEF ChildFits
  <2>2. launches[t] \in Nat /\ launches[t] <= 1
    BY <1>4 DEF ChildFits, Typed
  <2>3. launches'[t] = IF label = "called" THEN 1 ELSE launches[t]
    BY <1>1, <1>5, <2>1 DEF Fresh, Hops
  <2>4. label \in Fresh => launches'[t] = 0
    BY <1>1, <2>1, <2>3 DEF Fresh, Hops
  <2>5. label \in {"called", "judged"} => launches'[t] = 1
    BY <1>1, <1>4, <2>3 DEF ChildFits, Hops
  <2>6. state = "COMPLETED" => label = "ended" /\ launches'[t] = 1
    BY <1>1, <1>2, <1>4, <1>5, <2>3 DEF ChildFits
  <2> QED
    BY <1>1, <1>3, <1>5, <1>6, <2>2, <2>3, <2>4, <2>5, <2>6 DEF ChildFits, Hops
<1>10. \A u \in Tasks : ChildFits(u)'
  BY <1>3, <1>5, <1>9 DEF LaunchInv, ChildFits
<1>11. ASSUME NEW v \in Coordinators PROVE BatchFits(v)'
  <2>1. \A u \in Range(batch[v]) : u \in Tasks
    BY <1>4 DEF Typed, Range
  <2>2. BatchFits(v)
    BY DEF LaunchInv
  <2>3. \A u \in Tasks : child'[u].fence = child[u].fence
    BY <1>5, <1>6
  <2>4. pc[v] = "reserving" => t \notin Range(batch[v])
    BY <1>1, <2>2 DEF BatchFits, Hops
  <2> QED
    BY <1>3, <1>5, <2>1, <2>2, <2>3, <2>4 DEF BatchFits
<1> QED
  BY <1>7, <1>8, <1>10, <1>11 DEF LaunchInv

\* The timer touches the children's rows only: it completes none.
LEMMA HeartbeatStep == ASSUME LaunchInv, NEW w \in Coordinators, Heartbeat(w) PROVE LaunchInv'
<1>1. UNCHANGED <<attempts, childPc, launches, pc, token, batch, issued>>
  BY DEF Heartbeat, row
<1>2. DOMAIN child' = Tasks
  BY DEF Heartbeat
<1>3. ASSUME NEW t \in Tasks
      PROVE  \/ child'[t] = child[t]
             \/ child'[t] = [child[t] EXCEPT !.control = "pause"]
             \/ child'[t] = [child[t] EXCEPT !.control = "cancel",
                     !.state = IF child[t].state = "COMPLETED" THEN "COMPLETED" ELSE "OPEN"]
  BY <1>3 DEF Heartbeat
<1>4. ASSUME NEW t \in Tasks
      PROVE  /\ DOMAIN child'[t] = {"state", "control", "revision", "fence"}
             /\ child'[t].fence = child[t].fence
             /\ child'[t].state = "COMPLETED" => child[t].state = "COMPLETED"
  BY <1>3, <1>4 DEF LaunchInv, ChildFits
<1>5. Typed'
  BY <1>1, <1>2 DEF LaunchInv, Typed
<1>6. TokensDiffer'
  BY <1>1 DEF LaunchInv, TokensDiffer
<1>7. \A t \in Tasks : ChildFits(t)'
  BY <1>1, <1>4 DEF LaunchInv, ChildFits
<1>8. ASSUME NEW v \in Coordinators PROVE BatchFits(v)'
  <2>1. \A u \in Range(batch[v]) : u \in Tasks
    BY DEF LaunchInv, Typed, Range
  <2> QED
    BY <1>1, <1>4, <2>1 DEF LaunchInv, BatchFits
<1> QED
  BY <1>5, <1>6, <1>7, <1>8 DEF LaunchInv

\* A reservation is of an attempt that was never made; with the last of a batch all
\* of its children start.
Taken(w, t) ==
  /\ pc[w] = "reserving"
  /\ Reservable(w, t)
  /\ attempts' = [attempts EXCEPT ![t] = "STARTED"]
  /\ child' = [child EXCEPT ![t] = [state |-> "READY", control |-> "run",
                 revision |-> run[w].revision, fence |-> token[w]]]
  /\ batch' = [batch EXCEPT ![w] = Append(batch[w], t)]
  /\ \/ /\ Goto(w, "waiting")
        /\ childPc' = [u \in Tasks |->
             IF u \in Range(batch'[w]) THEN "entering" ELSE childPc[u]]
     \/ Goto(w, "reserving") /\ UNCHANGED childPc
  /\ UNCHANGED <<plan, token, issued, launches>>

LEMMA ReserveKinds ==
  ASSUME NEW w \in Coordinators, Reserve(w)
  PROVE  \/ \E t \in Tasks : Taken(w, t)
         \/ pc[w] = "reserving" /\ Checked(w, FALSE, "failed")
  BY DEF Reserve, Taken, row

LEMMA AppendRange ==
  ASSUME NEW t \in Tasks, NEW b \in Seq(Tasks)
  PROVE  Append(b, t) \in Seq(Tasks) /\ Range(Append(b, t)) = Range(b) \cup {t}
<1> DEFINE n == Len(b)  a == Append(b, t)
<1>1. n \in Nat /\ DOMAIN b = 1..n /\ a \in Seq(Tasks)
  OBVIOUS
<1>2. DOMAIN a = 1..(n + 1) /\ a[n + 1] = t /\ \A i \in 1..n : a[i] = b[i]
  BY <1>1
<1>3. {a[i] : i \in 1..(n + 1)} = {b[i] : i \in 1..n} \cup {t}
  <2>1. \A i \in 1..(n + 1) : i \in 1..n \/ i = n + 1
    BY <1>1
  <2>2. n + 1 \in 1..(n + 1) /\ 1..n \subseteq 1..(n + 1)
    BY <1>1
  <2> QED
    BY <1>2, <2>1, <2>2
<1> QED
  BY <1>1, <1>2, <1>3 DEF Range

LEMMA TailRange ==
  ASSUME NEW b \in Seq(Tasks), b # <<>>
  PROVE  Range(b) = {Head(b)} \cup Range(Tail(b))
<1> DEFINE n == Len(b)  a == Tail(b)
<1>1. n \in Nat /\ n > 0 /\ DOMAIN b = 1..n /\ Head(b) = b[1]
  OBVIOUS
<1>2. DOMAIN a = 1..(n - 1) /\ \A i \in 1..(n - 1) : a[i] = b[i + 1]
  BY <1>1
<1>3. {b[i] : i \in 1..n} = {b[1]} \cup {a[i] : i \in 1..(n - 1)}
  <2>1. \A i \in 1..n : i = 1 \/ (i - 1 \in 1..(n - 1) /\ b[i] = a[i - 1])
    BY <1>1, <1>2
  <2>2. 1 \in 1..n /\ \A i \in 1..(n - 1) : i + 1 \in 1..n /\ a[i] = b[i + 1]
    BY <1>1, <1>2
  <2> QED
    BY <2>1, <2>2
<1> QED
  BY <1>1, <1>2, <1>3 DEF Range

LEMMA TakenRange ==
  ASSUME NEW w \in Coordinators, NEW t \in Tasks, batch \in [Coordinators -> Seq(Tasks)],
         batch' = [batch EXCEPT ![w] = Append(batch[w], t)]
  PROVE  Range(batch'[w]) = Range(batch[w]) \cup {t}
  BY AppendRange

LEMMA TakenStep ==
  ASSUME LaunchInv, NEW w \in Coordinators, NEW t \in Tasks, Taken(w, t)
  PROVE  LaunchInv'
<1>1. Typed /\ ChildFits(t) /\ BatchFits(w) /\ attempts[t] = "none" /\ pc[w] = "reserving"
  BY DEF LaunchInv, Taken, Reservable
<1>2. childPc[t] = "none" /\ launches[t] = 0
  BY <1>1 DEF ChildFits, Fresh
<1>3. /\ attempts' \in [Tasks -> AttemptState] /\ attempts'[t] = "STARTED"
      /\ \A u \in Tasks \ {t} : attempts'[u] = attempts[u]
  BY <1>1 DEF Taken, Typed, AttemptState
<1>4. /\ DOMAIN child' = Tasks
      /\ child'[t] = [state |-> "READY", control |-> "run",
                      revision |-> run[w].revision, fence |-> token[w]]
      /\ \A u \in Tasks \ {t} : child'[u] = child[u]
  BY <1>1 DEF Taken, Typed
<1>5. /\ batch' \in [Coordinators -> Seq(Tasks)]
      /\ Range(batch'[w]) = Range(batch[w]) \cup {t}
      /\ \A v \in Coordinators \ {w} : batch'[v] = batch[v]
  <2>1. batch \in [Coordinators -> Seq(Tasks)] /\ batch' = [batch EXCEPT ![w] = Append(batch[w], t)]
    BY <1>1 DEF Taken, Typed
  <2>2. Append(batch[w], t) \in Seq(Tasks)
        /\ Range(Append(batch[w], t)) = Range(batch[w]) \cup {t}
    <3>1. batch[w] \in Seq(Tasks)
      BY <2>1
    <3> QED
      BY <3>1, AppendRange
  <2> QED
    BY <2>1, <2>2
<1>6. /\ pc' \in [Coordinators -> Labels] /\ pc'[w] \in {"waiting", "reserving"}
      /\ \A v \in Coordinators \ {w} : pc'[v] = pc[v]
  BY <1>1 DEF Taken, Goto, Typed, Labels, Awaits
<1>7. UNCHANGED <<token, issued, launches>>
  BY DEF Taken
<1>8. /\ childPc' \in [Tasks -> ChildLabels]
      /\ \A u \in Tasks : u \notin Range(batch'[w]) => childPc'[u] = childPc[u]
      /\ pc'[w] = "reserving" => childPc' = childPc
      /\ \A u \in Range(batch'[w]) : childPc'[u] \in {childPc[u], "entering"}
  <2>1. childPc \in [Tasks -> ChildLabels] /\ Range(batch'[w]) \subseteq Tasks
    BY <1>1, <1>5 DEF Typed, Range
  <2>2. CASE Goto(w, "waiting") /\ childPc' = [u \in Tasks |->
               IF u \in Range(batch'[w]) THEN "entering" ELSE childPc[u]]
    <3>1. pc'[w] = "waiting"
      BY <1>1, <2>2 DEF Goto, Typed
    <3> QED
      BY <2>1, <2>2, <3>1 DEF ChildLabels
  <2>3. CASE Goto(w, "reserving") /\ UNCHANGED childPc
    BY <2>1, <2>3
  <2> QED
    BY <2>2, <2>3 DEF Taken
<1>9. \A u \in Range(batch'[w]) : /\ u \in Tasks /\ childPc[u] = "none"
                                  /\ attempts'[u] = "STARTED" /\ launches[u] = 0
                                  /\ child'[u].fence = token[w]
                                  /\ child'[u].state # "COMPLETED"
                                  /\ DOMAIN child'[u] = {"state", "control", "revision", "fence"}
  <2>1. ASSUME NEW u \in Range(batch[w]), u # t
        PROVE  /\ u \in Tasks /\ childPc[u] = "none" /\ attempts'[u] = "STARTED"
               /\ launches[u] = 0 /\ child'[u].fence = token[w] /\ child'[u].state # "COMPLETED"
               /\ DOMAIN child'[u] = {"state", "control", "revision", "fence"}
    <3>1. u \in Tasks
      BY <1>1, <2>1 DEF Typed, Range
    <3>2. childPc[u] = "none" /\ attempts[u] = "STARTED" /\ child[u].fence = token[w]
      BY <1>1, <2>1 DEF BatchFits
    <3>3. ChildFits(u)
      BY <3>1 DEF LaunchInv
    <3> QED
      BY <1>3, <1>4, <2>1, <3>1, <3>2, <3>3 DEF ChildFits, Fresh
  <2> QED
    BY <1>2, <1>3, <1>4, <1>5, <2>1
<1>10. Typed'
  BY <1>1, <1>3, <1>4, <1>5, <1>6, <1>7, <1>8 DEF Typed
<1>11. TokensDiffer'
  <2>1. \A v \in Coordinators : pc'[v] # "idle" => pc[v] # "idle"
    BY <1>1, <1>6
  <2> QED
    BY <1>7, <2>1 DEF LaunchInv, TokensDiffer
<1>12. ASSUME NEW u \in Tasks PROVE ChildFits(u)'
  <2>1. CASE u \in Range(batch'[w])
    BY <1>7, <1>8, <1>9, <2>1 DEF ChildFits, Fresh, Live, ChildLabels
  <2>2. CASE u \notin Range(batch'[w])
    <3>1. u # t
      BY <1>5, <2>2
    <3> QED
      BY <1>3, <1>4, <1>7, <1>8, <2>2, <3>1 DEF LaunchInv, ChildFits
  <2> QED
    BY <2>1, <2>2
<1>13. BatchFits(w)'
  BY <1>6, <1>7, <1>8, <1>9 DEF BatchFits, InFlight
<1>14. ASSUME NEW v \in Coordinators, v # w PROVE BatchFits(v)'
  <2>1. BatchFits(v) /\ \A u \in Range(batch[v]) : u \in Tasks
    BY <1>1 DEF LaunchInv, Typed, Range
  <2>2. ASSUME NEW u \in Range(batch[v]) PROVE u \notin Range(batch'[w])
    <3>1. child[u].fence = token[v] /\ attempts[u] # "none"
      BY <2>1 DEF BatchFits
    <3>2. u \in Range(batch[w]) => token[v] = token[w]
      BY <1>1, <3>1 DEF BatchFits
    <3>3. token[w] # NoGrant /\ token[v] # token[w]
      BY <1>1, <1>14 DEF LaunchInv, TokensDiffer
    <3> QED
      BY <1>1, <1>5, <3>1, <3>2, <3>3
  <2>3. \A u \in Range(batch[v]) : u # t /\ childPc'[u] = childPc[u]
    BY <1>5, <1>8, <2>1, <2>2
  <2>4. pc'[v] = pc[v] /\ batch'[v] = batch[v] /\ token'[v] = token[v]
    BY <1>5, <1>6, <1>7, <1>14
  <2>5. \A u \in Range(batch[v]) : attempts'[u] = attempts[u] /\ child'[u] = child[u]
    BY <1>3, <1>4, <2>1, <2>3
  <2> QED
    BY <2>1, <2>3, <2>4, <2>5 DEF BatchFits
<1>15. \A v \in Coordinators : BatchFits(v)'
  BY <1>13, <1>14
<1> QED
  BY <1>10, <1>11, <1>12, <1>15 DEF LaunchInv

LEMMA ReserveStep == ASSUME LaunchInv, NEW w \in Coordinators, Reserve(w) PROVE LaunchInv'
<1>1. CASE pc[w] = "reserving" /\ Checked(w, FALSE, "failed")
  BY <1>1, Relabel DEF Checked, Think, row, InFlight, Labels
<1> QED
  BY <1>1, ReserveKinds, TakenStep

LEMMA NextLaunch == ASSUME LaunchInv, [Next]_vars PROVE LaunchInv'
<1>1. ASSUME NEW w \in Coordinators, Proceed(w) PROVE LaunchInv'
  BY <1>1, EntrySteps, ReconcileStep, ReserveStep, ReduceStep, EndSteps DEF Proceed
<1>2. ASSUME NEW w \in Coordinators, CostUnknown(w) \/ Fail(w) \/ Heartbeat(w) \/ Crash(w)
      PROVE  LaunchInv'
  BY <1>2, EntrySteps, HeartbeatStep, EndSteps
<1> QED
  BY <1>1, <1>2, OperatorSteps, ClaimStep, ChildSteps DEF Next

\* The inductive invariant holds in every reachable state.
LEMMA LaunchAlways == Spec => []LaunchInv
<1>1. Init => LaunchInv
  BY InitLaunch
<1>2. LaunchInv /\ [Next]_vars => LaunchInv'
  BY NextLaunch
<1> QED
  BY <1>1, <1>2, PTL DEF Spec, Safety

-----------------------------------------------------------------------------
(* What one step does to the attempts                                       *)

Reserved(t) ==
  /\ attempts[t] = "none" /\ \E w \in Coordinators : Reservable(w, t) /\ Taken(w, t)
  /\ attempts' = [attempts EXCEPT ![t] = "STARTED"] /\ UNCHANGED launches
Settled(t) ==
  /\ attempts[t] = "STARTED" /\ UNCHANGED launches
  /\ \E status \in {"SUCCEEDED", "FAILED"} :
       /\ attempts' = [attempts EXCEPT ![t] = status]
       /\ status = "SUCCEEDED" => launches[t] = 1
       /\ status = "FAILED" => childPc[t] = "ended" /\ ~Verified(t)
Launched(t) ==
  /\ attempts[t] = "STARTED" /\ launches[t] = 0
  /\ launches' = [launches EXCEPT ![t] = 1] /\ UNCHANGED attempts

AttemptMoves ==
  /\ UNCHANGED plan
  /\ \/ UNCHANGED <<attempts, launches>>
     \/ \E t \in Tasks : Reserved(t) \/ Settled(t) \/ Launched(t)

LEMMA QuietSteps ==
  ASSUME NEW w \in Coordinators,
         \/ \E pin \in BOOLEAN : Load(w, pin)
         \/ PinPolicy(w) \/ Reconciled(w) \/ Unresolved(w) \/ Confirm(w) \/ Complete(w)
         \/ Stop(w) \/ Chosen(w) \/ Dispatch(w) \/ BatchDone(w) \/ Catch(w) \/ Record(w)
         \/ Release(w) \/ CostUnknown(w) \/ Fail(w) \/ Heartbeat(w) \/ Crash(w)
         \/ \E denied \in SUBSET Withheld : Loop(w, denied)
         \/ \E resume \in BOOLEAN : Claim(w, resume)
  PROVE  UNCHANGED <<plan, attempts, launches>>
<1> USE DEF Checked, Think, Save, SaveState, Transact, unsaved, tasks
<1>1. CASE \/ \E pin \in BOOLEAN : Load(w, pin)
           \/ PinPolicy(w) \/ Reconciled(w) \/ Unresolved(w) \/ Confirm(w) \/ Complete(w)
  BY <1>1 DEF Load, PinPolicy, Reconciled, Unresolved, Confirm, Complete
<1>2. CASE \/ Stop(w) \/ Chosen(w) \/ Dispatch(w) \/ BatchDone(w) \/ Catch(w) \/ Record(w)
  BY <1>2 DEF Stop, Chosen, Dispatch, BatchDone, Catch, Record
<1>3. CASE Release(w) \/ CostUnknown(w) \/ Fail(w) \/ Heartbeat(w) \/ Crash(w)
  BY <1>3 DEF Release, CostUnknown, Fail, Heartbeat, Crash
<1>4. CASE \E denied \in SUBSET Withheld : Loop(w, denied)
  BY <1>4 DEF Loop
<1>5. CASE \E resume \in BOOLEAN : Claim(w, resume)
  BY <1>5 DEF Claim
<1> QED
  BY <1>1, <1>2, <1>3, <1>4, <1>5

LEMMA QuietOperator ==
  ASSUME \/ Approve \/ Revise \/ Tamper \/ LeaseExpires
         \/ \E gone \in SUBSET approved : Withdraw(gone)
         \/ \E c \in Requests : Control(c)
         \/ UNCHANGED vars
  PROVE  UNCHANGED <<plan, attempts, launches>>
  BY DEF Approve, Revise, Tamper, LeaseExpires, Withdraw, Control, vars, tasks

LEMMA MovesOfSteps == ASSUME LaunchInv, [Next]_vars PROVE AttemptMoves
<1>1. Typed
  BY DEF LaunchInv
<1>2. ASSUME NEW w \in Coordinators, Reduce(w) PROVE AttemptMoves
  <2>1. PICK t \in Tasks : t = Head(batch[w]) /\ t \in Range(batch[w])
    <3>1. batch[w] \in Seq(Tasks) /\ batch[w] # <<>>
      BY <1>1, <1>2 DEF Typed, Reduce
    <3> QED
      BY <3>1 DEF Range
  <2>2. PICK status \in {"SUCCEEDED", "FAILED"} :
          /\ Finish(w, t, Reduced(run[w], t), status, "waiting")
          /\ status = "SUCCEEDED" <=> Accepted(t)
    BY <1>2, <2>1 DEF Reduce
  <2>3. (Accepted(t) => launches[t] = 1) /\ childPc[t] = "ended" /\ (Verified(t) <=> Accepted(t))
    BY <1>2, <2>1 DEF LaunchInv, ChildFits, Accepted, Verified, Reduce, AllSettled
  <2>4. /\ UNCHANGED <<plan, launches>>
        /\ \/ attempts' = attempts
           \/ attempts[t] = "STARTED" /\ attempts' = [attempts EXCEPT ![t] = status]
    BY <2>2, Finished
  <2> QED
    BY <2>2, <2>3, <2>4 DEF AttemptMoves, Settled
<1>3. ASSUME NEW w \in Coordinators, NEW t \in Tasks, ReconcileOne(w, t) PROVE AttemptMoves
  <2>1. CASE Confirmed(t)
    <3>1. launches[t] = 1
      BY <2>1 DEF LaunchInv, ChildFits, Confirmed
    <3>2. PICK status \in {"SUCCEEDED"} :
            Finish(w, t, Succeeded(run[w], t), status, "reconciling")
      BY <1>3, <2>1 DEF ReconcileOne
    <3>3. /\ UNCHANGED <<plan, launches>>
          /\ \/ attempts' = attempts
             \/ attempts[t] = "STARTED" /\ attempts' = [attempts EXCEPT ![t] = status]
      BY <3>2, Finished
    <3> QED
      BY <3>1, <3>3 DEF AttemptMoves, Settled
  <2>2. CASE ~Confirmed(t)
    BY <1>3, <2>2 DEF ReconcileOne, Checked, Think, tasks, AttemptMoves
  <2> QED
    BY <2>1, <2>2
<1>4. ASSUME NEW w \in Coordinators, Reserve(w) PROVE AttemptMoves
  <2>1. CASE \E t \in Tasks : Taken(w, t)
    BY <2>1 DEF Taken, Reservable, AttemptMoves, Reserved
  <2>2. CASE Checked(w, FALSE, "failed")
    BY <2>2 DEF Checked, Think, tasks, AttemptMoves
  <2> QED
    BY <1>4, <2>1, <2>2, ReserveKinds
<1>5. ASSUME NEW t \in Tasks, ChildRuns(t) PROVE AttemptMoves
  <2>0. PICK label \in ChildLabels : \E state : Moved(t, label, state)
    BY <1>5, ChildMoves
  <2>1. PICK state : Moved(t, label, state)
    BY <2>0
  <2>2. attempts[t] = "STARTED" /\ UNCHANGED <<plan, attempts>>
    BY <1>5, ChildMoves
  <2>3. CASE label = "called"
    <3>1. launches[t] = 0 /\ launches' = [launches EXCEPT ![t] = launches[t] + 1]
      BY <2>1, <2>3 DEF Moved, Hops, LaunchInv, ChildFits, Fresh
    <3>2. launches' = [launches EXCEPT ![t] = 1]
      BY <3>1
    <3> QED
      BY <2>2, <3>1, <3>2 DEF AttemptMoves, Launched
  <2>4. CASE label # "called"
    BY <2>1, <2>2, <2>4 DEF Moved, AttemptMoves
  <2> QED
    BY <2>3, <2>4
<1>6. ASSUME UNCHANGED <<plan, attempts, launches>> PROVE AttemptMoves
  BY <1>6 DEF AttemptMoves
<1>7. ASSUME NEW w \in Coordinators, Proceed(w) PROVE AttemptMoves
  BY <1>2, <1>3, <1>4, <1>6, <1>7, QuietSteps DEF Proceed
<1>8. ASSUME NEW w \in Coordinators,
             \/ CostUnknown(w) \/ Fail(w) \/ Heartbeat(w) \/ Crash(w)
             \/ \E resume \in BOOLEAN : Claim(w, resume)
      PROVE  AttemptMoves
  BY <1>6, <1>8, QuietSteps
<1> QED
  BY <1>5, <1>6, <1>7, <1>8, QuietOperator DEF Next

-----------------------------------------------------------------------------
(* No attempt is made twice                                                 *)

Phases == [t \in Tasks |-> Phase(t)]

LEMMA PhaseMoves ==
  ASSUME LaunchInv, AttemptMoves
  PROVE  Phases' = Phases \/ Once!Next
<1>1. /\ attempts \in [Tasks -> AttemptState] /\ launches \in [Tasks -> Nat]
      /\ \A t \in Tasks : launches[t] <= 1 /\ (attempts[t] = "none" => launches[t] = 0)
  BY DEF LaunchInv, Typed, ChildFits, Fresh
<1>2. CASE UNCHANGED <<attempts, launches>>
  BY <1>2 DEF Phases, Phase
<1>3. ASSUME NEW t \in Tasks, Reserved(t) PROVE Once!Next
  <2>1. Phase(t) = "unused" /\ Phase(t)' = "reserved"
    BY <1>1, <1>3 DEF Reserved, Phase
  <2>2. \A u \in Tasks \ {t} : Phase(u)' = Phase(u)
    BY <1>1, <1>3 DEF Reserved, Phase
  <2>3. Phases' = [Phases EXCEPT ![t] = "reserved"]
    BY <2>1, <2>2 DEF Phases
  <2> QED
    BY <2>1, <2>3 DEF Phases, Once!Next, Once!Reserve, Once!Move
<1>4. ASSUME NEW t \in Tasks, Settled(t) PROVE Once!Next
  <2>1. PICK status \in {"SUCCEEDED", "FAILED"} :
          /\ attempts' = [attempts EXCEPT ![t] = status]
          /\ status = "SUCCEEDED" => launches[t] = 1
    BY <1>4 DEF Settled
  <2>2. attempts[t] = "STARTED" /\ launches' = launches
    BY <1>4 DEF Settled
  <2>3. \A u \in Tasks \ {t} : Phase(u)' = Phase(u)
    BY <1>1, <2>1, <2>2 DEF Phase
  <2>4. CASE status = "SUCCEEDED"
    <3>1. Phase(t) = "started" /\ Phase(t)' = "succeeded"
      BY <1>1, <2>1, <2>2, <2>4 DEF Phase
    <3>2. Phases' = [Phases EXCEPT ![t] = "succeeded"]
      BY <2>3, <3>1 DEF Phases
    <3> QED
      BY <3>1, <3>2 DEF Phases, Once!Next, Once!Succeed, Once!Move
  <2>5. CASE status = "FAILED"
    <3>1. Phase(t) \in {"reserved", "started"} /\ Phase(t)' = "failed"
      BY <1>1, <2>1, <2>2, <2>5 DEF Phase
    <3>2. Phases' = [Phases EXCEPT ![t] = "failed"]
      BY <2>3, <3>1 DEF Phases
    <3> QED
      BY <3>1, <3>2 DEF Phases, Once!Next, Once!Fail, Once!Move
  <2> QED
    BY <2>4, <2>5
<1>5. ASSUME NEW t \in Tasks, Launched(t) PROVE Once!Next
  <2>1. Phase(t) = "reserved" /\ Phase(t)' = "started"
    BY <1>1, <1>5 DEF Launched, Phase
  <2>2. \A u \in Tasks \ {t} : Phase(u)' = Phase(u)
    BY <1>1, <1>5 DEF Launched, Phase
  <2>3. Phases' = [Phases EXCEPT ![t] = "started"]
    BY <2>1, <2>2 DEF Phases
  <2> QED
    BY <2>1, <2>3 DEF Phases, Once!Next, Once!Start, Once!Move
<1> QED
  BY <1>2, <1>3, <1>4, <1>5 DEF AttemptMoves

\* An attempt is reserved before it starts, started at most once and settled for
\* good (reserve, execute with workflowParent and finish of controller.mjs), for any
\* number of coordinators, takeovers, crashes, revisions and withdrawn approvals.
THEOREM AttemptsAreOneShot == Spec => ImplementsOneShot
<1>1. Init => Once!Init
  BY DEF Init, Once!Init, Phase
<1>2. LaunchInv /\ [Next]_vars => [Once!Next]_Phases
  BY MovesOfSteps, PhaseMoves
<1> QED
  BY <1>1, <1>2, LaunchAlways, PTL DEF Spec, Safety, ImplementsOneShot, Once!Spec, Phases

-----------------------------------------------------------------------------
(* What runs at the same time                                               *)

StartedInv ==
  /\ IsFiniteSet(Started) /\ Cardinality(Started) <= Limit
  /\ Final \in Started => Started = {Final}
  /\ \A i, j \in Started : i # j => ~Conflict(i, j)

LEMMA LimitIsPositive == Limit \in Nat \ {0}
  BY WorkflowAssumption DEF Limit

LEMMA InitStarted == Init => StartedInv
<1> SUFFICES ASSUME Init PROVE StartedInv
  OBVIOUS
<1>1. Started = {}
  BY DEF Init, Started
<1>2. IsFiniteSet({}) /\ Cardinality({}) = 0
  BY FS_EmptySet
<1> QED
  BY <1>1, <1>2, LimitIsPositive DEF StartedInv

LEMMA StartedStep ==
  ASSUME Typed, StartedInv, AttemptMoves
  PROVE  StartedInv'
<1>1. Limit' = Limit /\ \A i, j \in Tasks : Conflict(i, j)' = Conflict(i, j)
  BY DEF AttemptMoves, Limit, Conflict
<1>2. Started \subseteq Tasks /\ attempts \in [Tasks -> AttemptState]
  BY DEF Typed, Started
<1>3. CASE UNCHANGED attempts
  <2>1. Started' = Started
    BY <1>3 DEF Started
  <2> QED
    BY <1>1, <1>2, <2>1 DEF StartedInv
<1>4. ASSUME NEW t \in Tasks, Reserved(t) PROVE StartedInv'
  <2>1. Started' = Started \cup {t} /\ t \notin Started
    BY <1>2, <1>4 DEF Reserved, Started
  <2>2. PICK w \in Coordinators : Reservable(w, t)
    BY <1>4 DEF Reserved
  <2>3. /\ Final \notin Started /\ Cardinality(Started) < Limit
        /\ t = Final => Started = {}
        /\ \A u \in Started : t # Final => ~Conflict(t, u)
    BY <2>2 DEF Reservable
  <2>4. /\ IsFiniteSet(Started \cup {t})
        /\ Cardinality(Started \cup {t}) = Cardinality(Started) + 1
    BY <2>1, FS_AddElement DEF StartedInv
  <2>5. Cardinality(Started \cup {t}) <= Limit
    <3>1. Cardinality(Started) \in Nat
      BY FS_CardinalityType DEF StartedInv
    <3> QED
      BY <2>3, <2>4, <3>1, LimitIsPositive
  <2>6. Final \in Started' => Started' = {Final}
    BY <2>1, <2>3
  <2>7. ASSUME NEW i \in Started', NEW j \in Started', i # j PROVE ~Conflict(i, j)
    <3>1. t # Final
      BY <2>1, <2>3, <2>7
    <3>2. \A u \in Started : ~Conflict(t, u) /\ ~Conflict(u, t)
      BY <2>3, <3>1 DEF Conflict
    <3> QED
      BY <2>1, <2>7, <3>2 DEF StartedInv
  <2> QED
    BY <1>1, <1>2, <2>1, <2>4, <2>5, <2>6, <2>7 DEF StartedInv
<1>5. ASSUME NEW t \in Tasks, Settled(t) PROVE StartedInv'
  <2>1. Started' = Started \ {t} /\ t \in Started
    BY <1>2, <1>5 DEF Settled, Started
  <2>2. /\ IsFiniteSet(Started \ {t})
        /\ Cardinality(Started \ {t}) = Cardinality(Started) - 1
    BY <2>1, FS_RemoveElement DEF StartedInv
  <2>3. Cardinality(Started \ {t}) <= Limit
    <3>1. Cardinality(Started) \in Nat
      BY FS_CardinalityType DEF StartedInv
    <3> QED
      BY <2>2, <3>1, LimitIsPositive DEF StartedInv
  <2> QED
    BY <1>1, <1>2, <2>1, <2>2, <2>3 DEF StartedInv
<1> QED
  BY <1>3, <1>4, <1>5 DEF AttemptMoves, Launched

LEMMA StartedAlways == Spec => []StartedInv
<1>1. LaunchInv /\ StartedInv /\ [Next]_vars => StartedInv'
  BY MovesOfSteps, StartedStep DEF LaunchInv
<1> QED
  BY <1>1, InitStarted, LaunchAlways, PTL DEF Spec, Safety

\* Whatever runs holds a reservation (reserve of controller.mjs checks the limit, the
\* locks and the integration in the transaction that makes it), also children of a
\* coordinator that was replaced: so what runs at the same time stays within the
\* limit, shares no resource and never overlaps the integration.
THEOREM RunningWithinReserve == Spec => []RunningIsReserved
<1>1. LaunchInv /\ StartedInv => RunningIsReserved
  <2> SUFFICES ASSUME LaunchInv, StartedInv PROVE RunningIsReserved
    OBVIOUS
  <2> DEFINE running == {t \in Tasks : childPc[t] \in {"cleared", "called", "judged"}}
  <2>1. running \subseteq Started
    BY DEF LaunchInv, ChildFits, Live, ChildLabels, Started
  <2>2. Cardinality(running) <= Limit
    <3>1. IsFiniteSet(Started)
      BY DEF StartedInv
    <3>2. IsFiniteSet(running) /\ Cardinality(running) <= Cardinality(Started)
      BY <2>1, <3>1, FS_Subset
    <3>3. Cardinality(running) \in Nat /\ Cardinality(Started) \in Nat
      BY <3>1, <3>2, FS_CardinalityType
    <3> QED
      BY <3>2, <3>3, LimitIsPositive DEF StartedInv
  <2>3. Final \in running => running = {Final}
    BY <2>1 DEF StartedInv
  <2>4. plan.hybrid => \A i, j \in running \cap Items :
          i # j => Resources[i] \cap Resources[j] = {}
    BY <2>1 DEF StartedInv, Conflict
  <2> QED
    BY <2>1, <2>2, <2>3, <2>4 DEF RunningIsReserved, Limit
<1> QED
  BY <1>1, LaunchAlways, StartedAlways, PTL

-----------------------------------------------------------------------------
(* What the bodies say of the items                                         *)

\* A body whose revision is one of the plan's, with only items of its graph ready.
Fit(b) ==
  /\ b \in Body /\ b.revision \in DOMAIN plan.graphs
  /\ \A i \in Items : b.states[i] = "READY" => i \in DOMAIN GraphOf(b)

\* What it counts as succeeded is verified.
Backed(b) ==
  /\ \A i \in Items : b.states[i] = "SUCCEEDED" => Verified(i)
  /\ b.final => Verified(Final)

BodyInv ==
  /\ plan \in Plans
  /\ Fit(body) /\ Backed(body)
  /\ run \in [Coordinators -> Body]
  /\ \A w \in Coordinators : Fit(run[w]) /\ Backed(run[w])

\* What a step does to the rows of the children.
ChildrenKept ==
  \A t \in Tasks :
    /\ Verified(t) => Verified(t)'
    /\ attempts[t] # "none" => child'[t].revision = child[t].revision
    /\ childPc[t] = "ended" => childPc'[t] = "ended" /\ (Verified(t)' => Verified(t))

LEMMA KeepsChildren == ASSUME LaunchInv, [Next]_vars PROVE ChildrenKept
<1>1. Typed /\ \A t \in Tasks : ChildFits(t)
  BY DEF LaunchInv
<1>2. ASSUME UNCHANGED <<child, childPc>> PROVE ChildrenKept
  BY <1>2 DEF ChildrenKept, Verified
<1>3. ASSUME NEW w \in Coordinators, NEW t \in Tasks, Taken(w, t) PROVE ChildrenKept
  <2>1. attempts[t] = "none" /\ ~Verified(t) /\ childPc[t] # "ended"
    BY <1>1, <1>3 DEF Taken, Reservable, ChildFits, Verified
  <2>2. \A u \in Tasks \ {t} : child'[u] = child[u]
    BY <1>1, <1>3 DEF Taken, Typed
  <2>3. ASSUME NEW u \in Tasks, childPc[u] = "ended" PROVE childPc'[u] = "ended"
    <3>1. u \notin Range(batch[w]) \cup {t}
      BY <1>3, <2>1, <2>3 DEF LaunchInv, BatchFits, Taken
    <3>2. Range(batch'[w]) = Range(batch[w]) \cup {t}
      BY <1>1, <1>3, TakenRange DEF Taken, Typed
    <3> QED
      BY <1>3, <2>3, <3>1, <3>2 DEF Taken
  <2> QED
    BY <2>1, <2>2, <2>3 DEF ChildrenKept, Verified
<1>4. ASSUME NEW w \in Coordinators, Heartbeat(w) PROVE ChildrenKept
  <2>1. ASSUME NEW t \in Tasks
        PROVE  \/ child'[t] = child[t]
               \/ child'[t] = [child[t] EXCEPT !.control = "pause"]
               \/ child'[t] = [child[t] EXCEPT !.control = "cancel",
                       !.state = IF child[t].state = "COMPLETED" THEN "COMPLETED" ELSE "OPEN"]
    BY <1>4, <2>1 DEF Heartbeat
  <2>2. UNCHANGED childPc
    BY <1>4 DEF Heartbeat
  <2> QED
    BY <1>1, <2>1, <2>2 DEF ChildrenKept, ChildFits, Verified
<1>5. ASSUME NEW t \in Tasks, ChildRuns(t) PROVE ChildrenKept
  <2>0. PICK label \in ChildLabels : \E state : Moved(t, label, state)
    BY <1>5, ChildMoves
  <2>1. PICK state : Moved(t, label, state)
    BY <2>0
  <2>2. ~Verified(t)
    BY <1>1, <2>1 DEF Moved, Hops, ChildFits, Verified
  <2>3. /\ child'[t].revision = child[t].revision
        /\ \A u \in Tasks \ {t} : child'[u] = child[u] /\ childPc'[u] = childPc[u]
    BY <1>1, <2>1 DEF Moved, Typed, ChildFits
  <2>4. childPc[t] # "ended"
    BY <2>1 DEF Moved, Hops
  <2> QED
    BY <2>2, <2>3, <2>4 DEF ChildrenKept, Verified
<1>6. ASSUME NEW w \in Coordinators, NEW t \in Tasks, ReconcileOne(w, t) PROVE ChildrenKept
  BY <1>2, <1>6 DEF ReconcileOne, Finish, Checked, Think, tasks
<1>7. ASSUME NEW w \in Coordinators, Reduce(w) PROVE ChildrenKept
  BY <1>2, <1>7 DEF Reduce, Finish
<1>8. ASSUME NEW w \in Coordinators, Reserve(w) PROVE ChildrenKept
  BY <1>2, <1>3, <1>8, ReserveKinds DEF Checked, Think, tasks
<1>9. ASSUME NEW w \in Coordinators,
             \/ \E pin \in BOOLEAN : Load(w, pin)
             \/ PinPolicy(w) \/ Reconciled(w) \/ Unresolved(w) \/ Confirm(w) \/ Complete(w)
             \/ Stop(w) \/ Chosen(w) \/ Dispatch(w) \/ BatchDone(w) \/ Catch(w) \/ Record(w)
             \/ Release(w) \/ CostUnknown(w) \/ Fail(w) \/ Crash(w)
             \/ \E denied \in SUBSET Withheld : Loop(w, denied)
             \/ \E resume \in BOOLEAN : Claim(w, resume)
      PROVE  UNCHANGED <<child, childPc>> \/ Crash(w)
  <2> USE DEF Checked, Think, Save, SaveState, Transact, tasks
  <2>1. CASE \/ \E pin \in BOOLEAN : Load(w, pin)
             \/ PinPolicy(w) \/ Reconciled(w) \/ Unresolved(w) \/ Confirm(w) \/ Complete(w)
    BY <2>1 DEF Load, PinPolicy, Reconciled, Unresolved, Confirm, Complete
  <2>2. CASE \/ Stop(w) \/ Chosen(w) \/ Dispatch(w) \/ BatchDone(w) \/ Catch(w) \/ Record(w)
    BY <2>2 DEF Stop, Chosen, Dispatch, BatchDone, Catch, Record
  <2>3. CASE Release(w) \/ CostUnknown(w) \/ Fail(w) \/ Crash(w)
    BY <2>3 DEF Release, CostUnknown, Fail, Crash
  <2>4. CASE \E denied \in SUBSET Withheld : Loop(w, denied)
    BY <2>4 DEF Loop
  <2>5. CASE \E resume \in BOOLEAN : Claim(w, resume)
    BY <2>5 DEF Claim
  <2> QED
    BY <1>9, <2>1, <2>2, <2>3, <2>4, <2>5
<1>9a. ASSUME NEW w \in Coordinators, Crash(w) PROVE ChildrenKept
  <2>1. \A t \in Tasks : childPc[t] = "ended" => childPc'[t] = "ended"
    BY <1>9a DEF Crash, Live
  <2>2. UNCHANGED child
    BY <1>9a DEF Crash
  <2> QED
    BY <2>1, <2>2 DEF ChildrenKept, Verified
<1>10. ASSUME \/ Approve \/ Revise \/ Tamper \/ LeaseExpires
              \/ \E gone \in SUBSET approved : Withdraw(gone)
              \/ \E c \in Requests : Control(c)
              \/ UNCHANGED vars
       PROVE  UNCHANGED <<child, childPc>>
  BY <1>10 DEF Approve, Revise, Tamper, LeaseExpires, Withdraw, Control, vars, tasks
<1>11. ASSUME NEW w \in Coordinators, Proceed(w) PROVE ChildrenKept
  BY <1>2, <1>6, <1>7, <1>8, <1>9, <1>9a, <1>11 DEF Proceed
<1>12. ASSUME NEW w \in Coordinators,
              \/ CostUnknown(w) \/ Fail(w) \/ Heartbeat(w) \/ Crash(w)
              \/ \E resume \in BOOLEAN : Claim(w, resume)
       PROVE  ChildrenKept
  BY <1>2, <1>4, <1>9, <1>9a, <1>12
<1> QED
  BY <1>2, <1>5, <1>10, <1>11, <1>12 DEF Next

LEMMA NewRunIsGood == ASSUME plan \in Plans PROVE Fit(NewRun) /\ Backed(NewRun)
<1>1. 1 \in DOMAIN plan.graphs
  BY WorkflowAssumption
<1> QED
  BY <1>1 DEF Fit, Backed, NewRun, Body, RunState, ItemState

LEMMA StateIsGood ==
  ASSUME NEW b, Fit(b), Backed(b), NEW s \in RunState, NEW e \in BOOLEAN
  PROVE  /\ Fit([b EXCEPT !.state = s]) /\ Backed([b EXCEPT !.state = s])
         /\ Fit([b EXCEPT !.state = s, !.evidence = e])
         /\ Backed([b EXCEPT !.state = s, !.evidence = e])
  BY DEF Fit, Backed, Body, GraphOf

\* Every item that becomes ready or changes otherwise is not made to have succeeded.
LEMMA StatesAreGood ==
  ASSUME NEW b, Fit(b), Backed(b), NEW f \in [Items -> ItemState],
         \A i \in Items : f[i] = "SUCCEEDED" => b.states[i] = "SUCCEEDED",
         \A i \in Items : f[i] = "READY" => i \in DOMAIN GraphOf(b)
  PROVE  Fit([b EXCEPT !.states = f]) /\ Backed([b EXCEPT !.states = f])
  BY DEF Fit, Backed, Body, GraphOf

LEMMA AdmittedIsGood ==
  ASSUME NEW b, Fit(b), Backed(b), NEW denied
  PROVE  /\ Fit([b EXCEPT !.states = Admitted(b, denied)])
         /\ Backed([b EXCEPT !.states = Admitted(b, denied)])
         /\ \A i \in Items : b.states[i] = "SUCCEEDED" => Admitted(b, denied)[i] = "SUCCEEDED"
<1>1. b.states \in [Items -> ItemState]
  BY DEF Fit, Body
<1>2. /\ Admitted(b, denied) \in [Items -> ItemState]
      /\ \A i \in Items : Admitted(b, denied)[i] = "SUCCEEDED" <=> b.states[i] = "SUCCEEDED"
      /\ \A i \in Items : Admitted(b, denied)[i] = "READY" =>
           i \in DOMAIN GraphOf(b) \/ b.states[i] = "READY"
  BY <1>1 DEF Admitted, ItemState
<1> QED
  BY <1>2, StatesAreGood DEF Fit

LEMMA RunningIsGood ==
  ASSUME NEW b, Fit(b), Backed(b), NEW t
  PROVE  LET f == [i \in Items |-> IF i = t THEN "RUNNING" ELSE b.states[i]] IN
         Fit([b EXCEPT !.states = f]) /\ Backed([b EXCEPT !.states = f])
<1>1. b.states \in [Items -> ItemState]
  BY DEF Fit, Body
<1> DEFINE f == [i \in Items |-> IF i = t THEN "RUNNING" ELSE b.states[i]]
<1>2. /\ f \in [Items -> ItemState]
      /\ \A i \in Items : f[i] \in {"SUCCEEDED", "READY"} => f[i] = b.states[i]
  BY <1>1 DEF ItemState
<1> QED
  BY <1>2, StatesAreGood DEF Fit

LEMMA SucceededIsGood ==
  ASSUME NEW b, Fit(b), Backed(b), NEW t \in Tasks, Verified(t)
  PROVE  Fit(Succeeded(b, t)) /\ Backed(Succeeded(b, t))
<1>1. CASE t = Final
  BY <1>1 DEF Succeeded, Fit, Backed, Body, GraphOf
<1>2. CASE t # Final
  BY <1>2 DEF Succeeded, Fit, Backed, Body, GraphOf, Tasks, ItemState
<1> QED
  BY <1>1, <1>2

LEMMA ReducedIsGood ==
  ASSUME NEW b, Fit(b), Backed(b), NEW t \in Tasks
  PROVE  Fit(Reduced(b, t)) /\ Backed(Reduced(b, t))
<1>1. CASE Accepted(t)
  BY <1>1, SucceededIsGood DEF Reduced, Accepted, Verified
<1>2. CASE ~Accepted(t) /\ t = Final
  BY <1>2 DEF Reduced
<1>3. CASE ~Accepted(t) /\ t # Final
  BY <1>3 DEF Reduced, Fit, Backed, Body, GraphOf, Tasks, ItemState
<1> QED
  BY <1>1, <1>2, <1>3

\* Bodies of good provenance: those there are now, and what a step makes of them.
GoodBodies ==
  /\ UNCHANGED plan
  /\ Fit(body') /\ Backed(body')
  /\ run' \in [Coordinators -> Body]
  /\ \A v \in Coordinators : Fit(run'[v]) /\ Backed(run'[v])

LEMMA Rewrites ==
  ASSUME BodyInv, NEW w \in Coordinators, NEW b, Fit(b), Backed(b),
         run' = [run EXCEPT ![w] = b], body' = body \/ body' = b, UNCHANGED plan
  PROVE  GoodBodies
<1>1. b \in Body
  BY DEF Fit
<1>2. run'[w] = b /\ \A v \in Coordinators \ {w} : run'[v] = run[v]
  BY DEF BodyInv
<1> QED
  BY <1>1, <1>2 DEF BodyInv, GoodBodies

LEMMA SameBodies ==
  ASSUME BodyInv, UNCHANGED <<plan, body, run>> PROVE GoodBodies
  BY DEF BodyInv, GoodBodies

LEMMA GoodCoordinator ==
  ASSUME BodyInv, NEW w \in Coordinators,
         \/ PinPolicy(w) \/ Reconciled(w) \/ Unresolved(w) \/ Confirm(w) \/ Complete(w)
         \/ Stop(w) \/ Chosen(w) \/ Dispatch(w) \/ BatchDone(w) \/ Catch(w) \/ Record(w)
         \/ Release(w) \/ CostUnknown(w) \/ Fail(w) \/ Heartbeat(w) \/ Crash(w)
         \/ \E pin \in BOOLEAN : Load(w, pin)
         \/ \E denied \in SUBSET Withheld : Loop(w, denied)
         \/ \E resume \in BOOLEAN : Claim(w, resume)
  PROVE  GoodBodies
<1>1. Fit(run[w]) /\ Backed(run[w]) /\ run[w] \in Body /\ run \in [Coordinators -> Body]
  BY DEF BodyInv
<1>2. run[w] = [run EXCEPT ![w] = run[w]][w] /\ [run EXCEPT ![w] = run[w]] = run
  BY <1>1
<1>3. CASE UNCHANGED <<plan, body, run>>
  BY <1>3, SameBodies
<1>4. ASSUME NEW s \in RunState,
             \/ run' = [run EXCEPT ![w] = [run[w] EXCEPT !.state = s]]
             \/ \E e \in BOOLEAN : run' = [run EXCEPT ![w] = [run[w] EXCEPT !.state = s, !.evidence = e]],
             body' = body \/ body' = run'[w], UNCHANGED plan
      PROVE  GoodBodies
  <2>1. CASE run' = [run EXCEPT ![w] = [run[w] EXCEPT !.state = s]]
    <3>1. PICK b : b = [run[w] EXCEPT !.state = s]
      OBVIOUS
    <3>2. Fit(b) /\ Backed(b)
      BY <1>1, <3>1, StateIsGood
    <3>3. run' = [run EXCEPT ![w] = b] /\ run'[w] = b
      BY <1>1, <2>1, <3>1
    <3> QED
      BY <1>4, <3>2, <3>3, Rewrites
  <2>2. ASSUME NEW e \in BOOLEAN,
               run' = [run EXCEPT ![w] = [run[w] EXCEPT !.state = s, !.evidence = e]]
        PROVE  GoodBodies
    <3>1. PICK b : b = [run[w] EXCEPT !.state = s, !.evidence = e]
      OBVIOUS
    <3>2. Fit(b) /\ Backed(b)
      BY <1>1, <3>1, StateIsGood
    <3>3. run' = [run EXCEPT ![w] = b] /\ run'[w] = b
      BY <1>1, <2>2, <3>1
    <3> QED
      BY <1>4, <3>2, <3>3, Rewrites
  <2> QED
    BY <1>4, <2>1, <2>2
<1>5. CASE run' = [run EXCEPT ![w] = run[w]] /\ body' \in {body, run[w]} /\ UNCHANGED plan
  BY <1>1, <1>5, Rewrites
<1> USE DEF Checked, Think, Save, SaveState, Transact, unsaved, row
<1>6. CASE Reconciled(w) \/ Confirm(w) \/ Chosen(w) \/ BatchDone(w) \/ CostUnknown(w) \/ Fail(w)
  BY <1>5, <1>6 DEF Reconciled, Confirm, Chosen, BatchDone, CostUnknown, Fail
<1>7. CASE PinPolicy(w) \/ Record(w)
  BY <1>5, <1>7 DEF PinPolicy, Record
<1>8. CASE Unresolved(w) \/ Complete(w) \/ Stop(w)
  BY <1>1, <1>4, <1>8 DEF Unresolved, Complete, Stop, RunState
<1>9. CASE Dispatch(w)
  <2>1. \E s \in {"VERIFYING", "RUNNING"} : SaveState(w, s, "reserving")
    BY <1>9 DEF Dispatch
  <2> QED
    BY <1>1, <1>4, <2>1 DEF RunState
<1>10. CASE Catch(w)
  <2>1. CASE w \in lost
    BY <1>5, <1>10, <2>1 DEF Catch
  <2>2. CASE w \notin lost
    <3>1. StateAfterError \in RunState /\ (run[w].evidence /\ ~plan.hybrid) \in BOOLEAN
      BY DEF StateAfterError, RunState
    <3>2. /\ run' = [run EXCEPT ![w] = [run[w] EXCEPT !.state = StateAfterError,
                                        !.evidence = run[w].evidence /\ ~plan.hybrid]]
          /\ UNCHANGED <<plan, body>>
      BY <1>10, <2>2 DEF Catch
    <3> QED
      BY <1>4, <3>1, <3>2
  <2> QED
    BY <2>1, <2>2
<1>11. CASE Release(w) \/ Crash(w)
  <2>1. run' = [run EXCEPT ![w] = NewRun] /\ UNCHANGED <<plan, body>>
    BY <1>11 DEF Release, Crash, Forget
  <2> QED
    BY <2>1, NewRunIsGood, Rewrites DEF BodyInv
<1>12. CASE Heartbeat(w) \/ \E resume \in BOOLEAN : Claim(w, resume)
  BY <1>3, <1>12 DEF Heartbeat, Claim
<1>13. CASE \E pin \in BOOLEAN : Load(w, pin)
  <2>1. run' = [run EXCEPT ![w] = body] /\ UNCHANGED <<plan, body>>
    BY <1>13 DEF Load
  <2>2. Fit(body) /\ Backed(body)
    BY DEF BodyInv
  <2> QED
    BY <2>1, <2>2, Rewrites
<1>14. CASE \E denied \in SUBSET Withheld : Loop(w, denied)
  <2>1. PICK denied \in SUBSET Withheld : Loop(w, denied)
    BY <1>14
  <2>2. /\ UNCHANGED <<plan, body>>
        /\ \/ run' = [run EXCEPT ![w] = run[w]]
           \/ run' = [run EXCEPT ![w] = [run[w] EXCEPT !.states = Admitted(run[w], denied)]]
    BY <2>1 DEF Loop
  <2> QED
    BY <1>1, <1>5, <2>2, AdmittedIsGood, Rewrites
<1> QED
  BY <1>6, <1>7, <1>8, <1>9, <1>10, <1>11, <1>12, <1>13, <1>14

LEMMA FinishIsGood ==
  ASSUME BodyInv, NEW w \in Coordinators, NEW t \in Tasks, NEW b, NEW status, NEW next,
         Fit(b), Backed(b), Finish(w, t, b, status, next)
  PROVE  GoodBodies
<1>1. run' = [run EXCEPT ![w] = b] /\ (body' = body \/ body' = b) /\ UNCHANGED plan
  BY DEF Finish, Transact, unsaved
<1> QED
  BY <1>1, Rewrites

LEMMA GoodAttempt ==
  ASSUME LaunchInv, BodyInv, NEW w \in Coordinators,
         Reserve(w) \/ Reduce(w) \/ \E t \in Tasks : ReconcileOne(w, t)
  PROVE  GoodBodies
<1>1. Fit(run[w]) /\ Backed(run[w]) /\ run[w] \in Body /\ run \in [Coordinators -> Body]
  BY DEF BodyInv
<1>2. ASSUME Checked(w, TRUE, "unresolved") \/ Checked(w, FALSE, "failed") PROVE GoodBodies
  <2>1. run' = [run EXCEPT ![w] = run[w]] /\ body' = body /\ UNCHANGED plan
    BY <1>2 DEF Checked, Think, row
  <2> QED
    BY <1>1, <2>1, Rewrites
<1>3. CASE Reserve(w)
  <2>1. CASE Checked(w, FALSE, "failed")
    BY <1>2, <2>1
  <2>2. CASE ~Checked(w, FALSE, "failed")
    <3>1. PICK t \in Tasks :
            /\ run' = [run EXCEPT ![w].states =
                         [i \in Items |-> IF i = t THEN "RUNNING" ELSE @[i]]]
            /\ UNCHANGED <<plan, row>>
      BY <1>3, <2>2 DEF Reserve
    <3>2. PICK b : b = [run[w] EXCEPT !.states =
                          [i \in Items |-> IF i = t THEN "RUNNING" ELSE run[w].states[i]]]
      OBVIOUS
    <3>3. Fit(b) /\ Backed(b)
      BY <1>1, <3>2, RunningIsGood
    <3>4. run' = [run EXCEPT ![w] = b]
      BY <1>1, <3>1, <3>2
    <3> QED
      BY <3>1, <3>3, <3>4, Rewrites DEF row
  <2> QED
    BY <2>1, <2>2
<1>4. CASE Reduce(w)
  <2>1. PICK t \in Tasks : t = Head(batch[w])
    <3>1. batch[w] \in Seq(Tasks) /\ batch[w] # <<>>
      BY <1>4 DEF LaunchInv, Typed, Reduce
    <3> QED
      BY <3>1
  <2>2. PICK status \in {"SUCCEEDED", "FAILED"} :
          Finish(w, t, Reduced(run[w], t), status, "waiting")
    BY <1>4, <2>1 DEF Reduce
  <2>3. Fit(Reduced(run[w], t)) /\ Backed(Reduced(run[w], t))
    BY <1>1, ReducedIsGood
  <2> QED
    BY <2>2, <2>3, FinishIsGood
<1>5. ASSUME NEW t \in Tasks, ReconcileOne(w, t) PROVE GoodBodies
  <2>1. CASE Confirmed(t)
    <3>1. Finish(w, t, Succeeded(run[w], t), "SUCCEEDED", "reconciling")
      BY <1>5, <2>1 DEF ReconcileOne
    <3>2. Fit(Succeeded(run[w], t)) /\ Backed(Succeeded(run[w], t))
      BY <1>1, <2>1, SucceededIsGood DEF Confirmed, Verified
    <3> QED
      BY <3>1, <3>2, FinishIsGood
  <2>2. CASE ~Confirmed(t)
    BY <1>2, <1>5, <2>2 DEF ReconcileOne
  <2> QED
    BY <2>1, <2>2
<1> QED
  BY <1>3, <1>4, <1>5

LEMMA GoodRevision == ASSUME BodyInv, Revise PROVE GoodBodies
<1>1. PICK r \in Nat : r = body.revision
  BY DEF BodyInv, Fit, Body
<1>2. /\ r \in DOMAIN plan.graphs /\ r + 1 \in DOMAIN plan.graphs
      /\ DOMAIN plan.graphs[r] \subseteq DOMAIN plan.graphs[r + 1]
  <2>1. r < Len(plan.graphs)
    BY <1>1 DEF Revise
  <2>2. /\ Len(plan.graphs) \in Nat \ {0} /\ DOMAIN plan.graphs = 1..Len(plan.graphs)
        /\ \A n \in DOMAIN plan.graphs :
             n > 1 => DOMAIN plan.graphs[n - 1] \subseteq DOMAIN plan.graphs[n]
    BY WorkflowAssumption DEF BodyInv
  <2>3. r \in 1..Len(plan.graphs)
    BY <1>1, <2>2 DEF BodyInv, Fit
  <2>4. r + 1 \in DOMAIN plan.graphs /\ r + 1 > 1 /\ (r + 1) - 1 = r
    BY <2>1, <2>2, <2>3
  <2> QED
    BY <2>2, <2>3, <2>4
<1>3. PICK b : b = [body EXCEPT !.revision = r + 1, !.state = "WAITING_APPROVAL"]
  OBVIOUS
<1>4. body' = b /\ UNCHANGED <<plan, run>>
  BY <1>1, <1>3 DEF Revise, coordinator
<1>5. body \in Body /\ \A i \in Items : body.states[i] = "READY" => i \in DOMAIN GraphOf(body)
  BY DEF BodyInv, Fit
<1>6. b \in Body /\ b.revision = r + 1 /\ b.states = body.states /\ b.final = body.final
  <2>1. r + 1 \in Nat /\ "WAITING_APPROVAL" \in RunState
    BY <1>1 DEF RunState
  <2> QED
    BY <1>3, <1>5, <2>1 DEF Body
<1>7. Fit(b) /\ Backed(b)
  BY <1>1, <1>2, <1>5, <1>6 DEF Fit, Backed, GraphOf, BodyInv
<1> QED
  BY <1>4, <1>7 DEF BodyInv, GoodBodies

LEMMA GoodOperator ==
  ASSUME BodyInv,
         \/ Approve \/ Revise \/ Tamper \/ LeaseExpires
         \/ \E gone \in SUBSET approved : Withdraw(gone)
         \/ \E c \in Requests : Control(c)
         \/ \E t \in Tasks : ChildRuns(t)
         \/ UNCHANGED vars
  PROVE  GoodBodies
<1>1. Fit(body) /\ Backed(body)
  BY DEF BodyInv
<1>2. CASE \/ Tamper \/ LeaseExpires \/ UNCHANGED vars
           \/ \E gone \in SUBSET approved : Withdraw(gone)
           \/ \E t \in Tasks : ChildRuns(t)
  BY <1>2, SameBodies DEF Tamper, LeaseExpires, Withdraw, vars, row, coordinator, ChildRuns,
     ChildEnter, ChildClear, ChildCall, ChildJudge, ChildCommit, ChildFail, ChildStep
<1>3. ASSUME NEW s \in RunState, body' = body \/ body' = [body EXCEPT !.state = s],
             UNCHANGED <<plan, run>>
      PROVE  GoodBodies
  <2>1. Fit([body EXCEPT !.state = s]) /\ Backed([body EXCEPT !.state = s])
    BY <1>1, StateIsGood
  <2> QED
    BY <1>1, <1>3, <2>1 DEF BodyInv, GoodBodies
<1>4. CASE Approve \/ \E c \in Requests : Control(c)
  <2>1. \E s \in {"READY", "CANCELLED"} : body' = body \/ body' = [body EXCEPT !.state = s]
    BY <1>4 DEF Approve, Control
  <2>2. UNCHANGED <<plan, run>>
    BY <1>4 DEF Approve, Control, coordinator
  <2> QED
    BY <1>3, <2>1, <2>2 DEF RunState
<1> QED
  BY <1>2, <1>4, GoodRevision

LEMMA NextGood == ASSUME LaunchInv, BodyInv, [Next]_vars PROVE GoodBodies
<1>1. ASSUME NEW w \in Coordinators, Proceed(w) PROVE GoodBodies
  BY <1>1, GoodCoordinator, GoodAttempt DEF Proceed
<1>2. ASSUME NEW w \in Coordinators,
             \/ CostUnknown(w) \/ Fail(w) \/ Heartbeat(w) \/ Crash(w)
             \/ \E resume \in BOOLEAN : Claim(w, resume)
      PROVE  GoodBodies
  BY <1>2, GoodCoordinator
<1> QED
  BY <1>1, <1>2, GoodOperator DEF Next

LEMMA InitBody == Init => BodyInv
  BY NewRunIsGood DEF Init, BodyInv, Fit

LEMMA BodyStep == ASSUME LaunchInv, BodyInv, [Next]_vars PROVE BodyInv'
<1>1. GoodBodies /\ ChildrenKept
  BY NextGood, KeepsChildren
<1>2. ASSUME NEW b, Fit(b), Backed(b) PROVE Fit(b)' /\ Backed(b)'
  BY <1>1, <1>2 DEF GoodBodies, ChildrenKept, Fit, Backed, GraphOf, Tasks
<1>3. Fit(body)' /\ Backed(body)'
  <2>1. PICK b : b = body'
    OBVIOUS
  <2> QED
    BY <1>1, <1>2, <2>1 DEF GoodBodies, Fit, Backed, GraphOf
<1>4. ASSUME NEW w \in Coordinators PROVE Fit(run[w])' /\ Backed(run[w])'
  <2>1. PICK b : b = run'[w]
    OBVIOUS
  <2> QED
    BY <1>1, <1>2, <2>1 DEF GoodBodies, Fit, Backed, GraphOf
<1> QED
  BY <1>1, <1>3, <1>4 DEF GoodBodies, BodyInv

LEMMA BodyAlways == Spec => []BodyInv
<1>1. LaunchInv /\ BodyInv /\ [Next]_vars => BodyInv'
  BY BodyStep
<1> QED
  BY <1>1, InitBody, LaunchAlways, PTL DEF Spec, Safety

-----------------------------------------------------------------------------
(* What a launch waited for                                                 *)

\* Everything an attempt depends on in the graph of its own revision.
Needs(t) ==
  LET g == plan.graphs[child[t].revision] IN IF t = Final THEN DOMAIN g ELSE g[t]

NeedsInv ==
  \A t \in Tasks : attempts[t] # "none" => \A d \in Needs(t) : d \in Items /\ Verified(d)

LEMMA NeedsStep == ASSUME LaunchInv, BodyInv, NeedsInv, [Next]_vars PROVE NeedsInv'
<1>1. ChildrenKept /\ AttemptMoves
  BY KeepsChildren, MovesOfSteps
<1>2. ASSUME NEW t \in Tasks, attempts[t] # "none",
             NEW d \in Needs(t)'
      PROVE  d \in Items /\ Verified(d)'
  <2>1. Needs(t)' = Needs(t)
    BY <1>1, <1>2 DEF ChildrenKept, AttemptMoves, Needs
  <2> QED
    BY <1>1, <1>2, <2>1 DEF NeedsInv, ChildrenKept, Tasks
<1>3. ASSUME NEW w \in Coordinators, NEW t \in Tasks, Taken(w, t), NEW d \in Needs(t)'
      PROVE  d \in Items /\ Verified(d)'
  <2>1. child'[t].revision = run[w].revision /\ UNCHANGED plan
    BY <1>3 DEF Taken, LaunchInv, Typed
  <2>2. PICK g : g = plan.graphs[run[w].revision] /\ g = GraphOf(run[w])
    BY DEF GraphOf
  <2>3. /\ DOMAIN g \subseteq Items /\ \A i \in DOMAIN g : g[i] \subseteq DOMAIN g
    <3>1. plan \in Plans /\ run[w].revision \in DOMAIN plan.graphs
      BY DEF BodyInv, Fit
    <3>2. \A r \in DOMAIN plan.graphs :
            /\ DOMAIN plan.graphs[r] \subseteq Items
            /\ \A i \in DOMAIN plan.graphs[r] : plan.graphs[r][i] \subseteq DOMAIN plan.graphs[r]
      BY <3>1, WorkflowAssumption
    <3> QED
      BY <2>2, <3>1, <3>2
  <2>4. CASE t = Final
    <3>1. d \in DOMAIN g
      BY <1>3, <2>1, <2>2, <2>4 DEF Needs
    <3>2. run[w].states[d] = "SUCCEEDED"
      BY <1>3, <2>2, <2>4, <3>1 DEF Taken, Reservable, Integrable
    <3> QED
      BY <1>1, <2>3, <3>1, <3>2 DEF BodyInv, Backed, ChildrenKept, Tasks
  <2>5. CASE t # Final
    <3>1. run[w].states[t] = "READY" /\ DependenciesMet(run[w], t)
      BY <1>3, <2>5 DEF Taken, Reservable
    <3>2. t \in DOMAIN g
      BY <2>2, <2>5, <3>1 DEF BodyInv, Fit, Tasks
    <3>3. d \in g[t]
      BY <1>3, <2>1, <2>2, <2>5 DEF Needs
    <3>4. d \in Items /\ run[w].states[d] = "SUCCEEDED"
      BY <2>2, <2>3, <3>1, <3>2, <3>3 DEF DependenciesMet
    <3> QED
      BY <1>1, <3>4 DEF BodyInv, Backed, ChildrenKept, Tasks
  <2> QED
    BY <2>4, <2>5
<1>4. ASSUME NEW t \in Tasks, attempts[t] = "none", attempts'[t] # "none"
      PROVE  \E w \in Coordinators : Taken(w, t)
  <2>1. attempts \in [Tasks -> AttemptState]
    BY DEF LaunchInv, Typed
  <2>2. PICK u \in Tasks : Reserved(u) \/ Settled(u)
    BY <1>1, <1>4 DEF AttemptMoves, Launched
  <2>3. u = t
    BY <1>4, <2>1, <2>2 DEF Reserved, Settled
  <2> QED
    BY <1>4, <2>2, <2>3 DEF Reserved, Settled
<1> QED
  BY <1>2, <1>3, <1>4 DEF NeedsInv

\* A child is launched only when everything that it depends on in the graph of its own
\* revision is verified, the integration only when all items are (reserve of
\* controller.mjs, dependenciesMet of workflow/definition.mjs): whatever coordinator
\* reserved it, and whatever was revised, revoked or lost since.
THEOREM LaunchOrder == Spec => []DependencyOrder
<1>1. Init => NeedsInv
  BY DEF Init, NeedsInv
<1>2. LaunchInv /\ BodyInv /\ NeedsInv /\ [Next]_vars => NeedsInv'
  BY NeedsStep
<1>3. LaunchInv /\ NeedsInv => DependencyOrder
  <2> SUFFICES ASSUME LaunchInv, NeedsInv, NEW t \in Tasks, launches[t] > 0
               PROVE  \A d \in Needs(t) : Verified(d)
    BY DEF DependencyOrder, Needs
  <2>1. attempts[t] # "none"
    BY DEF LaunchInv, ChildFits, Fresh
  <2> QED
    BY <2>1 DEF NeedsInv
<1> QED
  BY <1>1, <1>2, <1>3, LaunchAlways, BodyAlways, PTL DEF Spec, Safety

-----------------------------------------------------------------------------
(* What the owner of the row knows                                          *)

Owns(w) == owner = token[w] /\ owner # NoGrant
Entered(w) == pc[w] \notin {"idle", "claimed"}
Between == {"loop", "choosing", "dispatching", "confirming", "completing"}

\* c has succeeded wherever b has.
Extends(b, c) ==
  /\ c.revision = b.revision
  /\ \A i \in Items : b.states[i] = "SUCCEEDED" => c.states[i] = "SUCCEEDED"
  /\ b.final => c.final

\* Its copy is the row's body or ahead of it, and between two batches nothing of
\* the workflow is started: what is belongs to its own batch.
OwnerFits(w) ==
  Owns(w) =>
    /\ Entered(w) => Extends(body, run[w])
    /\ Entered(w) /\ body.state = "COMPLETED" /\ pc[w] # "done" => plan.hybrid /\ tampered
    /\ pc[w] \in Between => Started = {}
    /\ pc[w] \in {"reserving", "waiting"} => Started \subseteq Range(batch[w])
    /\ pc[w] = "reserving" => Extends(run[w], body)
    /\ pc[w] \in {"confirming", "completing"} => run[w].final

OwnerInv ==
  /\ owner \in Nat /\ owner <= issued
  /\ \A w \in Coordinators : OwnerFits(w)
  /\ \A w \in Coordinators : run[w].state = "COMPLETED" => pc[w] \in {"done", "failed"}

\* What holds of the row: the integration was begun with every item succeeded, a failed
\* attempt committed nothing, and a completed workflow has nothing left open.
RowInv ==
  /\ attempts[Final] # "none" => Integrable(body)
  /\ \A t \in Tasks : attempts[t] = "FAILED" => childPc[t] = "ended" /\ ~Verified(t)
  /\ body.state = "COMPLETED" =>
       body.final /\ \A t \in DOMAIN GraphOf(body) \cup {Final} : attempts[t] = "SUCCEEDED"

\* What a step of executeWorkflow does between its entry and its end, seen from the row.
Continues(w) ==
  /\ Entered(w) /\ pc[w] # "done" /\ pc'[w] \notin {"idle", "claimed"}
  /\ UNCHANGED <<plan, tampered, owner, token, issued>>
  /\ \A v \in Coordinators \ {w} :
       pc'[v] = pc[v] /\ run'[v] = run[v] /\ batch'[v] = batch[v]
  /\ Extends(run[w], run'[w])
  /\ body' = body \/ (Fenced(w) /\ body' = run'[w])
  /\ attempts' = attempts \/ Fenced(w)
  /\ run'[w].state = "COMPLETED" => pc'[w] \in {"done", "failed"}
  /\ body' = run'[w] /\ body'.state = "COMPLETED" =>
       body' = body \/ (pc[w] = "completing" /\ pc'[w] = "done" /\ attempts' = attempts
                        /\ Extends(run'[w], run[w]))

\* ... and from its own labels.
LabelFits(w) ==
  /\ pc'[w] \in Between =>
       /\ attempts' = attempts
       /\ pc[w] \in Between \/ Started = {} \/ (pc[w] = "waiting" /\ batch[w] = <<>>)
  /\ pc'[w] \in {"confirming", "completing"} =>
       run'[w].final \/ (pc[w] = "confirming" /\ run'[w] = run[w])
  /\ pc'[w] = "reserving" =>
       \/ (pc[w] = "dispatching" /\ body' = run'[w] /\ attempts' = attempts)
       \/ (/\ pc[w] = "reserving" /\ body' = body /\ Extends(run'[w], run[w])
           /\ \E t \in Tasks : Taken(w, t))
  /\ pc'[w] = "waiting" =>
       \/ (pc[w] = "reserving" /\ \E t \in Tasks : Taken(w, t))
       \/ (/\ pc[w] = "waiting"
           /\ Started \subseteq Range(batch[w]) => Started' \subseteq Range(batch'[w]))

LEMMA ExtendsItself == ASSUME NEW b PROVE Extends(b, b)
  BY DEF Extends

LEMMA ExtendsState ==
  ASSUME NEW b \in Body, NEW s, NEW e
  PROVE  LET c == [b EXCEPT !.state = s]  d == [b EXCEPT !.state = s, !.evidence = e] IN
         /\ Extends(b, c) /\ Extends(c, b) /\ Extends(b, d) /\ Extends(d, b)
         /\ c.state = s /\ d.state = s
  BY DEF Extends, Body

\* A step in memory, and a save of it.
LEMMA ThinkContinues ==
  ASSUME LaunchInv, BodyInv, OwnerInv, NEW w \in Coordinators, NEW b, NEW label \in Labels,
         Extends(run[w], b), b.state = "COMPLETED" => label \in {"failed", "done"},
         Entered(w), pc[w] # "done", label \notin {"idle", "claimed"},
         Think(w, b, label), UNCHANGED batch
  PROVE  Continues(w) /\ pc'[w] = label /\ run'[w] = b /\ UNCHANGED <<body, attempts>>
<1>1. /\ pc' = [pc EXCEPT ![w] = label] /\ run' = [run EXCEPT ![w] = b]
      /\ UNCHANGED <<plan, body, tampered, owner, token, issued, attempts>>
  BY DEF Think, Goto, row, tasks
<1>2. /\ pc'[w] = label /\ run'[w] = b
      /\ \A v \in Coordinators \ {w} : pc'[v] = pc[v] /\ run'[v] = run[v]
  BY <1>1 DEF LaunchInv, Typed, BodyInv
<1> QED
  BY <1>1, <1>2 DEF Continues, Extends

LEMMA SaveContinues ==
  ASSUME LaunchInv, BodyInv, OwnerInv, NEW w \in Coordinators, NEW b,
         NEW next \in Labels, NEW onError \in {"failed", "done"},
         Extends(run[w], b), b.state = "COMPLETED" =>
           next = "done" /\ pc[w] = "completing" /\ Extends(b, run[w]),
         Entered(w), pc[w] # "done", next \notin {"idle", "claimed"},
         Save(w, b, next, onError)
  PROVE  /\ Continues(w) /\ run'[w] = b /\ UNCHANGED <<attempts, batch>>
         /\ \/ pc'[w] = next /\ body' = b
            \/ pc'[w] = onError /\ body' = body
<1>1. /\ run' = [run EXCEPT ![w] = b]
      /\ UNCHANGED <<plan, tampered, owner, token, issued, attempts, batch>>
      /\ \/ pc' = [pc EXCEPT ![w] = next] /\ body' = b /\ Fenced(w)
         \/ pc' = [pc EXCEPT ![w] = onError] /\ body' = body
  BY DEF Save, Transact, Goto, unsaved, tasks
<1>2. /\ run'[w] = b
      /\ \/ pc'[w] = next /\ body' = b /\ Fenced(w)
         \/ pc'[w] = onError /\ body' = body
      /\ \A v \in Coordinators \ {w} : pc'[v] = pc[v] /\ run'[v] = run[v]
  BY <1>1 DEF LaunchInv, Typed, BodyInv
<1> QED
  BY <1>1, <1>2 DEF Continues, Extends

LEMMA SaveStateContinues ==
  ASSUME LaunchInv, BodyInv, OwnerInv, NEW w \in Coordinators, NEW s \in RunState,
         NEW next \in Labels, s = "COMPLETED" => next = "done" /\ pc[w] = "completing",
         Entered(w), pc[w] # "done", next \notin {"idle", "claimed"},
         SaveState(w, s, next)
  PROVE  /\ Continues(w) /\ UNCHANGED <<attempts, batch>>
         /\ \/ pc'[w] = next /\ body' = run'[w]
            \/ pc'[w] = "failed" /\ body' = body
<1>1. run[w] \in Body
  BY DEF BodyInv
<1>2. PICK b : b = [run[w] EXCEPT !.state = s]
  OBVIOUS
<1>3. Extends(run[w], b) /\ Extends(b, run[w]) /\ b.state = s
  BY <1>1, <1>2, ExtendsState
<1>4. Save(w, b, next, "failed")
  BY <1>2 DEF SaveState
<1> QED
  BY <1>3, <1>4, SaveContinues

LEMMA CheckedContinues ==
  ASSUME LaunchInv, BodyInv, OwnerInv, NEW w \in Coordinators, NEW ok \in BOOLEAN,
         NEW next \in Labels \ {"idle", "claimed"},
         Entered(w), pc[w] \notin {"done", "failed"}, Checked(w, ok, next)
  PROVE  /\ Continues(w) /\ UNCHANGED <<body, attempts, batch>> /\ run'[w] = run[w]
         /\ pc'[w] = next \/ pc'[w] = "failed"
<1>1. run[w].state # "COMPLETED" /\ Extends(run[w], run[w])
  BY ExtendsItself DEF OwnerInv
<1>2. PICK label \in {next, "failed"} : Think(w, run[w], label) /\ UNCHANGED batch
  BY DEF Checked
<1>3. label \in Labels /\ label \notin {"idle", "claimed"}
  BY DEF Labels
<1> QED
  BY <1>1, <1>2, <1>3, ThinkContinues

\* The steps that only move on.
LEMMA PlainSteps ==
  ASSUME LaunchInv, BodyInv, OwnerInv, NEW w \in Coordinators,
         \/ Reconciled(w) \/ Confirm(w) \/ Chosen(w) \/ BatchDone(w) \/ CostUnknown(w)
         \/ Fail(w) \/ PinPolicy(w) \/ Unresolved(w) \/ Complete(w) \/ Stop(w) \/ Dispatch(w)
         \/ Record(w) \/ Catch(w)
  PROVE  Continues(w) /\ LabelFits(w)
<1> USE DEF Labels, Awaits, Entered
<1>1. run[w] \in Body /\ Extends(run[w], run[w])
      /\ (run[w].state = "COMPLETED" => pc[w] \in {"done", "failed"})
  BY ExtendsItself DEF BodyInv, OwnerInv
<1>2. CASE Reconciled(w)
  <2>1. pc[w] = "reconciling" /\ Started = {} /\ \E ok \in BOOLEAN : Checked(w, ok, "loop")
    BY <1>2 DEF Reconciled
  <2> QED
    BY <2>1, CheckedContinues DEF LabelFits, Between
<1>3. CASE Confirm(w)
  <2>1. pc[w] = "confirming" /\ \E ok \in BOOLEAN : Checked(w, ok, "completing")
    BY <1>3 DEF Confirm, Guard
  <2> QED
    BY <2>1, CheckedContinues DEF LabelFits, Between
<1>4. CASE Chosen(w)
  <2>1. pc[w] = "choosing" /\ \E ok \in BOOLEAN : Checked(w, ok, "dispatching")
    BY <1>4 DEF Chosen, Guard
  <2> QED
    BY <2>1, CheckedContinues DEF LabelFits, Between
<1>5. CASE BatchDone(w)
  <2>1. pc[w] = "waiting" /\ batch[w] = <<>>
        /\ \E ok \in BOOLEAN, next \in {"stopping", "loop"} : Checked(w, ok, next)
    BY <1>5 DEF BatchDone, AllSettled, Guard
  <2> QED
    BY <2>1, CheckedContinues DEF LabelFits, Between
<1>6. CASE CostUnknown(w)
  <2>1. pc[w] = "loop" /\ \E ok \in BOOLEAN : Checked(w, ok, "stopping")
    BY <1>6 DEF CostUnknown, Guard
  <2> QED
    BY <2>1, CheckedContinues DEF LabelFits, Between
<1>7. CASE Fail(w)
  <2>1. /\ pc[w] \in {"reconciling", "loop", "choosing", "confirming", "reserving"}
        /\ \E ok \in BOOLEAN : Checked(w, ok, "failed")
    BY <1>7 DEF Fail
  <2> QED
    BY <2>1, CheckedContinues DEF LabelFits, Between
<1>8. CASE PinPolicy(w)
  <2>1. pc[w] = "pinning" /\ (Save(w, run[w], "reconciling", "failed") \/ Checked(w, FALSE, "failed"))
    BY <1>8 DEF PinPolicy
  <2>2. CASE Save(w, run[w], "reconciling", "failed")
    <3>1. PICK b : b = run[w]
      OBVIOUS
    <3> QED
      BY <1>1, <2>1, <2>2, <3>1, SaveContinues DEF LabelFits, Between
  <2>3. CASE Checked(w, FALSE, "failed")
    <3>1. \E ok \in BOOLEAN : Checked(w, ok, "failed")
      BY <2>3
    <3> QED
      BY <2>1, <3>1, CheckedContinues DEF LabelFits, Between
  <2> QED
    BY <2>1, <2>2, <2>3
<1>9. CASE Unresolved(w)
  <2>1. pc[w] = "unresolved" /\ SaveState(w, "RECONCILING", "done") /\ "RECONCILING" \in RunState
    BY <1>9 DEF Unresolved, RunState
  <2> QED
    BY <2>1, SaveStateContinues DEF LabelFits, Between
<1>10. CASE Complete(w)
  <2>1. pc[w] = "completing" /\ SaveState(w, "COMPLETED", "done") /\ "COMPLETED" \in RunState
    BY <1>10 DEF Complete, RunState
  <2> QED
    BY <2>1, SaveStateContinues DEF LabelFits, Between
<1>11. CASE Stop(w)
  <2>1. pc[w] = "stopping" /\ SaveState(w, "WAITING_HUMAN", "done") /\ "WAITING_HUMAN" \in RunState
    BY <1>11 DEF Stop, RunState
  <2> QED
    BY <2>1, SaveStateContinues DEF LabelFits, Between
<1>12. CASE Dispatch(w)
  <2>1. pc[w] = "dispatching" /\ \E s \in {"VERIFYING", "RUNNING"} : SaveState(w, s, "reserving")
    BY <1>12 DEF Dispatch
  <2> QED
    BY <2>1, SaveStateContinues DEF LabelFits, Between, RunState
<1>13. CASE Record(w)
  <2>1. pc[w] = "recording" /\ Save(w, run[w], "done", "done")
    BY <1>13 DEF Record
  <2> QED
    BY <1>1, <2>1, SaveContinues DEF LabelFits, Between
<1>14. CASE Catch(w)
  <2>1. pc[w] = "failed"
    BY <1>14 DEF Catch
  <2>2. CASE w \in lost
    <3>1. Think(w, run[w], "done") /\ UNCHANGED batch
      BY <1>14, <2>2 DEF Catch, Checked
    <3> QED
      BY <1>1, <2>1, <3>1, ThinkContinues DEF LabelFits, Between
  <2>3. CASE w \notin lost
    <3>0. PICK e : e = (run[w].evidence /\ ~plan.hybrid)
      OBVIOUS
    <3>0a. PICK st : st = StateAfterError
      OBVIOUS
    <3>1. PICK b : b = [run[w] EXCEPT !.state = st, !.evidence = e]
      OBVIOUS
    <3>2. Think(w, b, "recording") /\ UNCHANGED batch
      BY <1>14, <2>3, <3>0, <3>0a, <3>1 DEF Catch
    <3>3. Extends(run[w], b) /\ b.state # "COMPLETED"
      <4>1. st # "COMPLETED"
        BY <3>0a DEF StateAfterError
      <4> QED
        BY <1>1, <3>1, <4>1, ExtendsState
    <3> QED
      BY <2>1, <3>2, <3>3, ThinkContinues DEF LabelFits, Between
  <2> QED
    BY <2>2, <2>3
<1> QED
  BY <1>2, <1>3, <1>4, <1>5, <1>6, <1>7, <1>8, <1>9, <1>10, <1>11, <1>12, <1>13, <1>14

LEMMA LoopStep ==
  ASSUME LaunchInv, BodyInv, OwnerInv, NEW w \in Coordinators, NEW denied, Loop(w, denied)
  PROVE  Continues(w) /\ LabelFits(w)
<1> USE DEF Labels, Awaits, Entered, Between
<1>1. /\ run[w] \in Body /\ Fit(run[w]) /\ Backed(run[w]) /\ pc[w] = "loop"
      /\ run[w].state # "COMPLETED"
  BY DEF BodyInv, OwnerInv, Loop
<1>2. PICK b : b = [run[w] EXCEPT !.states = Admitted(run[w], denied)]
  OBVIOUS
<1>3. Extends(run[w], b) /\ b.state # "COMPLETED"
  BY <1>1, <1>2, AdmittedIsGood DEF Extends, Body
<1>4. CASE \E ok \in BOOLEAN : Checked(w, ok, "failed")
  BY <1>1, <1>4, CheckedContinues DEF LabelFits
<1>5. CASE run[w].final /\ \E ok \in BOOLEAN : Checked(w, ok, "confirming")
  BY <1>1, <1>5, CheckedContinues DEF LabelFits
<1>6. CASE \E label \in {"stopping", "choosing"} : Think(w, b, label) /\ UNCHANGED batch
  BY <1>1, <1>3, <1>6, ThinkContinues DEF LabelFits
<1>7. \/ \E ok \in BOOLEAN : Checked(w, ok, "failed")
      \/ run[w].final /\ \E ok \in BOOLEAN : Checked(w, ok, "confirming")
      \/ \E label \in {"stopping", "choosing"} : Think(w, b, label) /\ UNCHANGED batch
  BY <1>2 DEF Loop, WhenBlocked, Confirmed
<1> QED
  BY <1>4, <1>5, <1>6, <1>7

LEMMA HeartbeatContinues ==
  ASSUME LaunchInv, BodyInv, OwnerInv, NEW w \in Coordinators, Heartbeat(w)
  PROVE  Continues(w) /\ LabelFits(w)
<1>1. /\ UNCHANGED <<plan, body, owner, token, issued, tampered, pc, run, batch, attempts>>
      /\ pc[w] \in Awaits
  BY DEF Heartbeat, row
<1>2. Started' = Started
  BY <1>1 DEF Started
<1>3. run[w].state # "COMPLETED" /\ Extends(run[w], run[w])
  BY <1>1, ExtendsItself DEF OwnerInv, Awaits
<1> QED
  BY <1>1, <1>2, <1>3 DEF Continues, LabelFits, Entered, Between, Awaits

LEMMA FinishContinues ==
  ASSUME LaunchInv, BodyInv, OwnerInv, NEW w \in Coordinators, NEW t \in Tasks,
         NEW b, NEW status \in {"SUCCEEDED", "FAILED"}, NEW next \in {"reconciling", "waiting"},
         Extends(run[w], b), b.state # "COMPLETED", pc[w] = next,
         Finish(w, t, b, status, next),
         \A v \in Coordinators \ {w} : batch'[v] = batch[v]
  PROVE  /\ Continues(w)
         /\ \/ pc'[w] = next /\ Started' = Started \ {t}
            \/ pc'[w] = "failed"
<1>1. /\ run' = [run EXCEPT ![w] = b]
      /\ UNCHANGED <<plan, tampered, owner, token, issued>>
      /\ \/ pc' = [pc EXCEPT ![w] = next] /\ body' = b /\ Fenced(w) /\ attempts[t] = "STARTED"
         \/ pc' = [pc EXCEPT ![w] = "failed"] /\ body' = body
      /\ attempts' = IF pc'[w] = next THEN [attempts EXCEPT ![t] = status] ELSE attempts
  BY DEF Finish, Transact, Goto, unsaved
<1>2. /\ run'[w] = b
      /\ \/ (pc'[w] = next /\ body' = b /\ Fenced(w) /\ attempts' = [attempts EXCEPT ![t] = status])
         \/ (pc'[w] = "failed" /\ body' = body /\ attempts' = attempts)
      /\ \A v \in Coordinators \ {w} : pc'[v] = pc[v] /\ run'[v] = run[v]
  BY <1>1 DEF LaunchInv, Typed, BodyInv
<1>3. attempts' = [attempts EXCEPT ![t] = status] => Started' = Started \ {t}
  BY DEF LaunchInv, Typed, Started
<1> QED
  BY <1>1, <1>2, <1>3 DEF Continues, Entered

LEMMA ReconcileContinues ==
  ASSUME LaunchInv, BodyInv, OwnerInv, NEW w \in Coordinators, NEW t \in Tasks,
         ReconcileOne(w, t)
  PROVE  Continues(w) /\ LabelFits(w)
<1>1. /\ pc[w] = "reconciling" /\ run[w] \in Body /\ run[w].state # "COMPLETED"
  BY DEF ReconcileOne, BodyInv, OwnerInv
<1>2. CASE Confirmed(t)
  <2>1. PICK b : b = Succeeded(run[w], t)
    OBVIOUS
  <2>2. Extends(run[w], b) /\ b.state # "COMPLETED"
    BY <1>1, <2>1 DEF Succeeded, Extends, Body
  <2>3. Finish(w, t, b, "SUCCEEDED", "reconciling") /\ UNCHANGED batch
    BY <1>2, <2>1 DEF ReconcileOne
  <2> QED
    BY <1>1, <2>2, <2>3, FinishContinues DEF LabelFits, Between
<1>3. CASE ~Confirmed(t)
  <2>1. \E ok \in BOOLEAN : Checked(w, ok, "unresolved")
    BY <1>3 DEF ReconcileOne
  <2> QED
    BY <1>1, <2>1, CheckedContinues DEF LabelFits, Between, Entered, Labels
<1> QED
  BY <1>2, <1>3

LEMMA ReduceContinues ==
  ASSUME LaunchInv, BodyInv, OwnerInv, NEW w \in Coordinators, Reduce(w)
  PROVE  Continues(w) /\ LabelFits(w)
<1>1. /\ pc[w] = "waiting" /\ run[w] \in Body /\ run[w].state # "COMPLETED" /\ Backed(run[w])
      /\ batch \in [Coordinators -> Seq(Tasks)] /\ batch[w] \in Seq(Tasks) /\ batch[w] # <<>>
      /\ batch' = [batch EXCEPT ![w] = Tail(batch[w])]
  BY DEF Reduce, AllSettled, BodyInv, OwnerInv, LaunchInv, Typed
<1>2. PICK t \in Tasks : t = Head(batch[w])
  BY <1>1
<1>3. PICK b : b = Reduced(run[w], t)
  OBVIOUS
<1>4. PICK status \in {"SUCCEEDED", "FAILED"} : Finish(w, t, b, status, "waiting")
  BY <1>2, <1>3 DEF Reduce
<1>5. Extends(run[w], b) /\ b.state # "COMPLETED"
  <2>1. CASE Accepted(t)
    BY <1>1, <1>3, <2>1 DEF Reduced, Succeeded, Extends, Body
  <2>2. CASE ~Accepted(t)
    BY <1>1, <1>3, <2>2 DEF Reduced, Extends, Body, Backed, Accepted, Verified, Tasks
  <2> QED
    BY <2>1, <2>2
<1>6. Range(batch[w]) = {t} \cup Range(Tail(batch[w]))
  BY <1>1, <1>2, TailRange
<1>7. batch'[w] = Tail(batch[w]) /\ \A v \in Coordinators \ {w} : batch'[v] = batch[v]
  BY <1>1
<1> QED
  BY <1>1, <1>4, <1>5, <1>6, <1>7, FinishContinues DEF LabelFits, Between

LEMMA TakenContinues ==
  ASSUME LaunchInv, BodyInv, OwnerInv, NEW w \in Coordinators, Reserve(w)
  PROVE  Continues(w) /\ LabelFits(w)
<1>1. pc[w] = "reserving" /\ run[w] \in Body /\ run[w].state # "COMPLETED"
      /\ run \in [Coordinators -> Body]
  BY DEF Reserve, BodyInv, OwnerInv
<1>2. CASE Checked(w, FALSE, "failed")
  <2>1. \E ok \in BOOLEAN : Checked(w, ok, "failed")
    BY <1>2
  <2> QED
    BY <1>1, <2>1, CheckedContinues DEF LabelFits, Between, Entered, Labels
<1>3. CASE ~Checked(w, FALSE, "failed")
  <2>1. PICK t \in Tasks :
          /\ Taken(w, t)
          /\ run' = [run EXCEPT ![w].states =
                       [i \in Items |-> IF i = t THEN "RUNNING" ELSE @[i]]]
          /\ UNCHANGED <<plan, row, tampered, token>>
    BY <1>3 DEF Reserve, Taken, row
  <2>2. /\ run'[w].states = [i \in Items |-> IF i = t THEN "RUNNING" ELSE run[w].states[i]]
        /\ run'[w].revision = run[w].revision /\ run'[w].final = run[w].final
        /\ run'[w].state = run[w].state
        /\ \A v \in Coordinators \ {w} : run'[v] = run[v]
    BY <1>1, <2>1 DEF Body
  <2>3. t \in Items => run[w].states[t] = "READY"
    BY <2>1, WorkflowAssumption DEF Taken, Reservable
  <2>4. Extends(run[w], run'[w]) /\ Extends(run'[w], run[w])
    BY <2>2, <2>3 DEF Extends
  <2>5. /\ pc'[w] \in {"waiting", "reserving"}
        /\ \A v \in Coordinators \ {w} : pc'[v] = pc[v] /\ batch'[v] = batch[v]
    BY <1>1, <2>1 DEF Taken, Goto, LaunchInv, Typed
  <2>6. Fenced(w) /\ UNCHANGED <<body, owner, issued>>
    BY <2>1 DEF Taken, Reservable, row
  <2>7. Continues(w)
    BY <1>1, <2>1, <2>2, <2>4, <2>5, <2>6 DEF Continues, Entered
  <2>8. LabelFits(w)
    BY <1>1, <2>1, <2>4, <2>5, <2>6 DEF LabelFits, Between
  <2> QED
    BY <2>7, <2>8
<1> QED
  BY <1>2, <1>3

LEMMA StepKinds ==
  ASSUME LaunchInv, BodyInv, OwnerInv, NEW w \in Coordinators,
         Proceed(w) \/ CostUnknown(w) \/ Fail(w) \/ Heartbeat(w)
  PROVE  \/ Continues(w) /\ LabelFits(w)
         \/ Release(w)
         \/ \E pin \in BOOLEAN : Load(w, pin)
<1>1. CASE \/ Reserve(w) \/ Reduce(w) \/ \E t \in Tasks : ReconcileOne(w, t)
  BY <1>1, TakenContinues, ReduceContinues, ReconcileContinues
<1>2. CASE \E denied \in SUBSET Withheld : Loop(w, denied)
  BY <1>2, LoopStep
<1>3. CASE Heartbeat(w)
  BY <1>3, HeartbeatContinues
<1>4. CASE \/ Reconciled(w) \/ Confirm(w) \/ Chosen(w) \/ BatchDone(w) \/ CostUnknown(w)
           \/ Fail(w) \/ PinPolicy(w) \/ Unresolved(w) \/ Complete(w) \/ Stop(w)
           \/ Dispatch(w) \/ Record(w) \/ Catch(w)
  BY <1>4, PlainSteps
<1> QED
  BY <1>1, <1>2, <1>3, <1>4 DEF Proceed

LEMMA ExtendsOn ==
  ASSUME NEW b, NEW c, NEW d, Extends(b, c), Extends(c, d) PROVE Extends(b, d)
  BY DEF Extends

\* A step that leaves a coordinator, the attempts and what the row says alone.
LEMMA OwnerKept ==
  ASSUME NEW v \in Coordinators, OwnerFits(v),
         pc'[v] = pc[v] /\ run'[v] = run[v] /\ batch'[v] = batch[v] /\ UNCHANGED plan,
         tampered => tampered',
         Owns(v)' => /\ Owns(v) /\ UNCHANGED attempts
                     /\ Extends(body', body) /\ Extends(body, body')
                     /\ (body'.state = "COMPLETED" => body.state = "COMPLETED")
  PROVE  OwnerFits(v)'
<1> SUFFICES ASSUME Owns(v)' PROVE OwnerFits(v)'
  BY DEF OwnerFits
<1>1. Started' = Started /\ Owns(v)
  BY DEF Started
<1>2. PICK old, new : old = body /\ new = body'
  OBVIOUS
<1>3. Entered(v)' => Extends(body', run'[v])
  BY <1>1, <1>2 DEF OwnerFits, Entered, Extends
<1>4. pc'[v] = "reserving" => Extends(run'[v], body')
  BY <1>1, <1>2 DEF OwnerFits, Entered, Extends
<1> QED
  BY <1>1, <1>3, <1>4 DEF OwnerFits, Entered, Extends

LEMMA ContinuesKeeps ==
  ASSUME LaunchInv, BodyInv, OwnerInv, NEW w \in Coordinators, Continues(w), LabelFits(w)
  PROVE  OwnerInv'
<1>1. token[w] # NoGrant /\ Entered(w) /\ pc[w] # "done" /\ UNCHANGED <<owner, token, issued, plan, tampered>>
  BY DEF Continues, Entered, LaunchInv, TokensDiffer
<1>2. ASSUME NEW v \in Coordinators, v # w PROVE OwnerFits(v)'
  <2>1. Owns(v) => ~Fenced(w)
    BY <1>1, <1>2 DEF Owns, Fenced, LaunchInv, TokensDiffer
  <2>2. Owns(v)' => Owns(v)
    BY <1>1 DEF Owns
  <2>3. OwnerFits(v) /\ Extends(body, body)
    BY ExtendsItself DEF OwnerInv
  <2>4. Owns(v)' => body' = body /\ UNCHANGED attempts
    BY <2>1, <2>2 DEF Continues
  <2>5. pc'[v] = pc[v] /\ run'[v] = run[v] /\ batch'[v] = batch[v]
    BY <1>2 DEF Continues
  <2> QED
    BY <1>1, <2>2, <2>3, <2>4, <2>5, OwnerKept
<1>3. OwnerFits(w)'
  <2> SUFFICES ASSUME Owns(w)' PROVE OwnerFits(w)'
    BY DEF OwnerFits
  <2>1. Owns(w) /\ OwnerFits(w)
    BY <1>1 DEF Owns, OwnerInv
  <2>2. Extends(body, run[w]) /\ Extends(run[w], run'[w])
    BY <1>1, <2>1 DEF OwnerFits, Continues
  <2>3. Extends(body', run'[w])
    <3>1. CASE body' = body
      BY <2>2, <3>1 DEF Extends
    <3>2. CASE body' = run'[w]
      BY <3>2 DEF Extends
    <3> QED
      BY <3>1, <3>2 DEF Continues
  <2>4. body'.state = "COMPLETED" /\ pc'[w] # "done" => plan'.hybrid /\ tampered'
    BY <1>1, <2>1 DEF OwnerFits, Continues
  <2>5. UNCHANGED attempts => Started' = Started
    BY DEF Started
  <2>6. pc'[w] \in Between => Started' = {}
    <3>1. Range(<<>>) = {}
      BY DEF Range
    <3> QED
      BY <2>1, <2>5, <3>1 DEF LabelFits, OwnerFits
  <2>7. ASSUME NEW t \in Tasks, Taken(w, t)
        PROVE  /\ Started' = Started \cup {t}
               /\ Range(batch'[w]) = Range(batch[w]) \cup {t}
    <3>1. /\ batch \in [Coordinators -> Seq(Tasks)] /\ attempts \in [Tasks -> AttemptState]
          /\ batch' = [batch EXCEPT ![w] = Append(batch[w], t)]
          /\ attempts' = [attempts EXCEPT ![t] = "STARTED"]
      BY <2>7 DEF Taken, LaunchInv, Typed
    <3>2. Started' = Started \cup {t}
      BY <3>1 DEF Started
    <3> QED
      BY <3>1, <3>2, TakenRange
  <2>8. pc'[w] \in {"reserving", "waiting"} => Started' \subseteq Range(batch'[w])
    <3>1. CASE \E t \in Tasks : pc[w] = "reserving" /\ Taken(w, t)
      BY <2>1, <2>7, <3>1 DEF OwnerFits
    <3>2. CASE pc[w] = "dispatching" /\ UNCHANGED attempts
      BY <2>1, <2>5, <3>2 DEF OwnerFits, Between
    <3>3. CASE pc[w] = "waiting" /\ (Started \subseteq Range(batch[w]) =>
                                      Started' \subseteq Range(batch'[w]))
      BY <2>1, <3>3 DEF OwnerFits
    <3> QED
      BY <3>1, <3>2, <3>3 DEF LabelFits
  <2>9. pc'[w] = "reserving" => Extends(run'[w], body')
    <3>1. CASE body' = run'[w]
      BY <3>1 DEF Extends
    <3>2. CASE pc[w] = "reserving" /\ body' = body /\ Extends(run'[w], run[w])
      BY <2>1, <3>2 DEF OwnerFits, Extends
    <3> QED
      BY <3>1, <3>2 DEF LabelFits
  <2>10. pc'[w] \in {"confirming", "completing"} => run'[w].final
    BY <2>1 DEF LabelFits, OwnerFits
  <2> QED
    BY <2>3, <2>4, <2>6, <2>8, <2>9, <2>10 DEF OwnerFits
<1>4. ASSUME NEW v \in Coordinators, run'[v].state = "COMPLETED" PROVE pc'[v] \in {"done", "failed"}
  BY <1>4 DEF Continues, OwnerInv
<1> QED
  BY <1>1, <1>2, <1>3, <1>4 DEF OwnerInv

\* The steps at the ends of an execution, and those of others.
LEMMA EndsKeep ==
  ASSUME LaunchInv, BodyInv, OwnerInv, NEW w \in Coordinators,
         \/ Release(w) \/ Crash(w)
         \/ \E pin \in BOOLEAN : Load(w, pin)
         \/ \E resume \in BOOLEAN : Claim(w, resume)
  PROVE  OwnerInv' /\ UNCHANGED body
<1> USE DEF Labels, Awaits
<1>1. /\ pc \in [Coordinators -> Labels] /\ token \in [Coordinators -> Nat]
      /\ batch \in [Coordinators -> Seq(Tasks)] /\ run \in [Coordinators -> Body]
      /\ issued \in Nat /\ owner \in Nat /\ owner <= issued /\ NoGrant = 0
  BY DEF LaunchInv, Typed, BodyInv, OwnerInv, NoGrant
<1>2. UNCHANGED <<plan, body, attempts, tampered>>
  BY DEF Release, Crash, Forget, Load, Think, Claim, row, tasks
<1>3. \A v \in Coordinators \ {w} :
        pc'[v] = pc[v] /\ run'[v] = run[v] /\ batch'[v] = batch[v] /\ token'[v] = token[v]
  <2>1. CASE Release(w) \/ Crash(w)
    BY <1>1, <2>1 DEF Release, Crash, Forget, Goto
  <2>2. CASE \E pin \in BOOLEAN : Load(w, pin)
    BY <1>1, <2>2 DEF Load, Think, Goto
  <2>3. CASE \E resume \in BOOLEAN : Claim(w, resume)
    BY <1>1, <2>3 DEF Claim, Goto
  <2> QED
    BY <2>1, <2>2, <2>3
<1>4. \/ owner' \in {owner, NoGrant} /\ issued' = issued
      \/ owner' = issued + 1 /\ issued' = issued + 1
  BY DEF Release, Crash, Load, Think, Claim, row
<1>5. owner' \in Nat /\ owner' <= issued'
  BY <1>1, <1>4
<1>6. ASSUME NEW v \in Coordinators, v # w PROVE OwnerFits(v)'
  <2>1. token[v] <= issued /\ token[v] \in Nat
    BY <1>1 DEF LaunchInv, TokensDiffer
  <2>2. Owns(v)' => Owns(v)
    BY <1>1, <1>3, <1>4, <1>6, <2>1 DEF Owns
  <2>3. OwnerFits(v) /\ Extends(body, body)
    BY ExtendsItself DEF OwnerInv
  <2> QED
    BY <1>2, <1>3, <1>6, <2>2, <2>3, OwnerKept
<1>7. OwnerFits(w)' /\ (run'[w].state = "COMPLETED" => pc'[w] \in {"done", "failed"})
  <2>1. CASE Release(w) \/ Crash(w)
    <3>1. pc'[w] = "idle" /\ run'[w] = NewRun
      BY <1>1, <2>1 DEF Release, Crash, Forget, Goto
    <3> QED
      BY <3>1 DEF OwnerFits, Entered, Between, NewRun
  <2>2. CASE \E resume \in BOOLEAN : Claim(w, resume)
    <3>1. pc'[w] = "claimed" /\ run'[w] = run[w] /\ pc[w] = "idle"
      BY <1>1, <2>2 DEF Claim, Goto
    <3> QED
      BY <3>1 DEF OwnerFits, Entered, Between, OwnerInv
  <2>3. CASE \E pin \in BOOLEAN : Load(w, pin)
    <3>1. /\ run'[w] = body /\ pc'[w] \in {"failed", "done", "pinning", "reconciling"}
          /\ body.state = "COMPLETED" =>
               pc'[w] = "done" \/ (pc'[w] = "failed" /\ plan.hybrid /\ tampered)
      BY <1>1, <2>3 DEF Load, Think, Goto
    <3>2. Extends(body', run'[w])
      BY <1>2, <3>1 DEF Extends
    <3> QED
      BY <1>2, <3>1, <3>2 DEF OwnerFits, Entered, Between
  <2> QED
    BY <2>1, <2>2, <2>3
<1> QED
  BY <1>2, <1>3, <1>5, <1>6, <1>7 DEF OwnerInv

LEMMA OperatorKeeps ==
  ASSUME LaunchInv, BodyInv, OwnerInv,
         \/ Approve \/ Revise \/ Tamper \/ LeaseExpires
         \/ \E gone \in SUBSET approved : Withdraw(gone)
         \/ \E c \in Requests : Control(c)
         \/ \E t \in Tasks : ChildRuns(t)
         \/ UNCHANGED vars
  PROVE  /\ OwnerInv'
         /\ Revise \/ (Extends(body, body') /\ (body'.state = "COMPLETED" => body' = body))
         /\ body.state = "COMPLETED" => body' = body
<1>1. /\ UNCHANGED <<plan, pc, token, run, batch, attempts, owner, issued>>
      /\ tampered => tampered'
  BY DEF Approve, Revise, Tamper, LeaseExpires, Withdraw, Control, vars, coordinator, row, tasks,
     ChildRuns, ChildEnter, ChildClear, ChildCall, ChildJudge, ChildCommit, ChildFail, ChildStep
<1>2. \/ body' = body
      \/ owner = NoGrant /\ Approve
      \/ owner = NoGrant /\ Revise
      \/ body' = [body EXCEPT !.state = "CANCELLED"] /\ body.state # "COMPLETED"
  BY DEF Approve, Revise, Tamper, LeaseExpires, Withdraw, Control, vars, row, Idle,
     ChildRuns, ChildEnter, ChildClear, ChildCall, ChildJudge, ChildCommit, ChildFail, ChildStep
<1>3. \/ Revise
      \/ /\ Extends(body', body) /\ Extends(body, body')
         /\ (body'.state = "COMPLETED" => body' = body)
  <2>1. CASE body' = body
    BY <2>1 DEF Extends
  <2>2. ASSUME NEW s \in {"READY", "CANCELLED"}, body' = [body EXCEPT !.state = s]
        PROVE  Extends(body', body) /\ Extends(body, body') /\ body'.state # "COMPLETED"
    BY <2>2 DEF BodyInv, Fit, Body, Extends
  <2> QED
    BY <1>2, <2>1, <2>2 DEF Approve
<1>4. ASSUME NEW v \in Coordinators PROVE OwnerFits(v)'
  <2>1. Owns(v)' => Owns(v) /\ owner # NoGrant
    BY <1>1 DEF Owns
  <2>2. OwnerFits(v)
    BY DEF OwnerInv
  <2>3. owner # NoGrant => ~Revise
    BY DEF Revise, Idle
  <2> QED
    BY <1>1, <1>3, <2>1, <2>2, <2>3, OwnerKept
<1>5. body.state = "COMPLETED" => body' = body
  BY <1>2 DEF Approve, Revise, Idle
<1> QED
  BY <1>1, <1>3, <1>4, <1>5 DEF OwnerInv

LEMMA OwnerStep == ASSUME LaunchInv, BodyInv, OwnerInv, [Next]_vars PROVE OwnerInv'
<1>1. ASSUME NEW w \in Coordinators,
             \/ Proceed(w) \/ CostUnknown(w) \/ Fail(w) \/ Heartbeat(w) \/ Crash(w)
             \/ \E resume \in BOOLEAN : Claim(w, resume)
      PROVE  OwnerInv'
  BY <1>1, StepKinds, ContinuesKeeps, EndsKeep
<1> QED
  BY <1>1, OperatorKeeps DEF Next

LEMMA OwnerAlways == Spec => []OwnerInv
<1>1. Init => OwnerInv
  BY DEF Init, OwnerInv, OwnerFits, Owns, NoGrant, NewRun
<1>2. LaunchInv /\ BodyInv /\ OwnerInv /\ [Next]_vars => OwnerInv'
  BY OwnerStep
<1> QED
  BY <1>1, <1>2, LaunchAlways, BodyAlways, PTL DEF Spec, Safety

-----------------------------------------------------------------------------
(* What the row says                                                        *)

\* The body is completed by its owner alone, standing at "completing", and otherwise
\* changes by a revision or without losing anything.
BodyMoves ==
  \/ Revise
  \/ /\ Extends(body, body')
     /\ \/ body' = body
        \/ body'.state # "COMPLETED"
        \/ \E w \in Coordinators :
             /\ Owns(w) /\ pc[w] = "completing" /\ UNCHANGED attempts
             /\ Extends(body', run[w]) /\ Extends(run[w], body')

LEMMA BodyMovesOn == ASSUME LaunchInv, BodyInv, OwnerInv, [Next]_vars PROVE BodyMoves
<1>1. ASSUME NEW w \in Coordinators, Continues(w) PROVE BodyMoves
  <2>1. CASE body' = body
    BY <2>1 DEF BodyMoves, Extends
  <2>2. CASE Fenced(w) /\ body' = run'[w] /\ body' # body
    <3>1. Owns(w) /\ Entered(w)
      BY <1>1, <2>2 DEF Fenced, Owns, Continues, Entered, LaunchInv, TokensDiffer
    <3>2. Extends(body, run[w]) /\ Extends(run[w], run'[w])
      BY <1>1, <3>1 DEF OwnerInv, OwnerFits, Continues
    <3>3. Extends(body, body')
      BY <2>2, <3>2 DEF Extends
    <3>4. body'.state = "COMPLETED" =>
            /\ pc[w] = "completing" /\ UNCHANGED attempts
            /\ Extends(body', run[w]) /\ Extends(run[w], body')
      <4>1. body'.state = "COMPLETED" =>
              pc[w] = "completing" /\ UNCHANGED attempts /\ Extends(run'[w], run[w])
        BY <1>1, <2>2 DEF Continues
      <4> QED
        BY <2>2, <3>2, <4>1 DEF Extends
    <3> QED
      BY <3>1, <3>3, <3>4 DEF BodyMoves
  <2> QED
    BY <1>1, <2>1, <2>2 DEF Continues
<1>2. ASSUME UNCHANGED body PROVE BodyMoves
  BY <1>2 DEF BodyMoves, Extends
<1>3. ASSUME NEW w \in Coordinators,
             \/ Proceed(w) \/ CostUnknown(w) \/ Fail(w) \/ Heartbeat(w) \/ Crash(w)
             \/ \E resume \in BOOLEAN : Claim(w, resume)
      PROVE  BodyMoves
  BY <1>1, <1>2, <1>3, StepKinds, EndsKeep
<1>4. ASSUME \/ Approve \/ Revise \/ Tamper \/ LeaseExpires
             \/ \E gone \in SUBSET approved : Withdraw(gone)
             \/ \E c \in Requests : Control(c)
             \/ \E t \in Tasks : ChildRuns(t)
             \/ UNCHANGED vars
      PROVE  BodyMoves
  BY <1>4, OperatorKeeps DEF BodyMoves
<1> QED
  BY <1>3, <1>4 DEF Next

\* A verified child's attempt is one of those that succeeded or are still open.
LEMMA VerifiedSucceeded ==
  ASSUME LaunchInv, RowInv, NEW t \in Tasks, Verified(t), t \notin Started
  PROVE  attempts[t] = "SUCCEEDED"
<1>1. childPc[t] = "ended" /\ attempts[t] # "none"
  BY DEF LaunchInv, ChildFits, Verified
<1>2. attempts[t] # "FAILED"
  BY DEF RowInv
<1> QED
  BY <1>1, <1>2 DEF LaunchInv, Typed, AttemptState, Started

LEMMA GraphIsOfItems == ASSUME BodyInv PROVE DOMAIN GraphOf(body) \subseteq Items
<1>1. plan \in Plans /\ body.revision \in DOMAIN plan.graphs
  BY DEF BodyInv, Fit
<1>2. \A r \in DOMAIN plan.graphs : DOMAIN plan.graphs[r] \subseteq Items
  BY <1>1, WorkflowAssumption
<1> QED
  BY <1>1, <1>2 DEF GraphOf

\* At "completing" the owner has everything verified and settled.
LEMMA CompletingIsDone ==
  ASSUME LaunchInv, BodyInv, OwnerInv, RowInv, NEW w \in Coordinators,
         Owns(w), pc[w] = "completing"
  PROVE  /\ run[w].final /\ attempts[Final] = "SUCCEEDED"
         /\ \A t \in DOMAIN GraphOf(body) : attempts[t] = "SUCCEEDED"
<1>1. Started = {} /\ run[w].final /\ Extends(body, run[w])
  BY DEF OwnerInv, OwnerFits, Between, Entered
<1>2. Backed(run[w])
  BY DEF BodyInv
<1>3. attempts[Final] = "SUCCEEDED"
  BY <1>1, <1>2, VerifiedSucceeded DEF Backed, Tasks
<1>4. \A i \in DOMAIN GraphOf(body) : i \in Items /\ body.states[i] = "SUCCEEDED"
  BY <1>3, GraphIsOfItems DEF RowInv, Integrable
<1>5. \A i \in DOMAIN GraphOf(body) : i \in Tasks /\ Verified(i)
  BY <1>1, <1>2, <1>4 DEF Extends, Backed, Tasks
<1> QED
  BY <1>1, <1>3, <1>5, VerifiedSucceeded

LEMMA RowStep == ASSUME LaunchInv, BodyInv, OwnerInv, RowInv, [Next]_vars PROVE RowInv'
<1>1. BodyMoves /\ ChildrenKept /\ AttemptMoves
  BY BodyMovesOn, KeepsChildren, MovesOfSteps
<1>2. attempts \in [Tasks -> AttemptState] /\ Final \in Tasks /\ UNCHANGED plan
  BY <1>1 DEF LaunchInv, Typed, Tasks, AttemptMoves
<1>3. ASSUME NEW t \in Tasks, attempts[t] = "SUCCEEDED" PROVE attempts'[t] = "SUCCEEDED"
  BY <1>1, <1>2, <1>3 DEF AttemptMoves, Reserved, Settled, Launched
<1>4. ASSUME NEW t \in Tasks, attempts'[t] = "FAILED"
      PROVE  childPc'[t] = "ended" /\ ~Verified(t)'
  <2>1. childPc[t] = "ended" /\ ~Verified(t)
    <3>1. CASE attempts[t] = "FAILED"
      BY <3>1 DEF RowInv
    <3>2. CASE attempts[t] # "FAILED"
      BY <1>1, <1>2, <1>4, <3>2 DEF AttemptMoves, Reserved, Settled, Launched
    <3> QED
      BY <3>1, <3>2
  <2> QED
    BY <1>1, <2>1 DEF ChildrenKept
<1>5. Extends(body, body') => \A i \in DOMAIN GraphOf(body) :
        body.states[i] = "SUCCEEDED" => body'.states[i] = "SUCCEEDED"
  BY GraphIsOfItems DEF Extends
<1>6. Extends(body, body') => DOMAIN GraphOf(body)' = DOMAIN GraphOf(body)
  BY <1>2 DEF Extends, GraphOf
<1>7. attempts'[Final] # "none" => Integrable(body)'
  <2>1. CASE attempts[Final] # "none"
    <3>1. ~Revise
      BY <1>2, <2>1 DEF Revise, Revisable, Attempted
    <3> QED
      BY <1>1, <1>5, <1>6, <2>1, <3>1 DEF RowInv, Integrable, BodyMoves
  <2>2. CASE attempts[Final] = "none" /\ attempts'[Final] # "none"
    <3>1. PICK t \in Tasks : Reserved(t) \/ Settled(t)
      BY <1>1, <2>2 DEF AttemptMoves, Launched
    <3>2. t = Final /\ Reserved(t)
      BY <1>2, <2>2, <3>1 DEF Reserved, Settled
    <3>3. PICK w \in Coordinators : Taken(w, Final)
      BY <3>2 DEF Reserved
    <3>4. Integrable(run[w]) /\ Fenced(w) /\ pc[w] = "reserving"
      BY <3>3 DEF Taken, Reservable
    <3>5. Owns(w) /\ Entered(w)
      BY <3>4 DEF Fenced, Owns, Entered, LaunchInv, TokensDiffer
    <3>6. Extends(run[w], body)
      BY <3>4, <3>5 DEF OwnerInv, OwnerFits
    <3>7. Integrable(body)
      BY <3>4, <3>6, GraphIsOfItems DEF Integrable, Extends, GraphOf
    <3>8. ~Revise
      BY <2>2 DEF Revise, tasks
    <3> QED
      BY <1>1, <1>5, <1>6, <3>7, <3>8 DEF Integrable, BodyMoves
  <2> QED
    BY <2>1, <2>2
<1>8. body'.state = "COMPLETED" =>
        body'.final /\ \A t \in DOMAIN GraphOf(body)' \cup {Final} : attempts'[t] = "SUCCEEDED"
  <2>1. CASE Revise
    BY <2>1 DEF Revise, BodyInv, Fit, Body
  <2>2. CASE body' = body
    <3>1. DOMAIN GraphOf(body)' \cup {Final} \subseteq Tasks
          /\ DOMAIN GraphOf(body)' = DOMAIN GraphOf(body)
      BY <1>2, <1>6, <2>2, GraphIsOfItems DEF Extends, Tasks
    <3> QED
      BY <1>3, <2>2, <3>1 DEF RowInv
  <2>3. ASSUME NEW w \in Coordinators, Owns(w), pc[w] = "completing", UNCHANGED attempts,
               Extends(body, body'), Extends(run[w], body')
        PROVE  body'.final /\ \A t \in DOMAIN GraphOf(body)' \cup {Final} :
                                attempts'[t] = "SUCCEEDED"
    <3>1. /\ run[w].final /\ attempts[Final] = "SUCCEEDED"
          /\ \A t \in DOMAIN GraphOf(body) : attempts[t] = "SUCCEEDED"
      BY <2>3, CompletingIsDone
    <3> QED
      BY <1>6, <2>3, <3>1 DEF Extends
  <2> QED
    BY <1>1, <2>1, <2>2, <2>3 DEF BodyMoves
<1> QED
  BY <1>4, <1>7, <1>8 DEF RowInv

LEMMA RowAlways == Spec => []RowInv
<1>1. Init => RowInv
  BY DEF Init, RowInv, NewRun, Tasks
<1>2. LaunchInv /\ BodyInv /\ OwnerInv /\ RowInv /\ [Next]_vars => RowInv'
  BY RowStep
<1> QED
  BY <1>1, <1>2, LaunchAlways, BodyAlways, OwnerAlways, PTL DEF Spec, Safety

\* No item counts as succeeded and no workflow as completed without children that
\* committed their verified candidates (finish, reserve and the loop of executeWorkflow
\* in controller.mjs): the row is written by its owner alone, whose copy never lags
\* behind the row, and completed only when nothing is started and all is settled.
THEOREM NothingUnverifiedCounts == Spec => []SuccessIsVerified
<1>1. LaunchInv /\ BodyInv /\ RowInv => SuccessIsVerified
  <2> SUFFICES ASSUME LaunchInv, BodyInv, RowInv PROVE SuccessIsVerified
    OBVIOUS
  <2>1. /\ \A i \in Items : body.states[i] = "SUCCEEDED" => Verified(i)
        /\ body.final => Verified(Final)
    BY DEF BodyInv, Backed
  <2>2. ASSUME body.state = "COMPLETED", NEW t \in DOMAIN GraphOf(body) \cup {Final}
        PROVE  attempts[t] = "SUCCEEDED" /\ Verified(t)
    <3>1. attempts[t] = "SUCCEEDED" /\ body.final
      BY <2>2 DEF RowInv
    <3>2. CASE t = Final
      BY <2>1, <3>1, <3>2
    <3>3. CASE t # Final
      <4>1. t \in DOMAIN GraphOf(body) /\ t \in Items
        BY <2>2, <3>3, GraphIsOfItems
      <4>2. body.states[t] = "SUCCEEDED"
        BY <2>2, <4>1 DEF RowInv, Integrable
      <4> QED
        BY <2>1, <3>1, <4>1, <4>2
    <3> QED
      BY <3>2, <3>3
  <2> QED
    BY <2>1, <2>2 DEF SuccessIsVerified
<1> QED
  BY <1>1, LaunchAlways, BodyAlways, RowAlways, PTL

\* A completed workflow stays completed: control, approval and revision leave it alone,
\* and executeWorkflow saves it again only after a final tree that no longer matches.
THEOREM CompletionIsFinal == Spec => CompletedStays
<1>1. LaunchInv /\ BodyInv /\ OwnerInv /\ [Next]_vars =>
        [body.state = "COMPLETED" => body' = body \/ (plan.hybrid /\ tampered)]_vars
  <2> SUFFICES ASSUME LaunchInv, BodyInv, OwnerInv, [Next]_vars, body.state = "COMPLETED"
               PROVE  body' = body \/ (plan.hybrid /\ tampered)
    OBVIOUS
  <2>1. ASSUME NEW w \in Coordinators, Continues(w)
        PROVE  body' = body \/ (plan.hybrid /\ tampered)
    <3>1. Fenced(w) => Owns(w)
      BY <2>1 DEF Fenced, Owns, Continues, Entered, LaunchInv, TokensDiffer
    <3> QED
      BY <2>1, <3>1 DEF Continues, OwnerInv, OwnerFits
  <2>2. ASSUME NEW w \in Coordinators,
               \/ Proceed(w) \/ CostUnknown(w) \/ Fail(w) \/ Heartbeat(w) \/ Crash(w)
               \/ \E resume \in BOOLEAN : Claim(w, resume)
        PROVE  body' = body \/ (plan.hybrid /\ tampered)
    BY <2>1, <2>2, StepKinds, EndsKeep
  <2> QED
    BY <2>2, OperatorKeeps DEF Next
<1> QED
  BY <1>1, LaunchAlways, BodyAlways, OwnerAlways, PTL DEF Spec, Safety, CompletedStays

-----------------------------------------------------------------------------
(* What the scheduler picks: readyBatch of workflow/definition.mjs as the    *)
(* fold it is, by induction over the items of Order.                         *)

Below == {p \in Nat \X Nat : p[1] < p[2]}

LEMMA Least ==
  ASSUME NEW T, T \subseteq Nat, T # {}
  PROVE  \E x \in T : \A y \in T : x <= y
<1>1. IsWellFoundedOn(Below, Nat)
  BY NatLessThanWellFounded DEF OpToRel, Below
<1>2. PICK x \in T : \A y \in T : ~(<<y, x>> \in Below)
  BY <1>1, WFMin
<1>3. \A y \in T : ~(y < x)
  BY <1>2 DEF Below
<1> QED
  BY <1>3

LEMMA SetInduction ==
  ASSUME NEW S, 0 \in S, \A n \in Nat : n \in S => n + 1 \in S
  PROVE  Nat \subseteq S
<1>1. SUFFICES ASSUME NEW n \in Nat, n \notin S
               PROVE  FALSE
  OBVIOUS
<1>2. Nat \ S \subseteq Nat /\ Nat \ S # {}
  BY <1>1
<1>3. PICK x \in Nat \ S : \A y \in Nat \ S : x <= y
  BY <1>2, Least
<1>4. x # 0 /\ x - 1 \in Nat /\ x - 1 < x /\ (x - 1) + 1 = x
  BY <1>3
<1>5. x - 1 \in S
  BY <1>3, <1>4
<1> QED
  BY <1>3, <1>4, <1>5

Eligible(b, i) == i \in DOMAIN GraphOf(b) /\ b.states[i] = "READY" /\ DependenciesMet(b, i)
Room(chosen, i) == Len(chosen) < Limit /\ \A k \in DOMAIN chosen : ~Conflict(i, chosen[k])
TakeNext(b, chosen, i) ==
  IF Eligible(b, i) /\ Room(chosen, i) THEN Append(chosen, i) ELSE chosen

\* The fold over the places 1..n of Order, as the function that it recurs on.
FoldTo(b, g, D) ==
  g = [s \in SUBSET D |-> IF s = {} THEN <<>> ELSE TakeNext(b, g[s \ {Max(s)}], Order[Max(s)])]

LEMMA MaxOfRange ==
  ASSUME NEW k \in Nat, NEW s \in SUBSET (1..(k + 1)), k + 1 \in s
  PROVE  Max(s) = k + 1
<1>1. \A y \in s : k + 1 >= y
  OBVIOUS
<1>2. \A x \in s : (\A y \in s : x >= y) => x = k + 1
  OBVIOUS
<1> QED
  BY <1>1, <1>2 DEF Max

LEMMA BatchFold ==
  ASSUME NEW b
  PROVE  ReadyBatch(b) = (CHOOSE g : FoldTo(b, g, DOMAIN Order))[DOMAIN Order]
  BY DEF ReadyBatch, FoldLeft, MapThenFoldSet, FoldTo, TakeNext, Eligible, Room

\* There is such a function for the places 1..n, by induction on n ...
LEMMA FoldExists ==
  ASSUME NEW b, NEW n \in Nat
  PROVE  \E g : FoldTo(b, g, 1..n)
<1> DEFINE Built == {k \in Nat : \E g : FoldTo(b, g, 1..k)}
<1>1. 0 \in Built
  <2> DEFINE g == [s \in SUBSET (1..0) |-> <<>>]
  <2>1. \A s \in SUBSET (1..0) : s = {}
    OBVIOUS
  <2>2. g = [s \in SUBSET (1..0) |->
               IF s = {} THEN <<>> ELSE TakeNext(b, g[s \ {Max(s)}], Order[Max(s)])]
    BY <2>1, Zenon
  <2>3. FoldTo(b, g, 1..0)
    BY <2>2, Zenon DEF FoldTo
  <2> HIDE DEF g
  <2> QED
    BY <2>3
<1>2. ASSUME NEW k \in Nat, k \in Built
      PROVE  k + 1 \in Built
  <2>1. PICK f : FoldTo(b, f, 1..k)
    BY <1>2
  <2> DEFINE top(s) == f[s \ {k + 1}]
             g == [s \in SUBSET (1..(k + 1)) |->
                     IF k + 1 \in s THEN TakeNext(b, top(s), Order[k + 1]) ELSE f[s]]
  <2>2. \A s \in SUBSET (1..(k + 1)) : k + 1 \notin s => s \in SUBSET (1..k)
    OBVIOUS
  <2>3. \A s \in SUBSET (1..k) : s \in SUBSET (1..(k + 1)) /\ k + 1 \notin s
    OBVIOUS
  <2>4. \A s \in SUBSET (1..(k + 1)) : g[s] = IF k + 1 \in s THEN TakeNext(b, top(s), Order[k + 1]) ELSE f[s]
    OBVIOUS
  <2>5. \A s \in SUBSET (1..k) : g[s] = f[s]
    BY <2>3, <2>4
  <2>6. DOMAIN g = SUBSET (1..(k + 1)) /\ g = [s \in SUBSET (1..(k + 1)) |-> g[s]]
    OBVIOUS
  <2> HIDE DEF g
  <2>7. ASSUME NEW s \in SUBSET (1..(k + 1))
        PROVE  g[s] = IF s = {} THEN <<>> ELSE TakeNext(b, g[s \ {Max(s)}], Order[Max(s)])
    <3>1. CASE k + 1 \in s
      <4>1. Max(s) = k + 1 /\ s # {}
        BY <3>1, MaxOfRange
      <4>2. s \ {k + 1} \in SUBSET (1..k)
        BY <2>2
      <4>3. g[s \ {k + 1}] = top(s)
        BY <2>5, <4>2
      <4> QED
        BY <2>4, <3>1, <4>1, <4>3
    <3>2. CASE k + 1 \notin s
      <4>1. s \in SUBSET (1..k) /\ s \ {Max(s)} \in SUBSET (1..k)
        BY <2>2, <3>2
      <4>2. f[s] = IF s = {} THEN <<>> ELSE TakeNext(b, f[s \ {Max(s)}], Order[Max(s)])
        BY <2>1, <4>1 DEF FoldTo
      <4> QED
        BY <2>5, <4>1, <4>2
    <3> QED
      BY <3>1, <3>2
  <2>8. g = [s \in SUBSET (1..(k + 1)) |->
               IF s = {} THEN <<>> ELSE TakeNext(b, g[s \ {Max(s)}], Order[Max(s)])]
    BY <2>6, <2>7, Zenon
  <2>9. FoldTo(b, g, 1..(k + 1))
    BY <2>8, Zenon DEF FoldTo
  <2>10. k + 1 \in Nat
    OBVIOUS
  <2> QED
    BY <2>9, <2>10
<1> HIDE DEF Built
<1>3. Nat \subseteq Built
  BY <1>1, <1>2, SetInduction
<1> QED
  BY <1>3 DEF Built

\* ... and so the batch is what taking the items one by one in their order leaves.
LEMMA BatchSteps ==
  ASSUME NEW b
  PROVE  \E h : /\ ReadyBatch(b) = h[Len(Order)] /\ h[0] = <<>>
                /\ \A k \in 1..Len(Order) : h[k] = TakeNext(b, h[k - 1], Order[k])
<1> DEFINE n == Len(Order)
           g == CHOOSE f : FoldTo(b, f, 1..n)
           h == [k \in 0..n |-> g[1..k]]
<1>1. n \in Nat /\ DOMAIN Order = 1..n
  BY WorkflowAssumption
<1>2. ReadyBatch(b) = g[1..n]
  BY <1>1, BatchFold
<1>3. FoldTo(b, g, 1..n)
  <2>1. \E f : FoldTo(b, f, 1..n)
    BY <1>1, FoldExists
  <2> QED
    BY <2>1, Zenon
<1> HIDE DEF n, g
<1>4. \A s \in SUBSET (1..n) :
        g[s] = IF s = {} THEN <<>> ELSE TakeNext(b, g[s \ {Max(s)}], Order[Max(s)])
  BY <1>3, Zenon DEF FoldTo
<1>5. \A k \in 0..n : h[k] = g[1..k]
  OBVIOUS
<1> HIDE DEF h
<1>6. h[0] = <<>>
  <2>1. 1..0 = {} /\ 0 \in 0..n /\ {} \in SUBSET (1..n)
    BY <1>1
  <2> QED
    BY <1>4, <1>5, <2>1
<1>7. ASSUME NEW k \in 1..n PROVE h[k] = TakeNext(b, h[k - 1], Order[k])
  <2>0. /\ k - 1 \in 0..n /\ k \in 0..n /\ k - 1 \in Nat /\ (k - 1) + 1 = k /\ k \in 1..k
        /\ \A j \in 1..k : j \in 1..n
    BY <1>1
  <2>1. 1..k \in SUBSET (1..n) /\ 1..k # {}
    BY <2>0
  <2>2. Max(1..k) = k
    <3>1. 1..k \in SUBSET (1..((k - 1) + 1)) /\ (k - 1) + 1 \in 1..k
      BY <2>0
    <3> QED
      BY <2>0, <3>1, MaxOfRange
  <2>3. (1..k) \ {k} = 1..(k - 1)
    BY <1>1
  <2>4. g[1..k] = TakeNext(b, g[(1..k) \ {Max(1..k)}], Order[Max(1..k)])
    BY <1>4, <2>1, Zenon
  <2>5. h[k] = g[1..k] /\ h[k - 1] = g[1..(k - 1)]
    BY <1>5, <2>0
  <2> QED
    BY <2>2, <2>3, <2>4, <2>5, Zenon
<1>8. h[n] = g[1..n]
  BY <1>1, <1>5
<1> QED
  BY <1>2, <1>6, <1>7, <1>8 DEF n

\* What the scheduler may hand to the coordinator of the body b.
Admissible(b, s) ==
  /\ s \in Seq(Items) /\ Len(s) <= Limit
  /\ \A k \in DOMAIN s : Eligible(b, s[k])
  /\ \A j, k \in DOMAIN s : j < k => s[k] # s[j] /\ ~Conflict(s[k], s[j])

\* i is taken, or no longer fits.
Considered(s, i) ==
  \/ \E k \in DOMAIN s : s[k] = i
  \/ Len(s) = Limit
  \/ \E k \in DOMAIN s : Conflict(i, s[k])

LEMMA TakeAdmits ==
  ASSUME NEW b, NEW s, Admissible(b, s), NEW i \in Items, \A k \in DOMAIN s : s[k] # i
  PROVE  LET t == TakeNext(b, s, i) IN
         /\ Admissible(b, t)
         /\ \A k \in DOMAIN t : t[k] = i \/ (k \in DOMAIN s /\ t[k] = s[k])
         /\ \A j : Considered(s, j) => Considered(t, j)
         /\ Eligible(b, i) => Considered(t, i)
<1>1. Limit \in Nat /\ Limit > 0
  BY LimitIsPositive
<1>2. s \in Seq(Items) /\ Len(s) \in Nat /\ DOMAIN s = 1..Len(s)
  BY DEF Admissible
<1>3. CASE ~(Eligible(b, i) /\ Room(s, i))
  <2>1. TakeNext(b, s, i) = s
    BY <1>3 DEF TakeNext
  <2>2. Eligible(b, i) => Considered(s, i)
    <3>1. SUFFICES ASSUME ~Room(s, i) PROVE Considered(s, i)
      BY <1>3
    <3>2. ~(Len(s) < Limit) => Len(s) = Limit
      <4>1. Len(s) <= Limit
        BY DEF Admissible
      <4> DEFINE m == Len(s)
      <4>2. m \in Nat /\ m <= Limit
        BY <1>2, <4>1
      <4> HIDE DEF m
      <4>3. ~(m < Limit) => m = Limit
        BY <1>1, <4>2
      <4> QED
        BY <4>3 DEF m
    <3> QED
      BY <3>1, <3>2 DEF Room, Considered
  <2> QED
    BY <2>1, <2>2
<1>4. CASE Eligible(b, i) /\ Room(s, i)
  <2> DEFINE t == Append(s, i)
  <2>1. TakeNext(b, s, i) = t
    BY <1>4 DEF TakeNext
  <2>2. /\ t \in Seq(Items) /\ Len(t) = Len(s) + 1 /\ DOMAIN t = 1..(Len(s) + 1)
        /\ t[Len(s) + 1] = i /\ \A k \in 1..Len(s) : t[k] = s[k]
    BY <1>2
  <2>3. \A k \in DOMAIN t : k \in DOMAIN s \/ k = Len(s) + 1
    BY <1>2, <2>2
  <2>4. /\ Len(s) < Limit /\ Len(s) + 1 \in DOMAIN t
        /\ \A k \in DOMAIN s : k \in DOMAIN t /\ k < Len(s) + 1 /\ t[k] = s[k]
    BY <1>2, <1>4, <2>2 DEF Room
  <2> HIDE DEF t
  <2>5. \A k \in DOMAIN t : Eligible(b, t[k])
    BY <1>4, <2>2, <2>3, <2>4 DEF Admissible
  <2>6. ASSUME NEW j \in DOMAIN t, NEW k \in DOMAIN t, j < k
        PROVE  t[k] # t[j] /\ ~Conflict(t[k], t[j])
    <3>1. j \in DOMAIN s
      BY <1>2, <2>2, <2>6
    <3>2. CASE k \in DOMAIN s
      BY <2>4, <2>6, <3>1, <3>2 DEF Admissible
    <3>3. CASE k = Len(s) + 1
      BY <1>4, <2>2, <2>4, <3>1, <3>3 DEF Room
    <3> QED
      BY <2>3, <3>2, <3>3
  <2>7. Len(t) <= Limit
    BY <1>1, <1>2, <2>2, <2>4
  <2>8. Admissible(b, t)
    BY <2>2, <2>5, <2>6, <2>7 DEF Admissible
  <2>9. \A j : Considered(s, j) => Considered(t, j)
    <3>1. Len(s) # Limit
      BY <1>1, <1>2, <2>4
    <3> QED
      BY <2>4, <3>1 DEF Considered
  <2>10. Considered(t, i)
    BY <2>2, <2>4 DEF Considered
  <2>11. ASSUME NEW k \in DOMAIN t
         PROVE  t[k] = i \/ (k \in DOMAIN s /\ t[k] = s[k])
    <3>1. t[Len(s) + 1] = i
      BY <2>2
    <3>2. k \in DOMAIN s => t[k] = s[k]
      BY <2>4
    <3> QED
      BY <2>3, <3>1, <3>2, Zenon
  <2> QED
    BY <2>1, <2>8, <2>9, <2>10, <2>11
<1> QED
  BY <1>3, <1>4

\* What readyBatch of workflow/definition.mjs returns may run together: at most as many
\* items as the graph allows, each of them ready with its dependencies succeeded, no two
\* of a hybrid graph with a resource in common; and it leaves no ready item out that
\* fits, so that it is empty only when no item can run.
THEOREM SchedulerPicks ==
  ASSUME NEW b
  PROVE  LET picked == ReadyBatch(b) IN
         /\ Admissible(b, picked)
         /\ \A i \in Items : Eligible(b, i) => Considered(picked, i)
         /\ picked = <<>> <=> \A i \in Items : ~Eligible(b, i)
<1> DEFINE n == Len(Order)
<1>1. n \in Nat /\ DOMAIN Order = 1..n /\ \A k \in 1..n : Order[k] \in Items
  BY WorkflowAssumption
<1>1a. \A j, k \in 1..n : Order[j] = Order[k] => j = k
  BY <1>1, WorkflowAssumption
<1>2. \A i \in Items : \E k \in 1..n : Order[k] = i
  BY <1>1, WorkflowAssumption
<1>3. Limit \in Nat /\ Limit > 0
  BY LimitIsPositive
<1>4. PICK h : /\ ReadyBatch(b) = h[n] /\ h[0] = <<>>
               /\ \A k \in 1..n : h[k] = TakeNext(b, h[k - 1], Order[k])
  BY BatchSteps
<1> DEFINE Good(k) == /\ Admissible(b, h[k])
                      /\ \A m \in DOMAIN h[k] : \E j \in 1..k : h[k][m] = Order[j]
                      /\ \A j \in 1..k : Eligible(b, Order[j]) => Considered(h[k], Order[j])
           Right == {k \in Nat : k <= n => Good(k)}
<1> HIDE DEF n
<1>5. 0 \in Right
  <2>1. <<>> \in Seq(Items) /\ Len(<<>>) = 0 /\ DOMAIN <<>> = {} /\ 1..0 = {}
    OBVIOUS
  <2>2. Admissible(b, <<>>)
    BY <1>3, <2>1 DEF Admissible
  <2> QED
    BY <1>4, <2>1, <2>2
<1>6. ASSUME NEW k \in Nat, k \in Right
      PROVE  k + 1 \in Right
  <2>1. SUFFICES ASSUME k + 1 <= n PROVE Good(k + 1)
    OBVIOUS
  <2>2. /\ k + 1 \in 1..n /\ (k + 1) - 1 = k /\ \A j \in 1..(k + 1) : j \in 1..k \/ j = k + 1
    BY <1>1, <2>1
  <2>3. Good(k)
    BY <1>1, <1>6, <2>1
  <2>4. h[k + 1] = TakeNext(b, h[k], Order[k + 1]) /\ Order[k + 1] \in Items
    BY <1>1, <1>4, <2>2
  <2>4a. \A m \in DOMAIN h[k] : h[k][m] # Order[k + 1]
    BY <1>1, <1>1a, <2>2, <2>3
  <2>5. /\ Admissible(b, h[k + 1])
        /\ \A m \in DOMAIN h[k + 1] :
             h[k + 1][m] = Order[k + 1] \/ (m \in DOMAIN h[k] /\ h[k + 1][m] = h[k][m])
        /\ \A j : Considered(h[k], j) => Considered(h[k + 1], j)
        /\ Eligible(b, Order[k + 1]) => Considered(h[k + 1], Order[k + 1])
    BY <2>3, <2>4, <2>4a, TakeAdmits
  <2>6. \A m \in DOMAIN h[k + 1] : \E j \in 1..(k + 1) : h[k + 1][m] = Order[j]
    <3>1. \A j \in 1..k : j \in 1..(k + 1)
      OBVIOUS
    <3>2. k + 1 \in 1..(k + 1)
      OBVIOUS
    <3> QED
      BY <2>3, <2>5, <3>1, <3>2
  <2>7. \A j \in 1..(k + 1) : Eligible(b, Order[j]) => Considered(h[k + 1], Order[j])
    BY <2>2, <2>3, <2>5
  <2> QED
    BY <2>5, <2>6, <2>7
<1> HIDE DEF Right
<1>7. Nat \subseteq Right
  BY <1>5, <1>6, SetInduction
<1>8. Good(n)
  BY <1>1, <1>7 DEF Right
<1> DEFINE picked == ReadyBatch(b)
<1>9. Admissible(b, picked) /\ \A i \in Items : Eligible(b, i) => Considered(picked, i)
  BY <1>2, <1>4, <1>8
<1> HIDE DEF picked
<1>10. picked = <<>> => \A i \in Items : ~Eligible(b, i)
  BY <1>3, <1>9 DEF Considered
<1>11. picked # <<>> => \E i \in Items : Eligible(b, i)
  <2>1. picked # <<>> => 1 \in DOMAIN picked /\ picked[1] \in Items
    BY <1>9 DEF Admissible
  <2> QED
    BY <1>9, <2>1 DEF Admissible
<1> QED
  BY <1>9, <1>10, <1>11 DEF picked

-----------------------------------------------------------------------------
(* Every column and every local holds a value of its kind                   *)

\* The columns that the invariants so far leave open.
RestTyped ==
  /\ control \in {"run", "pause", "cancel"}
  /\ leaseLive \in BOOLEAN /\ saveErrors \in Nat /\ tampered \in BOOLEAN
  /\ approved \subseteq DOMAIN plan.graphs /\ lost \subseteq Coordinators
QueuesTyped == todo \in [Coordinators -> Seq(Tasks)]
ChildTyped(t) == child[t] \in Child /\ (attempts[t] = "none" <=> child[t] = NoChild)
RowsTyped == child = [t \in Tasks |-> child[t]]
RestInv == RestTyped /\ QueuesTyped /\ RowsTyped /\ \A t \in Tasks : ChildTyped(t)

LEMMA RestOfOperator ==
  ASSUME BodyInv, RestInv,
         \/ Approve \/ Revise \/ Tamper \/ LeaseExpires
         \/ \E gone \in SUBSET approved : Withdraw(gone)
         \/ \E c \in Requests : Control(c)
         \/ \E t \in Tasks : ChildRuns(t)
         \/ UNCHANGED vars
  PROVE  RestTyped' /\ QueuesTyped'
<1>1. UNCHANGED <<plan, lost, todo, saveErrors>>
  BY DEF Approve, Revise, Tamper, LeaseExpires, Withdraw, Control, vars, coordinator, row,
     ChildRuns, ChildEnter, ChildClear, ChildCall, ChildJudge, ChildCommit, ChildFail, ChildStep
<1>2. body.revision \in DOMAIN plan.graphs
  BY DEF BodyInv, Fit
<1>3. approved' \subseteq approved \cup {body.revision}
  BY DEF Approve, Revise, Tamper, LeaseExpires, Withdraw, Control, vars,
     ChildRuns, ChildEnter, ChildClear, ChildCall, ChildJudge, ChildCommit, ChildFail, ChildStep
<1>4. control' = control \/ control' \in Requests
  BY DEF Approve, Revise, Tamper, LeaseExpires, Withdraw, Control, vars, row,
     ChildRuns, ChildEnter, ChildClear, ChildCall, ChildJudge, ChildCommit, ChildFail, ChildStep
<1>5. /\ leaseLive' = leaseLive \/ leaseLive' = FALSE
      /\ tampered' = tampered \/ tampered' = TRUE
  BY DEF Approve, Revise, Tamper, LeaseExpires, Withdraw, Control, vars, row,
     ChildRuns, ChildEnter, ChildClear, ChildCall, ChildJudge, ChildCommit, ChildFail, ChildStep
<1>6. Requests \subseteq {"pause", "cancel"}
  BY WorkflowAssumption
<1> QED
  BY <1>1, <1>2, <1>3, <1>4, <1>5, <1>6 DEF RestInv, RestTyped, QueuesTyped

\* A transaction counts the errors of SQLite, and claims and releases take and drop the
\* lease; else a coordinator leaves these columns alone.
Calm(w) ==
  /\ UNCHANGED <<plan, approved, tampered>>
  /\ control' \in {control, "run"} /\ leaseLive' \in {leaseLive, TRUE, FALSE}
  /\ saveErrors' \in {saveErrors, saveErrors + 1}
  /\ lost' \subseteq lost \cup {w}
Queued(w) == todo' = todo \/ \E q \in Seq(Tasks) : todo' = [todo EXCEPT ![w] = q]

LEMMA ThinkCalm ==
  ASSUME NEW w, NEW b, NEW label, Think(w, b, label) PROVE Calm(w)
  BY DEF Think, Calm, row

LEMMA SaveCalm ==
  ASSUME NEW w, NEW b, NEW next, NEW onError, Save(w, b, next, onError)
  PROVE  Calm(w) /\ Queued(w)
  BY DEF Save, Transact, unsaved, Calm, Queued

LEMMA CheckedCalm ==
  ASSUME NEW w, NEW ok, NEW next, Checked(w, ok, next) PROVE Calm(w) /\ Queued(w)
  BY ThinkCalm DEF Checked, Queued

LEMMA FinishCalm ==
  ASSUME NEW w, NEW t, NEW b, NEW status, NEW next, Finish(w, t, b, status, next)
  PROVE  Calm(w) /\ Queued(w)
  BY DEF Finish, Transact, unsaved, Calm, Queued

\* A queue of item ids is a queue of tasks.
LEMMA TasksOfItems == ASSUME NEW s \in Seq(Items) PROVE s \in Seq(Tasks)
  BY DEF Tasks

LEMMA LoopCalm ==
  ASSUME NEW w, NEW denied, Loop(w, denied) PROVE Calm(w) /\ Queued(w)
<1> DEFINE b == [run[w] EXCEPT !.states = Admitted(run[w], denied)]
           q == IF Integrable(b) THEN <<Final>> ELSE ReadyBatch(b)
<1>1. q \in Seq(Tasks)
  <2>1. ReadyBatch(b) \in Seq(Tasks)
    BY SchedulerPicks, TasksOfItems DEF Admissible
  <2>2. <<Final>> \in Seq(Tasks)
    BY DEF Tasks
  <2> QED
    BY <2>1, <2>2
<1>2. \/ Checked(w, FALSE, "failed") \/ Checked(w, Confirmed(Final), "confirming")
      \/ Think(w, b, WhenBlocked) /\ UNCHANGED todo
      \/ Think(w, b, "choosing") /\ todo' = [todo EXCEPT ![w] = q]
  BY DEF Loop
<1> HIDE DEF b, q
<1> QED
  BY <1>1, <1>2, CheckedCalm, ThinkCalm DEF Queued

LEMMA ReserveCalm ==
  ASSUME RestInv, NEW w \in Coordinators, Reserve(w) PROVE Calm(w) /\ Queued(w)
<1>1. CASE Checked(w, FALSE, "failed")
  BY <1>1, CheckedCalm
<1>2. CASE UNCHANGED <<plan, row, approved, tampered, lost>> /\ todo' = [todo EXCEPT ![w] = Tail(@)]
  <2>1. Tail(todo[w]) \in Seq(Tasks)
    <3>1. todo[w] \in Seq(Tasks) /\ todo[w] # <<>>
      BY DEF RestInv, QueuesTyped, Reserve
    <3> QED
      BY <3>1
  <2>2. todo' = [todo EXCEPT ![w] = Tail(todo[w])]
    BY <1>2
  <2> QED
    BY <1>2, <2>1, <2>2 DEF Calm, Queued, row
<1> QED
  BY <1>1, <1>2 DEF Reserve

LEMMA ForgetCalm == ASSUME NEW w, Forget(w) PROVE Queued(w) /\ lost' \subseteq lost
<1>1. todo' = [todo EXCEPT ![w] = <<>>] /\ lost' = lost \ {w}
  BY DEF Forget
<1>2. <<>> \in Seq(Tasks)
  OBVIOUS
<1> QED
  BY <1>1, <1>2 DEF Queued

LEMMA CoordinatorCalm ==
  ASSUME RestInv, NEW w \in Coordinators,
         \/ Proceed(w) \/ CostUnknown(w) \/ Fail(w) \/ Heartbeat(w) \/ Crash(w)
         \/ \E resume \in BOOLEAN : Claim(w, resume)
  PROVE  Calm(w) /\ Queued(w)
<1>1. CASE \E pin \in BOOLEAN : Load(w, pin)
  BY <1>1, ThinkCalm DEF Load, Queued
<1>2. CASE PinPolicy(w) \/ Unresolved(w) \/ Complete(w) \/ Stop(w) \/ Dispatch(w) \/ Record(w)
  BY <1>2, SaveCalm, CheckedCalm DEF PinPolicy, Unresolved, Complete, Stop, Dispatch, Record,
     SaveState
<1>3. CASE Reconciled(w) \/ Confirm(w) \/ Chosen(w) \/ BatchDone(w) \/ CostUnknown(w) \/ Fail(w)
  BY <1>3, CheckedCalm DEF Reconciled, Confirm, Chosen, BatchDone, CostUnknown, Fail
<1>4. CASE Catch(w)
  BY <1>4, CheckedCalm, ThinkCalm DEF Catch, Queued
<1>5. CASE Reduce(w) \/ \E t \in Tasks : ReconcileOne(w, t)
  BY <1>5, FinishCalm, CheckedCalm DEF Reduce, ReconcileOne
<1>6. CASE \E denied \in SUBSET Withheld : Loop(w, denied)
  BY <1>6, LoopCalm
<1>7. CASE Release(w)
  BY <1>7, ForgetCalm DEF Release, Calm
<1>8. CASE Crash(w)
  BY <1>8, ForgetCalm DEF Crash, Calm, row
<1>9. CASE Heartbeat(w)
  BY <1>9 DEF Heartbeat, Calm, Queued, row
<1>10. CASE \E resume \in BOOLEAN : Claim(w, resume)
  BY <1>10 DEF Claim, Calm, Queued
<1> QED
  BY <1>1, <1>2, <1>3, <1>4, <1>5, <1>6, <1>7, <1>8, <1>9, <1>10, ReserveCalm DEF Proceed

LEMMA CalmRest ==
  ASSUME RestInv, NEW w \in Coordinators, Calm(w), Queued(w) PROVE RestTyped' /\ QueuesTyped'
<1>1. RestTyped'
  <2>1. control' \in {"run", "pause", "cancel"} /\ leaseLive' \in BOOLEAN
    BY DEF Calm, RestInv, RestTyped
  <2>2. saveErrors' \in Nat
    <3>1. saveErrors \in Nat /\ (saveErrors' = saveErrors \/ saveErrors' = saveErrors + 1)
      BY DEF Calm, RestInv, RestTyped
    <3> QED
      BY <3>1
  <2>3. /\ tampered' \in BOOLEAN /\ approved' \subseteq DOMAIN plan'.graphs
        /\ lost' \subseteq Coordinators
    BY DEF Calm, RestInv, RestTyped
  <2> QED
    BY <2>1, <2>2, <2>3 DEF RestTyped
<1>2. QueuesTyped'
  BY DEF Queued, RestInv, QueuesTyped
<1> QED
  BY <1>1, <1>2

\* The row of a child appears with its attempt, and no step makes it the empty row again.
LEMMA TakenChild ==
  ASSUME LaunchInv, BodyInv, RestInv, NEW w \in Coordinators, NEW t \in Tasks, Taken(w, t)
  PROVE  \A u \in Tasks : ChildTyped(u)'
<1> DEFINE new == [state |-> "READY", control |-> "run",
                   revision |-> run[w].revision, fence |-> token[w]]
<1>1. DOMAIN child = Tasks /\ DOMAIN attempts = Tasks /\ token[w] \in Nat
  BY DEF LaunchInv, Typed
<1>2. run[w].revision \in Nat
  BY DEF BodyInv, Body
<1>3. new \in Child /\ new # NoChild
  BY <1>1, <1>2 DEF Child, NoChild
<1>4. child' = [child EXCEPT ![t] = new] /\ attempts' = [attempts EXCEPT ![t] = "STARTED"]
  BY DEF Taken
<1> HIDE DEF new
<1>5. child'[t] = new /\ attempts'[t] = "STARTED"
  BY <1>1, <1>4
<1>6. \A u \in Tasks \ {t} : child'[u] = child[u] /\ attempts'[u] = attempts[u]
  BY <1>1, <1>4
<1> QED
  BY <1>3, <1>5, <1>6 DEF RestInv, ChildTyped

\* A step that changes a row of an attempt changes its state or its control away from
\* those of the empty row.
LEMMA ChildStays ==
  ASSUME RestInv, NEW t \in Tasks, attempts[t] = "none" <=> attempts'[t] = "none",
         \/ child'[t] = child[t]
         \/ /\ attempts[t] # "none"
            /\ \/ child'[t] = [child[t] EXCEPT !.control = "pause"]
               \/ child'[t] = [child[t] EXCEPT !.control = "cancel",
                       !.state = IF child[t].state = "COMPLETED" THEN "COMPLETED" ELSE "OPEN"]
               \/ \E s \in {"OPEN", "COMPLETED"} : child'[t] = [child[t] EXCEPT !.state = s]
  PROVE  ChildTyped(t)'
<1>1. ChildTyped(t)
  BY DEF RestInv
<1>2. CASE child'[t] = child[t]
  BY <1>1, <1>2 DEF ChildTyped
<1>3. ASSUME NEW c \in {"run", "pause", "cancel"}, NEW s \in {"none", "READY", "OPEN", "COMPLETED"},
             child'[t] = [child[t] EXCEPT !.control = c, !.state = s],
             c # "run" \/ s # "none", attempts[t] # "none"
      PROVE  ChildTyped(t)'
  <2>1. child'[t] \in Child
    BY <1>1, <1>3 DEF ChildTyped, Child
  <2>2. child'[t].control = c /\ child'[t].state = s
    BY <1>1, <1>3 DEF ChildTyped, Child
  <2>3. child'[t] # NoChild
    <3>1. NoChild.control = "run" /\ NoChild.state = "none"
      BY DEF NoChild
    <3> QED
      BY <1>3, <2>2, <3>1
  <2> QED
    BY <1>3, <2>1, <2>3 DEF ChildTyped
<1>4. child[t].control \in {"run", "pause", "cancel"}
      /\ child[t].state \in {"none", "READY", "OPEN", "COMPLETED"}
      /\ DOMAIN child[t] = {"state", "control", "revision", "fence"}
  BY <1>1 DEF ChildTyped, Child
<1>5. CASE child'[t] = [child[t] EXCEPT !.control = "pause"] /\ attempts[t] # "none"
  <2>1. child'[t] = [child[t] EXCEPT !.control = "pause", !.state = child[t].state]
    BY <1>1, <1>5 DEF ChildTyped, Child
  <2> QED
    BY <1>3, <1>4, <1>5, <2>1
<1>6. CASE /\ child'[t] = [child[t] EXCEPT !.control = "cancel",
                       !.state = IF child[t].state = "COMPLETED" THEN "COMPLETED" ELSE "OPEN"]
           /\ attempts[t] # "none"
  BY <1>3, <1>6
<1>7. ASSUME NEW s \in {"OPEN", "COMPLETED"}, child'[t] = [child[t] EXCEPT !.state = s],
             attempts[t] # "none"
      PROVE  ChildTyped(t)'
  <2>1. child'[t] = [child[t] EXCEPT !.control = child[t].control, !.state = s]
    BY <1>1, <1>7 DEF ChildTyped, Child
  <2> QED
    BY <1>3, <1>4, <1>7, <2>1
<1> QED
  BY <1>2, <1>5, <1>6, <1>7

LEMMA RowsShape ==
  ASSUME RestInv,
         \/ child' = child
         \/ \E t \in Tasks : \E x : child' = [child EXCEPT ![t] = x]
         \/ \E f : child' = [t \in Tasks |-> f[t]]
  PROVE  RowsTyped'
<1>1. child = [t \in Tasks |-> child[t]]
  BY DEF RestInv, RowsTyped
<1> QED
  BY <1>1 DEF RowsTyped

\* What a step does to the attempts and to the rows of their children.
Settles(t, status) ==
  UNCHANGED child /\ attempts[t] = "STARTED" /\ attempts' = [attempts EXCEPT ![t] = status]
RowMoves ==
  \/ UNCHANGED <<child, attempts>>
  \/ \E t \in Tasks, status \in {"SUCCEEDED", "FAILED"} : Settles(t, status)
  \/ \E w \in Coordinators, t \in Tasks : Taken(w, t)
  \/ \E w \in Coordinators : Heartbeat(w)
  \/ \E t \in Tasks : ChildRuns(t)

LEMMA RowMovesOf == ASSUME LaunchInv, [Next]_vars PROVE RowMoves
<1>1. Typed
  BY DEF LaunchInv
<1>2. ASSUME NEW w \in Coordinators, NEW t \in Tasks, NEW b, NEW next \in {"reconciling", "waiting"},
             NEW status \in {"SUCCEEDED", "FAILED"}, Finish(w, t, b, status, next)
      PROVE  RowMoves
  <2>1. /\ UNCHANGED child
        /\ attempts' = attempts
           \/ (attempts[t] = "STARTED" /\ attempts' = [attempts EXCEPT ![t] = status])
    BY <1>2, Finished
  <2> QED
    BY <1>2, <2>1 DEF RowMoves, Settles
<1>6. ASSUME NEW w \in Coordinators, Reserve(w) PROVE RowMoves
  <2>1. Checked(w, FALSE, "failed") => UNCHANGED <<child, attempts>>
    BY DEF Checked, Think, tasks
  <2> QED
    BY <1>6, <2>1, ReserveKinds DEF RowMoves
<1>7. ASSUME NEW w \in Coordinators, Reduce(w) PROVE RowMoves
  <2>1. PICK t \in Tasks : t = Head(batch[w])
    <3>1. batch[w] \in Seq(Tasks) /\ batch[w] # <<>>
      BY <1>1, <1>7 DEF Typed, Reduce
    <3> QED
      BY <3>1
  <2>2. PICK status \in {"SUCCEEDED", "FAILED"} :
          Finish(w, t, Reduced(run[w], t), status, "waiting")
    BY <1>7, <2>1 DEF Reduce
  <2> QED
    BY <1>2, <2>2
<1>8. ASSUME NEW w \in Coordinators, NEW t \in Tasks, ReconcileOne(w, t)
      PROVE  RowMoves
  <2>1. CASE Confirmed(t)
    <3>1. PICK status \in {"SUCCEEDED", "FAILED"} :
            Finish(w, t, Succeeded(run[w], t), status, "reconciling")
      BY <1>8, <2>1 DEF ReconcileOne
    <3> QED
      BY <1>2, <3>1
  <2>2. CASE ~Confirmed(t)
    BY <1>8, <2>2 DEF ReconcileOne, Checked, Think, tasks, RowMoves
  <2> QED
    BY <2>1, <2>2
<1>9. ASSUME NEW w \in Coordinators,
             \/ \E pin \in BOOLEAN : Load(w, pin)
             \/ PinPolicy(w) \/ Reconciled(w) \/ Unresolved(w) \/ Confirm(w) \/ Complete(w)
             \/ Stop(w) \/ Chosen(w) \/ Dispatch(w) \/ BatchDone(w) \/ Catch(w) \/ Record(w)
             \/ Release(w) \/ CostUnknown(w) \/ Fail(w) \/ Crash(w)
             \/ \E denied \in SUBSET Withheld : Loop(w, denied)
             \/ \E resume \in BOOLEAN : Claim(w, resume)
      PROVE  UNCHANGED <<child, attempts>>
  <2> USE DEF Checked, Think, Save, SaveState, Transact, tasks
  <2>1. CASE \/ \E pin \in BOOLEAN : Load(w, pin)
             \/ PinPolicy(w) \/ Reconciled(w) \/ Unresolved(w) \/ Confirm(w) \/ Complete(w)
    BY <2>1 DEF Load, PinPolicy, Reconciled, Unresolved, Confirm, Complete
  <2>2. CASE \/ Stop(w) \/ Chosen(w) \/ Dispatch(w) \/ BatchDone(w) \/ Catch(w) \/ Record(w)
    BY <2>2 DEF Stop, Chosen, Dispatch, BatchDone, Catch, Record
  <2>3. CASE Release(w) \/ CostUnknown(w) \/ Fail(w) \/ Crash(w)
    BY <2>3 DEF Release, CostUnknown, Fail, Crash
  <2>4. CASE \E denied \in SUBSET Withheld : Loop(w, denied)
    BY <2>4 DEF Loop
  <2>5. CASE \E resume \in BOOLEAN : Claim(w, resume)
    BY <2>5 DEF Claim
  <2> QED
    BY <1>9, <2>1, <2>2, <2>3, <2>4, <2>5
<1>10. ASSUME \/ Approve \/ Revise \/ Tamper \/ LeaseExpires
              \/ \E gone \in SUBSET approved : Withdraw(gone)
              \/ \E c \in Requests : Control(c)
              \/ UNCHANGED vars
       PROVE  UNCHANGED <<child, attempts>>
  BY <1>10 DEF Approve, Revise, Tamper, LeaseExpires, Withdraw, Control, vars, tasks
<1>11. ASSUME NEW w \in Coordinators, Proceed(w) PROVE RowMoves
  BY <1>6, <1>7, <1>8, <1>9, <1>11 DEF Proceed, RowMoves
<1>12. ASSUME NEW w \in Coordinators,
              \/ CostUnknown(w) \/ Fail(w) \/ Heartbeat(w) \/ Crash(w)
              \/ \E resume \in BOOLEAN : Claim(w, resume)
       PROVE  RowMoves
  BY <1>9, <1>12 DEF RowMoves
<1>13. ASSUME NEW t \in Tasks, ChildRuns(t) PROVE RowMoves
  BY <1>13 DEF RowMoves
<1>14. ASSUME UNCHANGED <<child, attempts>> PROVE RowMoves
  BY <1>14 DEF RowMoves
<1> QED
  BY <1>10, <1>11, <1>12, <1>13, <1>14 DEF Next

LEMMA ChildTypes == ASSUME LaunchInv, BodyInv, RestInv, [Next]_vars
                    PROVE  \A t \in Tasks : ChildTyped(t)'
<1>1. Typed /\ \A t \in Tasks : ChildFits(t)
  BY DEF LaunchInv
<1>2. ASSUME UNCHANGED <<child, attempts>> PROVE \A t \in Tasks : ChildTyped(t)'
  BY <1>2 DEF RestInv, ChildTyped
<1>3. ASSUME NEW t \in Tasks, NEW status \in {"SUCCEEDED", "FAILED"}, Settles(t, status)
      PROVE  \A u \in Tasks : ChildTyped(u)'
  <2>1. \A u \in Tasks : attempts[u] = "none" <=> attempts'[u] = "none"
    BY <1>1, <1>3 DEF Typed, Settles
  <2> QED
    BY <1>3, <2>1, ChildStays DEF Settles
<1>4. ASSUME NEW w \in Coordinators, Heartbeat(w) PROVE \A t \in Tasks : ChildTyped(t)'
  <2>1. ASSUME NEW t \in Tasks
        PROVE  \/ child'[t] = child[t]
               \/ /\ t \in Range(batch[w])
                  /\ \/ child'[t] = [child[t] EXCEPT !.control = "pause"]
                     \/ child'[t] = [child[t] EXCEPT !.control = "cancel",
                          !.state = IF child[t].state = "COMPLETED" THEN "COMPLETED" ELSE "OPEN"]
    <3> DEFINE halt == Halted(w, IF control = "pause" THEN "pause" ELSE "cancel")
    <3>1. halt.children \subseteq Range(batch[w])
      BY DEF Halted, Range
    <3>2. \/ child'[t] = child[t]
          \/ /\ t \in halt.children
             /\ \/ child'[t] = [child[t] EXCEPT !.control = "pause"]
                \/ child'[t] = [child[t] EXCEPT !.control = "cancel",
                     !.state = IF child[t].state = "COMPLETED" THEN "COMPLETED" ELSE "OPEN"]
      BY <1>4, <2>1 DEF Heartbeat
    <3> QED
      BY <3>1, <3>2
  <2>2. UNCHANGED attempts
    BY <1>4 DEF Heartbeat
  <2>3. \A t \in Range(batch[w]) : attempts[t] # "none"
    BY DEF LaunchInv, BatchFits
  <2> QED
    BY <2>1, <2>2, <2>3, ChildStays
<1>5. ASSUME NEW t \in Tasks, ChildRuns(t) PROVE \A u \in Tasks : ChildTyped(u)'
  <2>1. UNCHANGED attempts /\ attempts[t] # "none"
    BY <1>5, ChildMoves
  <2>2. \E s : child' = [child EXCEPT ![t].state = s] /\ s \in {child[t].state, "OPEN", "COMPLETED"}
    BY <1>5 DEF ChildRuns, ChildEnter, ChildClear, ChildCall, ChildJudge, ChildCommit, ChildFail,
       ChildStep
  <2>3. PICK s : child' = [child EXCEPT ![t].state = s] /\ s \in {child[t].state, "OPEN", "COMPLETED"}
    BY <2>2
  <2>4. child'[t] = [child[t] EXCEPT !.state = s] /\ \A u \in Tasks \ {t} : child'[u] = child[u]
    BY <1>1, <2>3 DEF Typed
  <2>5. s = child[t].state => child'[t] = child[t]
    <3>1. child[t] \in Child
      BY DEF RestInv, ChildTyped
    <3> QED
      BY <2>4, <3>1 DEF Child
  <2>6. \/ child'[t] = child[t]
        \/ \E r \in {"OPEN", "COMPLETED"} : child'[t] = [child[t] EXCEPT !.state = r]
    BY <2>3, <2>4, <2>5
  <2> QED
    BY <2>1, <2>4, <2>6, ChildStays
<1> QED
  BY <1>2, <1>3, <1>4, <1>5, RowMovesOf, TakenChild DEF RowMoves

LEMMA RowsStep == ASSUME LaunchInv, BodyInv, RestInv, [Next]_vars PROVE RowsTyped'
<1>1. ASSUME NEW w \in Coordinators, NEW t \in Tasks, Taken(w, t) PROVE RowsTyped'
  BY <1>1, RowsShape DEF Taken
<1>2. ASSUME NEW t \in Tasks, ChildRuns(t) PROVE RowsTyped'
  <2>1. PICK s : child' = [child EXCEPT ![t].state = s]
    BY <1>2 DEF ChildRuns, ChildEnter, ChildClear, ChildCall, ChildJudge, ChildCommit, ChildFail,
       ChildStep
  <2>2. child' = [child EXCEPT ![t] = [child[t] EXCEPT !.state = s]]
    BY <2>1
  <2> QED
    BY <2>2, RowsShape
<1>3. ASSUME NEW w \in Coordinators, Heartbeat(w) PROVE RowsTyped'
  <2>1. child' = [t \in Tasks |-> child'[t]]
    BY <1>3 DEF Heartbeat
  <2> QED
    BY <2>1 DEF RowsTyped
<1>4. ASSUME UNCHANGED child PROVE RowsTyped'
  BY <1>4, RowsShape
<1> QED
  BY <1>1, <1>2, <1>3, <1>4, RowMovesOf DEF RowMoves, Settles

LEMMA RestStep == ASSUME LaunchInv, BodyInv, RestInv, [Next]_vars PROVE RestInv'
<1>1. ASSUME NEW w \in Coordinators,
             \/ Proceed(w) \/ CostUnknown(w) \/ Fail(w) \/ Heartbeat(w) \/ Crash(w)
             \/ \E resume \in BOOLEAN : Claim(w, resume)
      PROVE  RestTyped' /\ QueuesTyped'
  BY <1>1, CoordinatorCalm, CalmRest
<1>2. RestTyped' /\ QueuesTyped'
  BY <1>1, RestOfOperator DEF Next
<1> QED
  BY <1>2, ChildTypes, RowsStep DEF RestInv

LEMMA InitRest == Init => RestInv
<1> SUFFICES ASSUME Init PROVE RestInv
  OBVIOUS
<1>1. RestTyped
  BY DEF Init, RestTyped
<1>2. QueuesTyped
  BY DEF Init, QueuesTyped
<1>3. \A t \in Tasks : ChildTyped(t)
  BY DEF Init, ChildTyped, Child, NoChild, NoGrant
<1>4. RowsTyped
  BY DEF Init, RowsTyped
<1> QED
  BY <1>1, <1>2, <1>3, <1>4 DEF RestInv

LEMMA RestAlways == Spec => []RestInv
<1>1. Init => RestInv
  BY InitRest
<1>2. LaunchInv /\ BodyInv /\ RestInv /\ [Next]_vars => RestInv'
  BY RestStep
<1> QED
  BY <1>1, <1>2, LaunchAlways, BodyAlways, PTL DEF Spec, Safety

\* Every column of the row, of the attempts and of the children, and every local of a
\* coordinator, holds a value of its kind, for any number of coordinators and items.
THEOREM TypeCorrect == Spec => []TypeOK
<1>1. LaunchInv /\ BodyInv /\ OwnerInv /\ RestInv => TypeOK
  <2> SUFFICES ASSUME LaunchInv, BodyInv, OwnerInv, RestInv PROVE TypeOK
    OBVIOUS
  <2>1. plan \in Plans /\ body \in Body /\ body.revision \in DOMAIN plan.graphs
        /\ run \in [Coordinators -> Body]
    BY DEF BodyInv, Fit
  <2>2. owner \in Nat
    BY DEF OwnerInv
  <2>3. /\ issued \in Nat /\ attempts \in [Tasks -> {"none", "STARTED", "SUCCEEDED", "FAILED"}]
        /\ pc \in [Coordinators -> Labels] /\ token \in [Coordinators -> Nat]
        /\ batch \in [Coordinators -> Seq(Tasks)]
        /\ childPc \in [Tasks -> ChildLabels] /\ launches \in [Tasks -> Nat]
    BY DEF LaunchInv, Typed, AttemptState
  <2>4. RestTyped /\ RowsTyped /\ todo \in [Coordinators -> Seq(Tasks)] /\ \A t \in Tasks : ChildTyped(t)
    BY DEF RestInv, QueuesTyped
  <2>5. child \in [Tasks -> Child]
    <3>1. \A t \in Tasks : child[t] \in Child
      BY <2>4 DEF ChildTyped
    <3>2. child = [t \in Tasks |-> child[t]]
      BY <2>4 DEF RowsTyped
    <3> QED
      BY <3>1, <3>2
  <2> QED
    BY <2>1, <2>2, <2>3, <2>4, <2>5 DEF TypeOK, RestTyped, ChildTyped
<1> QED
  BY <1>1, LaunchAlways, BodyAlways, OwnerAlways, RestAlways, PTL

-----------------------------------------------------------------------------
(* What was picked can be reserved                                          *)

Picking == {"choosing", "dispatching", "reserving"}

\* The part of a batch that waits for its reservation: what the scheduler admits, never
\* attempted, with room beside the part already reserved and no resource of it.
Waits(w) ==
  /\ Admissible(run[w], todo[w])
  /\ Len(batch[w]) + Len(todo[w]) <= Limit
  /\ \A k \in DOMAIN todo[w] : attempts[todo[w][k]] = "none"
  /\ \A u \in Range(batch[w]) :
       /\ u \in Items /\ child[u].revision = run[w].revision
       /\ \A k \in DOMAIN todo[w] : ~Conflict(todo[w][k], u)
PickFits(w) ==
  Owns(w) /\ pc[w] \in Picking =>
    Waits(w) \/ (todo[w] = <<Final>> /\ batch[w] = <<>> /\ Integrable(run[w]))
PickInv == \A w \in Coordinators : PickFits(w)

\* A coordinator whose picks a step does not touch keeps them.
LEMMA PickKept ==
  ASSUME LaunchInv, PickInv, ChildrenKept, UNCHANGED plan, NEW v \in Coordinators,
         Owns(v)' => Owns(v) /\ attempts' = attempts,
         pc'[v] \in Picking => pc[v] \in Picking,
         run'[v].revision = run[v].revision, run'[v].states = run[v].states,
         todo'[v] = todo[v], batch'[v] = batch[v]
  PROVE  PickFits(v)'
<1> SUFFICES ASSUME Owns(v)', pc'[v] \in Picking
             PROVE  Waits(v)' \/ (todo'[v] = <<Final>> /\ batch'[v] = <<>> /\ Integrable(run[v])')
  BY DEF PickFits
<1>1. Waits(v) \/ (todo[v] = <<Final>> /\ batch[v] = <<>> /\ Integrable(run[v]))
  BY DEF PickInv, PickFits
<1>2. Integrable(run[v]) => Integrable(run[v])'
  BY DEF Integrable, GraphOf
<1>3. ASSUME Waits(v) PROVE Waits(v)'
  <2>1. Admissible(run[v], todo[v])'
    <3>1. GraphOf(run[v])' = GraphOf(run[v]) /\ Limit' = Limit
      BY DEF GraphOf, Limit
    <3>2. ASSUME NEW i PROVE Eligible(run[v], i)' <=> Eligible(run[v], i)
      <4>1. DependenciesMet(run[v], i)' <=> DependenciesMet(run[v], i)
        BY <3>1 DEF DependenciesMet
      <4> QED
        BY <3>1, <4>1 DEF Eligible
    <3>4. /\ todo[v] \in Seq(Items) /\ Len(todo[v]) <= Limit
          /\ \A k \in DOMAIN todo[v] : Eligible(run[v], todo[v][k])
          /\ \A j, k \in DOMAIN todo[v] : j < k =>
               todo[v][k] # todo[v][j] /\ ~Conflict(todo[v][k], todo[v][j])
      BY <1>3 DEF Waits, Admissible
    <3>5. (todo[v] \in Seq(Items) /\ Len(todo[v]) <= Limit)'
      BY <3>1, <3>4
    <3>6. (\A k \in DOMAIN todo[v] : Eligible(run[v], todo[v][k]))'
      <4>1. ASSUME NEW k \in DOMAIN todo[v] PROVE Eligible(run[v], todo[v][k])'
        <5>1. Eligible(run[v], todo[v][k])
          BY <3>4
        <5>2. Eligible(run[v], todo[v][k])' <=> Eligible(run[v], todo[v][k])
          BY <3>2 DEF Eligible, DependenciesMet, GraphOf
        <5> QED
          BY <5>1, <5>2
      <4> QED
        BY <4>1
    <3>7. (\A j, k \in DOMAIN todo[v] : j < k =>
             todo[v][k] # todo[v][j] /\ ~Conflict(todo[v][k], todo[v][j]))'
      BY <3>4 DEF Conflict
    <3> QED
      BY <3>5, <3>6, <3>7 DEF Admissible
  <2>2. (Len(batch[v]) + Len(todo[v]) <= Limit)'
    BY <1>3 DEF Waits, Limit
  <2>3. (\A k \in DOMAIN todo[v] : attempts[todo[v][k]] = "none")'
    BY <1>3 DEF Waits
  <2>4. ASSUME NEW u \in Range(batch[v])
        PROVE  u \in Items /\ child'[u].revision = run'[v].revision
               /\ \A k \in DOMAIN todo'[v] : ~Conflict(todo[v][k], u)'
    <3>1. u \in Tasks /\ attempts[u] # "none"
      BY <2>4 DEF LaunchInv, Typed, BatchFits, Range
    <3>2. child'[u].revision = child[u].revision
      BY <3>1 DEF ChildrenKept
    <3> QED
      BY <1>3, <2>4, <3>2 DEF Waits, Conflict
  <2> QED
    BY <2>1, <2>2, <2>3, <2>4 DEF Waits
<1> QED
  BY <1>1, <1>2, <1>3

\* The steps of a coordinator at whose end its picks wait.
LEMMA PickLabels ==
  ASSUME LaunchInv, BodyInv, NEW w \in Coordinators, pc'[w] \in Picking,
         \/ Proceed(w) \/ CostUnknown(w) \/ Fail(w) \/ Heartbeat(w) \/ Crash(w)
         \/ \E resume \in BOOLEAN : Claim(w, resume)
  PROVE  \/ Heartbeat(w) \/ Chosen(w) \/ Dispatch(w) \/ Reserve(w)
         \/ \E denied \in SUBSET Withheld : Loop(w, denied)
<1> USE DEF Picking
<1>1. pc \in [Coordinators -> Labels]
  BY DEF LaunchInv, Typed
<1>2. ASSUME NEW l, Goto(w, l) PROVE pc'[w] = l
  BY <1>1, <1>2 DEF Goto
<1>3. ASSUME NEW b, NEW l, Think(w, b, l) PROVE pc'[w] = l
  BY <1>2, <1>3 DEF Think
<1>4. ASSUME NEW ok, NEW l, Checked(w, ok, l) PROVE pc'[w] \in {l, "failed"}
  BY <1>3, <1>4 DEF Checked
<1>5. ASSUME NEW b, NEW l, NEW e, Save(w, b, l, e) PROVE pc'[w] \in {l, e}
  BY <1>2, <1>5 DEF Save, Transact
<1>6. ASSUME NEW t, NEW b, NEW s, NEW l, Finish(w, t, b, s, l) PROVE pc'[w] \in {l, "failed"}
  BY <1>2, <1>6 DEF Finish, Transact
<1>7. ASSUME NEW pin \in BOOLEAN, Load(w, pin) PROVE FALSE
  <2>1. \E l \in {"done", "failed", "pinning", "reconciling"} : Think(w, body, l)
    BY <1>7 DEF Load
  <2> QED
    BY <1>3, <2>1
<1>8. ~PinPolicy(w)
  <2>1. PinPolicy(w) => Save(w, run[w], "reconciling", "failed") \/ Checked(w, FALSE, "failed")
    BY DEF PinPolicy
  <2>2. Save(w, run[w], "reconciling", "failed") => pc'[w] \in {"reconciling", "failed"}
    BY <1>5
  <2>3. Checked(w, FALSE, "failed") => pc'[w] \in {"failed", "failed"}
    BY <1>4, Zenon
  <2> QED
    BY <2>1, <2>2, <2>3
<1>8a. ~(Unresolved(w) \/ Complete(w) \/ Stop(w))
  <2>1. ASSUME NEW s, SaveState(w, s, "done") PROVE FALSE
    <3>1. pc'[w] \in {"done", "failed"}
      BY <1>5, <2>1 DEF SaveState
    <3> QED
      BY <3>1
  <2> QED
    BY <2>1 DEF Unresolved, Complete, Stop
<1>8b. ~Record(w)
  <2>1. Record(w) => pc'[w] \in {"done", "done"}
    BY <1>5 DEF Record
  <2> QED
    BY <2>1
<1>9. ASSUME Reconciled(w) \/ Confirm(w) \/ BatchDone(w) \/ CostUnknown(w) \/ Fail(w) PROVE FALSE
  <2>1. \E ok, l : Checked(w, ok, l) /\ l \in {"loop", "completing", "stopping", "failed"}
    BY <1>9 DEF Reconciled, Confirm, BatchDone, CostUnknown, Fail
  <2>2. PICK ok, l : Checked(w, ok, l) /\ l \in {"loop", "completing", "stopping", "failed"}
    BY <2>1
  <2>3. pc'[w] \in {l, "failed"}
    BY <1>4, <2>2
  <2> QED
    BY <2>2, <2>3
<1>10. ASSUME Catch(w) PROVE FALSE
  <2>1. Checked(w, TRUE, "done") \/ \E b : Think(w, b, "recording")
    BY <1>10 DEF Catch
  <2>2. Checked(w, TRUE, "done") => pc'[w] \in {"done", "failed"}
    BY <1>4, Zenon
  <2> QED
    BY <1>3, <2>1, <2>2
<1>11. ASSUME Reduce(w) \/ \E t \in Tasks : ReconcileOne(w, t) PROVE FALSE
  <2>1. \/ \E t, b, s : Finish(w, t, b, s, "waiting") \/ Finish(w, t, b, s, "reconciling")
        \/ Checked(w, TRUE, "unresolved")
    BY <1>11 DEF Reduce, ReconcileOne
  <2>2. ~Checked(w, TRUE, "unresolved")
    <3>1. Checked(w, TRUE, "unresolved") => pc'[w] \in {"unresolved", "failed"}
      BY <1>4, Zenon
    <3> QED
      BY <3>1
  <2>3. PICK t, b, s : Finish(w, t, b, s, "waiting") \/ Finish(w, t, b, s, "reconciling")
    BY <2>1, <2>2
  <2>4. pc'[w] \in {"waiting", "failed"} \/ pc'[w] \in {"reconciling", "failed"}
    BY <1>6, <2>3
  <2> QED
    BY <2>4
<1>12. ~(Release(w) \/ Crash(w))
  BY <1>2 DEF Release, Crash, Forget
<1>13. ~\E resume \in BOOLEAN : Claim(w, resume)
  BY <1>2 DEF Claim
<1> QED
  BY <1>7, <1>8, <1>8a, <1>8b, <1>9, <1>10, <1>11, <1>12, <1>13 DEF Proceed

\* The locals of the other coordinators, their claims and what they attempted.
LEMMA OthersKept ==
  ASSUME LaunchInv, BodyInv, OwnerInv, RestInv, NEW w \in Coordinators,
         \/ Proceed(w) \/ CostUnknown(w) \/ Fail(w) \/ Heartbeat(w) \/ Crash(w)
         \/ \E resume \in BOOLEAN : Claim(w, resume),
         NEW v \in Coordinators, v # w
  PROVE  /\ pc'[v] = pc[v] /\ run'[v] = run[v] /\ todo'[v] = todo[v] /\ batch'[v] = batch[v]
         /\ Owns(v)' => Owns(v) /\ attempts' = attempts
<1>1. /\ pc \in [Coordinators -> Labels] /\ token \in [Coordinators -> Nat]
      /\ batch \in [Coordinators -> Seq(Tasks)] /\ run \in [Coordinators -> Body]
      /\ issued \in Nat /\ owner \in Nat /\ owner <= issued /\ NoGrant = 0
      /\ token[v] <= issued /\ todo \in [Coordinators -> Seq(Tasks)]
  BY DEF LaunchInv, Typed, TokensDiffer, BodyInv, OwnerInv, NoGrant, RestInv, QueuesTyped
<1>2. todo'[v] = todo[v]
  BY <1>1, CoordinatorCalm DEF Queued
<1>3. CASE Continues(w)
  <2>1. /\ pc'[v] = pc[v] /\ run'[v] = run[v] /\ batch'[v] = batch[v]
        /\ UNCHANGED <<owner, token>> /\ (attempts' = attempts \/ Fenced(w))
    BY <1>3 DEF Continues
  <2>2. Owns(v)' => Owns(v)
    BY <2>1 DEF Owns
  <2>3. Owns(v) => ~Fenced(w)
    BY DEF Owns, Fenced, LaunchInv, TokensDiffer
  <2> QED
    BY <1>2, <2>1, <2>2, <2>3
<1>4. CASE \/ Release(w) \/ Crash(w)
           \/ \E pin \in BOOLEAN : Load(w, pin)
           \/ \E resume \in BOOLEAN : Claim(w, resume)
  <2>1. UNCHANGED attempts
    BY <1>4 DEF Release, Crash, Load, Think, Claim, tasks
  <2>2. pc'[v] = pc[v] /\ run'[v] = run[v] /\ batch'[v] = batch[v] /\ token'[v] = token[v]
    <3>1. CASE Release(w) \/ Crash(w)
      BY <1>1, <3>1 DEF Release, Crash, Forget, Goto
    <3>2. CASE \E pin \in BOOLEAN : Load(w, pin)
      BY <1>1, <3>2 DEF Load, Think, Goto
    <3>3. CASE \E resume \in BOOLEAN : Claim(w, resume)
      BY <1>1, <3>3 DEF Claim, Goto
    <3> QED
      BY <1>4, <3>1, <3>2, <3>3
  <2>3. owner' \in {owner, NoGrant} \/ owner' = issued + 1
    BY <1>4 DEF Release, Crash, Load, Think, Claim, row
  <2>4. Owns(v)' => Owns(v)
    BY <1>1, <2>2, <2>3 DEF Owns
  <2> QED
    BY <1>2, <2>1, <2>2, <2>4
<1> QED
  BY <1>3, <1>4, StepKinds

\* The loop picks when nothing of its claim is reserved.
LEMMA LoopPicks ==
  ASSUME LaunchInv, BodyInv, RestInv, NEW w \in Coordinators, NEW denied, Loop(w, denied),
         pc'[w] \in Picking
  PROVE  PickFits(w)'
<1> DEFINE b == [run[w] EXCEPT !.states = Admitted(run[w], denied)]
<1>1. /\ pc \in [Coordinators -> Labels] /\ run \in [Coordinators -> Body]
      /\ todo \in [Coordinators -> Seq(Tasks)]
  BY DEF LaunchInv, Typed, BodyInv, RestInv, QueuesTyped
<1>2. batch[w] = <<>>
  BY DEF Loop, LaunchInv, BatchFits, InFlight
<1>3. Think(w, b, "choosing") /\ UNCHANGED batch
      /\ todo' = [todo EXCEPT ![w] = IF Integrable(b) THEN <<Final>> ELSE ReadyBatch(b)]
  <2>1. ~Checked(w, FALSE, "failed") /\ ~Checked(w, Confirmed(Final), "confirming")
    <3>1. ASSUME NEW ok, NEW l \in {"failed", "confirming"}, Checked(w, ok, l) PROVE FALSE
      <4>1. pc'[w] \in {"failed", "confirming"}
        BY <1>1, <3>1 DEF Checked, Think, Goto
      <4> QED
        BY <4>1 DEF Picking
    <3> QED
      BY <3>1, Zenon
  <2>2. ~Think(w, b, WhenBlocked)
    BY <1>1 DEF Think, Goto, WhenBlocked, Picking
  <2> QED
    BY <2>1, <2>2 DEF Loop
<1>4. /\ run'[w] = b /\ UNCHANGED <<plan, attempts>> /\ batch'[w] = <<>>
      /\ todo'[w] = IF Integrable(b) THEN <<Final>> ELSE ReadyBatch(b)
  BY <1>1, <1>2, <1>3 DEF Think, tasks
<1>5. /\ b.revision = run[w].revision /\ b.states = Admitted(run[w], denied)
  BY <1>1 DEF Body
<1>6. ASSUME NEW i \in Items, Eligible(b, i) PROVE attempts[i] = "none"
  <2>1. i \in DOMAIN GraphOf(run[w]) /\ Admitted(run[w], denied)[i] = "READY"
    BY <1>5, <1>6 DEF Eligible, GraphOf
  <2>2. i \notin Attempted
    BY <2>1 DEF Admitted
  <2> QED
    BY <2>2 DEF Attempted, Tasks
<1> HIDE DEF b
<1>7. CASE Integrable(b)
  <2>1. Integrable(run[w])'
    BY <1>4, <1>7 DEF Integrable, GraphOf
  <2> QED
    BY <1>4, <1>7, <2>1 DEF PickFits
<1>8. CASE ~Integrable(b)
  <2> DEFINE q == ReadyBatch(b)
  <2>1. Admissible(b, q)
    BY SchedulerPicks
  <2> HIDE DEF q
  <2>2. todo'[w] = q
    BY <1>4, <1>8 DEF q
  <2>3. Admissible(run[w], todo[w])'
    BY <1>4, <2>1, <2>2 DEF Admissible, Eligible, DependenciesMet, GraphOf, Limit, Conflict
  <2>4. \A k \in DOMAIN q : q[k] \in Items /\ Eligible(b, q[k])
    BY <2>1 DEF Admissible
  <2>5. \A k \in DOMAIN todo'[w] : attempts'[todo'[w][k]] = "none"
    BY <1>4, <1>6, <2>2, <2>4
  <2>6. Len(batch'[w]) + Len(todo'[w]) <= Limit'
    <3>1. Len(q) \in Nat /\ Len(q) <= Limit /\ Limit \in Nat /\ Limit' = Limit
      BY <1>4, <2>1, LimitIsPositive DEF Admissible, Limit
    <3>2. Len(batch'[w]) = 0
      BY <1>4
    <3> QED
      BY <2>2, <3>1, <3>2
  <2>7. Range(batch'[w]) = {}
    BY <1>4 DEF Range
  <2>8. Waits(w)'
    BY <2>3, <2>5, <2>6, <2>7 DEF Waits
  <2> QED
    BY <2>8 DEF PickFits
<1> QED
  BY <1>7, <1>8

\* The rest of an admissible batch after its first item was taken.
LEMMA RestAdmits ==
  ASSUME NEW b, NEW c, NEW s, Admissible(b, s), s # <<>>, GraphOf(b) = GraphOf(c),
         \A i \in Items \ {s[1]} : c.states[i] = b.states[i],
         \A i \in DOMAIN GraphOf(b) : GraphOf(b)[i] \subseteq Items
  PROVE  /\ Admissible(c, Tail(s)) /\ Len(s) = Len(Tail(s)) + 1 /\ Len(Tail(s)) \in Nat
         /\ \A k \in DOMAIN Tail(s) :
              /\ k + 1 \in DOMAIN s /\ Tail(s)[k] = s[k + 1] /\ s[k + 1] # s[1]
              /\ ~Conflict(s[k + 1], s[1])
<1> DEFINE q == Tail(s)  n == Len(s)
<1>1. s \in Seq(Items) /\ n \in Nat /\ n > 0 /\ DOMAIN s = 1..n /\ n <= Limit
  BY DEF Admissible
<1>2. q \in Seq(Items) /\ Len(q) = n - 1 /\ DOMAIN q = 1..(n - 1)
      /\ \A k \in 1..(n - 1) : q[k] = s[k + 1]
  BY <1>1
<1>3. Len(q) \in Nat /\ n = Len(q) + 1 /\ Len(q) <= Limit
  BY <1>1, <1>2, LimitIsPositive
<1> HIDE DEF q, n
<1>4. ASSUME NEW k \in DOMAIN q
      PROVE  /\ k + 1 \in DOMAIN s /\ q[k] = s[k + 1] /\ s[k + 1] # s[1]
             /\ ~Conflict(s[k + 1], s[1])
  <2>1. k + 1 \in DOMAIN s /\ q[k] = s[k + 1] /\ 1 \in DOMAIN s /\ 1 < k + 1
    BY <1>1, <1>2
  <2> QED
    BY <2>1 DEF Admissible
<1>5. ASSUME NEW k \in DOMAIN q PROVE Eligible(c, q[k])
  <2>1. Eligible(b, s[k + 1]) /\ Eligible(b, s[1]) /\ s[k + 1] \in Items /\ s[1] \in Items
    BY <1>1, <1>4 DEF Admissible
  <2>2. c.states[s[k + 1]] = "READY"
    BY <1>4, <2>1 DEF Eligible
  <2>3. ASSUME NEW j \in GraphOf(c)[s[k + 1]] PROVE c.states[j] = "SUCCEEDED"
    <3>1. j \in Items /\ b.states[j] = "SUCCEEDED"
      BY <2>1, <2>3 DEF Eligible, DependenciesMet
    <3>2. j # s[1]
      BY <2>1, <3>1 DEF Eligible
    <3> QED
      BY <3>1, <3>2
  <2> QED
    BY <1>4, <2>1, <2>2, <2>3 DEF Eligible, DependenciesMet
<1>6. ASSUME NEW j \in DOMAIN q, NEW k \in DOMAIN q, j < k
      PROVE  q[k] # q[j] /\ ~Conflict(q[k], q[j])
  <2>1. j + 1 \in DOMAIN s /\ k + 1 \in DOMAIN s /\ j + 1 < k + 1
    BY <1>1, <1>2, <1>4, <1>6
  <2> QED
    BY <1>4, <2>1 DEF Admissible
<1>7. Admissible(c, q)
  BY <1>2, <1>3, <1>5, <1>6 DEF Admissible
<1> QED
  BY <1>3, <1>4, <1>7 DEF q, n

\* The reservation of the first leaves the others as they were.
LEMMA ReservePicks ==
  ASSUME LaunchInv, BodyInv, RestInv, PickInv, ChildrenKept, NEW w \in Coordinators, Reserve(w),
         pc'[w] \in Picking, Owns(w)'
  PROVE  PickFits(w)'
<1>1. /\ pc \in [Coordinators -> Labels] /\ run \in [Coordinators -> Body]
      /\ todo \in [Coordinators -> Seq(Tasks)] /\ batch \in [Coordinators -> Seq(Tasks)]
      /\ DOMAIN child = Tasks /\ DOMAIN attempts = Tasks
  BY DEF LaunchInv, Typed, BodyInv, RestInv, QueuesTyped
<1>2. ~Checked(w, FALSE, "failed")
  BY <1>1 DEF Checked, Think, Goto, Picking
<1>3. PICK t \in Tasks :
        /\ t = Head(todo[w]) /\ Reservable(w, t) /\ todo[w] # <<>> /\ pc[w] = "reserving"
        /\ attempts' = [attempts EXCEPT ![t] = "STARTED"]
        /\ child' = [child EXCEPT ![t] = [state |-> "READY", control |-> "run",
                       revision |-> run[w].revision, fence |-> token[w]]]
        /\ run' = [run EXCEPT ![w].states =
                     [i \in Items |-> IF i = t THEN "RUNNING" ELSE @[i]]]
        /\ batch' = [batch EXCEPT ![w] = Append(@, t)]
        /\ todo' = [todo EXCEPT ![w] = Tail(@)]
        /\ IF todo'[w] = <<>> THEN Goto(w, "waiting") ELSE Goto(w, "reserving")
        /\ UNCHANGED <<plan, row, token>>
  BY <1>2 DEF Reserve
<1>4. /\ todo'[w] = Tail(todo[w]) /\ batch'[w] = Append(batch[w], t)
      /\ attempts'[t] = "STARTED" /\ \A u \in Tasks \ {t} : attempts'[u] = attempts[u]
      /\ child'[t].revision = run[w].revision
  BY <1>1, <1>3
<1>5. /\ run'[w].revision = run[w].revision
      /\ \A i \in Items \ {t} : run'[w].states[i] = run[w].states[i]
  <2>1. run'[w] = [run[w] EXCEPT !.states =
                     [i \in Items |-> IF i = t THEN "RUNNING" ELSE run[w].states[i]]]
    BY <1>1, <1>3
  <2> QED
    BY <1>1, <2>1 DEF Body
<1>6. todo'[w] # <<>>
  BY <1>1, <1>3 DEF Goto, Picking
<1>7. Owns(w)
  BY <1>3 DEF Owns, row
<1>8. todo[w] # <<Final>>
  <2>1. Tail(<<Final>>) = <<>>
    OBVIOUS
  <2> QED
    BY <1>4, <1>6, <2>1
<1>9. Waits(w)
  BY <1>3, <1>7, <1>8 DEF PickInv, PickFits, Picking
<1>10. /\ UNCHANGED plan /\ GraphOf(run'[w]) = GraphOf(run[w]) /\ Limit' = Limit
       /\ \A i, j : Conflict(i, j)' <=> Conflict(i, j)
  BY <1>3, <1>5 DEF GraphOf, Limit, Conflict
<1>11. \A i \in DOMAIN GraphOf(run[w]) : GraphOf(run[w])[i] \subseteq Items
  <2>1. run[w].revision \in DOMAIN plan.graphs /\ plan \in Plans
    BY DEF BodyInv, Fit
  <2> DEFINE g == plan.graphs[run[w].revision]
  <2>2. DOMAIN g \subseteq Items /\ \A i \in DOMAIN g : g[i] \subseteq DOMAIN g
    BY <2>1, WorkflowAssumption
  <2> QED
    BY <2>2 DEF GraphOf
<1> DEFINE q == Tail(todo[w])  c == run'[w]
<1>12. Head(todo[w]) = todo[w][1]
  BY <1>1, <1>3
<1>13. /\ Admissible(c, q) /\ Len(todo[w]) = Len(q) + 1 /\ Len(q) \in Nat
       /\ \A k \in DOMAIN q :
            /\ k + 1 \in DOMAIN todo[w] /\ q[k] = todo[w][k + 1] /\ todo[w][k + 1] # todo[w][1]
            /\ ~Conflict(todo[w][k + 1], todo[w][1])
  <2> DEFINE b == run[w]  s == todo[w]
  <2>1. Admissible(b, s) /\ s # <<>> /\ GraphOf(b) = GraphOf(c)
    BY <1>3, <1>9, <1>10 DEF Waits
  <2>2. \A i \in Items \ {s[1]} : c.states[i] = b.states[i]
    BY <1>3, <1>5, <1>12
  <2>3. \A i \in DOMAIN GraphOf(b) : GraphOf(b)[i] \subseteq Items
    BY <1>11
  <2> HIDE DEF b, c, s
  <2>4. /\ Admissible(c, Tail(s)) /\ Len(s) = Len(Tail(s)) + 1 /\ Len(Tail(s)) \in Nat
        /\ \A k \in DOMAIN Tail(s) :
             /\ k + 1 \in DOMAIN s /\ Tail(s)[k] = s[k + 1] /\ s[k + 1] # s[1]
             /\ ~Conflict(s[k + 1], s[1])
    BY <2>1, <2>2, <2>3, RestAdmits
  <2> QED
    BY <2>4 DEF s
<1> HIDE DEF q, c
<1>14. Admissible(run[w], todo[w])'
  <2>1. /\ q \in Seq(Items) /\ Len(q) <= Limit
        /\ \A k \in DOMAIN q : Eligible(c, q[k])
        /\ \A j, k \in DOMAIN q : j < k => q[k] # q[j] /\ ~Conflict(q[k], q[j])
    BY <1>13 DEF Admissible
  <2>2. run'[w] = c /\ todo'[w] = q
    BY <1>4 DEF q, c
  <2>3. \A k \in DOMAIN todo'[w] : Eligible(run[w], todo[w][k])'
    BY <1>10, <2>1, <2>2 DEF Eligible, DependenciesMet, GraphOf
  <2>4. \A j, k \in DOMAIN todo'[w] :
          j < k => todo'[w][k] # todo'[w][j] /\ ~Conflict(todo[w][k], todo[w][j])'
    BY <1>10, <2>1, <2>2 DEF Conflict
  <2>5. todo'[w] \in Seq(Items) /\ Len(todo'[w]) <= Limit'
    BY <1>10, <2>1, <2>2
  <2> QED
    BY <2>3, <2>4, <2>5 DEF Admissible
<1>15. Len(batch'[w]) + Len(todo'[w]) <= Limit'
  <2>1. Len(batch[w]) + Len(todo[w]) <= Limit /\ Limit' = Limit /\ Limit \in Nat
    BY <1>9, <1>10, LimitIsPositive DEF Waits, Limit
  <2>2. batch[w] \in Seq(Tasks) /\ Len(batch[w]) \in Nat
    BY <1>1
  <2>3. Len(batch'[w]) = Len(batch[w]) + 1
    BY <1>4, <2>2
  <2> DEFINE m == Len(batch[w])  n == Len(q)  o == Len(todo[w])  p == Len(batch'[w])
  <2>4. m \in Nat /\ n \in Nat /\ o = n + 1 /\ p = m + 1 /\ m + o <= Limit
    BY <1>13, <2>1, <2>2, <2>3
  <2>5. Len(todo'[w]) = n
    BY <1>4 DEF q
  <2> HIDE DEF m, n, o, p
  <2>6. p + n <= Limit
    BY <2>1, <2>4
  <2> QED
    BY <2>1, <2>5, <2>6 DEF p
<1>16. ASSUME NEW k \in DOMAIN todo'[w]
       PROVE  /\ attempts'[todo'[w][k]] = "none" /\ todo'[w][k] = todo[w][k + 1]
              /\ k + 1 \in DOMAIN todo[w] /\ ~Conflict(todo'[w][k], t)
  <2>1. k + 1 \in DOMAIN todo[w] /\ todo'[w][k] = todo[w][k + 1] /\ todo[w][k + 1] # t
        /\ ~Conflict(todo[w][k + 1], t)
    BY <1>3, <1>4, <1>12, <1>13, <1>16 DEF q
  <2>2. attempts[todo[w][k + 1]] = "none" /\ todo[w][k + 1] \in Tasks
    BY <1>1, <1>9, <2>1 DEF Waits
  <2> QED
    BY <1>4, <2>1, <2>2
<1>17. ASSUME NEW u \in Range(batch'[w])
       PROVE  /\ u \in Items /\ child'[u].revision = run'[w].revision
              /\ \A k \in DOMAIN todo'[w] : ~Conflict(todo'[w][k], u)
  <2>1. Range(batch'[w]) = Range(batch[w]) \cup {t}
    BY <1>1, <1>4, AppendRange
  <2>2. CASE u = t
    <3>1. t \in Items
      <4>1. todo[w] \in Seq(Items)
        BY <1>9 DEF Waits, Admissible
      <4> QED
        BY <1>3, <1>12, <4>1
    <3> QED
      BY <1>4, <1>5, <1>16, <2>2, <3>1
  <2>3. CASE u \in Range(batch[w])
    <3>1. u \in Tasks /\ attempts[u] # "none"
      BY <2>3 DEF LaunchInv, Typed, BatchFits, Range
    <3>2. child'[u].revision = child[u].revision
      BY <3>1 DEF ChildrenKept
    <3>3. u \in Items /\ child[u].revision = run[w].revision
          /\ \A k \in DOMAIN todo[w] : ~Conflict(todo[w][k], u)
      BY <1>9, <2>3 DEF Waits
    <3>4. \A k \in DOMAIN todo'[w] : ~Conflict(todo'[w][k], u)
      BY <1>16, <3>3
    <3> QED
      BY <1>5, <3>2, <3>3, <3>4
  <2> QED
    BY <1>17, <2>1, <2>2, <2>3
<1>18. Waits(w)'
  BY <1>10, <1>14, <1>15, <1>16, <1>17 DEF Waits
<1> QED
  BY <1>18 DEF PickFits

LEMMA PickStep ==
  ASSUME LaunchInv, BodyInv, OwnerInv, RestInv, PickInv, [Next]_vars PROVE PickInv'
<1>1. ChildrenKept /\ UNCHANGED plan
  BY KeepsChildren, MovesOfSteps DEF AttemptMoves
<1>2. ASSUME NEW w \in Coordinators,
             \/ Proceed(w) \/ CostUnknown(w) \/ Fail(w) \/ Heartbeat(w) \/ Crash(w)
             \/ \E resume \in BOOLEAN : Claim(w, resume)
      PROVE  PickInv'
  <2>1. ASSUME NEW v \in Coordinators, v # w PROVE PickFits(v)'
    <3>1. /\ pc'[v] = pc[v] /\ run'[v] = run[v] /\ todo'[v] = todo[v] /\ batch'[v] = batch[v]
          /\ Owns(v)' => Owns(v) /\ attempts' = attempts
      BY <1>2, <2>1, OthersKept
    <3> QED
      BY <1>1, <3>1, PickKept
  <2>2. PickFits(w)'
    <3>0. SUFFICES ASSUME pc'[w] \in Picking, Owns(w)' PROVE PickFits(w)'
      BY DEF PickFits
    <3>1. pc \in [Coordinators -> Labels] /\ run \in [Coordinators -> Body]
      BY DEF LaunchInv, Typed, BodyInv
    <3>2. CASE Heartbeat(w)
      <4>1. UNCHANGED <<pc, run, todo, batch, attempts, owner, token>>
        BY <3>2 DEF Heartbeat, row
      <4> QED
        BY <1>1, <4>1, PickKept DEF Owns
    <3>3. CASE Chosen(w)
      <4>1. pc[w] = "choosing" /\ run' = [run EXCEPT ![w] = run[w]]
            /\ UNCHANGED <<todo, batch, attempts, owner, token>>
        BY <3>3 DEF Chosen, Checked, Think, row, tasks
      <4>2. run'[w] = run[w]
        BY <3>1, <4>1
      <4> QED
        BY <1>1, <4>1, <4>2, PickKept DEF Owns, Picking
    <3>4. CASE Dispatch(w)
      <4>1. PICK s : SaveState(w, s, "reserving")
        BY <3>4 DEF Dispatch
      <4>2. pc[w] = "dispatching" /\ run' = [run EXCEPT ![w] = [run[w] EXCEPT !.state = s]]
            /\ UNCHANGED <<todo, batch, attempts, owner, token>>
        BY <3>4, <4>1 DEF Dispatch, SaveState, Save, Transact, unsaved, tasks
      <4>3. run'[w].revision = run[w].revision /\ run'[w].states = run[w].states
        BY <3>1, <4>2 DEF Body
      <4> QED
        BY <1>1, <4>2, <4>3, PickKept DEF Owns, Picking
    <3>5. CASE Reserve(w)
      BY <1>1, <3>0, <3>5, ReservePicks
    <3>6. CASE \E denied \in SUBSET Withheld : Loop(w, denied)
      BY <3>0, <3>6, LoopPicks
    <3> QED
      BY <1>2, <3>0, <3>2, <3>3, <3>4, <3>5, <3>6, PickLabels
  <2> QED
    BY <2>1, <2>2 DEF PickInv
<1>3. ASSUME \/ Approve \/ Revise \/ Tamper \/ LeaseExpires
             \/ \E gone \in SUBSET approved : Withdraw(gone)
             \/ \E c \in Requests : Control(c)
             \/ \E t \in Tasks : ChildRuns(t)
             \/ UNCHANGED vars
      PROVE  PickInv'
  <2>1. UNCHANGED <<pc, run, todo, batch, attempts, owner, token>>
    BY <1>3 DEF Approve, Revise, Tamper, LeaseExpires, Withdraw, Control, vars, coordinator, row,
       tasks, ChildRuns, ChildEnter, ChildClear, ChildCall, ChildJudge, ChildCommit, ChildFail,
       ChildStep
  <2>2. ASSUME NEW v \in Coordinators PROVE PickFits(v)'
    BY <1>1, <2>1, PickKept DEF Owns
  <2> QED
    BY <2>2 DEF PickInv
<1> QED
  BY <1>2, <1>3 DEF Next

LEMMA PickAlways == Spec => []PickInv
<1>1. Init => PickInv
  BY DEF Init, PickInv, PickFits, Picking
<1>2. LaunchInv /\ BodyInv /\ OwnerInv /\ RestInv /\ PickInv /\ [Next]_vars => PickInv'
  BY PickStep
<1> QED
  BY <1>1, <1>2, LaunchAlways, BodyAlways, OwnerAlways, RestAlways, PTL DEF Spec, Safety

\* The number of items in a batch.
LEMMA RangeSize ==
  ASSUME NEW S, NEW s \in Seq(S)
  PROVE  IsFiniteSet(Range(s)) /\ Cardinality(Range(s)) \in Nat /\ Cardinality(Range(s)) <= Len(s)
<1> DEFINE n == Len(s)
<1>1. n \in Nat /\ DOMAIN s = 1..n
  OBVIOUS
<1>2. IsFiniteSet(1..n) /\ Cardinality(1..n) = n
  BY <1>1, FS_Interval
<1>3. Range(s) = {s[k] : k \in 1..n} /\ s \in [1..n -> Range(s)]
  BY <1>1 DEF Range
<1>4. s \in Surjection(1..n, Range(s))
  BY <1>3 DEF Surjection
<1>5. IsFiniteSet(Range(s)) /\ Cardinality(Range(s)) <= Cardinality(1..n)
  BY <1>2, <1>4, FS_Surjection
<1> QED
  BY <1>2, <1>5, FS_CardinalityType

\* What a coordinator picked stays reservable: reserve() checks everything a second time,
\* and as long as the claim, the operator's control and the approval stand, it refuses
\* only a second integration.
PicksStand ==
  \A w \in Coordinators :
    /\ pc[w] = "reserving" /\ todo[w] # <<>>
    /\ Fenced(w) /\ control = "run" /\ run[w].revision \in approved
    /\ Head(todo[w]) = Final => attempts[Final] = "none"
    => Reservable(w, Head(todo[w]))

\* Whatever happens to the rows meanwhile, a batch that was picked can be reserved to its
\* end: the second check of reserve() never refuses what the first admitted, unless the
\* lease was lost, the operator intervened or the approval is gone.
THEOREM PicksAreReservable == Spec => []PicksStand
<1>1. LaunchInv /\ BodyInv /\ OwnerInv /\ RestInv /\ PickInv => PicksStand
  <2> SUFFICES ASSUME LaunchInv, BodyInv, OwnerInv, RestInv, PickInv,
                      NEW w \in Coordinators, pc[w] = "reserving", todo[w] # <<>>,
                      Fenced(w), control = "run", run[w].revision \in approved,
                      Head(todo[w]) = Final => attempts[Final] = "none"
               PROVE  Reservable(w, Head(todo[w]))
    BY DEF PicksStand
  <2> DEFINE t == Head(todo[w])
  <2>1. Owns(w) /\ pc[w] # "idle"
    BY DEF Fenced, Owns, LaunchInv, TokensDiffer
  <2>2. batch[w] \in Seq(Tasks) /\ todo[w] \in Seq(Tasks) /\ t = todo[w][1] /\ 1 \in DOMAIN todo[w]
    BY DEF LaunchInv, Typed, RestInv, QueuesTyped
  <2>3. /\ Started \subseteq Range(batch[w]) /\ body.revision = run[w].revision
    BY <2>1 DEF OwnerInv, OwnerFits, Extends, Entered
  <2>4. \A u \in Range(batch[w]) : u \in Tasks
    BY <2>2 DEF Range
  <2>5. Limit \in Nat /\ Limit > 0
    BY LimitIsPositive
  <2>6. CASE todo[w] = <<Final>> /\ batch[w] = <<>> /\ Integrable(run[w])
    <3>1. t = Final
      BY <2>6
    <3>2. Started = {} /\ attempts[Final] = "none"
      BY <2>3, <2>6, <3>1 DEF Range
    <3>3. Cardinality(Started) = 0
      BY <3>2, FS_EmptySet
    <3> QED
      BY <2>3, <2>5, <2>6, <3>1, <3>2, <3>3 DEF Reservable
  <2>7. CASE Waits(w)
    <3>1. Eligible(run[w], t) /\ t \in Items /\ attempts[t] = "none" /\ t # Final
      BY <2>2, <2>7, WorkflowAssumption DEF Waits, Admissible
    <3>2. \A u \in Started : child[u].revision = run[w].revision /\ ~Conflict(t, u)
      BY <2>2, <2>3, <2>7 DEF Waits
    <3>3. Cardinality(Started) < Limit
      <4>1. /\ IsFiniteSet(Range(batch[w])) /\ Cardinality(Range(batch[w])) \in Nat
            /\ Cardinality(Range(batch[w])) <= Len(batch[w])
        BY <2>2, RangeSize
      <4>2. Cardinality(Started) <= Cardinality(Range(batch[w])) /\ Cardinality(Started) \in Nat
        BY <2>3, <4>1, FS_Subset, FS_CardinalityType
      <4> DEFINE m == Len(batch[w])  n == Len(todo[w])
      <4>3. m \in Nat /\ n \in Nat /\ n > 0 /\ m + n <= Limit
        <5>1. Len(batch[w]) + Len(todo[w]) <= Limit
          BY <2>7 DEF Waits
        <5>2. Len(todo[w]) \in Nat /\ Len(todo[w]) > 0 /\ Len(batch[w]) \in Nat
          BY <2>2
        <5> QED
          BY <5>1, <5>2
      <4>4. Cardinality(Range(batch[w])) <= m
        BY <4>1
      <4> HIDE DEF m, n
      <4> QED
        BY <2>5, <4>1, <4>2, <4>3, <4>4
    <3>4. Final \notin Started
      <4>1. Final \notin Range(batch[w])
        BY <2>7, WorkflowAssumption DEF Waits
      <4> QED
        BY <2>3, <4>1
    <3> QED
      BY <2>3, <3>1, <3>2, <3>3, <3>4 DEF Reservable, Eligible
  <2> QED
    BY <2>1, <2>6, <2>7 DEF PickInv, PickFits, Picking
<1> QED
  BY <1>1, LaunchAlways, BodyAlways, OwnerAlways, RestAlways, PickAlways, PTL

=============================================================================
