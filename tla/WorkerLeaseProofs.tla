-------------------------- MODULE WorkerLeaseProofs --------------------------
(***************************************************************************)
(* Proofs about WorkerLease for every set of workers and processes, every   *)
(* lease term and every value of the bounds.                                *)
(***************************************************************************)
EXTENDS WorkerLease, TLAPS

USE DEF NoGrant, NoPid

\* What fencing rests on.  FencedOff alone is not inductive: a claim keeps it
\* only because no worker holds a grant later than `issued`, and a heartbeat
\* keeps LostWorkerNeverCommits only because a lost owner has its lease at 0.
FenceInv ==
  /\ TypeOK
  /\ owner \in {NoGrant, issued}
  /\ \A w \in Workers : grant[w] <= issued
  /\ \A w \in Workers : step[w] # "idle" => grant[w] # NoGrant
  /\ \A w \in lost : owner = grant[w] => leaseUntil = 0

\* The initial row satisfies the invariant.
LEMMA InitFence == Init => FenceInv
  BY LeaseAssumption, PidAssumption
  DEF Init, FenceInv, TypeOK, RunState, Controls, Steps, Delivery

\* Every statement of the store keeps every column in its type.
LEMMA NextType == TypeOK /\ [Next]_vars => TypeOK'
<1> USE LeaseAssumption, PidAssumption
<1> SUFFICES ASSUME TypeOK, [Next]_vars PROVE TypeOK'
  OBVIOUS
<1> USE DEF TypeOK, world, row, body, history, local
<1>1. ASSUME NEW c \in Controls, Control(c) PROVE TypeOK'
  BY <1>1 DEF Control, Controls, RunState, Delivery
<1>2. ASSUME NEW w \in Workers, NEW resume \in BOOLEAN, Claim(w, resume)
      PROVE TypeOK'
  BY <1>2 DEF Claim, ClaimedControl, Controls, Steps
<1>3. ASSUME NEW w \in Workers, BeatRead(w) PROVE TypeOK'
  BY <1>3 DEF BeatRead, ReadClock, Steps
<1>4. ASSUME NEW w \in Workers, BeatWrite(w) PROVE TypeOK'
  BY <1>4 DEF BeatWrite, Renewed, InTerm, Steps
<1>5. ASSUME NEW w \in Workers, SaveRead(w) PROVE TypeOK'
  BY <1>5 DEF SaveRead, ReadClock, Steps
<1>6. ASSUME NEW w \in Workers, SaveInvalidate(w) PROVE TypeOK'
  BY <1>6 DEF SaveInvalidate, InTerm, Steps
<1>7. ASSUME NEW w \in Workers, NEW s \in RunState, SaveCommit(w, s) PROVE TypeOK'
  BY <1>7 DEF SaveCommit, Steps
<1>8. ASSUME NEW w \in Workers, SaveRefused(w) PROVE TypeOK'
  BY <1>8 DEF SaveRefused, Steps
<1>9. ASSUME NEW w \in Workers, Release(w) PROVE TypeOK'
  BY <1>9 DEF Release, ClearedRow, Steps
<1>10. ASSUME Tick PROVE TypeOK'
  BY <1>10 DEF Tick
<1>11. ASSUME NEW t \in 0..MaxTime, ClockSetBack(t) PROVE TypeOK'
  BY <1>11 DEF ClockSetBack
<1>12. ASSUME NEW p \in Processes, Crash(p) PROVE TypeOK'
  BY <1>12 DEF Crash, Steps
<1>13. ASSUME NEW p \in Processes, NEW by \in {"up", "reused"}, PidTaken(p, by)
       PROVE TypeOK'
  BY <1>13 DEF PidTaken
<1>14. CASE UNCHANGED vars
  BY <1>14 DEF vars
<1> QED
  BY <1>1, <1>2, <1>3, <1>4, <1>5, <1>6, <1>7, <1>8, <1>9, <1>10, <1>11, <1>12,
     <1>13, <1>14 DEF Next, WorkerStep

\* TypeOK holds of every behaviour.
THEOREM TypeCorrect == Spec => []TypeOK
<1>1. Init => TypeOK
  BY InitFence DEF FenceInv
<1> QED
  BY <1>1, NextType, PTL DEF Spec

\* Every step keeps the fence.  Only Claim can make a grant the owner, and it
\* makes a fresh one; only a worker whose grant owns the row writes its lease.
LEMMA NextFence == FenceInv /\ [Next]_vars => FenceInv'
<1> USE LeaseAssumption, PidAssumption
<1> SUFFICES ASSUME FenceInv, [Next]_vars PROVE FenceInv'
  OBVIOUS
<1>0. TypeOK /\ TypeOK'
  BY NextType DEF FenceInv
<1> DEFINE Rest == /\ owner \in {NoGrant, issued}
                   /\ \A w \in Workers : grant[w] <= issued
                   /\ \A w \in Workers : step[w] # "idle" => grant[w] # NoGrant
                   /\ \A w \in lost : owner = grant[w] => leaseUntil = 0
<1> SUFFICES Rest'
  BY <1>0 DEF FenceInv
<1> USE <1>0 DEF TypeOK, FenceInv, world, row, body, history, local
<1>1. ASSUME NEW c \in Controls, Control(c) PROVE Rest'
  BY <1>1 DEF Control
<1>2. ASSUME NEW w \in Workers, NEW resume \in BOOLEAN, Claim(w, resume)
      PROVE Rest'
  <2>1. /\ owner' = issued' /\ issued' = issued + 1
        /\ grant' = [grant EXCEPT ![w] = issued + 1]
        /\ lost' = lost \ {w}
        /\ step' = [step EXCEPT ![w] = "working"]
    BY <1>2 DEF Claim
  <2>2. \A v \in lost' : owner' # grant'[v]
    BY <2>1
  <2> QED
    BY <2>1, <2>2
<1>3. ASSUME NEW w \in Workers, BeatRead(w) \/ SaveRead(w) PROVE Rest'
  BY <1>3 DEF BeatRead, SaveRead, ReadClock
<1>4. ASSUME NEW w \in Workers, BeatWrite(w) PROVE Rest'
  BY <1>4 DEF BeatWrite, Renewed, InTerm
<1>5. ASSUME NEW w \in Workers, SaveInvalidate(w) PROVE Rest'
  BY <1>5 DEF SaveInvalidate, InTerm
<1>6. ASSUME NEW w \in Workers, NEW s \in RunState, SaveCommit(w, s) PROVE Rest'
  BY <1>6 DEF SaveCommit
<1>7. ASSUME NEW w \in Workers, SaveRefused(w) PROVE Rest'
  BY <1>7 DEF SaveRefused
<1>8. ASSUME NEW w \in Workers, Release(w) PROVE Rest'
  BY <1>8 DEF Release, ClearedRow
<1>9. ASSUME Tick PROVE Rest'
  BY <1>9 DEF Tick
<1>10. ASSUME NEW t \in 0..MaxTime, ClockSetBack(t) PROVE Rest'
  BY <1>10 DEF ClockSetBack
<1>11. ASSUME NEW p \in Processes, Crash(p) PROVE Rest'
  BY <1>11 DEF Crash
<1>12. ASSUME NEW p \in Processes, NEW by \in {"up", "reused"}, PidTaken(p, by)
       PROVE Rest'
  BY <1>12 DEF PidTaken
<1>13. CASE UNCHANGED vars
  BY <1>13 DEF vars
<1> QED
  BY <1>1, <1>2, <1>3, <1>4, <1>5, <1>6, <1>7, <1>8, <1>9, <1>10, <1>11, <1>12,
     <1>13 DEF Next, WorkerStep

LEMMA AlwaysFence == Spec => []FenceInv
  BY InitFence, NextFence, PTL DEF Spec

\* A superseded worker never owns the row again.
THEOREM Fencing == Spec => []FencedOff
<1>1. FenceInv => FencedOff
  BY DEF FenceInv, FencedOff, TypeOK
<1> QED
  BY <1>1, AlwaysFence, PTL

\* A worker whose heartbeat failed never commits another save: its lease is at
\* 0, SaveCommit needs clock < leaseUntil, and nothing but a claim raises it.
THEOREM LossIsFinal == Spec => LostWorkerNeverCommits
<1> DEFINE Silent == version' # version => \A w \in lost : grant[w] # writer'
<1>1. ASSUME FenceInv, [Next]_vars, version' # version
      PROVE  \A w \in lost : grant[w] # writer'
  <2>1. PICK v \in Workers, s \in RunState : SaveCommit(v, s)
    BY <1>1
    DEF Next, WorkerStep, Control, Claim, BeatRead, SaveRead, ReadClock, BeatWrite,
        SaveInvalidate, SaveRefused, Release, Tick, ClockSetBack, Crash, PidTaken,
        history, vars
  <2>2. writer' = owner /\ leaseUntil # 0
    BY <1>1, <2>1 DEF SaveCommit, InTerm, FenceInv, TypeOK
  <2> QED
    BY <1>1, <2>2 DEF FenceInv
<1>2. FenceInv /\ [Next]_vars => [Silent]_vars
  BY <1>1
<1> QED
  BY <1>2, AlwaysFence, PTL DEF Spec, LostWorkerNeverCommits

\* Once control is "cancel" it stays: control() refuses anything else, and the
\* claim of a resume lifts only a pause.
THEOREM CancellationIsFinal == Spec => CancelIsFinal
<1>1. [Next]_vars => [control = "cancel" => control' = "cancel"]_vars
  BY DEF Next, WorkerStep, Control, Claim, ClaimedControl, Cancelled, BeatRead,
         SaveRead, ReadClock, BeatWrite, SaveInvalidate, SaveCommit, SaveRefused,
         Release, Tick, ClockSetBack, Crash, PidTaken, world, row, body, history,
         local, vars
<1> QED
  BY <1>1, PTL DEF Spec, CancelIsFinal

\* One step of the clocked lease is one step of the fence, or none: a claim is
\* Grant, a committed save is Commit, and a lease that drops to 0 is Lose.
LEMMA StepImplementsFence == FenceInv /\ [Next]_vars => [Fence!Next]_(Fence!vars)
<1> USE LeaseAssumption, PidAssumption
<1> SUFFICES ASSUME FenceInv, [Next]_vars PROVE [Fence!Next]_(Fence!vars)
  OBVIOUS
<1> USE DEF FenceInv, TypeOK, Holder, Fence!vars, Fence!NoGrant
<1>1. ASSUME NEW w \in Workers, NEW resume \in BOOLEAN, Claim(w, resume)
      PROVE  Fence!Grant
  BY <1>1 DEF Claim, Fence!Grant
<1>2. ASSUME NEW w \in Workers, NEW s \in RunState, SaveCommit(w, s)
      PROVE  Fence!Commit
  BY <1>2 DEF SaveCommit, InTerm, row, Fence!Commit
<1>3. ASSUME NEW w \in Workers, BeatWrite(w)
      PROVE  Fence!Lose \/ UNCHANGED Fence!vars
  BY <1>3 DEF BeatWrite, Renewed, InTerm, history, Fence!Lose
<1>4. ASSUME NEW w \in Workers, SaveInvalidate(w) \/ Release(w)
      PROVE  Fence!Lose \/ UNCHANGED Fence!vars
  BY <1>4 DEF SaveInvalidate, Release, ClearedRow, row, history, Fence!Lose
<1>5. ASSUME UNCHANGED <<row, history>>
      PROVE  UNCHANGED Fence!vars
  BY <1>5 DEF row, history
<1>6. \/ \E w \in Workers, resume \in BOOLEAN : Claim(w, resume)
      \/ \E w \in Workers, s \in RunState : SaveCommit(w, s)
      \/ \E w \in Workers : BeatWrite(w) \/ SaveInvalidate(w) \/ Release(w)
      \/ UNCHANGED <<row, history>>
  BY DEF Next, WorkerStep, Control, BeatRead, SaveRead, ReadClock, SaveRefused,
         Tick, ClockSetBack, Crash, PidTaken, row, history, vars
<1> QED
  BY <1>1, <1>2, <1>3, <1>4, <1>5, <1>6 DEF Fence!Next

\* The lease with its clock, its pids and its crashes implements FencedStore.
THEOREM LeaseImplementsFence == Spec => ImplementsFence
<1>1. Init => Fence!Init
  BY DEF Init, Fence!Init, Holder, Fence!NoGrant
<1> QED
  BY <1>1, StepImplementsFence, AlwaysFence, PTL DEF Spec, ImplementsFence, Fence!Spec
=============================================================================
