------------------------- MODULE LocalDecisionProofs -------------------------
(***************************************************************************)
(* Proofs about LocalDecision for every set of processes, files and         *)
(* decisions and every value of the bounds.                                 *)
(***************************************************************************)
EXTENDS LocalDecision, TLAPS

\* The process executes the decision it has reserved.
Executes(x) == x.at \in {"start", "commit"}

\* What a process carries along, as far as it says which decision it executes, or
\* where it goes on: CancelRun takes the name of its next step from the argument.
ProcFits(x) ==
  /\ DOMAIN x = DOMAIN Idle
  /\ x.at = "reserve" \/ Executes(x) => x.arg.decision \in Decisions
  /\ x.at \in {"revoke", "cancel"} => x.arg.then \in {"review", "reject"}

\* What executing once rests on: a process that executes a decision is the only one,
\* and the row says how far it has come.
OnceInv ==
  /\ DOMAIN proc = Procs /\ \A p \in Procs : ProcFits(proc[p])
  /\ DOMAIN decisions = Decisions
  /\ \A d \in Decisions : DOMAIN decisions[d] = DOMAIN Absent
  /\ \A p \in Procs :
       /\ At(p, "start") => decisions[proc[p].arg.decision].state = "RESERVED"
       /\ At(p, "commit") => decisions[proc[p].arg.decision].state = "STARTED"
  /\ \A p, q \in Procs :
       p # q /\ Executes(proc[p]) /\ Executes(proc[q])
         => proc[p].arg.decision # proc[q].arg.decision

LEMMA InitOnce == InitDecisions => OnceInv
<1> SUFFICES ASSUME InitDecisions PROVE OnceInv
  OBVIOUS
<1>1. proc = [p \in Procs |-> Idle] /\ decisions = [d \in Decisions |-> Absent]
  BY DEF InitDecisions, Init
<1> QED
  BY <1>1 DEF OnceInv, ProcFits, Executes, At, Idle

-----------------------------------------------------------------------------
(* Steps that leave the decisions alone.                                    *)

\* One process goes on to a step that is not the execution of a decision.
LEMMA Elsewhere ==
  ASSUME OnceInv, NEW p \in Procs, NEW x, proc' = [proc EXCEPT ![p] = x],
         ProcFits(x), ~Executes(x), decisions' = decisions
  PROVE  OnceInv'
<1>1. /\ DOMAIN proc' = Procs /\ proc'[p] = x
      /\ \A q \in Procs \ {p} : proc'[q] = proc[q]
  BY DEF OnceInv
<1>2. \A q \in Procs : ProcFits(proc'[q])
  BY <1>1 DEF OnceInv
<1>3. ASSUME NEW q \in Procs, Executes(proc'[q]) PROVE q # p /\ proc'[q] = proc[q]
  BY <1>1, <1>3
<1>4. ASSUME NEW q \in Procs
      PROVE /\ At(q, "start")' => decisions'[proc'[q].arg.decision].state = "RESERVED"
            /\ At(q, "commit")' => decisions'[proc'[q].arg.decision].state = "STARTED"
  BY <1>3 DEF At, Executes, OnceInv
<1>5. ASSUME NEW q \in Procs, NEW r \in Procs, q # r, Executes(proc'[q]), Executes(proc'[r])
      PROVE proc'[q].arg.decision # proc'[r].arg.decision
  BY <1>3, <1>5 DEF OnceInv
<1> QED
  BY <1>1, <1>2, <1>4, <1>5 DEF OnceInv

\* A process begins a command, or ends the one it is in.
LEMMA Beginning ==
  ASSUME OnceInv, NEW p \in Procs, NEW at, NEW run, NEW arg, Enter(p, at, run, arg),
         at \notin {"reserve", "start", "commit"},
         at \in {"revoke", "cancel"} => arg.then \in {"review", "reject"},
         decisions' = decisions
  PROVE  OnceInv'
<1> DEFINE x == [at |-> at, rev |-> task.rev, run |-> run, arg |-> arg]
<1>1. ProcFits(x) /\ ~Executes(x)
  BY DEF ProcFits, Executes, Idle
<1>2. proc' = [proc EXCEPT ![p] = x]
  BY DEF Enter
<1> HIDE DEF x
<1> QED
  BY <1>1, <1>2, Elsewhere

LEMMA Ending ==
  ASSUME OnceInv, NEW p \in Procs, Done(p), decisions' = decisions
  PROVE  OnceInv'
<1>1. ProcFits(Idle) /\ ~Executes(Idle)
  BY DEF ProcFits, Executes, Idle
<1> QED
  BY <1>1, Elsewhere DEF Done

\* A process goes on with what it carries.
LEMMA Proceeding ==
  ASSUME OnceInv, NEW p \in Procs, NEW at, Goto(p, at), decisions' = decisions,
         at \notin {"reserve", "start", "commit"},
         at = "cancel" => At(p, "revoke"), at # "revoke"
  PROVE  OnceInv'
<1> DEFINE x == [proc[p] EXCEPT !.at = at]
<1>1. DOMAIN proc[p] = DOMAIN Idle /\ ProcFits(proc[p])
  BY DEF OnceInv, ProcFits
<1>2. DOMAIN x = DOMAIN Idle /\ x.at = at /\ x.arg = proc[p].arg
  BY <1>1 DEF Idle
<1>3. ProcFits(x) /\ ~Executes(x)
  BY <1>1, <1>2 DEF ProcFits, Executes, At
<1>4. proc' = [proc EXCEPT ![p] = x]
  BY DEF Goto
<1> HIDE DEF x
<1> QED
  BY <1>3, <1>4, Elsewhere

\* A process ends and no decision changes its state.
LEMMA Ended ==
  ASSUME OnceInv, NEW p \in Procs, Done(p), DOMAIN decisions' = Decisions,
         \A d \in Decisions : /\ DOMAIN decisions'[d] = DOMAIN Absent
                              /\ decisions'[d].state = decisions[d].state
  PROVE  OnceInv'
<1>1. /\ DOMAIN proc' = Procs /\ proc'[p] = Idle
      /\ \A q \in Procs \ {p} : proc'[q] = proc[q]
  BY DEF OnceInv, Done
<1>2. ProcFits(Idle) /\ ~Executes(Idle)
  BY DEF ProcFits, Executes, Idle
<1>3. ASSUME NEW q \in Procs, Executes(proc'[q]) PROVE q # p /\ proc'[q] = proc[q]
  BY <1>1, <1>2, <1>3
<1>4. ASSUME NEW q \in Procs
      PROVE /\ ProcFits(proc'[q])
            /\ At(q, "start")' => decisions'[proc'[q].arg.decision].state = "RESERVED"
            /\ At(q, "commit")' => decisions'[proc'[q].arg.decision].state = "STARTED"
  BY <1>1, <1>2, <1>3 DEF At, Executes, OnceInv, ProcFits
<1>5. ASSUME NEW q \in Procs, NEW r \in Procs, q # r, Executes(proc'[q]), Executes(proc'[r])
      PROVE proc'[q].arg.decision # proc'[r].arg.decision
  BY <1>3, <1>5 DEF OnceInv
<1> QED
  BY <1>1, <1>4, <1>5 DEF OnceInv

\* No process moves.
LEMMA Resting ==
  ASSUME OnceInv, UNCHANGED proc, DOMAIN decisions' = Decisions,
         \A d \in Decisions : /\ DOMAIN decisions'[d] = DOMAIN Absent
                              /\ decisions'[d].state = decisions[d].state
  PROVE  OnceInv'
<1>1. \A p \in Procs : ProcFits(proc[p])
  BY DEF OnceInv
<1>2. ASSUME NEW p \in Procs
      PROVE /\ At(p, "start")' => decisions'[proc'[p].arg.decision].state = "RESERVED"
            /\ At(p, "commit")' => decisions'[proc'[p].arg.decision].state = "STARTED"
  BY <1>1 DEF OnceInv, At, Executes, ProcFits
<1> QED
  BY <1>2 DEF OnceInv

-----------------------------------------------------------------------------
(* The commands of the task and of its files.                               *)

LEMMA PlanSteps == ASSUME OnceInv, NEW p \in Procs, Plans(p), UNCHANGED bootVars PROVE OnceInv'
<1> USE DEF bootVars
<1>1. CASE CreateTask(p)
  <2> DEFINE x == [Idle EXCEPT !.at = "plan", !.rev = 1]
  <2>1. ProcFits(x) /\ ~Executes(x)
    BY DEF ProcFits, Executes, Idle
  <2>2. proc' = [proc EXCEPT ![p] = x]
    BY <1>1 DEF CreateTask
  <2> HIDE DEF x
  <2> QED
    BY <2>1, <2>2, Elsewhere
<1>2. CASE BeginDraft(p) \/ BeginClarify(p) \/ BeginApprove(p)
  BY <1>2, Beginning DEF BeginDraft, BeginClarify, BeginApprove, Begin
<1>3. CASE BeginPrepare(p)
  BY <1>3, Beginning DEF BeginPrepare, Begin
<1>4. CASE BeginReview(p)
  BY <1>4, Beginning DEF BeginReview, Begin
<1>5. CASE BeginReject(p)
  BY <1>5, Beginning DEF BeginReject, Begin
<1>6. CASE \/ RecordPlan(p) \/ CommitDraft(p) \/ CommitClarify(p) \/ CommitPrepare(p)
           \/ AttachRun(p) \/ CommitReview(p) \/ CommitReject(p)
  BY <1>6, Ending
  DEF RecordPlan, CommitDraft, CommitClarify, CommitPrepare, AttachRun, CommitReview,
      CommitReject, Finish
<1>7. CASE ApproveRun(p) \/ Crash(p)
  BY <1>7, Ending DEF ApproveRun, Crash
<1>8. CASE CreateRun(p)
  BY <1>8, Proceeding DEF CreateRun
<1>9. CASE RevokeRun(p)
  BY <1>9, Proceeding DEF RevokeRun
<1>10. CASE CancelRun(p)
  <2>1. Goto(p, proc[p].arg.then) /\ proc[p].arg.then \in {"review", "reject"}
    BY <1>10 DEF CancelRun, OnceInv, ProcFits, At
  <2> QED
    BY <2>1, Proceeding
<1> QED
  BY <1>1, <1>2, <1>3, <1>4, <1>5, <1>6, <1>7, <1>8, <1>9, <1>10 DEF Plans

\* Those of the coordinator move no process.
LEMMA WorkerSteps == ASSUME OnceInv, NEW r, WorkerStep(r), UNCHANGED bootVars PROVE OnceInv'
<1>1. UNCHANGED proc /\ UNCHANGED decisions
  BY DEF WorkerStep, WorkerClaims, WorkerAttempts, WorkerEnds, ApprovalExpires, bootVars
<1> QED
  BY <1>1, Resting DEF OnceInv

\* What a process holds while it materializes a fileset is of no account here.
LEMMA Holding ==
  ASSUME OnceInv, NEW p \in Procs, NEW x, proc' = [proc EXCEPT ![p] = x],
         DOMAIN x = DOMAIN Idle, x.at \in {"put", "latest", "settle"}, decisions' = decisions
  PROVE  OnceInv'
<1>1. ProcFits(x) /\ ~Executes(x)
  BY DEF ProcFits, Executes
<1> QED
  BY <1>1, Elsewhere

LEMMA Abandoning ==
  ASSUME OnceInv, NEW p \in Procs, Abandon(p), decisions' = decisions PROVE OnceInv'
  BY Ending DEF Abandon

LEMMA FileSteps ==
  ASSUME OnceInv, NEW p \in Procs, decisions' = decisions,
         \/ ClaimFileset(p) \/ PutFile(p) \/ EndFiles(p) \/ ReadLatest(p) \/ Settle(p)
  PROVE  OnceInv'
<1>0. DOMAIN proc[p] = DOMAIN Idle
  BY DEF OnceInv, ProcFits
<1>1. CASE ClaimFileset(p)
  <2>1. CASE Done(p)
    BY <2>1, Ending
  <2>2. CASE proc' = [proc EXCEPT ![p].at = "put", ![p].arg = Preflight(proc[p].run)]
    <3> DEFINE x == [proc[p] EXCEPT !.at = "put", !.arg = Preflight(proc[p].run)]
    <3>1. DOMAIN x = DOMAIN Idle /\ x.at = "put"
      BY <1>0 DEF Idle
    <3>2. proc' = [proc EXCEPT ![p] = x]
      BY <2>2
    <3> HIDE DEF x
    <3> QED
      BY <3>1, <3>2, Holding
  <2> QED
    BY <1>1, <2>1, <2>2 DEF ClaimFileset
<1>2. CASE PutFile(p)
  <2>1. Abandon(p) \/ \E a : proc' = [proc EXCEPT ![p].arg = a]
    BY <1>2, Zenon DEF PutFile
  <2>2. ASSUME NEW a, proc' = [proc EXCEPT ![p].arg = a] PROVE OnceInv'
    <3> DEFINE x == [proc[p] EXCEPT !.arg = a]
    <3>1. DOMAIN x = DOMAIN Idle /\ x.at = "put"
      BY <1>0, <1>2 DEF Idle, PutFile, At
    <3>2. proc' = [proc EXCEPT ![p] = x]
      BY <2>2
    <3> HIDE DEF x
    <3> QED
      BY <3>1, <3>2, Holding
  <2> QED
    BY <2>1, <2>2, Abandoning
<1>3. CASE EndFiles(p)
  BY <1>3, Abandoning, Proceeding DEF EndFiles
<1>4. CASE ReadLatest(p)
  <2> DEFINE x == [proc[p] EXCEPT !.at = "settle", !.rev = task.rev]
  <2>1. DOMAIN x = DOMAIN Idle /\ x.at = "settle"
    BY <1>0 DEF Idle
  <2>2. proc' = [proc EXCEPT ![p] = x]
    BY <1>4 DEF ReadLatest
  <2> HIDE DEF x
  <2> QED
    BY <2>1, <2>2, Holding
<1>5. CASE Settle(p)
  BY <1>5, Abandoning DEF Settle
<1> QED
  BY <1>1, <1>2, <1>3, <1>4, <1>5

\* A revision of the contract revokes decisions that were not executed.
LEMMA RevisionStep == ASSUME OnceInv, NEW p \in Procs, CommitRevise(p) PROVE OnceInv'
<1>1. CASE decisions' = decisions
  BY <1>1, Ending DEF CommitRevise
<1>2. CASE decisions' = [d \in Decisions |->
                           IF decisions[d].state = "ISSUED"
                             THEN [decisions[d] EXCEPT !.revoked = TRUE] ELSE decisions[d]]
  <2>1. /\ DOMAIN decisions' = Decisions
        /\ \A d \in Decisions : /\ DOMAIN decisions'[d] = DOMAIN Absent
                                /\ decisions'[d].state = decisions[d].state
    BY <1>2 DEF OnceInv, Absent
  <2>2. Done(p)
    BY DEF CommitRevise
  <2> QED
    BY <2>1, <2>2, Ended
<1> QED
  BY <1>1, <1>2 DEF CommitRevise

LEMMA BuildSteps == ASSUME OnceInv, NEW p \in Procs, Builds(p) PROVE OnceInv'
<1> USE DEF bootVars
<1>1. CASE BeginSubmit(p)
  BY <1>1, Beginning DEF BeginSubmit, Begin
<1>2. CASE BeginRepair(p)
  BY <1>2, Beginning DEF BeginRepair, Begin
<1>3. CASE BeginFiles(p) \/ BeginVerify(p)
  BY <1>3, Beginning DEF BeginFiles, BeginVerify, Begin
<1>4. CASE BeginRevise(p)
  BY <1>4, Beginning DEF BeginRevise, Begin
<1>5. CASE InsertFileset(p)
  BY <1>5, Ending, Proceeding DEF InsertFileset
<1>6. CASE RecordFileset(p) \/ EndVerify(p)
  BY <1>6, Ending DEF RecordFileset, EndVerify, Finish
<1>7. CASE ClaimFileset(p) \/ PutFile(p) \/ EndFiles(p) \/ ReadLatest(p) \/ Settle(p)
  <2>1. decisions' = decisions
    BY <1>7 DEF ClaimFileset, PutFile, EndFiles, ReadLatest, Settle
  <2> QED
    BY <1>7, <2>1, FileSteps
<1>8. CASE CommitRevise(p)
  BY <1>8, RevisionStep
<1> QED
  BY <1>1, <1>2, <1>3, <1>4, <1>5, <1>6, <1>7, <1>8 DEF Builds

-----------------------------------------------------------------------------
(* The decisions themselves.                                                *)

\* What one step may do to the state of one decision.
Turn(d) ==
  LET from == decisions[d].state  to == decisions'[d].state IN
  \/ from \notin Executed /\ to \notin Executed /\ d \notin Known
  \/ from \notin Executed /\ to = "RESERVED" /\ ~decisions[d].seen
  \/ from = "RESERVED" /\ to = "STARTED" /\ ~decisions[d].seen
  \/ from = "STARTED" /\ to \in Results /\ ~decisions[d].seen
  \/ from \in {"RESERVED", "STARTED"} /\ to = "HUMAN_HANDOFF"
OthersStay(d) ==
  /\ DOMAIN decisions' = Decisions
  /\ \A e \in Decisions : DOMAIN decisions'[e] = DOMAIN Absent
  /\ \A e \in Decisions \ {d} : decisions'[e].state = decisions[e].state
AllStay ==
  /\ DOMAIN decisions' = Decisions
  /\ \A e \in Decisions : /\ DOMAIN decisions'[e] = DOMAIN Absent
                          /\ decisions'[e].state = decisions[e].state
OneTurn == AllStay \/ \E d \in Decisions : Turn(d) /\ OthersStay(d)

\* A process moves and a decision that no other process executes moves with it.
LEMMA MovesTogether ==
  ASSUME OnceInv, NEW p \in Procs, NEW x, proc' = [proc EXCEPT ![p] = x], ProcFits(x),
         NEW d \in Decisions, OthersStay(d),
         Executes(x) => x.arg.decision = d,
         x.at = "start" => decisions'[d].state = "RESERVED",
         x.at = "commit" => decisions'[d].state = "STARTED",
         \A q \in Procs \ {p} : Executes(proc[q]) => proc[q].arg.decision # d
  PROVE  OnceInv'
<1>1. /\ DOMAIN proc' = Procs /\ proc'[p] = x
      /\ \A q \in Procs \ {p} : proc'[q] = proc[q]
  BY DEF OnceInv
<1>2. \A q \in Procs : ProcFits(proc'[q])
  BY <1>1 DEF OnceInv
<1>3. ASSUME NEW q \in Procs
      PROVE /\ At(q, "start")' => decisions'[proc'[q].arg.decision].state = "RESERVED"
            /\ At(q, "commit")' => decisions'[proc'[q].arg.decision].state = "STARTED"
  <2>1. CASE q = p
    BY <1>1, <2>1 DEF At, Executes
  <2>2. CASE q # p /\ Executes(proc[q])
    <3>1. proc'[q] = proc[q] /\ proc[q].arg.decision \in Decisions \ {d}
      BY <1>1, <2>2 DEF OnceInv, ProcFits
    <3> QED
      BY <3>1 DEF OnceInv, OthersStay, At
  <2>3. CASE q # p /\ ~Executes(proc[q])
    BY <1>1, <2>3 DEF At, Executes
  <2> QED
    BY <2>1, <2>2, <2>3
<1>4. ASSUME NEW q \in Procs, NEW r \in Procs, q # r, Executes(proc'[q]), Executes(proc'[r])
      PROVE proc'[q].arg.decision # proc'[r].arg.decision
  <2>1. CASE q # p /\ r # p
    BY <1>1, <1>4, <2>1 DEF OnceInv
  <2>2. CASE q = p
    BY <1>1, <1>4, <2>2
  <2>3. CASE r = p
    BY <1>1, <1>4, <2>3
  <2> QED
    BY <2>1, <2>2, <2>3
<1> QED
  BY <1>1, <1>2, <1>3, <1>4 DEF OnceInv, OthersStay

\* A process that does not execute a decision leaves it to the one that does.
LEMMA NotExecuted ==
  ASSUME OnceInv, NEW d \in Decisions, decisions[d].state \notin {"RESERVED", "STARTED"},
         NEW q \in Procs, Executes(proc[q])
  PROVE  proc[q].arg.decision # d
  BY DEF OnceInv, Executes, At

LEMMA IssueSteps ==
  ASSUME OnceInv, NEW p \in Procs, BeginIssue(p) \/ CommitIssue(p)
  PROVE  OnceInv' /\ OneTurn
<1>1. CASE BeginIssue(p)
  <2>1. decisions' = decisions
    BY <1>1 DEF BeginIssue, bootVars
  <2>2. OnceInv'
    BY <1>1, <2>1, Beginning DEF BeginIssue
  <2> QED
    BY <2>1, <2>2 DEF OneTurn, AllStay, OnceInv
<1>2. CASE CommitIssue(p) /\ decisions' = decisions
  <2>1. OnceInv'
    BY <1>2, Ending DEF CommitIssue
  <2> QED
    BY <1>2, <2>1 DEF OneTurn, AllStay, OnceInv
<1>3. ASSUME NEW d \in Decisions \ Known, CommitIssue(p),
             decisions' = [decisions EXCEPT ![d] = Issued(proc[p].arg)]
      PROVE  OnceInv' /\ OneTurn
  <2>1. DOMAIN Issued(proc[p].arg) = DOMAIN Absent /\ Issued(proc[p].arg).state = "ISSUED"
    BY DEF Issued, Absent
  <2>2. OthersStay(d) /\ decisions'[d].state = "ISSUED" /\ decisions[d].state = "ABSENT"
    BY <1>3, <2>1 DEF OnceInv, OthersStay, Known
  <2>3. Turn(d)
    BY <2>2 DEF Turn, Executed, Results
  <2>4. proc' = [proc EXCEPT ![p] = Idle] /\ ProcFits(Idle) /\ ~Executes(Idle)
    BY <1>3 DEF CommitIssue, Done, ProcFits, Executes, Idle
  <2>5. OnceInv'
    <3>1. Idle.at # "start" /\ Idle.at # "commit"
      BY DEF Idle
    <3> QED
      BY <2>2, <2>4, <3>1, NotExecuted, MovesTogether
  <2> QED
    BY <2>2, <2>3, <2>5 DEF OneTurn
<1> QED
  BY <1>1, <1>2, <1>3 DEF CommitIssue

\* The state of no decision changes when an expiry is recorded.
LEMMA Observing == ASSUME OnceInv, NEW d \in Decisions, Observe(d) PROVE AllStay
  BY DEF Observe, OnceInv, AllStay, Absent

LEMMA BeginExecuteStep ==
  ASSUME OnceInv, NEW p \in Procs, NEW d \in Decisions, BeginExecute(p, d)
  PROVE  OnceInv' /\ OneTurn
<1>1. CASE Observe(d) /\ UNCHANGED proc
  <2>1. AllStay
    BY <1>1, Observing
  <2>2. OnceInv'
    BY <1>1, <2>1, Resting DEF AllStay
  <2> QED
    BY <2>1, <2>2 DEF OneTurn
<1>2. CASE /\ proc' = [proc EXCEPT ![p] = [Idle EXCEPT !.at = "reserve", !.arg = [decision |-> d]]]
           /\ UNCHANGED decisions
  <2> DEFINE x == [Idle EXCEPT !.at = "reserve", !.arg = [decision |-> d]]
  <2>1. ProcFits(x) /\ ~Executes(x)
    BY DEF ProcFits, Executes, Idle
  <2> HIDE DEF x
  <2>2. OnceInv'
    BY <1>2, <2>1, Elsewhere DEF x
  <2> QED
    BY <1>2, <2>2 DEF OneTurn, AllStay, OnceInv
<1> QED
  BY <1>1, <1>2 DEF BeginExecute

\* A process goes on to execute the decision it carries, or hands it off.
LEMMA GoingOn ==
  ASSUME OnceInv, NEW p \in Procs, NEW at \in {"start", "commit"}, Goto(p, at),
         NEW d \in Decisions \cap {proc[p].arg.decision}, OthersStay(d),
         at = "start" => decisions'[d].state = "RESERVED",
         at = "commit" => decisions'[d].state = "STARTED",
         \A q \in Procs \ {p} : Executes(proc[q]) => proc[q].arg.decision # d
  PROVE  OnceInv'
<1> DEFINE x == [proc[p] EXCEPT !.at = at]
<1>1. DOMAIN proc[p] = DOMAIN Idle /\ ProcFits(proc[p])
  BY DEF OnceInv, ProcFits
<1>2. DOMAIN x = DOMAIN Idle /\ x.at = at /\ x.arg = proc[p].arg
  BY <1>1 DEF Idle
<1>3. ProcFits(x) /\ (Executes(x) => x.arg.decision = d)
  BY <1>2 DEF ProcFits, Executes
<1>4. proc' = [proc EXCEPT ![p] = x]
  BY DEF Goto
<1>5. /\ x.at = "start" => decisions'[d].state = "RESERVED"
      /\ x.at = "commit" => decisions'[d].state = "STARTED"
      /\ Executes(x) => x.arg.decision = d
  BY <1>2, <1>3
<1> HIDE DEF x
<1> QED
  BY <1>3, <1>4, <1>5, MovesTogether

LEMMA GivingUp ==
  ASSUME OnceInv, NEW p \in Procs, Done(p), NEW d \in Decisions, OthersStay(d),
         \A q \in Procs \ {p} : Executes(proc[q]) => proc[q].arg.decision # d
  PROVE  OnceInv'
<1>1. ProcFits(Idle) /\ ~Executes(Idle) /\ Idle.at \notin {"start", "commit"}
  BY DEF ProcFits, Executes, Idle
<1> QED
  BY <1>1, MovesTogether DEF Done

LEMMA ReserveStep ==
  ASSUME OnceInv, NEW p \in Procs, Reserve(p)
  PROVE  OnceInv' /\ OneTurn
<1> DEFINE d == proc[p].arg.decision
<1>1. d \in Decisions
  BY DEF Reserve, At, OnceInv, ProcFits
<1> HIDE DEF d
<1>2. CASE Done(p) /\ UNCHANGED decisions
  <2>1. AllStay
    BY <1>2 DEF AllStay, OnceInv
  <2> QED
    BY <1>2, <2>1, Ending DEF OneTurn
<1>3. CASE Done(p) /\ Observe(d)
  <2>1. AllStay
    BY <1>1, <1>3, Observing
  <2>2. OnceInv'
    BY <1>3, <2>1, Ended DEF AllStay
  <2> QED
    BY <2>1, <2>2 DEF OneTurn
<1>4. CASE /\ d \notin Reserved /\ Valid(d)
           /\ decisions' = [decisions EXCEPT ![d].state = "RESERVED", ![d].owner = p,
                                             ![d].lease = TRUE]
           /\ Goto(p, "start")
  <2>1. OthersStay(d) /\ decisions'[d].state = "RESERVED"
    BY <1>1, <1>4 DEF OnceInv, OthersStay, Absent
  <2>2. decisions[d].state \notin Executed /\ ~decisions[d].seen
    BY <1>1, <1>4 DEF Reserved, Valid
  <2>3. Turn(d)
    BY <2>1, <2>2 DEF Turn
  <2>4. OnceInv'
    <3>1. d \in Decisions \cap {proc[p].arg.decision}
      BY <1>1 DEF d
    <3>2. \A q \in Procs : Executes(proc[q]) => proc[q].arg.decision # d
      BY <1>1, <2>2, NotExecuted DEF Executed
    <3> QED
      BY <1>4, <2>1, <3>1, <3>2, GoingOn
  <2> QED
    BY <1>1, <2>1, <2>3, <2>4 DEF OneTurn
<1> QED
  BY <1>2, <1>3, <1>4, Zenon DEF Reserve, d

\* What the process that executes a decision knows of it.
LEMMA Executing ==
  ASSUME OnceInv, NEW p \in Procs, Executes(proc[p])
  PROVE  LET d == proc[p].arg.decision IN
         /\ d \in Decisions
         /\ decisions[d].state = IF At(p, "start") THEN "RESERVED" ELSE "STARTED"
         /\ \A q \in Procs \ {p} : Executes(proc[q]) => proc[q].arg.decision # d
  BY DEF OnceInv, ProcFits, Executes, At

LEMMA HandOffStep ==
  ASSUME OnceInv, NEW p \in Procs, Executes(proc[p]), HandOff(p, proc[p].arg.decision)
  PROVE  OnceInv' /\ OneTurn
<1> DEFINE d == proc[p].arg.decision
<1>1. /\ d \in Decisions
      /\ decisions[d].state \in {"RESERVED", "STARTED"}
      /\ \A q \in Procs \ {p} : Executes(proc[q]) => proc[q].arg.decision # d
  BY Executing
<1> HIDE DEF d
<1>2. OthersStay(d) /\ decisions'[d].state = "HUMAN_HANDOFF" /\ Done(p)
  BY <1>1 DEF HandOff, OnceInv, OthersStay, Absent, d
<1>3. Turn(d)
  BY <1>1, <1>2 DEF Turn
<1> QED
  BY <1>1, <1>2, <1>3, GivingUp DEF OneTurn

LEMMA StartStep == ASSUME OnceInv, NEW p \in Procs, Start(p) PROVE OnceInv' /\ OneTurn
<1> DEFINE d == proc[p].arg.decision
<1>1. Executes(proc[p]) /\ At(p, "start")
  BY DEF Start, At, Executes
<1>2. /\ d \in Decisions /\ decisions[d].state = "RESERVED"
      /\ \A q \in Procs \ {p} : Executes(proc[q]) => proc[q].arg.decision # d
  BY <1>1, Executing
<1>3. CASE HandOff(p, d)
  BY <1>1, <1>3, HandOffStep
<1>4. CASE /\ Fenced(p, d, "RESERVED")
           /\ decisions' = [decisions EXCEPT ![d].state = "STARTED"] /\ Goto(p, "commit")
  <2> HIDE DEF d
  <2>1. OthersStay(d) /\ decisions'[d].state = "STARTED"
    BY <1>2, <1>4 DEF OnceInv, OthersStay, Absent
  <2>2. Turn(d)
    BY <1>2, <1>4, <2>1 DEF Turn, Fenced, Valid
  <2>3. OnceInv'
    <3>1. d \in Decisions \cap {proc[p].arg.decision}
      BY <1>2 DEF d
    <3> QED
      BY <1>2, <1>4, <2>1, <3>1, GoingOn
  <2> QED
    BY <1>2, <2>1, <2>2, <2>3 DEF OneTurn
<1>5. HandOff(p, d) \/ (/\ Fenced(p, d, "RESERVED")
                       /\ decisions' = [decisions EXCEPT ![d].state = "STARTED"]
                       /\ Goto(p, "commit"))
  BY Zenon DEF Start
<1> QED
  BY <1>3, <1>4, <1>5

LEMMA CommitStep == ASSUME OnceInv, NEW p \in Procs, Commit(p) PROVE OnceInv' /\ OneTurn
<1> DEFINE d == proc[p].arg.decision
<1>1. Executes(proc[p]) /\ ~At(p, "start")
  BY DEF Commit, At, Executes
<1>2. /\ d \in Decisions /\ decisions[d].state = "STARTED"
      /\ \A q \in Procs \ {p} : Executes(proc[q]) => proc[q].arg.decision # d
  BY <1>1, Executing
<1>3. CASE HandOff(p, d)
  BY <1>1, <1>3, HandOffStep
<1>4. ASSUME NEW status \in Results, NEW e, Fenced(p, d, "STARTED"), Done(p),
             decisions' = [decisions EXCEPT ![d].state = status, ![d].ev = e,
                                            ![d].owner = None, ![d].lease = FALSE]
      PROVE  OnceInv' /\ OneTurn
  <2> HIDE DEF d
  <2>1. OthersStay(d) /\ decisions'[d].state = status
    BY <1>2, <1>4 DEF OnceInv, OthersStay, Absent
  <2>2. Turn(d)
    BY <1>2, <1>4, <2>1 DEF Turn, Fenced, Valid
  <2>3. OnceInv'
    BY <1>2, <1>4, <2>1, GivingUp
  <2> QED
    BY <1>2, <2>1, <2>2, <2>3 DEF OneTurn
<1>5. Verdicts(decisions[d].tree) \subseteq Results
  BY DEF Verdicts, Results
<1> QED
  BY <1>3, <1>4, <1>5 DEF Commit

\* Only a revision of the contract touches decisions, and it changes no state.
LEMMA FilesDecideNothing ==
  ASSUME OnceInv, NEW p \in Procs, Builds(p)
  PROVE  decisions' = decisions \/ AllStay
<1>1. CASE CommitRevise(p)
  BY <1>1 DEF CommitRevise, AllStay, OnceInv, Absent
<1>2. CASE ~CommitRevise(p)
  BY <1>2
  DEF Builds, BeginSubmit, BeginRepair, InsertFileset, RecordFileset, BeginFiles,
      ClaimFileset, PutFile, EndFiles, ReadLatest, Settle, BeginVerify, EndVerify,
      BeginRevise, bootVars
<1> QED
  BY <1>1, <1>2

\* Time, revocations and lost leases.
LEMMA LapseSteps ==
  ASSUME OnceInv, NEW d \in Decisions,
         Revoke(d) \/ DecisionLapses(d) \/ ClockSetBack(d) \/ ReservationLapses(d)
  PROVE  OnceInv' /\ OneTurn
<1>1. UNCHANGED proc
  BY DEF Revoke, DecisionLapses, ClockSetBack, ReservationLapses
<1>2. AllStay
  <2> USE DEF OnceInv, AllStay, Absent
  <2>1. CASE Revoke(d)
    BY <2>1 DEF Revoke
  <2>2. CASE DecisionLapses(d)
    BY <2>2 DEF DecisionLapses
  <2>3. CASE ClockSetBack(d)
    BY <2>3 DEF ClockSetBack
  <2>4. CASE ReservationLapses(d)
    BY <2>4 DEF ReservationLapses
  <2> QED
    BY <2>1, <2>2, <2>3, <2>4
<1> QED
  BY <1>1, <1>2, Resting DEF AllStay, OneTurn

LEMMA NextOnce == OnceInv /\ [Next]_vars => OnceInv' /\ OneTurn
<1> SUFFICES ASSUME OnceInv, [Next]_vars PROVE OnceInv' /\ OneTurn
  OBVIOUS
<1>1. (decisions' = decisions) => OneTurn
  BY DEF OneTurn, AllStay, OnceInv
<1>2. CASE DecisionNext
  <2>1. ASSUME NEW p \in Procs, Decides(p) PROVE OnceInv' /\ OneTurn
    BY <2>1, IssueSteps, BeginExecuteStep, ReserveStep, StartStep, CommitStep DEF Decides
  <2> QED
    BY <1>2, <2>1, LapseSteps DEF DecisionNext
<1>3. ASSUME NEW p \in Procs, Builds(p) PROVE OnceInv' /\ OneTurn
  <2>1. OnceInv'
    BY <1>3, BuildSteps
  <2>2. decisions' = decisions \/ AllStay
    BY <1>3, FilesDecideNothing
  <2> QED
    BY <1>1, <2>1, <2>2 DEF OneTurn
<1>4. CASE \/ \E r \in DOMAIN runs : LeaseLapses(r)
           \/ \E f \in Files : ForeignEdit(f)
  <2>1. UNCHANGED proc /\ UNCHANGED decisions
    BY <1>4 DEF LeaseLapses, ForeignEdit, bootVars
  <2> QED
    BY <1>1, <2>1, Resting DEF OnceInv
<1>5. CASE TaskNext /\ UNCHANGED bootVars
  <2>1. OnceInv'
    BY <1>5, PlanSteps, WorkerSteps DEF TaskNext
  <2> QED
    BY <1>1, <1>5, <2>1 DEF bootVars
<1>6. CASE UNCHANGED vars
  BY <1>1, <1>6, Resting DEF vars, OnceInv
<1> QED
  BY <1>2, <1>3, <1>4, <1>5, <1>6 DEF Next, BuildNext

\* Two processes never execute one decision, and the row of a decision says how far
\* its execution has come: reservations.mjs lets the transaction that reserves decide.
THEOREM ExecutedByOne == Spec => []OnceInv
  BY InitOnce, NextOnce, PTL DEF Spec

-----------------------------------------------------------------------------
\* An expiry that was recorded is final, whatever the clock says later: no step
\* moves such a decision but the one that hands it to a human.
THEOREM ExpiredForGood == Spec => ExpiryIsFinal
<1> DEFINE Final == \A d \in Known : decisions[d].seen =>
                      decisions'[d].state \in {decisions[d].state, "HUMAN_HANDOFF"}
<1>1. OnceInv /\ [Next]_vars => Final
  <2> SUFFICES ASSUME OnceInv, [Next]_vars, NEW d \in Known, decisions[d].seen
               PROVE  decisions'[d].state \in {decisions[d].state, "HUMAN_HANDOFF"}
    OBVIOUS
  <2>1. d \in Decisions /\ OneTurn
    BY NextOnce DEF Known
  <2>2. ASSUME NEW e \in Decisions, Turn(e), OthersStay(e)
        PROVE  decisions'[d].state \in {decisions[d].state, "HUMAN_HANDOFF"}
    BY <2>1, <2>2 DEF Turn, OthersStay
  <2> QED
    BY <2>1, <2>2 DEF OneTurn, AllStay
<1> QED
  BY <1>1, ExecutedByOne, PTL DEF Spec, ExpiryIsFinal

-----------------------------------------------------------------------------
(* Decisions implement OneShot.                                             *)

LEMMA InitShot == InitDecisions => Once!Init
<1> SUFFICES ASSUME InitDecisions PROVE \A d \in Decisions : Phase(d) = "unused"
  BY DEF Once!Init
<1>1. \A d \in Decisions : decisions[d].state = "ABSENT"
  BY DEF InitDecisions, Absent
<1> QED
  BY <1>1 DEF Phase, Reserved, Executed, Results

\* The phase of a decision is its state.
LEMMA PhaseOf ==
  ASSUME NEW d \in Decisions
  PROVE  /\ decisions[d].state \notin Executed => Phase(d) = "unused"
         /\ decisions[d].state = "RESERVED" => Phase(d) = "reserved"
         /\ decisions[d].state = "STARTED" => Phase(d) = "started"
         /\ decisions[d].state = "LOCAL_PASSED" => Phase(d) = "succeeded"
         /\ decisions[d].state \in Executed \ {"RESERVED", "STARTED", "LOCAL_PASSED"}
              => Phase(d) = "failed"
  BY DEF Phase, Reserved, Executed, Results

LEMMA PhaseAfter ==
  ASSUME NEW d \in Decisions
  PROVE  /\ decisions'[d].state \notin Executed => Phase(d)' = "unused"
         /\ decisions'[d].state = "RESERVED" => Phase(d)' = "reserved"
         /\ decisions'[d].state = "STARTED" => Phase(d)' = "started"
         /\ decisions'[d].state = "LOCAL_PASSED" => Phase(d)' = "succeeded"
         /\ decisions'[d].state \in Executed \ {"RESERVED", "STARTED", "LOCAL_PASSED"}
              => Phase(d)' = "failed"
  BY DEF Phase, Reserved, Executed, Results

LEMMA SamePhase ==
  ASSUME NEW d \in Decisions, decisions'[d].state = decisions[d].state
  PROVE  Phase(d)' = Phase(d)
  BY DEF Phase, Reserved

\* A decision is executed at most once and its outcome is for good: every step of
\* the whole product, of any number of processes over any number of decisions, is
\* a step of OneShot or none.
THEOREM DecisionsAreOneShot == Spec => ImplementsOneShot
<1> DEFINE phase == [d \in Decisions |-> Phase(d)]
<1>1. ASSUME OneTurn PROVE [Once!Next]_phase
  <2>1. CASE AllStay
    <3>1. \A d \in Decisions : Phase(d)' = Phase(d)
      BY <2>1, SamePhase DEF AllStay
    <3> QED
      BY <3>1
  <2>2. ASSUME NEW d \in Decisions, Turn(d), OthersStay(d) PROVE [Once!Next]_phase
    <3>1. phase' = [phase EXCEPT ![d] = Phase(d)']
      BY <2>2, SamePhase DEF OthersStay
    <3>2. phase[d] = Phase(d)
      OBVIOUS
    <3> HIDE DEF phase
    <3>3. \/ Phase(d)' = Phase(d)
          \/ Phase(d) = "unused" /\ Phase(d)' = "reserved"
          \/ Phase(d) = "reserved" /\ Phase(d)' = "started"
          \/ Phase(d) = "started" /\ Phase(d)' \in {"succeeded", "failed"}
          \/ Phase(d) = "reserved" /\ Phase(d)' = "failed"
      BY <2>2, PhaseOf, PhaseAfter DEF Turn, Executed, Results
    <3> QED
      BY <3>1, <3>2, <3>3
      DEF Once!Next, Once!Reserve, Once!Start, Once!Succeed, Once!Fail, Once!Move, phase
  <2> QED
    BY <1>1, <2>1, <2>2 DEF OneTurn
<1>2. OnceInv /\ [Next]_vars => [Once!Next]_phase
  BY <1>1, NextOnce
<1> QED
  BY <1>2, InitShot, ExecutedByOne, PTL DEF Spec, ImplementsOneShot, Once!Spec

-----------------------------------------------------------------------------
(* What the rows say, and what a process may rely on that read them.        *)

BatchSet ==
  [left : SUBSET Files, done : SUBSET Files, wrote : BOOLEAN,
   outcome : {"MATERIALIZED", "CONFLICT", "FAILED"}]

\* What a process carries along.
Carried(x) ==
  /\ x.rev \in Nat /\ x.run \in 1..MaxRev \cup {None}
  /\ x.at \in {"create", "attach", "insert", "record"} => x.rev \in 1..MaxRev
  /\ x.at = "insert" => /\ x.arg.op \in {"create", "modify"}
                        /\ x.arg.base \in Trees \cup {None}
                        /\ x.arg.failure \in EvidenceSet \cup {None}
  /\ x.at = "verify" => x.arg.tree \in Written
  /\ x.at = "issue" => /\ x.arg.tree \in Written /\ x.arg.repair \in 1..MaxRev \cup {None}
                       /\ x.arg.rev \in Nat /\ x.arg.contract \in Nat
  /\ x.at \in {"put", "latest", "settle"} =>
       /\ x.arg \in BatchSet
       /\ x.arg.outcome = "MATERIALIZED" => x.arg.left \cup x.arg.done = Files
       /\ x.at # "put" => x.arg.left = {}

\* A workflow that may be executed once it is approved.
Workable(r) == runs[r] # None /\ runs[r].op = "workflow" /\ runs[r].control = "run"
Named(r) == task.run = r /\ task.state # "REJECTED"

\* What a process knows of the runs it carries along.
RunKnown(x) ==
  /\ x.at = "attach" => runs[x.rev] # None
  /\ x.at = "record" => runs[x.rev] # None /\ runs[x.rev].op # "workflow"
  /\ x.at \in {"revoke", "cancel", "approve", "claim", "put", "latest", "settle"} =>
       x.run # None /\ runs[x.run] # None
  /\ x.at = "insert" /\ x.run # None => runs[x.run] # None
  /\ x.at \in {"review", "reject"} /\ x.run # None =>
       runs[x.run] # None /\ runs[x.run].control = "cancel"

\* What it knows of the task when the row is still the one it read.
RowKnown(x) ==
  /\ x.at \in {"plan", "draft", "clarify", "prepare", "create", "attach"} =>
       task.run = None /\ ~task.prepared
  /\ x.at \in {"revoke", "cancel", "review", "reject", "claim", "put"} => task.run = x.run
  /\ x.at \in {"insert", "record", "claim", "put", "revise", "verify"} => Prepared

Knows(x) ==
  /\ Carried(x) /\ x.rev <= task.rev
  /\ RunKnown(x)
  /\ task.rev = x.rev => RowKnown(x)
  /\ x.at = "approve" /\ Workable(x.run) => Named(x.run)

\* What approval rests on: a workflow that is approved and was not cancelled is the
\* one the row names, and no command that is on its way can approve another.
TaskInv ==
  /\ task.rev = 0 => task.run = None /\ ~task.prepared
  /\ task.run # None => runs[task.run] # None
  /\ task.run # None /\ task.prepared => runs[task.run].op # "workflow"
  /\ \A r \in 1..MaxRev : Workable(r) /\ runs[r].approved => Named(r)
  /\ \A p \in Procs : Knows(proc[p])

\* What a result that is shown rests on: the files were all there when it was made.
FilesInv ==
  /\ task.src = "MATERIALIZED" => task.digests \in Written
  /\ task.ver \in Results => task.ev # None
  /\ \A d \in Known : decisions[d].tree # None

\* What the agreement of the records rests on: every result was recorded with an
\* update of the task, and what the task shows since is explained.
RecordsInv ==
  /\ Known # {} => task.prepared
  /\ \A d \in Decisions : d \notin Known => decisions[d].rev = 0
  /\ \A d \in Decisions : decisions[d].rev <= task.rev /\ decisions[d].contract <= task.contract
  /\ \A d \in Decisions : decisions[d].state \in Results =>
       /\ decisions[d].rev < task.rev
       /\ \/ task.ev = decisions[d].ev /\ task.ver = decisions[d].state
          \/ task.ver = "VERIFICATION_STALE"
          \/ decisions[d].contract < task.contract
          \/ \E e \in Decisions :
               decisions[e].state \in Results /\ decisions[e].rev > decisions[d].rev
  /\ \A p \in Procs : At(p, "verify") /\ Unchanged(p) =>
       \A d \in Decisions : decisions[d].state \notin Results

-----------------------------------------------------------------------------
(* Moves of one process.                                                    *)

Others(p) == \A q \in Procs \ {p} : proc'[q] = proc[q]

LEMMA DoneMoves ==
  ASSUME OnceInv, NEW p \in Procs, Done(p)
  PROVE  Others(p) /\ proc'[p] = Idle
  BY DEF OnceInv, Done, Others

LEMMA GotoMoves ==
  ASSUME OnceInv, NEW p \in Procs, NEW at, Goto(p, at)
  PROVE  /\ Others(p) /\ proc'[p].at = at
         /\ proc'[p].rev = proc[p].rev /\ proc'[p].run = proc[p].run /\ proc'[p].arg = proc[p].arg
<1>1. DOMAIN proc = Procs /\ DOMAIN proc[p] = {"at", "rev", "run", "arg"}
  BY DEF OnceInv, ProcFits, Idle
<1>2. proc' = [proc EXCEPT ![p] = [proc[p] EXCEPT !.at = at]]
  BY DEF Goto
<1> QED
  BY <1>1, <1>2 DEF Others

-----------------------------------------------------------------------------
(* The types of the rows.                                                   *)

LEMMA Numbers ==
  /\ MaxRev \in Nat /\ None \notin 1..MaxRev /\ Foreign \notin 1..MaxRev
  /\ None \notin Bytes /\ Written \subseteq Trees /\ None \notin Written
<1>1. MaxRev \in Nat /\ None \notin 1..MaxRev /\ Foreign \notin 1..MaxRev
  BY BoundsAssumption, NullAssumption
<1>2. None \notin Bytes
  BY <1>1, NullAssumption DEF Bytes
<1>3. Written \subseteq Trees /\ None \notin Written
  BY NullAssumption DEF Written, Trees
<1> QED
  BY <1>1, <1>2, <1>3

LEMMA TaskFields ==
  ASSUME NEW t \in TaskSet
  PROVE  /\ t.rev \in Nat /\ t.contract \in Nat
         /\ t.run \in 1..MaxRev \cup {None} /\ t.kind \in Kinds \cup {None}
         /\ t.prepared \in BOOLEAN /\ t.drafted \in BOOLEAN /\ t.clarified \in BOOLEAN
         /\ t.ev \in EvidenceSet \cup {None} /\ t.digests \in Trees \cup {None}
  BY DEF TaskSet

LEMMA RunFields ==
  ASSUME NEW r \in RunSet
  PROVE  /\ r.op \in {"workflow", "create", "modify"} /\ r.control \in {"run", "cancel"}
         /\ r.approved \in BOOLEAN /\ r.tried \in BOOLEAN /\ r.contract \in Nat
         /\ r.base \in Trees \cup {None} /\ r.failure \in EvidenceSet \cup {None}
  BY DEF RunSet

LEMMA RecordedTree == ASSUME TypeOK PROVE Recorded \in Trees
<1>1. task.run \in 1..MaxRev \cup {None} /\ task.digests \in Trees \cup {None}
  BY TaskFields DEF TypeOK
<1>2. CASE task.digests # None
  BY <1>1, <1>2 DEF Recorded
<1>3. CASE task.digests = None
  <2>1. ASSUME NEW r \in 1..MaxRev \cup {None} PROVE [f \in Files |-> r] \in Trees
    BY DEF Trees, Bytes
  <2> QED
    BY <1>1, <1>3, <2>1 DEF Recorded
<1> QED
  BY <1>2, <1>3

LEMMA InitRows == InitDecisions => TypeOK /\ TaskInv /\ FilesInv /\ RecordsInv
<1> SUFFICES ASSUME InitDecisions PROVE TypeOK /\ TaskInv /\ FilesInv /\ RecordsInv
  OBVIOUS
<1>1. /\ task = NoTask /\ runs = [r \in 1..MaxRev |-> None] /\ proc = [p \in Procs |-> Idle]
      /\ disk = [f \in Files |-> None] /\ decisions = [d \in Decisions |-> Absent]
  BY DEF InitDecisions, Init
<1>2. NoTask \in TaskSet
  BY DEF NoTask, TaskSet
<1>3. disk \in Trees
  BY <1>1 DEF Trees
<1>4. Absent \in DecisionSet
  BY DEF Absent, DecisionSet
<1>5. TypeOK
  BY <1>1, <1>2, <1>3, <1>4 DEF TypeOK
<1>6. TaskInv
  <2>1. ASSUME NEW p \in Procs PROVE Knows(proc[p])
    BY <1>1 DEF Knows, Carried, RunKnown, RowKnown, Idle, NoTask
  <2>2. \A r \in 1..MaxRev : ~Workable(r)
    BY <1>1 DEF Workable
  <2> QED
    BY <1>1, <2>1, <2>2 DEF TaskInv, NoTask
<1>7. Known = {} /\ \A d \in Decisions : decisions[d] = Absent
  BY <1>1 DEF Known, Absent
<1>8. FilesInv
  <2>1. None \notin Results \cup {"MATERIALIZED"}
    BY NullAssumption
  <2>2. task.src = None /\ task.ver = None
    BY <1>1 DEF NoTask
  <2> QED
    BY <1>7, <2>1, <2>2 DEF FilesInv
<1>9. RecordsInv
  <2>1. \A p \in Procs : ~At(p, "verify")
    BY <1>1 DEF At, Idle
  <2>2. Absent.rev = 0 /\ Absent.contract = 0 /\ Absent.state \notin Results
    BY DEF Absent, Results
  <2>3. task.rev = 0 /\ task.contract = 1
    BY <1>1 DEF NoTask
  <2> QED
    BY <1>7, <2>1, <2>2, <2>3 DEF RecordsInv
<1> QED
  BY <1>5, <1>6, <1>8, <1>9

-----------------------------------------------------------------------------
(* What a step leaves of the rows for the others.                           *)

RunsKeep ==
  \A r \in 1..MaxRev : runs[r] # None =>
    /\ runs'[r] # None /\ runs'[r].op = runs[r].op
    /\ runs[r].control = "cancel" => runs'[r].control = "cancel"
ApprovalsKeep ==
  \A r \in 1..MaxRev : Workable(r)' /\ runs'[r].approved =>
    (runs[r] # None /\ runs[r].approved) \/ Named(r)
NamesKeep ==
  \A r \in 1..MaxRev : runs[r] # None /\ Workable(r)' /\ Named(r) => Named(r)'
RowMoves == task' = task \/ task'.rev = task.rev + 1
RowNames ==
  /\ task'.run # None => runs'[task'.run] # None
  /\ task'.run # None /\ task'.prepared => runs'[task'.run].op # "workflow"

LEMMA WasWorkable ==
  ASSUME TypeOK, RunsKeep, NEW r \in 1..MaxRev, runs[r] # None, Workable(r)'
  PROVE  Workable(r)
<1>1. runs[r] \in RunSet
  BY DEF TypeOK
<1>2. runs[r].control \in {"run", "cancel"}
  BY <1>1, RunFields
<1> QED
  BY <1>2 DEF RunsKeep, Workable

\* What a process that does not move knows stays so: an update of the row by another
\* makes it a row that it has not read.
LEMMA OthersKnow ==
  ASSUME TypeOK, TypeOK', TaskInv, RunsKeep, NamesKeep, RowMoves,
         NEW p \in Procs, NEW q \in Procs \ {p}, Others(p)
  PROVE  Knows(proc[q])'
<1>1. Knows(proc[q]) /\ proc'[q] = proc[q]
  BY DEF TaskInv, Others
<1>2. task.rev \in Nat /\ task'.rev \in Nat /\ proc[q].rev \in Nat
  BY <1>1, TaskFields DEF TypeOK, Knows, Carried
<1>3. Carried(proc'[q]) /\ proc'[q].rev <= task'.rev
  BY <1>1, <1>2 DEF Knows, RowMoves
<1>4. proc[q].run \in 1..MaxRev \cup {None}
  BY <1>1 DEF Knows, Carried
<1>5. RunKnown(proc[q])'
  <2>1. RunKnown(proc[q])
    BY <1>1 DEF Knows
  <2>2. proc[q].at \in {"attach", "record"} => proc[q].rev \in 1..MaxRev
    BY <1>1 DEF Knows, Carried
  <2> QED
    BY <1>1, <1>4, <2>1, <2>2 DEF RunKnown, RunsKeep
<1>6. task'.rev = proc'[q].rev => RowKnown(proc[q])'
  <2>1. CASE task' = task
    BY <1>1, <2>1 DEF Knows, RowKnown, Prepared
  <2>2. CASE task'.rev = task.rev + 1
    BY <1>1, <1>2, <2>2 DEF Knows
  <2> QED
    BY <2>1, <2>2 DEF RowMoves
<1>7. proc'[q].at = "approve" /\ Workable(proc[q].run)' => Named(proc[q].run)'
  <2>1. CASE proc'[q].at = "approve" /\ Workable(proc[q].run)'
    <3>1. proc[q].at = "approve"
      BY <1>1, <2>1
    <3>2. PICK r \in 1..MaxRev : r = proc[q].run /\ runs[r] # None
      BY <1>1, <1>4, <3>1 DEF Knows, RunKnown
    <3>3. proc'[q].run = r /\ Workable(r)'
      BY <1>1, <2>1, <3>2 DEF Workable
    <3>4. Named(r)
      <4>1. Workable(r)
        BY <3>2, <3>3, WasWorkable
      <4> QED
        BY <1>1, <3>1, <3>2, <4>1 DEF Knows
    <3>5. Named(r)'
      BY <3>2, <3>3, <3>4 DEF NamesKeep
    <3> QED
      BY <3>3, <3>5 DEF Named
  <2> QED
    BY <2>1
<1> QED
  BY <1>1, <1>3, <1>5, <1>6, <1>7 DEF Knows

LEMMA TaskRows ==
  ASSUME TypeOK, TypeOK', TaskInv, RunsKeep, ApprovalsKeep, NamesKeep, RowMoves, RowNames,
         \A p \in Procs : Knows(proc[p])'
  PROVE  TaskInv'
<1>1. ASSUME NEW q \in Procs PROVE Knows(proc[q])'
  OBVIOUS
<1>2. ASSUME NEW r \in 1..MaxRev, Workable(r)', runs'[r].approved PROVE Named(r)'
  <2>1. runs[r] # None
    <3>1. CASE Named(r)
      BY <3>1, Numbers DEF Named, TaskInv
    <3> QED
      BY <1>2, <3>1 DEF ApprovalsKeep
  <2>2. Workable(r)
    BY <1>2, <2>1, WasWorkable
  <2>3. Named(r)
    BY <1>2, <2>2 DEF ApprovalsKeep, TaskInv
  <2> QED
    BY <1>2, <2>1, <2>3 DEF NamesKeep
<1>3. task'.rev = 0 => task'.run = None /\ ~task'.prepared
  <2>1. task.rev \in Nat
    BY TaskFields DEF TypeOK
  <2> QED
    BY <2>1 DEF RowMoves, TaskInv
<1> QED
  BY <1>1, <1>2, <1>3 DEF TaskInv, RowNames

LEMMA TaskStep ==
  ASSUME TypeOK, TypeOK', TaskInv, RunsKeep, ApprovalsKeep, NamesKeep, RowMoves, RowNames,
         NEW p \in Procs, Others(p), Knows(proc[p])'
  PROVE  TaskInv'
<1>1. \A q \in Procs : Knows(proc[q])'
  BY OthersKnow
<1> QED
  BY <1>1, TaskRows

\* A step that leaves the row of the task alone.
LEMMA SameTask ==
  ASSUME TypeOK, TaskInv, RunsKeep, task' = task
  PROVE  NamesKeep /\ RowMoves /\ RowNames
<1>1. task.run \in 1..MaxRev \cup {None}
  BY TaskFields DEF TypeOK
<1> QED
  BY <1>1 DEF NamesKeep, RowMoves, RowNames, Named, TaskInv, RunsKeep

LEMMA SameRuns == ASSUME runs' = runs PROVE RunsKeep /\ ApprovalsKeep
  BY DEF RunsKeep, ApprovalsKeep, Workable

LEMMA IdleKnows ==
  ASSUME TypeOK', NEW p \in Procs, proc'[p] = Idle
  PROVE  Knows(proc[p])'
<1>1. task'.rev \in Nat
  BY TaskFields DEF TypeOK
<1> QED
  BY <1>1 DEF Knows, Carried, RunKnown, Idle, RowKnown

\* An update is refused or raises the revision.
LEMMA Updating ==
  ASSUME TypeOK, NEW p \in Procs, NEW next \in TaskSet, Update(p, next), next.rev = task.rev
  PROVE  /\ task' \in TaskSet /\ RowMoves
         /\ \/ ~Unchanged(p) /\ task' = task
            \/ /\ Unchanged(p) /\ task'.rev = task.rev + 1
               /\ \A x \in DOMAIN task' \ {"rev"} : task'[x] = next[x]
               /\ DOMAIN task' = DOMAIN next
<1>1. task \in TaskSet /\ next.rev \in Nat
  BY TaskFields DEF TypeOK
<1>2. CASE Unchanged(p)
  <2>1. task' = [next EXCEPT !.rev = next.rev + 1]
    BY <1>2 DEF Update
  <2>2. task' \in TaskSet
    BY <1>1, <2>1 DEF TaskSet
  <2>3. /\ task'.rev = next.rev + 1 /\ DOMAIN task' = DOMAIN next
        /\ \A x \in DOMAIN task' \ {"rev"} : task'[x] = next[x]
    BY <2>1 DEF TaskSet
  <2> QED
    BY <1>2, <2>2, <2>3 DEF RowMoves
<1>3. CASE ~Unchanged(p)
  BY <1>1, <1>3 DEF Update, RowMoves
<1> QED
  BY <1>2, <1>3

\* A command moves and leaves the rows as they are.
LEMMA StillStep ==
  ASSUME TypeOK, TypeOK', TaskInv, NEW p \in Procs, Others(p),
         task' = task, runs' = runs, Knows(proc'[p])
  PROVE  TaskInv'
<1>1. RunsKeep /\ ApprovalsKeep /\ NamesKeep /\ RowMoves /\ RowNames
  BY SameRuns, SameTask
<1>2. Knows(proc[p])'
  BY DEF Knows, RunKnown, RowKnown, Workable, Named, Prepared
<1> QED
  BY <1>1, <1>2, TaskStep

\* A command ends with an update of the row.
LEMMA FinishStep ==
  ASSUME TypeOK, OnceInv, TaskInv, NEW p \in Procs, NEW next \in TaskSet, Finish(p, next),
         UNCHANGED bootVars, next.rev = task.rev,
         Unchanged(p) =>
           /\ \A r \in 1..MaxRev : Workable(r) /\ Named(r) =>
                next.run = r /\ next.state # "REJECTED"
           /\ next.run # None => runs[next.run] # None
           /\ next.run # None /\ next.prepared => runs[next.run].op # "workflow"
  PROVE  TypeOK' /\ TaskInv'
<1>1. Update(p, next) /\ Done(p) /\ runs' = runs /\ disk' = disk /\ decisions' = decisions
  BY DEF Finish, bootVars
<1>2. task' \in TaskSet /\ RowMoves
  BY <1>1, Updating
<1>3. TypeOK'
  BY <1>1, <1>2 DEF TypeOK
<1>4. RunsKeep /\ ApprovalsKeep
  BY <1>1, SameRuns
<1>5. NamesKeep /\ RowNames
  <2>1. CASE task' = task
    BY <1>4, <2>1, SameTask
  <2>2. CASE /\ Unchanged(p)
             /\ \A x \in DOMAIN task' \ {"rev"} : task'[x] = next[x]
    <3>1. task'.run = next.run /\ task'.state = next.state /\ task'.prepared = next.prepared
      BY <1>2, <2>2 DEF TaskSet
    <3> QED
      BY <1>1, <2>2, <3>1 DEF NamesKeep, RowNames, Workable, Named
  <2> QED
    BY <1>1, <2>1, <2>2, Updating
<1>6. Others(p) /\ Knows(proc[p])'
  BY <1>1, <1>3, DoneMoves, IdleKnows
<1> QED
  BY <1>2, <1>3, <1>4, <1>5, <1>6, TaskStep

\* A command begins: what it knows is what it read.
LEMMA EnterStep ==
  ASSUME TypeOK, OnceInv, TaskInv, NEW p \in Procs, NEW at, NEW run, NEW arg,
         Enter(p, at, run, arg), UNCHANGED <<task, runs, bootVars>>,
         Knows([at |-> at, rev |-> task.rev, run |-> run, arg |-> arg])
  PROVE  TypeOK' /\ TaskInv'
<1>1. proc'[p] = [at |-> at, rev |-> task.rev, run |-> run, arg |-> arg] /\ Others(p)
  BY DEF Enter, OnceInv, Others
<1>2. TypeOK'
  BY DEF TypeOK, bootVars
<1> QED
  BY <1>1, <1>2, StillStep

-----------------------------------------------------------------------------
(* The rows while an objective is planned, reviewed and approved.           *)

\* A command begins at a revision that a run may be named by.
LEMMA BeginsInRange ==
  ASSUME TypeOK, task.rev \in 1..Last[task.kind]
  PROVE  task.rev \in 1..MaxRev
<1>1. task.kind \in Kinds \cup {None} /\ task.rev \in Nat
  BY TaskFields DEF TypeOK
<1>2. Last[task.kind] \in 0..(MaxRev - 1)
  BY <1>1, BoundsAssumption
<1> QED
  BY <1>1, <1>2, Numbers

LEMMA OpenBegins ==
  ASSUME TypeOK, OnceInv, TaskInv, NEW p \in Procs, Open, UNCHANGED <<task, runs, bootVars>>,
         NEW at \in {"draft", "clarify", "prepare", "create"}, Begin(p, at, None, None)
  PROVE  TypeOK' /\ TaskInv'
<1> DEFINE x == [at |-> at, rev |-> task.rev, run |-> None, arg |-> None]
<1>1. task.rev \in 1..MaxRev
  BY BeginsInRange DEF Begin
<1>2. Carried(x) /\ x.rev <= task.rev
  BY <1>1, Numbers DEF Carried
<1>3. RunKnown(x) /\ RowKnown(x)
  BY DEF RunKnown, RowKnown, Open
<1>4. Knows(x)
  BY <1>2, <1>3 DEF Knows
<1> HIDE DEF x
<1> QED
  BY <1>4, EnterStep DEF Begin, x

LEMMA NamedRun ==
  ASSUME TypeOK, TaskInv, task.run # None
  PROVE  task.run \in 1..MaxRev /\ runs[task.run] # None /\ runs[task.run] \in RunSet
<1>1. task.run \in 1..MaxRev
  BY TaskFields DEF TypeOK
<1> QED
  BY <1>1 DEF TaskInv, TypeOK

LEMMA CloseBegins ==
  ASSUME TypeOK, OnceInv, TaskInv, NEW p \in Procs, UNCHANGED <<task, runs, bootVars>>,
         NEW then \in {"review", "reject"},
         Begin(p, IF task.run = None THEN then ELSE "revoke", task.run, [then |-> then])
  PROVE  TypeOK' /\ TaskInv'
<1> DEFINE at == IF task.run = None THEN then ELSE "revoke"
           x == [at |-> at, rev |-> task.rev, run |-> task.run, arg |-> [then |-> then]]
<1>1. task.rev \in 1..MaxRev /\ task.run \in 1..MaxRev \cup {None}
  BY BeginsInRange, TaskFields DEF Begin, TypeOK
<1>2. Carried(x) /\ x.rev <= task.rev
  BY <1>1 DEF Carried
<1>3. RunKnown(x) /\ RowKnown(x)
  BY NamedRun DEF RunKnown, RowKnown
<1>4. Knows(x)
  BY <1>2, <1>3 DEF Knows
<1> HIDE DEF x
<1> QED
  BY <1>4, EnterStep DEF Begin, x

LEMMA ApproveBegins ==
  ASSUME TypeOK, OnceInv, TaskInv, NEW p \in Procs, BeginApprove(p), UNCHANGED bootVars
  PROVE  TypeOK' /\ TaskInv'
<1> DEFINE x == [at |-> "approve", rev |-> task.rev, run |-> task.run, arg |-> None]
<1>1. /\ task.run # None /\ task.state # "REJECTED" /\ Begin(p, "approve", task.run, None)
      /\ UNCHANGED <<task, runs>>
  BY DEF BeginApprove
<1>2. task.rev \in 1..MaxRev /\ task.run \in 1..MaxRev \cup {None}
  BY <1>1, BeginsInRange, TaskFields DEF Begin, TypeOK
<1>3. Carried(x) /\ x.rev <= task.rev
  BY <1>2 DEF Carried
<1>4. RunKnown(x) /\ RowKnown(x) /\ Named(x.run)
  BY <1>1, NamedRun DEF RunKnown, RowKnown, Named
<1>5. Knows(x)
  BY <1>3, <1>4 DEF Knows
<1> HIDE DEF x
<1> QED
  BY <1>1, <1>5, EnterStep DEF Begin, x

\* What a process knows when the row is the one it read.
LEMMA Reading ==
  ASSUME TaskInv, NEW p \in Procs
  PROVE  /\ Knows(proc[p]) /\ Carried(proc[p]) /\ RunKnown(proc[p])
         /\ Unchanged(p) => RowKnown(proc[p])
  BY DEF TaskInv, Knows, Unchanged

LEMMA StatusStates == \A t : Status(t) \in {"VALIDATED", "NEEDS_INPUT"}
  BY DEF Status

\* The commits of an open objective, which has no run.
LEMMA OpenCommits ==
  ASSUME TypeOK, OnceInv, TaskInv, NEW p \in Procs, UNCHANGED bootVars,
         RecordPlan(p) \/ CommitDraft(p) \/ CommitClarify(p) \/ CommitPrepare(p)
  PROVE  TypeOK' /\ TaskInv'
<1>1. Unchanged(p) => task.run = None
  BY Reading
  DEF RowKnown, At, RecordPlan, CommitDraft, CommitClarify, CommitPrepare
<1>2. \A r \in 1..MaxRev : Unchanged(p) => ~Named(r)
  BY <1>1, Numbers DEF Named
<1>3. task \in TaskSet
  BY DEF TypeOK
<1>4. ASSUME NEW next \in TaskSet, Finish(p, next), next.rev = task.rev, next.run = task.run
      PROVE  TypeOK' /\ TaskInv'
  BY <1>1, <1>2, <1>4, FinishStep
<1>5. ASSUME NEW t \in TaskSet, t.rev = task.rev, t.run = task.run, Finish(p, Validated(t))
      PROVE  TypeOK' /\ TaskInv'
  <2>1. Validated(t) \in TaskSet /\ Validated(t).rev = t.rev /\ Validated(t).run = t.run
    BY <1>5, StatusStates DEF Validated, TaskSet
  <2> QED
    BY <1>4, <1>5, <2>1
<1>6. CASE RecordPlan(p)
  <2>1. ASSUME NEW k \in Kinds, NEW d \in BOOLEAN, NEW known \in BOOLEAN,
               Finish(p, Validated([task EXCEPT !.kind = k, !.drafted = d, !.clarified = known]))
        PROVE  TypeOK' /\ TaskInv'
    <3> DEFINE t == [task EXCEPT !.kind = k, !.drafted = d, !.clarified = known]
    <3>1. t \in TaskSet /\ t.rev = task.rev /\ t.run = task.run
      BY <1>3 DEF TaskSet
    <3> HIDE DEF t
    <3> QED
      BY <1>5, <2>1, <3>1 DEF t
  <2>2. CASE Finish(p, [task EXCEPT !.state = "BLOCKED"])
    <3> DEFINE t == [task EXCEPT !.state = "BLOCKED"]
    <3>1. t \in TaskSet /\ t.rev = task.rev /\ t.run = task.run
      BY <1>3 DEF TaskSet
    <3> HIDE DEF t
    <3> QED
      BY <1>4, <2>2, <3>1 DEF t
  <2> QED
    BY <1>6, <2>1, <2>2 DEF RecordPlan
<1>7. CASE CommitDraft(p)
  <2>1. PICK d \in BOOLEAN : Finish(p, Validated([task EXCEPT !.drafted = d]))
    BY <1>7 DEF CommitDraft
  <2> DEFINE t == [task EXCEPT !.drafted = d]
  <2>2. t \in TaskSet /\ t.rev = task.rev /\ t.run = task.run
    BY <1>3 DEF TaskSet
  <2> HIDE DEF t
  <2> QED
    BY <1>5, <2>1, <2>2 DEF t
<1>8. CASE CommitClarify(p)
  <2> DEFINE t == [task EXCEPT !.clarified = TRUE]
  <2>1. t \in TaskSet /\ t.rev = task.rev /\ t.run = task.run
    BY <1>3 DEF TaskSet
  <2>2. Finish(p, Validated(t))
    BY <1>8 DEF CommitClarify
  <2> HIDE DEF t
  <2> QED
    BY <1>5, <2>1, <2>2
<1>9. CASE CommitPrepare(p)
  <2> DEFINE t == [task EXCEPT !.state = "BOOTSTRAP_PREPARED", !.prepared = TRUE,
                               !.src = "PENDING_FILESET", !.ver = "PENDING_VERIFICATION"]
  <2>1. t \in TaskSet /\ t.rev = task.rev /\ t.run = task.run
    BY <1>3 DEF TaskSet
  <2>2. Finish(p, t)
    BY <1>9 DEF CommitPrepare
  <2> HIDE DEF t
  <2> QED
    BY <1>4, <2>1, <2>2
<1> QED
  BY <1>6, <1>7, <1>8, <1>9

\* One run gets a row or its row changes.
LEMMA OneRun ==
  ASSUME TypeOK, TaskInv, NEW r \in 1..MaxRev, NEW x \in RunSet, runs' = [runs EXCEPT ![r] = x],
         runs[r] # None => x.op = runs[r].op /\ (runs[r].control = "cancel" => x.control = "cancel"),
         x.op = "workflow" /\ x.control = "run" /\ x.approved =>
           (runs[r] # None /\ runs[r].approved) \/ Named(r)
  PROVE  /\ RunsKeep /\ ApprovalsKeep /\ runs' \in [1..MaxRev -> RunSet \cup {None}]
         /\ runs'[r] = x /\ x # None
<1>1. DOMAIN runs = 1..MaxRev /\ x # None
  BY NullAssumption DEF TypeOK
<1>2. runs'[r] = x /\ \A k \in 1..MaxRev \ {r} : runs'[k] = runs[k]
  BY <1>1
<1>3. RunsKeep
  BY <1>1, <1>2 DEF RunsKeep
<1>4. ApprovalsKeep
  BY <1>1, <1>2 DEF ApprovalsKeep, Workable
<1>5. runs' \in [1..MaxRev -> RunSet \cup {None}]
  BY DEF TypeOK
<1> QED
  BY <1>1, <1>2, <1>3, <1>4, <1>5

\* A step that changes runs and no other row.
LEMMA RunStep ==
  ASSUME TypeOK, OnceInv, TaskInv, UNCHANGED <<task, bootVars>>, RunsKeep, ApprovalsKeep,
         runs' \in [1..MaxRev -> RunSet \cup {None}],
         NEW p \in Procs, Others(p), Knows(proc[p])'
  PROVE  TypeOK' /\ TaskInv'
<1>1. TypeOK'
  BY DEF TypeOK, bootVars
<1> QED
  BY <1>1, SameTask, TaskStep

LEMMA RunStepIdle ==
  ASSUME TypeOK, OnceInv, TaskInv, UNCHANGED <<task, bootVars>>, RunsKeep, ApprovalsKeep,
         runs' \in [1..MaxRev -> RunSet \cup {None}], NEW p \in Procs, Done(p)
  PROVE  TypeOK' /\ TaskInv'
<1>1. TypeOK'
  BY DEF TypeOK, bootVars
<1>2. Others(p) /\ Knows(proc[p])'
  BY <1>1, DoneMoves, IdleKnows
<1> QED
  BY <1>2, RunStep

LEMMA CreatesTask ==
  ASSUME TypeOK, OnceInv, TaskInv, NEW p \in Procs, CreateTask(p), UNCHANGED bootVars
  PROVE  TypeOK' /\ TaskInv'
<1>1. /\ task.rev = 0 /\ task' = [task EXCEPT !.rev = 1, !.state = "PLANNING"]
      /\ proc' = [proc EXCEPT ![p] = [Idle EXCEPT !.at = "plan", !.rev = 1]]
      /\ runs' = runs /\ disk' = disk /\ decisions' = decisions
  BY DEF CreateTask, bootVars
<1>x. /\ task' \in TaskSet
      /\ task'.rev = 1 /\ task'.run = task.run /\ task'.prepared = task.prepared
      /\ task'.state = "PLANNING"
  <2> DEFINE x == [task EXCEPT !.rev = 1]
  <2>1. task \in TaskSet
    BY DEF TypeOK
  <2>2. x \in TaskSet /\ x.rev = 1 /\ x.run = task.run /\ x.prepared = task.prepared
    BY <2>1 DEF TaskSet
  <2>3. task' = [x EXCEPT !.state = "PLANNING"]
    BY <1>1
  <2> HIDE DEF x
  <2>4. task' \in TaskSet
    BY <2>2, <2>3 DEF TaskSet
  <2> QED
    BY <2>2, <2>3, <2>4 DEF TaskSet
<1>2. task' \in TaskSet
  BY <1>x
<1>3. /\ task'.rev = 1 /\ task'.run = task.run /\ task'.prepared = task.prepared
      /\ task'.state = "PLANNING"
  BY <1>x
<1>4. TypeOK'
  BY <1>1, <1>2 DEF TypeOK
<1>5. RunsKeep /\ ApprovalsKeep
  BY <1>1, SameRuns
<1>6. RowMoves /\ RowNames /\ NamesKeep
  BY <1>1, <1>3 DEF RowMoves, RowNames, NamesKeep, Named, TaskInv
<1>7. /\ Others(p) /\ proc'[p].at = "plan" /\ proc'[p].rev = 1 /\ proc'[p].run = None
  BY <1>1 DEF Others, OnceInv, Idle
<1>8. task'.run = None /\ ~task'.prepared
  BY <1>1, <1>3 DEF TaskInv
<1>9. Carried(proc'[p]) /\ RunKnown(proc[p])' /\ RowKnown(proc[p])'
  BY <1>7, <1>8 DEF Carried, RunKnown, RowKnown
<1>10. Knows(proc[p])'
  BY <1>3, <1>7, <1>9 DEF Knows
<1> QED
  BY <1>4, <1>5, <1>6, <1>7, <1>10, TaskStep

LEMMA NewRuns ==
  ASSUME TypeOK, NEW op \in {"workflow", "create", "modify"}, NEW base \in Trees \cup {None},
         NEW failure \in EvidenceSet \cup {None}
  PROVE  /\ NewRun(op, base, failure) \in RunSet
         /\ NewRun(op, base, failure).op = op /\ ~NewRun(op, base, failure).approved
<1>1. task.contract \in Nat
  BY TaskFields DEF TypeOK
<1> QED
  BY <1>1 DEF NewRun, RunSet

LEMMA CreatesRun ==
  ASSUME TypeOK, OnceInv, TaskInv, NEW p \in Procs, CreateRun(p), UNCHANGED bootVars
  PROVE  TypeOK' /\ TaskInv'
<1> DEFINE r == proc[p].rev
           new == NewRun("workflow", None, None)
<1>1. /\ At(p, "create") /\ Goto(p, "attach") /\ task' = task
      /\ runs' = IF runs[r] = None THEN [runs EXCEPT ![r] = new] ELSE runs
  BY DEF CreateRun
<1>2. /\ Knows(proc[p]) /\ Carried(proc[p]) /\ RunKnown(proc[p]) /\ r \in 1..MaxRev
      /\ Unchanged(p) => RowKnown(proc[p])
  BY <1>1, Reading DEF Carried, At
<1>3. new \in RunSet /\ new.op = "workflow" /\ ~new.approved
  BY NewRuns
<1> HIDE DEF new
<1>4. /\ RunsKeep /\ ApprovalsKeep /\ runs' \in [1..MaxRev -> RunSet \cup {None}]
      /\ runs'[r] # None
  <2>1. CASE runs[r] = None
    <3>1. runs' = [runs EXCEPT ![r] = new]
      BY <1>1, <2>1
    <3> HIDE DEF r
    <3> QED
      BY <1>2, <1>3, <2>1, <3>1, OneRun
  <2>2. CASE runs[r] # None
    BY <1>1, <2>2, SameRuns DEF TypeOK
  <2> QED
    BY <2>1, <2>2
<1>5. /\ Others(p) /\ proc'[p].at = "attach"
      /\ proc'[p].rev = r /\ proc'[p].run = proc[p].run
  BY <1>1, GotoMoves
<1>6. Carried(proc'[p]) /\ RunKnown(proc[p])'
  BY <1>2, <1>4, <1>5 DEF Carried, RunKnown
<1>7. task'.rev = proc'[p].rev => RowKnown(proc[p])'
  BY <1>1, <1>2, <1>5 DEF RowKnown, Unchanged, At
<1>8. Knows(proc[p])'
  BY <1>1, <1>2, <1>5, <1>6, <1>7 DEF Knows
<1> QED
  BY <1>1, <1>4, <1>5, <1>8, RunStep DEF bootVars

LEMMA AttachesRun ==
  ASSUME TypeOK, OnceInv, TaskInv, NEW p \in Procs, AttachRun(p), UNCHANGED bootVars
  PROVE  TypeOK' /\ TaskInv'
<1> DEFINE t == [task EXCEPT !.state = "WAITING_APPROVAL", !.run = proc[p].rev]
<1>1. At(p, "attach") /\ Finish(p, t)
  BY DEF AttachRun
<1>2. /\ proc[p].rev \in 1..MaxRev /\ runs[proc[p].rev] # None
      /\ Unchanged(p) => task.run = None /\ ~task.prepared
  BY <1>1, Reading DEF Carried, RunKnown, RowKnown, At
<1>3. /\ t \in TaskSet /\ t.rev = task.rev /\ t.run = proc[p].rev /\ t.prepared = task.prepared
      /\ t.state = "WAITING_APPROVAL"
  BY <1>2 DEF TypeOK, TaskSet
<1>4. \A r \in 1..MaxRev : Unchanged(p) => ~Named(r)
  BY <1>2, Numbers DEF Named
<1> HIDE DEF t
<1> QED
  BY <1>1, <1>2, <1>3, <1>4, FinishStep

LEMMA RevokesRun ==
  ASSUME TypeOK, OnceInv, TaskInv, NEW p \in Procs, RevokeRun(p), UNCHANGED bootVars
  PROVE  TypeOK' /\ TaskInv'
<1> DEFINE r == proc[p].run
           x == [runs[r] EXCEPT !.approved = FALSE]
<1>1. At(p, "revoke") /\ Goto(p, "cancel") /\ task' = task
  BY DEF RevokeRun
<1>2. /\ Knows(proc[p]) /\ Carried(proc[p]) /\ RunKnown(proc[p])
      /\ Unchanged(p) => RowKnown(proc[p])
  BY Reading
<1>3. r \in 1..MaxRev /\ runs[r] # None /\ runs[r] \in RunSet
  BY <1>1, <1>2 DEF Carried, RunKnown, At, TypeOK
<1>4. x \in RunSet /\ x.op = runs[r].op /\ x.control = runs[r].control /\ ~x.approved
  BY <1>3 DEF RunSet
<1>5. runs' = [runs EXCEPT ![r] = x]
  BY DEF RevokeRun
<1>6. /\ Others(p) /\ proc'[p].at = "cancel"
      /\ proc'[p].rev = proc[p].rev /\ proc'[p].run = r
  BY <1>1, GotoMoves
<1> HIDE DEF x, r
<1>7. /\ RunsKeep /\ ApprovalsKeep /\ runs' \in [1..MaxRev -> RunSet \cup {None}]
      /\ runs'[r] # None
  BY <1>3, <1>4, <1>5, OneRun
<1>8. Carried(proc'[p]) /\ RunKnown(proc[p])'
  BY <1>2, <1>3, <1>6, <1>7, Numbers DEF Carried, RunKnown
<1>9. task'.rev = proc'[p].rev => RowKnown(proc[p])'
  BY <1>1, <1>2, <1>6 DEF RowKnown, Unchanged, At, r
<1>10. Knows(proc[p])'
  BY <1>1, <1>2, <1>6, <1>8, <1>9 DEF Knows
<1> QED
  BY <1>1, <1>6, <1>7, <1>10, RunStep DEF bootVars

LEMMA CancelsRun ==
  ASSUME TypeOK, OnceInv, TaskInv, NEW p \in Procs, CancelRun(p), UNCHANGED bootVars
  PROVE  TypeOK' /\ TaskInv'
<1> DEFINE r == proc[p].run
           x == Cancelled(runs[r])
<1>1. At(p, "cancel") /\ Goto(p, proc[p].arg.then) /\ task' = task
  BY DEF CancelRun
<1>2. /\ Knows(proc[p]) /\ Carried(proc[p]) /\ RunKnown(proc[p])
      /\ Unchanged(p) => RowKnown(proc[p])
      /\ proc[p].arg.then \in {"review", "reject"}
  BY <1>1, Reading DEF OnceInv, ProcFits, At
<1>3. r \in 1..MaxRev /\ runs[r] # None /\ runs[r] \in RunSet
  BY <1>1, <1>2 DEF Carried, RunKnown, At, TypeOK
<1>4. /\ x \in RunSet /\ x.op = runs[r].op /\ x.control = "cancel"
  BY <1>3 DEF RunSet, Cancelled
<1>5. runs' = [runs EXCEPT ![r] = x]
  BY DEF CancelRun
<1>6. /\ Others(p) /\ proc'[p].at \in {"review", "reject"}
      /\ proc'[p].rev = proc[p].rev /\ proc'[p].run = r
  BY <1>1, <1>2, GotoMoves
<1> HIDE DEF x, r
<1>7. /\ RunsKeep /\ ApprovalsKeep /\ runs' \in [1..MaxRev -> RunSet \cup {None}]
      /\ runs'[r] = x /\ x # None
  BY <1>3, <1>4, <1>5, OneRun
<1>8. Carried(proc'[p]) /\ RunKnown(proc[p])'
  BY <1>2, <1>3, <1>4, <1>6, <1>7 DEF Carried, RunKnown
<1>9. task'.rev = proc'[p].rev => RowKnown(proc[p])'
  BY <1>1, <1>2, <1>6 DEF RowKnown, Unchanged, At, r
<1>10. Knows(proc[p])'
  BY <1>1, <1>2, <1>6, <1>8, <1>9 DEF Knows
<1> QED
  BY <1>1, <1>6, <1>7, <1>10, RunStep DEF bootVars

\* The row is updated once the run it names is cancelled.
LEMMA Closes ==
  ASSUME TypeOK, OnceInv, TaskInv, NEW p \in Procs, CommitReview(p) \/ CommitReject(p),
         UNCHANGED bootVars
  PROVE  TypeOK' /\ TaskInv'
<1>1. At(p, "review") \/ At(p, "reject")
  BY DEF CommitReview, CommitReject
<1>2. RunKnown(proc[p]) /\ (Unchanged(p) => RowKnown(proc[p]))
  BY Reading
<1>3. \A r \in 1..MaxRev : Unchanged(p) => ~(Workable(r) /\ Named(r))
  BY <1>1, <1>2, Numbers DEF RunKnown, RowKnown, At, Named, Workable
<1>4. CASE CommitReview(p)
  <2> DEFINE t == [task EXCEPT !.state = "VALIDATED", !.drafted = TRUE, !.run = None]
  <2>1. t \in TaskSet /\ t.rev = task.rev /\ t.run = None
    BY DEF TypeOK, TaskSet
  <2>2. Finish(p, t)
    BY <1>4 DEF CommitReview
  <2> HIDE DEF t
  <2> QED
    BY <1>3, <2>1, <2>2, FinishStep
<1>5. CASE CommitReject(p)
  <2> DEFINE t == [task EXCEPT !.state = "REJECTED"]
  <2>1. t \in TaskSet /\ t.rev = task.rev /\ t.run = task.run /\ t.prepared = task.prepared
    BY DEF TypeOK, TaskSet
  <2>2. Finish(p, t)
    BY <1>5 DEF CommitReject
  <2> HIDE DEF t
  <2> QED
    BY <1>3, <2>1, <2>2, FinishStep DEF TaskInv
<1> QED
  BY <1>4, <1>5

\* An approval that comes late finds the run cancelled, and a workflow that was
\* cancelled is not idle; or it finds the run that the row still names.
LEMMA Approves ==
  ASSUME TypeOK, OnceInv, TaskInv, NEW p \in Procs, ApproveRun(p), UNCHANGED bootVars
  PROVE  TypeOK' /\ TaskInv'
<1> DEFINE r == proc[p].run
           x == [runs[r] EXCEPT !.approved = TRUE, !.state = "READY"]
<1>1. At(p, "approve") /\ Done(p) /\ task' = task
  BY DEF ApproveRun
<1>2. Knows(proc[p]) /\ Carried(proc[p]) /\ RunKnown(proc[p])
  BY Reading
<1>3. r \in 1..MaxRev /\ runs[r] # None /\ runs[r] \in RunSet
  BY <1>1, <1>2 DEF Carried, RunKnown, At, TypeOK
<1>4. x \in RunSet /\ x.op = runs[r].op /\ x.control = runs[r].control
  BY <1>3 DEF RunSet
<1>5. runs' = [runs EXCEPT ![r] = x] \/ runs' = runs
  <2>1. [runs EXCEPT ![r].approved = TRUE, ![r].state = "READY"] = [runs EXCEPT ![r] = x]
    BY <1>3 DEF TypeOK, RunSet
  <2> QED
    BY <2>1 DEF ApproveRun
<1>6. Workable(r) => Named(r)
  BY <1>1, <1>2 DEF Knows, At
<1> HIDE DEF x
<1>7. RunsKeep /\ ApprovalsKeep /\ runs' \in [1..MaxRev -> RunSet \cup {None}]
  <2>1. CASE runs' = [runs EXCEPT ![r] = x]
    <3>1. x.op = "workflow" /\ x.control = "run" => Named(r)
      BY <1>3, <1>4, <1>6 DEF Workable
    <3> HIDE DEF r
    <3> QED
      BY <1>3, <1>4, <2>1, <3>1, OneRun
  <2>2. CASE runs' = runs
    BY <2>2, SameRuns DEF TypeOK
  <2> QED
    BY <1>5, <2>1, <2>2
<1> QED
  BY <1>1, <1>7, RunStepIdle DEF bootVars

LEMMA Crashes ==
  ASSUME TypeOK, OnceInv, TaskInv, NEW p \in Procs, Crash(p), UNCHANGED bootVars
  PROVE  TypeOK' /\ TaskInv'
<1>1. /\ Done(p) /\ task' = task
      /\ runs' = [r \in 1..MaxRev |-> IF runs[r] # None /\ runs[r].owner = p
                                      THEN [runs[r] EXCEPT !.owner = "dead"] ELSE runs[r]]
  BY DEF Crash
<1>2. ASSUME NEW r \in 1..MaxRev, runs[r] # None
      PROVE  /\ runs'[r] \in RunSet /\ runs'[r].op = runs[r].op
             /\ runs'[r].control = runs[r].control /\ runs'[r].approved = runs[r].approved
  <2>1. runs[r] \in RunSet
    BY <1>2 DEF TypeOK
  <2>2. LET x == [runs[r] EXCEPT !.owner = "dead"] IN
        /\ x \in RunSet /\ x.op = runs[r].op
        /\ x.control = runs[r].control /\ x.approved = runs[r].approved
    BY <2>1 DEF RunSet
  <2> QED
    BY <1>1, <2>1, <2>2
<1>3. \A r \in 1..MaxRev : runs[r] = None => runs'[r] = None
  BY <1>1
<1>4. RunsKeep /\ ApprovalsKeep
  BY <1>2, <1>3, NullAssumption DEF RunsKeep, ApprovalsKeep, Workable
<1>5. runs' \in [1..MaxRev -> RunSet \cup {None}]
  BY <1>1, <1>2, <1>3
<1> QED
  BY <1>1, <1>4, <1>5, RunStepIdle DEF bootVars

\* Runs change and no process moves.
LEMMA RunAlone ==
  ASSUME TypeOK, TaskInv, UNCHANGED <<task, proc, bootVars>>, RunsKeep, ApprovalsKeep,
         runs' \in [1..MaxRev -> RunSet \cup {None}]
  PROVE  TypeOK' /\ TaskInv'
<1>1. TypeOK'
  BY DEF TypeOK, bootVars
<1>2. NamesKeep /\ RowMoves /\ RowNames
  BY SameTask
<1>3. ASSUME NEW p \in Procs PROVE Knows(proc[p])'
  <2>1. RunKnown(proc[p])'
    <3>1. RunKnown(proc[p]) /\ Carried(proc[p])
      BY Reading
    <3> QED
      BY <3>1 DEF RunKnown, RunsKeep, Carried
  <2>2. Knows(proc[p])
    BY Reading
  <2>3. (proc[p].at = "approve" /\ Workable(proc[p].run) => Named(proc[p].run))'
    <3>1. CASE proc[p].at = "approve" /\ Workable(proc[p].run)'
      <4>1. proc[p].run \in 1..MaxRev /\ runs[proc[p].run] # None
        BY <2>2, <3>1 DEF Knows, RunKnown, Carried
      <4>2. PICK r \in 1..MaxRev : r = proc[p].run
        BY <4>1
      <4>3. Workable(r)'
        BY <3>1, <4>2 DEF Workable
      <4>4. Workable(r)
        BY <4>1, <4>2, <4>3, WasWorkable
      <4> QED
        BY <2>2, <3>1, <4>2, <4>4 DEF Knows, Named
    <3> QED
      BY <3>1
  <2> QED
    BY <2>1, <2>2, <2>3 DEF Knows, RowKnown, Prepared
<1> QED
  BY <1>1, <1>2, <1>3, TaskRows

LEMMA WorkersStep ==
  ASSUME TypeOK, TaskInv, NEW r \in 1..MaxRev, WorkerStep(r), UNCHANGED bootVars
  PROVE  TypeOK' /\ TaskInv'
<1>1. UNCHANGED <<task, proc, bootVars>>
  BY DEF WorkerStep, WorkerClaims, WorkerAttempts, WorkerEnds, ApprovalExpires
<1>2. runs[r] # None /\ runs[r] \in RunSet
  BY DEF WorkerStep, WorkerClaims, WorkerAttempts, WorkerEnds, ApprovalExpires, Workflows, TypeOK
<1>3. ASSUME NEW x \in RunSet, runs' = [runs EXCEPT ![r] = x], x.op = runs[r].op,
             x.control = runs[r].control, x.approved => runs[r].approved
      PROVE  TypeOK' /\ TaskInv'
  <2>1. RunsKeep /\ ApprovalsKeep /\ runs' \in [1..MaxRev -> RunSet \cup {None}]
    BY <1>2, <1>3, OneRun
  <2> QED
    BY <1>1, <2>1, RunAlone
<1>4. CASE WorkerClaims(r)
  <2> DEFINE x == [runs[r] EXCEPT !.owner = "worker"]
  <2>1. /\ x \in RunSet /\ x.op = runs[r].op
        /\ x.control = runs[r].control /\ x.approved = runs[r].approved
    BY <1>2 DEF RunSet
  <2>2. runs' = [runs EXCEPT ![r] = x]
    BY <1>4 DEF WorkerClaims
  <2> HIDE DEF x
  <2> QED
    BY <1>3, <2>1, <2>2
<1>5. CASE WorkerAttempts(r)
  <2> DEFINE x == [runs[r] EXCEPT !.tried = TRUE]
  <2>1. /\ x \in RunSet /\ x.op = runs[r].op
        /\ x.control = runs[r].control /\ x.approved = runs[r].approved
    BY <1>2 DEF RunSet
  <2>2. runs' = [runs EXCEPT ![r] = x]
    BY <1>5 DEF WorkerAttempts
  <2> HIDE DEF x
  <2> QED
    BY <1>3, <2>1, <2>2
<1>6. CASE WorkerEnds(r)
  <2>1. PICK s \in {"WAITING_HUMAN", "COMPLETED"} :
          runs' = [runs EXCEPT ![r].owner = None, ![r].state = s]
    BY <1>6 DEF WorkerEnds
  <2> DEFINE x == [runs[r] EXCEPT !.owner = None, !.state = s]
  <2>2. /\ x \in RunSet /\ x.op = runs[r].op
        /\ x.control = runs[r].control /\ x.approved = runs[r].approved
    BY <1>2 DEF RunSet
  <2>3. runs' = [runs EXCEPT ![r] = x]
    BY <1>2, <2>1 DEF TypeOK, RunSet
  <2> HIDE DEF x
  <2> QED
    BY <1>3, <2>2, <2>3
<1>7. CASE ApprovalExpires(r)
  <2> DEFINE x == [runs[r] EXCEPT !.approved = FALSE]
  <2>1. /\ x \in RunSet /\ x.op = runs[r].op
        /\ x.control = runs[r].control /\ ~x.approved
    BY <1>2 DEF RunSet
  <2>2. runs' = [runs EXCEPT ![r] = x]
    BY <1>7 DEF ApprovalExpires
  <2> HIDE DEF x
  <2> QED
    BY <1>3, <2>1, <2>2
<1> QED
  BY <1>4, <1>5, <1>6, <1>7 DEF WorkerStep

LEMMA PlansStep ==
  ASSUME TypeOK, OnceInv, TaskInv, NEW p \in Procs, Plans(p), UNCHANGED bootVars
  PROVE  TypeOK' /\ TaskInv'
<1>1. CASE BeginDraft(p) \/ BeginClarify(p) \/ BeginPrepare(p)
  BY <1>1, OpenBegins DEF BeginDraft, BeginClarify, BeginPrepare
<1>2. CASE BeginReview(p) \/ BeginReject(p)
  BY <1>2, CloseBegins DEF BeginReview, BeginReject
<1> QED
  BY <1>1, <1>2, CreatesTask, OpenCommits, CreatesRun, AttachesRun, RevokesRun, CancelsRun,
     Closes, ApproveBegins, Approves, Crashes DEF Plans

-----------------------------------------------------------------------------
(* The rows while filesets are proposed and written.                        *)

\* What is verified: every file is there, as it was last written.
LEMMA VerifiableDisk ==
  ASSUME TypeOK, FilesInv, Verifiable
  PROVE  disk \in Written /\ disk = Recorded /\ Recorded = task.digests
<1>1. task.digests \in Written /\ Recorded = task.digests
  BY Numbers DEF Verifiable, FilesInv, Recorded
<1>2. disk \in [Files -> Bytes \cup {None}]
  BY DEF TypeOK, Trees
<1>3. \A f \in Files : disk[f] = Recorded[f]
  BY <1>1, Numbers DEF Verifiable, Drift, Written
<1>4. disk = Recorded
  BY <1>1, <1>2, <1>3 DEF Written
<1> QED
  BY <1>1, <1>4

LEMMA SubmitBegins ==
  ASSUME TypeOK, OnceInv, TaskInv, NEW p \in Procs, BeginSubmit(p)
  PROVE  TypeOK' /\ TaskInv'
<1> DEFINE a == [op |-> "create", base |-> None, failure |-> None]
           x == [at |-> "insert", rev |-> task.rev, run |-> task.run, arg |-> a]
<1>1. Prepared /\ Begin(p, "insert", task.run, a) /\ UNCHANGED <<task, runs, bootVars>>
  BY DEF BeginSubmit
<1>2. task.rev \in 1..MaxRev /\ task.run \in 1..MaxRev \cup {None}
  BY <1>1, BeginsInRange, TaskFields DEF Begin, TypeOK
<1>3. Carried(x) /\ x.rev <= task.rev
  BY <1>2 DEF Carried
<1>4. RunKnown(x) /\ RowKnown(x)
  BY <1>1, NamedRun DEF RunKnown, RowKnown
<1>5. Knows(x)
  BY <1>3, <1>4 DEF Knows
<1> HIDE DEF x, a
<1> QED
  BY <1>1, <1>5, EnterStep DEF Begin, x

LEMMA RepairBegins ==
  ASSUME TypeOK, OnceInv, TaskInv, NEW p \in Procs, BeginRepair(p)
  PROVE  TypeOK' /\ TaskInv'
<1> DEFINE a == [op |-> "modify", base |-> Recorded, failure |-> task.ev]
<1>1. PICK run \in {task.run, None} :
        Prepared /\ Begin(p, "insert", run, a) /\ UNCHANGED <<task, runs, bootVars>>
  BY DEF BeginRepair
<1> DEFINE x == [at |-> "insert", rev |-> task.rev, run |-> run, arg |-> a]
<1>2. task.rev \in 1..MaxRev /\ run \in 1..MaxRev \cup {None}
  BY <1>1, BeginsInRange, TaskFields DEF Begin, TypeOK
<1>3. Recorded \in Trees /\ task.ev \in EvidenceSet \cup {None}
  BY RecordedTree, TaskFields DEF TypeOK
<1>4. Carried(x) /\ x.rev <= task.rev
  BY <1>2, <1>3 DEF Carried
<1>5. RunKnown(x) /\ RowKnown(x)
  BY <1>1, NamedRun DEF RunKnown, RowKnown
<1>6. Knows(x)
  BY <1>4, <1>5 DEF Knows
<1> HIDE DEF x, a
<1> QED
  BY <1>1, <1>6, EnterStep DEF Begin, x

LEMMA FilesBegin ==
  ASSUME TypeOK, OnceInv, TaskInv, NEW p \in Procs, BeginFiles(p)
  PROVE  TypeOK' /\ TaskInv'
<1> DEFINE x == [at |-> "claim", rev |-> task.rev, run |-> task.run, arg |-> None]
<1>1. /\ Prepared /\ task.run # None /\ Begin(p, "claim", task.run, None)
      /\ UNCHANGED <<task, runs, bootVars>>
  BY DEF BeginFiles
<1>2. task.rev \in 1..MaxRev /\ task.run \in 1..MaxRev \cup {None}
  BY <1>1, BeginsInRange, TaskFields DEF Begin, TypeOK
<1>3. Carried(x) /\ x.rev <= task.rev
  BY <1>2 DEF Carried
<1>4. RunKnown(x) /\ RowKnown(x)
  BY <1>1, NamedRun DEF RunKnown, RowKnown
<1>5. Knows(x)
  BY <1>3, <1>4 DEF Knows
<1> HIDE DEF x
<1> QED
  BY <1>1, <1>5, EnterStep DEF Begin, x

LEMMA VerifyBegins ==
  ASSUME TypeOK, OnceInv, TaskInv, FilesInv, NEW p \in Procs, BeginVerify(p)
  PROVE  TypeOK' /\ TaskInv'
<1> DEFINE x == [at |-> "verify", rev |-> task.rev, run |-> None, arg |-> [tree |-> disk]]
<1>1. Verifiable /\ Begin(p, "verify", None, [tree |-> disk]) /\ UNCHANGED <<task, runs, bootVars>>
  BY DEF BeginVerify
<1>2. task.rev \in 1..MaxRev /\ disk \in Written
  BY <1>1, BeginsInRange, VerifiableDisk DEF Begin
<1>3. Carried(x) /\ x.rev <= task.rev
  BY <1>2 DEF Carried
<1>4. RunKnown(x) /\ RowKnown(x)
  BY <1>1 DEF RunKnown, RowKnown, Verifiable
<1>5. Knows(x)
  BY <1>3, <1>4 DEF Knows
<1> HIDE DEF x
<1> QED
  BY <1>1, <1>5, EnterStep DEF Begin, x

LEMMA ReviseBegins ==
  ASSUME TypeOK, OnceInv, TaskInv, NEW p \in Procs, BeginRevise(p)
  PROVE  TypeOK' /\ TaskInv'
<1>1. PICK impact \in Impacts :
        /\ Begin(p, "revise", task.run, [impact |-> impact, tree |-> disk])
        /\ Prepared /\ UNCHANGED <<task, runs, bootVars>>
  BY DEF BeginRevise
<1> DEFINE a == [impact |-> impact, tree |-> disk]
           x == [at |-> "revise", rev |-> task.rev, run |-> task.run, arg |-> a]
<1>2. task.rev \in 1..MaxRev /\ task.run \in 1..MaxRev \cup {None}
  BY <1>1, BeginsInRange, TaskFields DEF Begin, TypeOK
<1>3. Carried(x) /\ x.rev <= task.rev
  BY <1>2 DEF Carried
<1>4. RunKnown(x) /\ RowKnown(x)
  BY <1>1 DEF RunKnown, RowKnown
<1>5. Knows(x)
  BY <1>3, <1>4 DEF Knows
<1>6. Enter(p, "revise", task.run, a)
  BY <1>1 DEF Begin
<1> HIDE DEF a
<1> QED
  BY <1>1, <1>5, <1>6, EnterStep

\* A fileset gets its row, and the one it replaces is superseded.
LEMMA InsertsFileset ==
  ASSUME TypeOK, OnceInv, TaskInv, NEW p \in Procs, InsertFileset(p)
  PROVE  TypeOK' /\ TaskInv'
<1> DEFINE r == proc[p].rev
           prior == proc[p].run
           new == NewRun(proc[p].arg.op, proc[p].arg.base, proc[p].arg.failure)
<1>1. At(p, "insert") /\ UNCHANGED <<task, bootVars>>
  BY DEF InsertFileset
<1>2. /\ Knows(proc[p]) /\ Carried(proc[p]) /\ RunKnown(proc[p])
      /\ Unchanged(p) => RowKnown(proc[p])
  BY Reading
<1>3. CASE Done(p) /\ UNCHANGED runs
  BY <1>1, <1>3, SameRuns, RunStepIdle DEF TypeOK
<1>4. CASE /\ runs[r] = None /\ Goto(p, "record")
           /\ runs' = [k \in DOMAIN runs |-> IF k = r THEN new
                                             ELSE IF k = prior THEN Superseded(k) ELSE runs[k]]
  <2>1. /\ r \in 1..MaxRev /\ prior \in 1..MaxRev \cup {None}
        /\ prior # None => runs[prior] # None
    BY <1>1, <1>2 DEF Carried, RunKnown, At
  <2>2. new \in RunSet /\ new.op # "workflow" /\ new # None
    <3>1. proc[p].arg.op \in {"create", "modify"} /\ new \in RunSet /\ new.op = proc[p].arg.op
      BY <1>1, <1>2, NewRuns DEF Carried, At
    <3> QED
      BY <3>1, NullAssumption
  <2> HIDE DEF new, r, prior
  <2>3. DOMAIN runs = 1..MaxRev /\ \A k \in 1..MaxRev : runs[k] \in RunSet \cup {None}
    BY DEF TypeOK
  <2>4. ASSUME NEW k \in 1..MaxRev, k = prior
        PROVE  /\ Superseded(k) \in RunSet /\ Superseded(k).op = runs[k].op
               /\ Superseded(k).control = "cancel"
    <3>1. runs[k] \in RunSet
      BY <2>1, <2>3, <2>4, Numbers
    <3> QED
      BY <3>1 DEF Superseded, RunSet
  <2>5. runs' \in [1..MaxRev -> RunSet \cup {None}]
    BY <1>4, <2>2, <2>3, <2>4
  <2>6. RunsKeep
    <3> SUFFICES ASSUME NEW k \in 1..MaxRev, runs[k] # None
                 PROVE  /\ runs'[k] # None /\ runs'[k].op = runs[k].op
                        /\ runs[k].control = "cancel" => runs'[k].control = "cancel"
      BY DEF RunsKeep
    <3>1. CASE k = prior
      BY <1>4, <2>3, <2>4, <3>1, NullAssumption
    <3>2. CASE k # prior
      BY <1>4, <2>3, <3>2
    <3> QED
      BY <3>1, <3>2
  <2>7. ApprovalsKeep
    <3> SUFFICES ASSUME NEW k \in 1..MaxRev, Workable(k)', runs'[k].approved
                 PROVE  runs[k] # None /\ runs[k].approved
      BY DEF ApprovalsKeep
    <3>1. k # r
      BY <1>4, <2>2, <2>3 DEF Workable
    <3>2. k # prior
      BY <1>4, <2>3, <2>4, <3>1 DEF Workable
    <3> QED
      BY <1>4, <2>3, <3>1, <3>2 DEF Workable
  <2>8. runs'[r] = new
    BY <1>4, <2>1, <2>3
  <2>9. /\ Others(p) /\ proc'[p].at = "record" /\ proc'[p].rev = r
        /\ proc'[p].run = proc[p].run /\ proc'[p].arg = proc[p].arg
    BY <1>4, GotoMoves DEF r
  <2>10. Carried(proc'[p]) /\ RunKnown(proc[p])'
    BY <1>2, <2>1, <2>2, <2>8, <2>9 DEF Carried, RunKnown, r
  <2>11. task'.rev = proc'[p].rev => RowKnown(proc[p])'
    BY <1>1, <1>2, <2>9 DEF RowKnown, Unchanged, At, Prepared, r
  <2>12. Knows(proc[p])'
    BY <1>1, <1>2, <2>9, <2>10, <2>11 DEF Knows, r
  <2> QED
    BY <1>1, <2>5, <2>6, <2>7, <2>9, <2>12, RunStep
<1> QED
  BY <1>3, <1>4 DEF InsertFileset

LEMMA RecordsFileset ==
  ASSUME TypeOK, OnceInv, TaskInv, NEW p \in Procs, RecordFileset(p)
  PROVE  TypeOK' /\ TaskInv'
<1> DEFINE next == [task EXCEPT !.run = proc[p].rev]
           t == IF proc[p].arg.op = "create" THEN [next EXCEPT !.src = "FILESET_PROPOSED"]
                ELSE [next EXCEPT !.src = "REPAIR_PROPOSED", !.digests = Recorded]
<1>1. At(p, "record") /\ Finish(p, t) /\ UNCHANGED bootVars
  BY DEF RecordFileset
<1>2. /\ proc[p].rev \in 1..MaxRev /\ runs[proc[p].rev] # None
      /\ runs[proc[p].rev].op # "workflow" /\ (Unchanged(p) => task.prepared)
  BY <1>1, Reading DEF Carried, RunKnown, RowKnown, At, Prepared
<1>3. /\ t \in TaskSet /\ t.rev = task.rev /\ t.run = proc[p].rev
  <2>1. next \in TaskSet /\ next.rev = task.rev /\ next.run = proc[p].rev
    BY <1>2 DEF TypeOK, TaskSet
  <2> HIDE DEF next
  <2> QED
    BY <2>1, RecordedTree DEF TaskSet
<1>4. \A r \in 1..MaxRev : Unchanged(p) => ~(Workable(r) /\ Named(r))
  BY <1>2, Numbers DEF Named, Workable, TaskInv
<1> HIDE DEF t
<1> QED
  BY <1>1, <1>2, <1>3, <1>4, FinishStep

\* A step that changes runs and files and no other row.
LEMMA DiskStep ==
  ASSUME TypeOK, OnceInv, TaskInv, UNCHANGED <<task, decisions>>, RunsKeep, ApprovalsKeep,
         runs' \in [1..MaxRev -> RunSet \cup {None}], disk' \in Trees,
         NEW p \in Procs, Others(p), Knows(proc[p])'
  PROVE  TypeOK' /\ TaskInv'
<1>1. TypeOK'
  BY DEF TypeOK
<1> QED
  BY <1>1, SameTask, TaskStep

\* The run that a process works on.
OwnRun(p) == proc[p].run \in 1..MaxRev /\ runs[proc[p].run] # None

LEMMA Owning ==
  ASSUME TypeOK, TaskInv, NEW p \in Procs,
         proc[p].at \in {"claim", "put", "latest", "settle"}
  PROVE  OwnRun(p) /\ runs[proc[p].run] \in RunSet
<1>1. OwnRun(p)
  BY Reading DEF Carried, RunKnown, OwnRun
<1> QED
  BY <1>1 DEF OwnRun, TypeOK

\* A change of a run that is neither of its kind nor of what it is allowed.
LEMMA OwnChange ==
  ASSUME TypeOK, TaskInv, NEW p \in Procs, OwnRun(p), NEW x \in RunSet,
         runs' = [runs EXCEPT ![proc[p].run] = x], x.op = runs[proc[p].run].op,
         x.control = runs[proc[p].run].control, x.approved => runs[proc[p].run].approved
  PROVE  /\ RunsKeep /\ ApprovalsKeep /\ runs' \in [1..MaxRev -> RunSet \cup {None}]
         /\ runs'[proc[p].run] # None
<1> DEFINE r == proc[p].run
<1>1. r \in 1..MaxRev /\ runs[r] # None
  BY DEF OwnRun
<1>2. /\ runs' = [runs EXCEPT ![r] = x] /\ x.op = runs[r].op
      /\ x.control = runs[r].control /\ (x.approved => runs[r].approved)
  OBVIOUS
<1> HIDE DEF r
<1>3. /\ runs[r] # None => x.op = runs[r].op /\ (runs[r].control = "cancel" => x.control = "cancel")
      /\ x.op = "workflow" /\ x.control = "run" /\ x.approved =>
           (runs[r] # None /\ runs[r].approved) \/ Named(r)
  BY <1>1, <1>2
<1>4. /\ RunsKeep /\ ApprovalsKeep /\ runs' \in [1..MaxRev -> RunSet \cup {None}]
      /\ runs'[r] = x /\ x # None
  BY <1>1, <1>2, <1>3, OneRun
<1> QED
  BY <1>4 DEF r

\* Releasing a run changes its lease only.
LEMMA Releases ==
  ASSUME TypeOK, TaskInv, NEW p \in Procs, OwnRun(p), runs' = Released(p)
  PROVE  RunsKeep /\ ApprovalsKeep /\ runs' \in [1..MaxRev -> RunSet \cup {None}]
<1> DEFINE r == proc[p].run
           x == [runs[r] EXCEPT !.owner = None, !.lease = FALSE]
<1>1. DOMAIN runs = 1..MaxRev /\ runs \in [1..MaxRev -> RunSet \cup {None}] /\ runs[r] \in RunSet
  BY DEF TypeOK, OwnRun
<1>2. CASE runs[r].owner = p
  <2>1. /\ x \in RunSet /\ x.op = runs[r].op
        /\ x.control = runs[r].control /\ x.approved = runs[r].approved
    BY <1>1 DEF RunSet
  <2>2. runs' = [runs EXCEPT ![r] = x]
    BY <1>1, <1>2 DEF Released
  <2> HIDE DEF x
  <2> QED
    BY <2>1, <2>2, OwnChange
<1>3. CASE runs[r].owner # p
  <2>1. runs' = runs
    BY <1>1, <1>3 DEF Released
  <2> QED
    BY <1>1, <2>1, SameRuns
<1> QED
  BY <1>2, <1>3

LEMMA AbandonStep ==
  ASSUME TypeOK, OnceInv, TaskInv, NEW p \in Procs, OwnRun(p), Abandon(p),
         UNCHANGED <<task, decisions>>, disk' \in Trees
  PROVE  TypeOK' /\ TaskInv'
<1>1. /\ RunsKeep /\ ApprovalsKeep /\ runs' \in [1..MaxRev -> RunSet \cup {None}]
      /\ Done(p)
  BY Releases DEF Abandon
<1>2. TypeOK'
  BY <1>1 DEF TypeOK
<1>3. Others(p) /\ Knows(proc[p])'
  BY <1>1, <1>2, DoneMoves, IdleKnows
<1> QED
  BY <1>1, <1>3, DiskStep

\* A process goes on with the fileset it holds.
LEMMA HoldsOn ==
  ASSUME TypeOK, TaskInv, NEW p \in Procs, At(p, "claim") \/ At(p, "put"), task' = task,
         RunsKeep, proc'[p].rev = proc[p].rev, proc'[p].run = proc[p].run,
         proc'[p].at \in {"put", "latest"}, proc'[p].arg \in BatchSet,
         proc'[p].arg.outcome = "MATERIALIZED" =>
           proc'[p].arg.left \cup proc'[p].arg.done = Files,
         proc'[p].at # "put" => proc'[p].arg.left = {}
  PROVE  Knows(proc[p])'
<1>1. /\ Knows(proc[p]) /\ Carried(proc[p]) /\ RunKnown(proc[p]) /\ OwnRun(p)
      /\ Unchanged(p) => RowKnown(proc[p])
  BY Reading, Owning DEF At
<1>2. Carried(proc'[p])
  BY <1>1 DEF Carried
<1>3. RunKnown(proc[p])'
  BY <1>1, Numbers DEF RunKnown, RunsKeep, OwnRun
<1>4. task'.rev = proc'[p].rev => RowKnown(proc[p])'
  BY <1>1 DEF RowKnown, Unchanged, At, Prepared
<1> QED
  BY <1>1, <1>2, <1>3, <1>4 DEF Knows

LEMMA Preflights ==
  ASSUME NEW r
  PROVE  /\ Preflight(r) \in BatchSet
         /\ Preflight(r).outcome = "MATERIALIZED" =>
              Preflight(r).left \cup Preflight(r).done = Files
<1> DEFINE standing == {f \in Files : Stands(r, f)}
           clean == \A f \in Files \ standing : Free(r, f)
<1>1. Preflight(r) = [left |-> IF clean THEN Files \ standing ELSE {}, done |-> standing,
                      wrote |-> FALSE,
                      outcome |-> IF clean THEN "MATERIALIZED" ELSE "CONFLICT"]
  BY DEF Preflight
<1>2. standing \subseteq Files
  OBVIOUS
<1> HIDE DEF standing, clean
<1> QED
  BY <1>1, <1>2 DEF BatchSet

LEMMA ClaimsFileset ==
  ASSUME TypeOK, OnceInv, TaskInv, NEW p \in Procs, ClaimFileset(p)
  PROVE  TypeOK' /\ TaskInv'
<1> DEFINE r == proc[p].run
           held == [runs[r] EXCEPT !.owner = p, !.lease = TRUE, !.state = "MATERIALIZING"]
           free == [runs[r] EXCEPT !.owner = None, !.lease = FALSE]
<1>1. At(p, "claim") /\ UNCHANGED <<task, bootVars>> /\ disk' \in Trees /\ OwnRun(p)
      /\ runs[r] \in RunSet /\ r \in 1..MaxRev
  BY Owning DEF ClaimFileset, At, TypeOK, bootVars, OwnRun
<1>2. CASE Done(p) /\ UNCHANGED runs
  BY <1>1, <1>2, SameRuns, RunStepIdle DEF TypeOK
<1>3. CASE /\ runs' = [runs EXCEPT ![r].owner = p, ![r].lease = TRUE, ![r].state = "MATERIALIZING"]
           /\ proc' = [proc EXCEPT ![p].at = "put", ![p].arg = Preflight(r)]
  <2>1. /\ held \in RunSet /\ held.op = runs[r].op
        /\ held.control = runs[r].control /\ held.approved = runs[r].approved
    BY <1>1 DEF RunSet
  <2>2. runs' = [runs EXCEPT ![r] = held]
    BY <1>1, <1>3 DEF TypeOK, RunSet
  <2> HIDE DEF held
  <2>3. RunsKeep /\ ApprovalsKeep /\ runs' \in [1..MaxRev -> RunSet \cup {None}]
    BY <1>1, <2>1, <2>2, OwnChange
  <2>4. /\ Others(p) /\ proc'[p].at = "put" /\ proc'[p].arg = Preflight(r)
        /\ proc'[p].rev = proc[p].rev /\ proc'[p].run = proc[p].run
    <3>1. DOMAIN proc = Procs /\ DOMAIN proc[p] = {"at", "rev", "run", "arg"}
      BY DEF OnceInv, ProcFits, Idle
    <3>2. proc' = [proc EXCEPT ![p] = [proc[p] EXCEPT !.at = "put", !.arg = Preflight(r)]]
      BY <1>3
    <3> QED
      BY <3>1, <3>2 DEF Others
  <2>5. Knows(proc[p])'
    <3>1. /\ proc'[p].arg \in BatchSet
          /\ proc'[p].arg.outcome = "MATERIALIZED" =>
               proc'[p].arg.left \cup proc'[p].arg.done = Files
      BY <2>4, Preflights
    <3> QED
      BY <1>1, <2>3, <2>4, <3>1, HoldsOn
  <2> QED
    BY <1>1, <2>3, <2>4, <2>5, RunStep
<1>4. CASE runs' = [runs EXCEPT ![r].owner = None, ![r].lease = FALSE] /\ Done(p)
  <2>1. /\ free \in RunSet /\ free.op = runs[r].op
        /\ free.control = runs[r].control /\ free.approved = runs[r].approved
    BY <1>1 DEF RunSet
  <2>2. runs' = [runs EXCEPT ![r] = free]
    BY <1>1, <1>4 DEF TypeOK, RunSet
  <2> HIDE DEF free
  <2>3. RunsKeep /\ ApprovalsKeep /\ runs' \in [1..MaxRev -> RunSet \cup {None}]
    BY <1>1, <2>1, <2>2, OwnChange
  <2> QED
    BY <1>1, <1>4, <2>3, RunStepIdle
<1> QED
  BY <1>2, <1>3, <1>4, Zenon DEF ClaimFileset

\* The run of a process is marked as tried, or ends.
LEMMA Marks ==
  ASSUME TypeOK, TaskInv, NEW p \in Procs, OwnRun(p), runs[proc[p].run] \in RunSet,
         \/ runs' = [runs EXCEPT ![proc[p].run].tried = TRUE]
         \/ \E s \in {"COMPLETED", "WAITING_HUMAN"} :
              runs' = [runs EXCEPT ![proc[p].run].state = s, ![proc[p].run].tried = TRUE]
  PROVE  RunsKeep /\ ApprovalsKeep /\ runs' \in [1..MaxRev -> RunSet \cup {None}]
<1>1. CASE runs' = [runs EXCEPT ![proc[p].run].tried = TRUE]
  <2> DEFINE x == [runs[proc[p].run] EXCEPT !.tried = TRUE]
  <2>1. /\ x \in RunSet /\ x.op = runs[proc[p].run].op
        /\ x.control = runs[proc[p].run].control /\ x.approved = runs[proc[p].run].approved
    BY DEF RunSet
  <2>2. runs' = [runs EXCEPT ![proc[p].run] = x]
    BY <1>1
  <2> HIDE DEF x
  <2> QED
    BY <2>1, <2>2, OwnChange
<1>2. ASSUME NEW s \in {"COMPLETED", "WAITING_HUMAN"},
             runs' = [runs EXCEPT ![proc[p].run].state = s, ![proc[p].run].tried = TRUE]
      PROVE  RunsKeep /\ ApprovalsKeep /\ runs' \in [1..MaxRev -> RunSet \cup {None}]
  <2> DEFINE x == [runs[proc[p].run] EXCEPT !.state = s, !.tried = TRUE]
  <2>1. /\ x \in RunSet /\ x.op = runs[proc[p].run].op
        /\ x.control = runs[proc[p].run].control /\ x.approved = runs[proc[p].run].approved
    BY DEF RunSet
  <2>2. runs' = [runs EXCEPT ![proc[p].run] = x]
    BY <1>2 DEF TypeOK, OwnRun
  <2> HIDE DEF x
  <2> QED
    BY <2>1, <2>2, OwnChange
<1> QED
  BY <1>1, <1>2

LEMMA PutsFile ==
  ASSUME TypeOK, OnceInv, TaskInv, NEW p \in Procs, PutFile(p)
  PROVE  TypeOK' /\ TaskInv'
<1> DEFINE r == proc[p].run
           arg == proc[p].arg
<1>1. /\ At(p, "put") /\ UNCHANGED <<task, decisions>> /\ OwnRun(p)
      /\ runs[r] \in RunSet /\ r \in 1..MaxRev /\ disk \in Trees
  BY Owning DEF PutFile, At, TypeOK, OwnRun
<1>2. arg \in BatchSet /\ (arg.outcome = "MATERIALIZED" => arg.left \cup arg.done = Files)
  BY <1>1, Reading DEF Carried, At
<1>3. ASSUME NEW a \in BatchSet, a.outcome = "MATERIALIZED" => a.left \cup a.done = Files,
             proc' = [proc EXCEPT ![p].arg = a], runs' = [runs EXCEPT ![r].tried = TRUE],
             disk' \in Trees
      PROVE  TypeOK' /\ TaskInv'
  <2>1. RunsKeep /\ ApprovalsKeep /\ runs' \in [1..MaxRev -> RunSet \cup {None}]
    BY <1>1, <1>3, Marks
  <2>2. /\ Others(p) /\ proc'[p].at = "put" /\ proc'[p].arg = a
        /\ proc'[p].rev = proc[p].rev /\ proc'[p].run = proc[p].run
    <3>1. DOMAIN proc = Procs /\ DOMAIN proc[p] = {"at", "rev", "run", "arg"}
      BY DEF OnceInv, ProcFits, Idle
    <3>2. proc' = [proc EXCEPT ![p] = [proc[p] EXCEPT !.arg = a]]
      BY <1>3
    <3> QED
      BY <1>1, <3>1, <3>2 DEF Others, At
  <2>3. Knows(proc[p])'
    BY <1>1, <1>3, <2>1, <2>2, HoldsOn
  <2> QED
    BY <1>1, <1>3, <2>1, <2>2, <2>3, DiskStep
<1>4. PICK f \in arg.left :
        \/ Abandon(p) /\ UNCHANGED disk
        \/ /\ disk' = [disk EXCEPT ![f] = r] /\ runs' = [runs EXCEPT ![r].tried = TRUE]
           /\ proc' = [proc EXCEPT ![p].arg =
                [[arg EXCEPT !.left = @ \ {f}] EXCEPT !.done = @ \cup {f}, !.wrote = TRUE]]
        \/ /\ UNCHANGED disk /\ runs' = [runs EXCEPT ![r].tried = TRUE]
           /\ \E o \in {"CONFLICT", "FAILED"} :
                proc' = [proc EXCEPT ![p].arg =
                  [[arg EXCEPT !.left = @ \ {f}] EXCEPT !.outcome = o]]
  <2>1. PICK f \in arg.left :
       LET tried == [arg EXCEPT !.left = @ \ {f}]
           Carry(a) == proc' = [proc EXCEPT ![p].arg = a]
       IN  \/ /\ Abandon(p) /\ UNCHANGED disk
           \/ /\ disk' = [disk EXCEPT ![f] = r]
              /\ Carry([tried EXCEPT !.done = @ \cup {f}, !.wrote = TRUE])
              /\ runs' = [runs EXCEPT ![r].tried = TRUE]
           \/ /\ Carry([tried EXCEPT !.outcome = "CONFLICT"])
              /\ runs' = [runs EXCEPT ![r].tried = TRUE]
              /\ UNCHANGED disk
           \/ /\ Carry([tried EXCEPT !.outcome = IF @ = "CONFLICT" THEN @ ELSE "FAILED"])
              /\ runs' = [runs EXCEPT ![r].tried = TRUE]
              /\ UNCHANGED disk
    BY DEF PutFile
  <2>2. ASSUME NEW t, proc' = [proc EXCEPT ![p].arg =
                         [t EXCEPT !.outcome = IF @ = "CONFLICT" THEN @ ELSE "FAILED"]]
        PROVE  \E o \in {"CONFLICT", "FAILED"} :
                 proc' = [proc EXCEPT ![p].arg = [t EXCEPT !.outcome = o]]
    <3>1. CASE t.outcome = "CONFLICT"
      BY <2>2, <3>1
    <3>2. CASE t.outcome # "CONFLICT"
      BY <2>2, <3>2
    <3> QED
      BY <3>1, <3>2
  <2> QED
    BY <2>1, <2>2
<1> HIDE DEF r, arg
<1>5. CASE Abandon(p) /\ UNCHANGED disk
  BY <1>1, <1>5, AbandonStep
<1>6. CASE /\ disk' = [disk EXCEPT ![f] = r] /\ runs' = [runs EXCEPT ![r].tried = TRUE]
           /\ proc' = [proc EXCEPT ![p].arg =
                [[arg EXCEPT !.left = @ \ {f}] EXCEPT !.done = @ \cup {f}, !.wrote = TRUE]]
  <2> DEFINE a == [[arg EXCEPT !.left = @ \ {f}] EXCEPT !.done = @ \cup {f}, !.wrote = TRUE]
  <2>1. /\ a \in BatchSet /\ a.outcome = arg.outcome
        /\ a.left = arg.left \ {f} /\ a.done = arg.done \cup {f}
    BY <1>2 DEF BatchSet
  <2>2. a.outcome = "MATERIALIZED" => a.left \cup a.done = Files
    BY <1>2, <2>1
  <2>3. disk' \in Trees
    BY <1>1, <1>6 DEF Trees, Bytes
  <2>4. proc' = [proc EXCEPT ![p].arg = a]
    BY <1>6
  <2> HIDE DEF a
  <2> QED
    BY <1>3, <1>6, <2>1, <2>2, <2>3, <2>4
<1>7. CASE /\ UNCHANGED disk /\ runs' = [runs EXCEPT ![r].tried = TRUE]
           /\ \E o \in {"CONFLICT", "FAILED"} :
                proc' = [proc EXCEPT ![p].arg =
                  [[arg EXCEPT !.left = @ \ {f}] EXCEPT !.outcome = o]]
  <2>1. PICK o \in {"CONFLICT", "FAILED"} :
          proc' = [proc EXCEPT ![p].arg = [[arg EXCEPT !.left = @ \ {f}] EXCEPT !.outcome = o]]
    BY <1>7
  <2> DEFINE a == [[arg EXCEPT !.left = @ \ {f}] EXCEPT !.outcome = o]
  <2>2. a \in BatchSet /\ a.outcome # "MATERIALIZED"
    BY <1>2 DEF BatchSet
  <2>3. proc' = [proc EXCEPT ![p].arg = a]
    BY <2>1
  <2> HIDE DEF a
  <2> QED
    BY <1>1, <1>3, <1>7, <2>2, <2>3
<1> QED
  BY <1>4, <1>5, <1>6, <1>7

LEMMA EndsFiles ==
  ASSUME TypeOK, OnceInv, TaskInv, NEW p \in Procs, EndFiles(p)
  PROVE  TypeOK' /\ TaskInv'
<1> DEFINE r == proc[p].run
<1>1. /\ At(p, "put") /\ proc[p].arg.left = {} /\ UNCHANGED <<task, bootVars>> /\ OwnRun(p)
      /\ runs[r] \in RunSet /\ r \in 1..MaxRev /\ disk' \in Trees
  BY Owning DEF EndFiles, At, TypeOK, OwnRun, bootVars
<1>2. /\ proc[p].arg \in BatchSet
      /\ proc[p].arg.outcome = "MATERIALIZED" => proc[p].arg.left \cup proc[p].arg.done = Files
  BY <1>1, Reading DEF Carried, At
<1>3. CASE Abandon(p)
  BY <1>1, <1>3, AbandonStep DEF bootVars
<1>4. ASSUME NEW s \in {"COMPLETED", "WAITING_HUMAN"},
             runs' = [runs EXCEPT ![r].state = s, ![r].tried = TRUE], Goto(p, "latest")
      PROVE  TypeOK' /\ TaskInv'
  <2>1. RunsKeep /\ ApprovalsKeep /\ runs' \in [1..MaxRev -> RunSet \cup {None}]
    BY <1>1, <1>4, Marks
  <2>2. /\ Others(p) /\ proc'[p].at = "latest" /\ proc'[p].arg = proc[p].arg
        /\ proc'[p].rev = proc[p].rev /\ proc'[p].run = proc[p].run
    BY <1>4, GotoMoves
  <2>3. Knows(proc[p])'
    BY <1>1, <1>2, <2>1, <2>2, HoldsOn
  <2> QED
    BY <1>1, <2>1, <2>2, <2>3, RunStep
<1>5. Abandon(p) \/ \E s \in {"COMPLETED", "WAITING_HUMAN"} :
        runs' = [runs EXCEPT ![r].state = s, ![r].tried = TRUE] /\ Goto(p, "latest")
  BY DEF EndFiles
<1> QED
  BY <1>3, <1>4, <1>5

LEMMA ReadsLatest ==
  ASSUME TypeOK, OnceInv, TaskInv, NEW p \in Procs, ReadLatest(p)
  PROVE  TypeOK' /\ TaskInv'
<1>1. At(p, "latest") /\ UNCHANGED <<task, runs, bootVars>> /\ OwnRun(p)
  BY Owning DEF ReadLatest, At
<1>2. /\ Others(p) /\ proc'[p].at = "settle" /\ proc'[p].arg = proc[p].arg
      /\ proc'[p].rev = task.rev /\ proc'[p].run = proc[p].run
  <2>1. DOMAIN proc = Procs /\ DOMAIN proc[p] = {"at", "rev", "run", "arg"}
    BY DEF OnceInv, ProcFits, Idle
  <2>2. proc' = [proc EXCEPT ![p] = [proc[p] EXCEPT !.at = "settle", !.rev = task.rev]]
    BY DEF ReadLatest
  <2> QED
    BY <2>1, <2>2 DEF Others
<1>3. task.rev \in Nat /\ TypeOK'
  BY <1>1, TaskFields DEF TypeOK, bootVars
<1>4. Carried(proc'[p]) /\ RunKnown(proc'[p]) /\ RowKnown(proc'[p])
  BY <1>1, <1>2, <1>3, Reading DEF Carried, RunKnown, RowKnown, At
<1>5. Knows(proc'[p])
  BY <1>2, <1>3, <1>4 DEF Knows
<1> QED
  BY <1>1, <1>2, <1>3, <1>5, StillStep

\* An update that leaves the run that is named, and how far the objective is.
LEMMA SameNames ==
  ASSUME TypeOK, TaskInv, RunsKeep, NEW p \in Procs, NEW next \in TaskSet, Update(p, next),
         next.rev = task.rev, next.run = task.run, next.state = task.state,
         next.prepared = task.prepared
  PROVE  task' \in TaskSet /\ RowMoves /\ NamesKeep /\ RowNames
<1>1. task' \in TaskSet /\ RowMoves
  BY Updating
<1>2. task'.run = task.run /\ task'.state = task.state /\ task'.prepared = task.prepared
  <2>1. CASE task' = task
    BY <2>1
  <2>2. CASE \A x \in DOMAIN task' \ {"rev"} : task'[x] = next[x]
    BY <1>1, <2>2 DEF TaskSet
  <2> QED
    BY <2>1, <2>2, Updating
<1>3. task.run \in 1..MaxRev \cup {None}
  BY TaskFields DEF TypeOK
<1> QED
  BY <1>1, <1>2, <1>3 DEF NamesKeep, RowNames, Named, TaskInv, RunsKeep

\* What is recorded once the files of a fileset are written.
LEMMA Outcomes ==
  ASSUME NEW op \in {"workflow", "create", "modify"},
         NEW outcome \in {"MATERIALIZED", "CONFLICT", "FAILED"}
  PROVE  /\ OutcomeState(op, outcome) \in
              {"MATERIALIZED", "CONFLICT", "FAILED", "REPAIR_CONFLICT", "REPAIR_FAILED"}
         /\ OutcomeState(op, outcome) = "MATERIALIZED" => outcome = "MATERIALIZED"
<1>1. CASE op = "create" \/ outcome = "MATERIALIZED"
  BY <1>1 DEF OutcomeState
<1>2. CASE ~(op = "create" \/ outcome = "MATERIALIZED") /\ outcome = "CONFLICT"
  BY <1>2 DEF OutcomeState
<1>3. CASE ~(op = "create" \/ outcome = "MATERIALIZED") /\ outcome # "CONFLICT"
  BY <1>3 DEF OutcomeState
<1> QED
  BY <1>1, <1>2, <1>3

\* What the source of a project ends as, and what is shown of its verification.
Ends == {"MATERIALIZED", "CONFLICT", "FAILED", "REPAIR_CONFLICT", "REPAIR_FAILED"}
Shown == Results \cup {None, "PENDING_VERIFICATION", "VERIFICATION_STALE"}

\* The row that Settle records, in terms of what the process carries.
Rewritten(p) ==
  [f \in Files |-> IF f \in proc[p].arg.done THEN proc[p].run ELSE Recorded[f]]

\* The row t with what Settle records.
EndedTask(t, d, s, v) == [t EXCEPT !.digests = d, !.src = s, !.ver = v]

LEMMA Settling ==
  ASSUME TypeOK, TaskInv, NEW p \in Procs, Settle(p)
  PROVE  /\ At(p, "settle") /\ OwnRun(p) /\ proc[p].arg \in BatchSet
         /\ Abandon(p) /\ UNCHANGED bootVars
         /\ \E src \in Ends,
               ver \in {task.ver, "VERIFICATION_STALE"} :
              /\ src = "MATERIALIZED" => Rewritten(p) \in Written
              /\ src = "MATERIALIZED" => ver \notin Results
              /\ Update(p, EndedTask(task, Rewritten(p), src, ver))
         /\ Rewritten(p) \in Trees
<1> DEFINE r == proc[p].run
           a == proc[p].arg
           stale == (a.wrote \/ a.outcome = "MATERIALIZED") /\ task.ver \in Results
           src == OutcomeState(runs[r].op, a.outcome)
           ver == IF stale THEN "VERIFICATION_STALE" ELSE task.ver
<1>1. At(p, "settle") /\ OwnRun(p) /\ runs[r] \in RunSet /\ a \in BatchSet
  BY Owning, Reading DEF Settle, At, Carried
<1>2. /\ a.outcome \in {"MATERIALIZED", "CONFLICT", "FAILED"} /\ a.done \in SUBSET Files
      /\ a.outcome = "MATERIALIZED" => a.done = Files
  <2>1. a.left = {} /\ (a.outcome = "MATERIALIZED" => a.left \cup a.done = Files)
    BY <1>1, Reading DEF Carried, At
  <2> QED
    BY <1>1, <2>1 DEF BatchSet
<1>3. /\ src \in Ends
      /\ src = "MATERIALIZED" => a.outcome = "MATERIALIZED"
  BY <1>1, <1>2, Outcomes, RunFields DEF Ends
<1>4. Rewritten(p) \in Trees /\ (a.outcome = "MATERIALIZED" => Rewritten(p) \in Written)
  <2>1. Recorded \in Trees /\ r \in 1..MaxRev
    BY <1>1, RecordedTree DEF OwnRun
  <2> QED
    BY <1>2, <2>1 DEF Rewritten, Trees, Written, Bytes
<1>5. Update(p, EndedTask(task, Rewritten(p), src, ver))
  BY DEF Settle, Rewritten, EndedTask
<1>6. ver \in {task.ver, "VERIFICATION_STALE"}
  OBVIOUS
<1>7. src = "MATERIALIZED" => ver \notin Results
  BY <1>3 DEF Results
<1>8. Abandon(p) /\ UNCHANGED bootVars
  BY DEF Settle
<1> HIDE DEF src, ver
<1> QED
  BY <1>1, <1>3, <1>4, <1>5, <1>6, <1>7, <1>8

LEMMA EndedRow ==
  ASSUME NEW t \in TaskSet, NEW d \in Trees,
         NEW s \in Ends,
         NEW v \in Shown, NEW x, x = EndedTask(t, d, s, v)
  PROVE  /\ x \in TaskSet /\ x.rev = t.rev /\ x.run = t.run
         /\ x.state = t.state /\ x.prepared = t.prepared
         /\ x.contract = t.contract /\ x.ev = t.ev
         /\ x.digests = d /\ x.src = s /\ x.ver = v
<1> DEFINE x1 == [t EXCEPT !.digests = d]
           x2 == [x1 EXCEPT !.src = s]
           x3 == [x2 EXCEPT !.ver = v]
<1>1. /\ x1 \in TaskSet /\ x1.rev = t.rev /\ x1.run = t.run
      /\ x1.state = t.state /\ x1.prepared = t.prepared
      /\ x1.contract = t.contract /\ x1.ev = t.ev /\ x1.digests = d
  BY DEF TaskSet
<1> HIDE DEF x1
<1>2. /\ x2 \in TaskSet /\ x2.rev = t.rev /\ x2.run = t.run
      /\ x2.state = t.state /\ x2.prepared = t.prepared
      /\ x2.contract = t.contract /\ x2.ev = t.ev /\ x2.digests = d /\ x2.src = s
  BY <1>1 DEF TaskSet, Ends
<1> HIDE DEF x2
<1>3. /\ x3 \in TaskSet /\ x3.rev = t.rev /\ x3.run = t.run
      /\ x3.state = t.state /\ x3.prepared = t.prepared
      /\ x3.contract = t.contract /\ x3.ev = t.ev
      /\ x3.digests = d /\ x3.src = s /\ x3.ver = v
  BY <1>2 DEF TaskSet, Shown
<1> QED
  BY <1>3 DEF x1, x2, EndedTask

LEMMA Settles ==
  ASSUME TypeOK, OnceInv, TaskInv, NEW p \in Procs, Settle(p)
  PROVE  TypeOK' /\ TaskInv'
<1>1. PICK src \in Ends,
           ver \in {task.ver, "VERIFICATION_STALE"} :
        Update(p, EndedTask(task, Rewritten(p), src, ver))
  BY Settling
<1> DEFINE t == EndedTask(task, Rewritten(p), src, ver)
<1>3. Update(p, t) /\ t = EndedTask(task, Rewritten(p), src, ver)
  BY <1>1
<1> HIDE DEF t
<1>2. /\ t \in TaskSet /\ t.rev = task.rev /\ t.run = task.run
      /\ t.state = task.state /\ t.prepared = task.prepared
  <2>1. Rewritten(p) \in Trees /\ task \in TaskSet
    BY Settling DEF TypeOK
  <2>2. ver \in Shown
    BY <2>1 DEF TaskSet, Shown
  <2> QED
    BY <1>3, <2>1, <2>2, EndedRow
<1>4. /\ OwnRun(p) /\ runs' = Released(p) /\ Done(p)
      /\ disk' = disk /\ decisions' = decisions
  BY Settling DEF Abandon, bootVars
<1>5. RunsKeep /\ ApprovalsKeep /\ runs' \in [1..MaxRev -> RunSet \cup {None}]
  BY <1>4, Releases
<1>6. task' \in TaskSet /\ RowMoves /\ NamesKeep /\ RowNames
  BY <1>2, <1>3, <1>5, SameNames
<1>7. TypeOK'
  BY <1>4, <1>5, <1>6 DEF TypeOK
<1>8. Others(p) /\ Knows(proc[p])'
  BY <1>4, <1>7, DoneMoves, IdleKnows
<1> QED
  BY <1>5, <1>6, <1>7, <1>8, TaskStep

LEMMA EndsVerify ==
  ASSUME TypeOK, OnceInv, TaskInv, NEW p \in Procs, EndVerify(p)
  PROVE  TypeOK' /\ TaskInv'
<1>1. PICK status \in Results :
        Finish(p, [task EXCEPT !.ver = status, !.digests = Recorded,
                               !.ev = Evidence(p, status, proc[p].arg.tree, None)])
  BY DEF EndVerify, Verdicts, Results
<1> DEFINE e == Evidence(p, status, proc[p].arg.tree, None)
           t == [task EXCEPT !.ver = status, !.digests = Recorded, !.ev = e]
<1>2. e \in EvidenceSet
  <2>1. proc[p].arg.tree \in Written /\ proc[p].rev \in Nat /\ task.contract \in Nat
    BY Reading, TaskFields DEF EndVerify, At, Carried, TypeOK
  <2> QED
    BY <2>1 DEF Evidence, EvidenceSet
<1> HIDE DEF e
<1>3. /\ t \in TaskSet /\ t.rev = task.rev /\ t.run = task.run
      /\ t.state = task.state /\ t.prepared = task.prepared
  BY <1>2, RecordedTree DEF TypeOK, TaskSet
<1>4. Finish(p, t) /\ UNCHANGED bootVars
  BY <1>1 DEF e, EndVerify
<1> HIDE DEF t
<1> QED
  BY <1>3, <1>4, FinishStep DEF TaskInv, Named

\* What a revision of the contract does to the rows.
Revised ==
  [d \in Decisions |-> IF decisions[d].state = "ISSUED"
                       THEN [decisions[d] EXCEPT !.revoked = TRUE] ELSE decisions[d]]

RevisedTask(t) ==
  /\ t \in TaskSet /\ t.contract = task.contract + 1 /\ t.digests = Recorded
  /\ t.prepared = task.prepared /\ t.state = task.state /\ t.run \in {task.run, None}
  /\ t.src \in {task.src, "PENDING_FILESET"}
  /\ \/ t.ver = task.ver /\ t.ev = task.ev
     \/ t.ver = "PENDING_VERIFICATION" /\ t.ev = None

LEMMA ReopenedRow ==
  ASSUME NEW n \in TaskSet
  PROVE  LET y == [n EXCEPT !.src = "PENDING_FILESET", !.run = None] IN
         /\ y \in TaskSet
         /\ y.rev = n.rev /\ y.contract = n.contract /\ y.digests = n.digests
         /\ y.prepared = n.prepared /\ y.state = n.state /\ y.run = None
         /\ y.src = "PENDING_FILESET" /\ y.ver = n.ver /\ y.ev = n.ev
<1> DEFINE x == [n EXCEPT !.src = "PENDING_FILESET"]
           y == [x EXCEPT !.run = None]
<1>1. x \in TaskSet
  BY DEF TaskSet
<1>2. /\ x.rev = n.rev /\ x.contract = n.contract /\ x.digests = n.digests
      /\ x.prepared = n.prepared /\ x.state = n.state
      /\ x.src = "PENDING_FILESET" /\ x.ver = n.ver /\ x.ev = n.ev
  BY DEF TaskSet
<1> HIDE DEF x
<1>3. y \in TaskSet
  BY <1>1 DEF TaskSet
<1>4. /\ y.rev = x.rev /\ y.contract = x.contract /\ y.digests = x.digests
      /\ y.prepared = x.prepared /\ y.state = x.state /\ y.run = None
      /\ y.src = x.src /\ y.ver = x.ver /\ y.ev = x.ev
  BY <1>1 DEF TaskSet
<1>5. y = [n EXCEPT !.src = "PENDING_FILESET", !.run = None]
  BY DEF x
<1> HIDE DEF y
<1> QED
  BY <1>2, <1>3, <1>4, <1>5

LEMMA RevisedRow ==
  ASSUME TypeOK, NEW reopen \in BOOLEAN, NEW again \in BOOLEAN,
         NEW next, next = [task EXCEPT !.contract = @ + 1, !.digests = Recorded],
         NEW sourced, sourced = (IF reopen THEN [next EXCEPT !.src = "PENDING_FILESET", !.run = None]
                                 ELSE next),
         NEW t, t = (IF again THEN [sourced EXCEPT !.ver = "PENDING_VERIFICATION", !.ev = None]
                     ELSE sourced)
  PROVE  RevisedTask(t) /\ t.rev = task.rev
<1>0. task \in TaskSet /\ Recorded \in Trees
  BY RecordedTree DEF TypeOK
<1>1. /\ next \in TaskSet /\ next.rev = task.rev /\ next.contract = task.contract + 1
      /\ next.digests = Recorded /\ next.prepared = task.prepared /\ next.state = task.state
      /\ next.run = task.run /\ next.src = task.src /\ next.ver = task.ver /\ next.ev = task.ev
  <2> DEFINE x == [task EXCEPT !.contract = @ + 1]
  <2>1. /\ x \in TaskSet /\ x.rev = task.rev /\ x.contract = task.contract + 1
        /\ x.prepared = task.prepared /\ x.state = task.state
        /\ x.run = task.run /\ x.src = task.src /\ x.ver = task.ver /\ x.ev = task.ev
    BY <1>0 DEF TaskSet
  <2>2. next = [x EXCEPT !.digests = Recorded]
    OBVIOUS
  <2> HIDE DEF x
  <2> QED
    BY <1>0, <2>1, <2>2 DEF TaskSet
<1>2. /\ sourced \in TaskSet /\ sourced.rev = task.rev /\ sourced.contract = task.contract + 1
      /\ sourced.digests = Recorded /\ sourced.prepared = task.prepared
      /\ sourced.state = task.state /\ sourced.run \in {task.run, None}
      /\ sourced.src \in {task.src, "PENDING_FILESET"}
      /\ sourced.ver = task.ver /\ sourced.ev = task.ev
  <2>1. CASE reopen
    BY <1>1, <2>1, ReopenedRow
  <2>2. CASE ~reopen
    <3>1. sourced = next
      BY <2>2
    <3> QED
      BY <1>1, <3>1
  <2> QED
    BY <2>1, <2>2
<1>3. CASE again
  <2>1. t = [sourced EXCEPT !.ver = "PENDING_VERIFICATION", !.ev = None]
    BY <1>3
  <2>2. t \in TaskSet /\ t.rev = task.rev /\ t.contract = sourced.contract
        /\ t.digests = sourced.digests /\ t.prepared = sourced.prepared /\ t.state = sourced.state
        /\ t.run = sourced.run /\ t.src = sourced.src
        /\ t.ver = "PENDING_VERIFICATION" /\ t.ev = None
    <3> DEFINE x == [sourced EXCEPT !.ver = "PENDING_VERIFICATION"]
    <3>1. /\ x \in TaskSet /\ x.rev = task.rev /\ x.contract = sourced.contract
          /\ x.digests = sourced.digests /\ x.prepared = sourced.prepared
          /\ x.state = sourced.state /\ x.run = sourced.run /\ x.src = sourced.src
          /\ x.ver = "PENDING_VERIFICATION"
      BY <1>2 DEF TaskSet
    <3>2. t = [x EXCEPT !.ev = None]
      BY <2>1
    <3> HIDE DEF x
    <3>3. t \in TaskSet
      BY <3>1, <3>2 DEF TaskSet
    <3>4. /\ t.rev = x.rev /\ t.contract = x.contract /\ t.digests = x.digests
          /\ t.prepared = x.prepared /\ t.state = x.state /\ t.run = x.run /\ t.src = x.src
          /\ t.ver = x.ver /\ t.ev = None
      BY <3>1, <3>2 DEF TaskSet
    <3> QED
      BY <3>1, <3>3, <3>4
  <2> QED
    BY <1>2, <2>2 DEF RevisedTask
<1>4. CASE ~again
  BY <1>2, <1>4 DEF RevisedTask
<1> QED
  BY <1>3, <1>4

LEMMA Revising ==
  ASSUME TypeOK, TaskInv, NEW p \in Procs, CommitRevise(p)
  PROVE  /\ At(p, "revise") /\ Done(p) /\ disk' = disk
         /\ \/ UNCHANGED <<task, runs, decisions>>
            \/ /\ Unchanged(p) /\ Prepared /\ disk = proc[p].arg.tree
               /\ task'.rev = task.rev + 1 /\ RevisedTask(task')
               /\ \/ runs' = runs
                  \/ task.run # None /\ runs' = [runs EXCEPT ![task.run].control = "cancel"]
               /\ decisions' = Revised
<1> DEFINE a == proc[p].arg
           completed == task.run # None /\ runs[task.run].state = "COMPLETED"
           reopen == task.src # "MATERIALIZED" /\ (completed => "source" \in a.impact)
           next == [task EXCEPT !.contract = @ + 1, !.digests = Recorded]
           sourced == IF reopen THEN [next EXCEPT !.src = "PENDING_FILESET", !.run = None] ELSE next
           again == "ver" \in a.impact
           t == IF again THEN [sourced EXCEPT !.ver = "PENDING_VERIFICATION", !.ev = None]
                ELSE sourced
<1>1. At(p, "revise") /\ Done(p) /\ disk' = disk
  BY DEF CommitRevise
<1>2. CASE UNCHANGED <<task, runs, decisions>>
  BY <1>1, <1>2
<1>3. CASE /\ Unchanged(p) /\ disk = a.tree /\ Update(p, t)
           /\ runs' = IF reopen /\ task.run # None /\ ~completed
                      THEN [runs EXCEPT ![task.run].control = "cancel"] ELSE runs
           /\ decisions' = Revised
  <2>1. RevisedTask(t) /\ t.rev = task.rev
    <3> DEFINE b == reopen
               c == again
    <3>1. b \in BOOLEAN /\ c \in BOOLEAN
      OBVIOUS
    <3>2. /\ sourced = (IF b THEN [next EXCEPT !.src = "PENDING_FILESET", !.run = None] ELSE next)
          /\ t = (IF c THEN [sourced EXCEPT !.ver = "PENDING_VERIFICATION", !.ev = None]
                  ELSE sourced)
          /\ next = [task EXCEPT !.contract = @ + 1, !.digests = Recorded]
      OBVIOUS
    <3> HIDE DEF b, c, t, sourced, next, reopen, again
    <3> QED
      BY <3>1, <3>2, RevisedRow
  <2>2. Prepared
    BY <1>1, <1>3, Reading DEF RowKnown, At
  <2>3. runs' = runs \/ (task.run # None /\ runs' = [runs EXCEPT ![task.run].control = "cancel"])
    <3> HIDE DEF completed, a, t
    <3> QED
      BY <1>3
  <2>4. t \in TaskSet /\ Update(p, t)
    BY <1>3, <2>1 DEF RevisedTask
  <2> HIDE DEF t
  <2>5. /\ task' \in TaskSet /\ task'.rev = task.rev + 1
        /\ \A x \in DOMAIN task' \ {"rev"} : task'[x] = t[x]
    <3>1. RowMoves /\ task' \in TaskSet
      BY <2>1, <2>4, Updating
    <3>2. task.rev # task.rev + 1
      BY TaskFields DEF TypeOK
    <3> QED
      BY <1>3, <2>1, <2>4, <3>1, Updating
  <2>6. RevisedTask(task')
    <3>1. /\ task'.contract = t.contract /\ task'.digests = t.digests
          /\ task'.prepared = t.prepared /\ task'.state = t.state /\ task'.run = t.run
          /\ task'.src = t.src /\ task'.ver = t.ver /\ task'.ev = t.ev
      BY <2>5 DEF TaskSet
    <3> QED
      BY <2>1, <2>5, <3>1 DEF RevisedTask
  <2> QED
    BY <1>1, <1>3, <2>2, <2>3, <2>5, <2>6
<1>4. \/ UNCHANGED <<task, runs, decisions>>
      \/ /\ Unchanged(p) /\ disk = a.tree /\ Update(p, t)
         /\ runs' = IF reopen /\ task.run # None /\ ~completed
                    THEN [runs EXCEPT ![task.run].control = "cancel"] ELSE runs
         /\ decisions' = Revised
  BY DEF CommitRevise, Revised
<1> QED
  BY <1>2, <1>3, <1>4

LEMMA RevisedDecisions ==
  ASSUME decisions \in [Decisions -> DecisionSet]
  PROVE  Revised \in [Decisions -> DecisionSet]
<1>1. \A x \in DecisionSet : [x EXCEPT !.revoked = TRUE] \in DecisionSet
  BY DEF DecisionSet
<1>2. \A d \in Decisions : decisions[d] \in DecisionSet
  OBVIOUS
<1> QED
  BY <1>1, <1>2 DEF Revised

LEMMA Revises ==
  ASSUME TypeOK, OnceInv, TaskInv, NEW p \in Procs, CommitRevise(p)
  PROVE  TypeOK' /\ TaskInv'
<1>1. Done(p) /\ disk' = disk
  BY Revising
<1>2. CASE UNCHANGED <<task, runs, decisions>>
  BY <1>1, <1>2, SameRuns, RunStepIdle DEF TypeOK, bootVars
<1>3. CASE /\ Prepared /\ task'.rev = task.rev + 1 /\ RevisedTask(task')
           /\ \/ runs' = runs
              \/ task.run # None /\ runs' = [runs EXCEPT ![task.run].control = "cancel"]
           /\ decisions' = Revised
  <2>1. RunsKeep /\ ApprovalsKeep /\ runs' \in [1..MaxRev -> RunSet \cup {None}]
    <3>1. CASE runs' = runs
      BY <3>1, SameRuns DEF TypeOK
    <3>2. CASE task.run # None /\ runs' = [runs EXCEPT ![task.run].control = "cancel"]
      <4> DEFINE r == task.run
                 x == [runs[r] EXCEPT !.control = "cancel"]
      <4>1. r \in 1..MaxRev /\ runs[r] # None /\ runs[r] \in RunSet
        BY <3>2, NamedRun
      <4>2. x \in RunSet /\ x.op = runs[r].op /\ x.control = "cancel"
        BY <4>1 DEF RunSet
      <4>3. runs' = [runs EXCEPT ![r] = x]
        BY <3>2
      <4> HIDE DEF x, r
      <4> QED
        BY <4>1, <4>2, <4>3, OneRun
    <3> QED
      BY <1>3, <3>1, <3>2
  <2>2. TypeOK'
    BY <1>1, <1>3, <2>1, RevisedDecisions DEF TypeOK, RevisedTask
  <2>3. RowMoves
    BY <1>3 DEF RowMoves
  <2>4. task'.run \in {task.run, None} /\ task.prepared
    BY <1>3 DEF RevisedTask, Prepared
  <2>5. NamesKeep
    <3> SUFFICES ASSUME NEW r \in 1..MaxRev, runs[r] # None, Workable(r)', Named(r) PROVE FALSE
      BY DEF NamesKeep
    <3>1. task.run = r /\ runs[r].op # "workflow"
      BY <2>4, Numbers DEF Named, TaskInv
    <3> QED
      BY <2>1, <3>1 DEF RunsKeep, Workable
  <2>6. RowNames
    <3>1. CASE task'.run = None
      BY <3>1 DEF RowNames
    <3>2. CASE task'.run = task.run /\ task.run # None
      <4>1. task.run \in 1..MaxRev /\ runs[task.run] # None /\ runs[task.run].op # "workflow"
        BY <2>4, <3>2, NamedRun DEF TaskInv
      <4> QED
        BY <2>1, <3>2, <4>1 DEF RowNames, RunsKeep
    <3> QED
      BY <2>4, <3>1, <3>2
  <2>7. Others(p) /\ Knows(proc[p])'
    BY <1>1, <2>2, DoneMoves, IdleKnows
  <2> QED
    BY <2>1, <2>2, <2>3, <2>5, <2>6, <2>7, TaskStep
<1> QED
  BY <1>2, <1>3, Revising

LEMMA LapsesAndEdits ==
  ASSUME TypeOK, OnceInv, TaskInv,
         (\E r \in DOMAIN runs : LeaseLapses(r)) \/ (\E f \in Files : ForeignEdit(f))
  PROVE  TypeOK' /\ TaskInv'
<1>1. ASSUME NEW r \in DOMAIN runs, LeaseLapses(r) PROVE TypeOK' /\ TaskInv'
  <2> DEFINE x == [runs[r] EXCEPT !.lease = FALSE]
  <2>1. r \in 1..MaxRev /\ runs[r] # None /\ runs[r] \in RunSet
    BY <1>1 DEF LeaseLapses, TypeOK
  <2>2. /\ x \in RunSet /\ x.op = runs[r].op
        /\ x.control = runs[r].control /\ x.approved = runs[r].approved
    BY <2>1 DEF RunSet
  <2>3. runs' = [runs EXCEPT ![r] = x] /\ UNCHANGED <<task, proc, bootVars>>
    BY <1>1 DEF LeaseLapses
  <2> HIDE DEF x
  <2>4. RunsKeep /\ ApprovalsKeep /\ runs' \in [1..MaxRev -> RunSet \cup {None}]
    BY <2>1, <2>2, <2>3, OneRun
  <2> QED
    BY <2>3, <2>4, RunAlone
<1>2. ASSUME NEW f \in Files, ForeignEdit(f) PROVE TypeOK' /\ TaskInv'
  <2>1. UNCHANGED <<task, runs, proc, decisions>> /\ disk' = [disk EXCEPT ![f] = Foreign]
    BY <1>2 DEF ForeignEdit
  <2>2. TypeOK'
    BY <2>1 DEF TypeOK, Trees, Bytes
  <2>3. TaskInv'
    BY <2>1 DEF TaskInv, Knows, RunKnown, RowKnown, Workable, Named, Prepared
  <2> QED
    BY <2>2, <2>3
<1> QED
  BY <1>1, <1>2

LEMMA BuildsStep ==
  ASSUME TypeOK, OnceInv, TaskInv, FilesInv, BuildNext
  PROVE  TypeOK' /\ TaskInv'
<1>1. ASSUME NEW p \in Procs, Builds(p) PROVE TypeOK' /\ TaskInv'
  BY <1>1, SubmitBegins, RepairBegins, InsertsFileset, RecordsFileset, FilesBegin, ClaimsFileset,
     PutsFile, EndsFiles, ReadsLatest, Settles, VerifyBegins, EndsVerify, ReviseBegins, Revises
  DEF Builds
<1> QED
  BY <1>1, LapsesAndEdits DEF BuildNext

-----------------------------------------------------------------------------
(* The rows while decisions are issued and executed.                        *)

DecisionsTyped == decisions' \in [Decisions -> DecisionSet]

\* What a decision becomes as it is executed, and as time passes.
LEMMA DecisionMoves ==
  ASSUME NEW x \in DecisionSet
  PROVE  /\ \A s \in Executed, p \in Procs :
              [x EXCEPT !.state = s, !.owner = p, !.lease = TRUE] \in DecisionSet
         /\ \A s \in Executed : [x EXCEPT !.state = s] \in DecisionSet
         /\ \A s \in Executed :
              [x EXCEPT !.state = s, !.owner = None, !.lease = FALSE] \in DecisionSet
         /\ [x EXCEPT !.seen = x.seen \/ x.late] \in DecisionSet
         /\ \A b \in BOOLEAN : /\ [x EXCEPT !.revoked = b] \in DecisionSet
                               /\ [x EXCEPT !.late = b] \in DecisionSet
                               /\ [x EXCEPT !.lease = b] \in DecisionSet
<1>1. \A y \in DecisionSet : \A s \in Executed : [y EXCEPT !.state = s] \in DecisionSet
  BY DEF DecisionSet
<1>2. \A y \in DecisionSet : \A p \in Procs \cup {None} : [y EXCEPT !.owner = p] \in DecisionSet
  BY DEF DecisionSet
<1>3. \A y \in DecisionSet : \A b \in BOOLEAN : [y EXCEPT !.lease = b] \in DecisionSet
  BY DEF DecisionSet
<1>4. \A b \in BOOLEAN : [x EXCEPT !.revoked = b] \in DecisionSet
  BY DEF DecisionSet
<1>5. \A b \in BOOLEAN : [x EXCEPT !.late = b] \in DecisionSet
  BY DEF DecisionSet
<1>6. [x EXCEPT !.seen = x.seen \/ x.late] \in DecisionSet
  BY DEF DecisionSet
<1>7. ASSUME NEW s \in Executed, NEW p \in Procs \cup {None}, NEW b \in BOOLEAN
      PROVE  [x EXCEPT !.state = s, !.owner = p, !.lease = b] \in DecisionSet
  <2> DEFINE y == [x EXCEPT !.state = s]
             z == [y EXCEPT !.owner = p]
  <2>1. y \in DecisionSet
    BY <1>1
  <2> HIDE DEF y
  <2>2. z \in DecisionSet
    BY <1>2, <2>1
  <2> HIDE DEF z
  <2>3. [z EXCEPT !.lease = b] \in DecisionSet
    BY <1>3, <2>2
  <2> QED
    BY <2>3 DEF z, y
<1> QED
  BY <1>1, <1>3, <1>4, <1>5, <1>6, <1>7

LEMMA OneDecision ==
  ASSUME TypeOK, NEW d \in Decisions, NEW x \in DecisionSet,
         decisions' = [decisions EXCEPT ![d] = x]
  PROVE  DecisionsTyped
  BY DEF TypeOK, DecisionsTyped

LEMMA Observes == ASSUME TypeOK, NEW d \in Decisions, Observe(d) PROVE DecisionsTyped
<1> DEFINE x == [decisions[d] EXCEPT !.seen = decisions[d].seen \/ decisions[d].late]
<1>1. x \in DecisionSet
  BY DecisionMoves DEF TypeOK
<1>2. decisions' = [decisions EXCEPT ![d] = x]
  BY DEF Observe
<1> HIDE DEF x
<1> QED
  BY <1>1, <1>2, OneDecision

LEMMA HandsOff ==
  ASSUME TypeOK, NEW p \in Procs, NEW d \in Decisions, HandOff(p, d)
  PROVE  DecisionsTyped /\ Done(p)
<1> DEFINE x == [decisions[d] EXCEPT !.state = "HUMAN_HANDOFF", !.owner = None, !.lease = FALSE]
<1>1. x \in DecisionSet
  BY DecisionMoves DEF TypeOK, Executed
<1>2. decisions' = [decisions EXCEPT ![d] = x]
  BY DEF HandOff, TypeOK, DecisionSet
<1> HIDE DEF x
<1> QED
  BY <1>1, <1>2, OneDecision DEF HandOff

\* A process moves, decisions change, and no other row.
LEMMA DecideStep ==
  ASSUME TypeOK, TaskInv, UNCHANGED <<task, runs, disk>>, DecisionsTyped,
         NEW p \in Procs, Others(p), Knows(proc'[p])
  PROVE  TypeOK' /\ TaskInv'
<1>1. TypeOK'
  BY DEF TypeOK, DecisionsTyped
<1> QED
  BY <1>1, StillStep

LEMMA IdleBefore == ASSUME TypeOK PROVE Knows(Idle)
<1>1. task.rev \in Nat
  BY TaskFields DEF TypeOK
<1> QED
  BY <1>1 DEF Knows, Carried, RunKnown, Idle, RowKnown

LEMMA DecideIdle ==
  ASSUME TypeOK, OnceInv, TaskInv, UNCHANGED <<task, runs, disk>>, DecisionsTyped,
         NEW p \in Procs, Done(p)
  PROVE  TypeOK' /\ TaskInv'
  BY DoneMoves, IdleBefore, DecideStep

\* A process goes on to execute a decision.
LEMMA DecideOn ==
  ASSUME TypeOK, OnceInv, TaskInv, UNCHANGED <<task, runs, disk>>, DecisionsTyped,
         NEW p \in Procs, NEW at \in {"start", "commit"}, Goto(p, at)
  PROVE  TypeOK' /\ TaskInv'
<1>1. /\ Others(p) /\ proc'[p].at = at
      /\ proc'[p].rev = proc[p].rev /\ proc'[p].run = proc[p].run
  BY GotoMoves
<1>2. Knows(proc[p])
  BY Reading
<1>3. Knows(proc'[p])
  BY <1>1, <1>2 DEF Knows, Carried, RunKnown, RowKnown
<1> QED
  BY <1>1, <1>3, DecideStep

LEMMA DecisionsAlone ==
  ASSUME TypeOK, TaskInv, UNCHANGED <<task, runs, proc, disk>>, DecisionsTyped
  PROVE  TypeOK' /\ TaskInv'
<1>1. TypeOK'
  BY DEF TypeOK, DecisionsTyped
<1>2. TaskInv'
  BY DEF TaskInv, Knows, RunKnown, RowKnown, Workable, Named, Prepared
<1> QED
  BY <1>1, <1>2

\* What is to be issued binds the bytes that are there.
LEMMA IssueBegins ==
  ASSUME TypeOK, OnceInv, TaskInv, FilesInv, NEW p \in Procs, BeginIssue(p)
  PROVE  TypeOK' /\ TaskInv'
<1>1. PICK r \in {None, task.run} :
        Enter(p, "issue", r,
              [rev |-> task.rev, contract |-> task.contract, tree |-> disk, repair |-> r])
  BY DEF BeginIssue, Repairs
<1> DEFINE a == [rev |-> task.rev, contract |-> task.contract, tree |-> disk, repair |-> r]
           x == [at |-> "issue", rev |-> task.rev, run |-> r, arg |-> a]
<1>2. Verifiable /\ UNCHANGED <<task, runs, bootVars>>
  BY DEF BeginIssue
<1>3. task.rev \in Nat /\ task.contract \in Nat /\ r \in 1..MaxRev \cup {None} /\ disk \in Written
  BY <1>2, TaskFields, VerifiableDisk DEF TypeOK
<1>4. Carried(x) /\ x.rev <= task.rev
  BY <1>3 DEF Carried
<1>5. RunKnown(x) /\ RowKnown(x)
  BY <1>1 DEF RunKnown, RowKnown
<1>6. Knows(x)
  BY <1>4, <1>5 DEF Knows
<1>7. Enter(p, "issue", r, a)
  BY <1>1
<1> HIDE DEF a
<1> QED
  BY <1>2, <1>6, <1>7, EnterStep

LEMMA Issuing ==
  ASSUME TypeOK, TaskInv, NEW p \in Procs, CommitIssue(p)
  PROVE  /\ Done(p) /\ UNCHANGED <<task, runs, disk>>
         /\ \/ UNCHANGED decisions
            \/ /\ Current(proc[p].arg) /\ Issued(proc[p].arg) \in DecisionSet
               /\ proc[p].arg.tree \in Written
               /\ \E d \in Decisions \ Known :
                    decisions' = [decisions EXCEPT ![d] = Issued(proc[p].arg)]
<1>1. /\ proc[p].arg.tree \in Written /\ proc[p].arg.repair \in 1..MaxRev \cup {None}
      /\ proc[p].arg.rev \in Nat /\ proc[p].arg.contract \in Nat
  BY Reading DEF CommitIssue, At, Carried
<1>2. Issued(proc[p].arg) \in DecisionSet
  BY <1>1 DEF Issued, Absent, DecisionSet
<1> QED
  BY <1>1, <1>2 DEF CommitIssue

LEMMA Issues ==
  ASSUME TypeOK, OnceInv, TaskInv, NEW p \in Procs, CommitIssue(p)
  PROVE  TypeOK' /\ TaskInv'
<1>1. DecisionsTyped
  <2>1. CASE UNCHANGED decisions
    BY <2>1 DEF TypeOK, DecisionsTyped
  <2>2. CASE ~UNCHANGED decisions
    BY <2>2, Issuing, OneDecision
  <2> QED
    BY <2>1, <2>2
<1> QED
  BY <1>1, Issuing, DecideIdle

LEMMA ExecuteBegins ==
  ASSUME TypeOK, OnceInv, TaskInv, NEW p \in Procs, NEW d \in Decisions, BeginExecute(p, d)
  PROVE  TypeOK' /\ TaskInv'
<1>1. CASE Observe(d) /\ UNCHANGED proc
  BY <1>1, Observes, DecisionsAlone DEF BeginExecute
<1>2. CASE /\ proc' = [proc EXCEPT ![p] = [Idle EXCEPT !.at = "reserve", !.arg = [decision |-> d]]]
           /\ UNCHANGED decisions
  <2> DEFINE x == [Idle EXCEPT !.at = "reserve", !.arg = [decision |-> d]]
  <2>1. x.at = "reserve" /\ x.rev = 0 /\ x.run = None
    BY DEF Idle
  <2>2. proc' = [proc EXCEPT ![p] = x]
    BY <1>2
  <2> HIDE DEF x
  <2>3. proc'[p] = x /\ Others(p)
    BY <2>2 DEF OnceInv, Others
  <2>4. task.rev \in Nat
    BY TaskFields DEF TypeOK
  <2>5. Knows(x)
    BY <2>1, <2>4 DEF Knows, Carried, RunKnown, RowKnown
  <2>6. DecisionsTyped
    BY <1>2 DEF TypeOK, DecisionsTyped
  <2> QED
    BY <2>3, <2>5, <2>6, DecideStep DEF BeginExecute
<1> QED
  BY <1>1, <1>2 DEF BeginExecute

LEMMA Reserves ==
  ASSUME TypeOK, OnceInv, TaskInv, NEW p \in Procs, Reserve(p)
  PROVE  TypeOK' /\ TaskInv'
<1> DEFINE d == proc[p].arg.decision
<1>1. d \in Decisions /\ UNCHANGED <<task, runs, disk>>
  BY DEF Reserve, At, OnceInv, ProcFits
<1>2. CASE Done(p) /\ UNCHANGED decisions
  BY <1>1, <1>2, DecideIdle DEF TypeOK, DecisionsTyped
<1>3. CASE Done(p) /\ Observe(d)
  BY <1>1, <1>3, Observes, DecideIdle
<1>4. CASE /\ decisions' = [decisions EXCEPT ![d].state = "RESERVED", ![d].owner = p,
                                             ![d].lease = TRUE]
           /\ Goto(p, "start")
  <2> DEFINE x == [decisions[d] EXCEPT !.state = "RESERVED", !.owner = p, !.lease = TRUE]
  <2>1. x \in DecisionSet
    BY <1>1, DecisionMoves DEF TypeOK, Executed
  <2>2. decisions' = [decisions EXCEPT ![d] = x]
    BY <1>1, <1>4 DEF TypeOK, DecisionSet
  <2> HIDE DEF x, d
  <2> QED
    BY <1>1, <1>4, <2>1, <2>2, OneDecision, DecideOn
<1> QED
  BY <1>2, <1>3, <1>4, Zenon DEF Reserve

LEMMA Starts ==
  ASSUME TypeOK, OnceInv, TaskInv, NEW p \in Procs, Start(p)
  PROVE  TypeOK' /\ TaskInv'
<1> DEFINE d == proc[p].arg.decision
<1>1. d \in Decisions /\ UNCHANGED <<task, runs, disk>>
  BY DEF Start, At, OnceInv, ProcFits, Executes
<1>2. CASE HandOff(p, d)
  BY <1>1, <1>2, HandsOff, DecideIdle
<1>3. CASE decisions' = [decisions EXCEPT ![d].state = "STARTED"] /\ Goto(p, "commit")
  <2> DEFINE x == [decisions[d] EXCEPT !.state = "STARTED"]
  <2>1. x \in DecisionSet
    BY <1>1, DecisionMoves DEF TypeOK, Executed
  <2>2. decisions' = [decisions EXCEPT ![d] = x]
    BY <1>3
  <2> HIDE DEF x, d
  <2> QED
    BY <1>1, <1>3, <2>1, <2>2, OneDecision, DecideOn
<1> QED
  BY <1>2, <1>3, Zenon DEF Start

\* What recording a result does to the rows.
ResultRecorded(d, status, e) ==
  /\ task' \in TaskSet /\ task'.rev = task.rev + 1 /\ task'.ver = status /\ task'.ev = e
  /\ task'.digests = decisions[d].tree /\ task'.contract = task.contract
  /\ task'.run = task.run /\ task'.state = task.state /\ task'.prepared = task.prepared
  /\ task'.src = task.src
  /\ decisions' = [decisions EXCEPT ![d].state = status, ![d].ev = e,
                                    ![d].owner = None, ![d].lease = FALSE]

LEMMA Committing ==
  ASSUME TypeOK, OnceInv, FilesInv, NEW p \in Procs, Commit(p)
  PROVE  LET d == proc[p].arg.decision IN
         /\ d \in Decisions /\ UNCHANGED <<runs, disk>> /\ Done(p)
         /\ \/ HandOff(p, d) /\ UNCHANGED task
            \/ /\ Fenced(p, d, "STARTED") /\ decisions[d].tree \in Written
               /\ \E status \in Results, e \in EvidenceSet : ResultRecorded(d, status, e)
<1> DEFINE d == proc[p].arg.decision
           b == decisions[d]
<1>1. d \in Decisions /\ UNCHANGED <<runs, disk>> /\ b \in DecisionSet
  BY DEF Commit, At, OnceInv, ProcFits, Executes, TypeOK
<1>2. CASE HandOff(p, d) /\ UNCHANGED task
  BY <1>1, <1>2 DEF HandOff
<1>3. ASSUME Fenced(p, d, "STARTED"), NEW status \in Verdicts(b.tree), NEW e,
             e = [Evidence(p, status, b.tree, d) EXCEPT !.contract = b.contract, !.rev = b.rev],
             task' = [task EXCEPT !.rev = @ + 1, !.ver = status, !.ev = e, !.digests = b.tree],
             decisions' = [decisions EXCEPT ![d].state = status, ![d].ev = e,
                                            ![d].owner = None, ![d].lease = FALSE],
             Done(p)
      PROVE  /\ decisions[d].tree \in Written
             /\ \E s \in Results, ev \in EvidenceSet : ResultRecorded(d, s, ev)
  <2>1. b.tree \in Written /\ b.contract \in Nat /\ b.rev \in Nat
    <3>1. d \in Known
      BY <1>1, <1>3 DEF Fenced, Known
    <3> QED
      BY <1>1, <3>1 DEF FilesInv, DecisionSet
  <2>2. status \in Results
    BY <1>3 DEF Verdicts, Results
  <2>3. e = [status |-> status, tree |-> b.tree, contract |-> b.contract, rev |-> b.rev, by |-> d]
    BY <1>3 DEF Evidence
  <2>4. e \in EvidenceSet
    BY <1>1, <2>1, <2>2, <2>3 DEF EvidenceSet
  <2> DEFINE x1 == [task EXCEPT !.rev = @ + 1]
             x2 == [x1 EXCEPT !.ver = status]
             x3 == [x2 EXCEPT !.ev = e]
             x4 == [x3 EXCEPT !.digests = b.tree]
  <2>5. task' = x4
    BY <1>3
  <2>6. /\ x1 \in TaskSet /\ x1.rev = task.rev + 1 /\ x1.contract = task.contract
        /\ x1.run = task.run /\ x1.state = task.state /\ x1.prepared = task.prepared
        /\ x1.src = task.src
    BY DEF TypeOK, TaskSet
  <2> HIDE DEF x1
  <2>7. /\ x2 \in TaskSet /\ x2.rev = task.rev + 1 /\ x2.contract = task.contract
        /\ x2.run = task.run /\ x2.state = task.state /\ x2.prepared = task.prepared
        /\ x2.src = task.src /\ x2.ver = status
    BY <2>2, <2>6 DEF TaskSet
  <2> HIDE DEF x2
  <2>8. /\ x3 \in TaskSet /\ x3.rev = task.rev + 1 /\ x3.contract = task.contract
        /\ x3.run = task.run /\ x3.state = task.state /\ x3.prepared = task.prepared
        /\ x3.src = task.src /\ x3.ver = status /\ x3.ev = e
    BY <2>4, <2>7 DEF TaskSet
  <2> HIDE DEF x3
  <2>9. /\ x4 \in TaskSet /\ x4.rev = task.rev + 1 /\ x4.contract = task.contract
        /\ x4.run = task.run /\ x4.state = task.state /\ x4.prepared = task.prepared
        /\ x4.src = task.src /\ x4.ver = status /\ x4.ev = e /\ x4.digests = b.tree
    <3>1. b.tree \in Trees
      BY <2>1, Numbers
    <3> QED
      BY <2>8, <3>1 DEF TaskSet
  <2> HIDE DEF x4, b
  <2>10. ResultRecorded(d, status, e)
    BY <1>3, <2>5, <2>9 DEF ResultRecorded, b
  <2> QED
    BY <2>1, <2>2, <2>4, <2>10 DEF b
<1>4. \/ HandOff(p, d) /\ UNCHANGED task
      \/ /\ Fenced(p, d, "STARTED")
         /\ \E status \in Verdicts(b.tree) : \E e :
              /\ e = [Evidence(p, status, b.tree, d) EXCEPT !.contract = b.contract, !.rev = b.rev]
              /\ task' = [task EXCEPT !.rev = @ + 1, !.ver = status, !.ev = e, !.digests = b.tree]
              /\ decisions' = [decisions EXCEPT ![d].state = status, ![d].ev = e,
                                                ![d].owner = None, ![d].lease = FALSE]
              /\ Done(p)
  BY DEF Commit
<1>5. CASE ~(HandOff(p, d) /\ UNCHANGED task)
  <2>1. PICK status \in Verdicts(b.tree) : \E e :
          /\ Fenced(p, d, "STARTED")
          /\ e = [Evidence(p, status, b.tree, d) EXCEPT !.contract = b.contract, !.rev = b.rev]
          /\ task' = [task EXCEPT !.rev = @ + 1, !.ver = status, !.ev = e, !.digests = b.tree]
          /\ decisions' = [decisions EXCEPT ![d].state = status, ![d].ev = e,
                                            ![d].owner = None, ![d].lease = FALSE]
          /\ Done(p)
    <3> HIDE DEF d, b
    <3> QED
      BY <1>4, <1>5
  <2>2. /\ decisions[d].tree \in Written
        /\ \E s \in Results, ev \in EvidenceSet : ResultRecorded(d, s, ev)
    BY <1>3, <2>1
  <2> HIDE DEF d, b
  <2>3. Fenced(p, d, "STARTED") /\ Done(p)
    BY <2>1
  <2> QED
    BY <1>1, <2>2, <2>3 DEF d
<1> QED
  BY <1>2, <1>5

LEMMA Commits ==
  ASSUME TypeOK, OnceInv, TaskInv, FilesInv, NEW p \in Procs, Commit(p)
  PROVE  TypeOK' /\ TaskInv'
<1> DEFINE d == proc[p].arg.decision
<1>1. d \in Decisions /\ UNCHANGED <<runs, disk>> /\ Done(p)
  BY Committing
<1>2. CASE HandOff(p, d) /\ UNCHANGED task
  BY <1>1, <1>2, HandsOff, DecideIdle
<1>3. ASSUME NEW status \in Results, NEW e \in EvidenceSet, ResultRecorded(d, status, e)
      PROVE  TypeOK' /\ TaskInv'
  <2> DEFINE x == [decisions[d] EXCEPT !.state = status, !.ev = e, !.owner = None, !.lease = FALSE]
  <2>1. x \in DecisionSet
    <3> DEFINE y == [decisions[d] EXCEPT !.state = status, !.owner = None, !.lease = FALSE]
    <3>1. y \in DecisionSet
      BY <1>1, DecisionMoves DEF TypeOK, Executed
    <3>2. x = [y EXCEPT !.ev = e]
      BY <1>1 DEF TypeOK, DecisionSet
    <3> HIDE DEF y, x
    <3> QED
      BY <3>1, <3>2 DEF DecisionSet
  <2>2. decisions' = [decisions EXCEPT ![d] = x]
    BY <1>1, <1>3 DEF ResultRecorded, TypeOK, DecisionSet
  <2> HIDE DEF x, d
  <2>3. DecisionsTyped
    BY <1>1, <2>1, <2>2, OneDecision
  <2>4. TypeOK'
    BY <1>1, <1>3, <2>3 DEF TypeOK, DecisionsTyped, ResultRecorded
  <2>5. RunsKeep /\ ApprovalsKeep /\ RowMoves
    BY <1>1, <1>3, SameRuns DEF RowMoves, ResultRecorded
  <2>6. NamesKeep /\ RowNames
    BY <1>1, <1>3 DEF NamesKeep, RowNames, Named, ResultRecorded, TaskInv
  <2>7. Others(p) /\ Knows(proc[p])'
    BY <1>1, <2>4, DoneMoves, IdleKnows
  <2> QED
    BY <2>4, <2>5, <2>6, <2>7, TaskStep
<1> HIDE DEF d
<1> QED
  BY <1>2, <1>3, Committing DEF d

LEMMA DecidesStep ==
  ASSUME TypeOK, OnceInv, TaskInv, FilesInv, DecisionNext
  PROVE  TypeOK' /\ TaskInv'
<1>1. ASSUME NEW p \in Procs, Decides(p) PROVE TypeOK' /\ TaskInv'
  BY <1>1, IssueBegins, Issues, ExecuteBegins, Reserves, Starts, Commits DEF Decides
<1>2. ASSUME NEW d \in Decisions,
             Revoke(d) \/ DecisionLapses(d) \/ ClockSetBack(d) \/ ReservationLapses(d)
      PROVE  TypeOK' /\ TaskInv'
  <2>1. UNCHANGED <<task, runs, proc, disk>>
    BY <1>2 DEF Revoke, DecisionLapses, ClockSetBack, ReservationLapses
  <2>2. \E b \in BOOLEAN :
          \/ decisions' = [decisions EXCEPT ![d] = [decisions[d] EXCEPT !.revoked = b]]
          \/ decisions' = [decisions EXCEPT ![d] = [decisions[d] EXCEPT !.late = b]]
          \/ decisions' = [decisions EXCEPT ![d] = [decisions[d] EXCEPT !.lease = b]]
    BY <1>2 DEF Revoke, DecisionLapses, ClockSetBack, ReservationLapses
  <2>3. \E x \in DecisionSet : decisions' = [decisions EXCEPT ![d] = x]
    <3>1. decisions[d] \in DecisionSet
      BY DEF TypeOK
    <3> QED
      BY <2>2, <3>1, DecisionMoves
  <2> QED
    BY <2>1, <2>3, OneDecision, DecisionsAlone
<1> QED
  BY <1>1, <1>2 DEF DecisionNext

LEMMA NextTyped ==
  ASSUME TypeOK, OnceInv, TaskInv, FilesInv, [Next]_vars
  PROVE  TypeOK' /\ TaskInv'
<1>1. CASE TaskNext /\ UNCHANGED bootVars
  BY <1>1, PlansStep, WorkersStep DEF TaskNext
<1>2. CASE UNCHANGED vars
  BY <1>2 DEF vars, TypeOK, TaskInv, Knows, RunKnown, RowKnown, Workable, Named, Prepared
<1> QED
  BY <1>1, <1>2, BuildsStep, DecidesStep DEF Next

-----------------------------------------------------------------------------
(* The files of a result that is shown, and the agreement of the records.   *)

RowFiles(t) ==
  /\ t.src = "MATERIALIZED" => t.digests \in Written
  /\ t.ver \in Results => t.ev # None

\* A row that follows the one there is: what it shows is explained.
Kept(t) ==
  /\ RowFiles(t)
  /\ t.contract >= task.contract
  /\ task.prepared => t.prepared
  /\ \/ t.ver = task.ver /\ t.ev = task.ev
     \/ t.ver = "VERIFICATION_STALE"
     \/ t.contract > task.contract
     \/ \A d \in Decisions : decisions[d].state \notin Results
RowKept == Kept(task') /\ task'.rev >= task.rev

LEMMA SameShown ==
  ASSUME TypeOK, FilesInv, NEW t, t.src = task.src, t.digests = task.digests, t.ver = task.ver,
         t.ev = task.ev, t.contract = task.contract, t.prepared = task.prepared
  PROVE  Kept(t)
<1>1. task.contract \in Nat
  BY TaskFields DEF TypeOK
<1> QED
  BY <1>1 DEF Kept, RowFiles, FilesInv

LEMMA SameRow == ASSUME TypeOK, FilesInv, task' = task PROVE RowKept
<1>1. task.rev \in Nat
  BY TaskFields DEF TypeOK
<1>2. Kept(task)
  BY SameShown
<1> QED
  BY <1>1, <1>2 DEF RowKept

LEMMA UpdateKeeps ==
  ASSUME TypeOK, FilesInv, NEW p \in Procs, NEW next \in TaskSet, Update(p, next),
         next.rev = task.rev, Unchanged(p) => Kept(next)
  PROVE  RowKept
<1>1. CASE task' = task
  BY <1>1, SameRow
<1>2. CASE task' # task
  <2>1. /\ Unchanged(p) /\ task'.rev = task.rev + 1 /\ task' \in TaskSet
        /\ \A x \in DOMAIN task' \ {"rev"} : task'[x] = next[x]
    BY <1>2, Updating
  <2>2. /\ task'.src = next.src /\ task'.digests = next.digests /\ task'.ver = next.ver
        /\ task'.ev = next.ev /\ task'.contract = next.contract
        /\ task'.prepared = next.prepared
    BY <2>1 DEF TaskSet
  <2>3. Kept(next) /\ task.rev \in Nat
    BY <2>1, TaskFields DEF TypeOK
  <2> QED
    BY <2>1, <2>2, <2>3 DEF RowKept, Kept, RowFiles
<1> QED
  BY <1>1, <1>2

LEMMA PlansKeep ==
  ASSUME TypeOK, OnceInv, TaskInv, FilesInv, RecordsInv, NEW p \in Procs, Plans(p)
  PROVE  RowKept
<1>1. task \in TaskSet
  BY DEF TypeOK
<1>2. ASSUME NEW t \in TaskSet, Finish(p, t), t.rev = task.rev, t.src = task.src,
             t.digests = task.digests, t.ver = task.ver, t.ev = task.ev,
             t.contract = task.contract, t.prepared = task.prepared
      PROVE  RowKept
  BY <1>2, SameShown, UpdateKeeps DEF Finish
<1>3. ASSUME NEW t \in TaskSet, Finish(p, Validated(t)), t.rev = task.rev, t.src = task.src,
             t.digests = task.digests, t.ver = task.ver, t.ev = task.ev,
             t.contract = task.contract, t.prepared = task.prepared
      PROVE  RowKept
  <2> DEFINE v == Validated(t)
  <2>1. /\ v \in TaskSet /\ v.rev = t.rev /\ v.src = t.src /\ v.digests = t.digests
        /\ v.ver = t.ver /\ v.ev = t.ev /\ v.contract = t.contract /\ v.prepared = t.prepared
    BY StatusStates DEF Validated, TaskSet
  <2>2. Finish(p, v)
    BY <1>3
  <2> HIDE DEF v
  <2> QED
    BY <1>2, <1>3, <2>1, <2>2
<1>4. CASE CreateTask(p)
  <2>1. /\ task' = [task EXCEPT !.rev = 1, !.state = "PLANNING"] /\ task.rev = 0
    BY <1>4 DEF CreateTask
  <2>2. /\ task'.rev = 1 /\ task'.src = task.src /\ task'.digests = task.digests
        /\ task'.ver = task.ver /\ task'.ev = task.ev
        /\ task'.contract = task.contract /\ task'.prepared = task.prepared
    BY <1>1, <2>1 DEF TaskSet
  <2>3. Kept(task')
    BY <2>2, SameShown
  <2> QED
    BY <2>1, <2>2, <2>3 DEF RowKept
<1>5. CASE RecordPlan(p)
  <2>1. ASSUME NEW k \in Kinds, NEW d \in BOOLEAN, NEW known \in BOOLEAN,
               Finish(p, Validated([task EXCEPT !.kind = k, !.drafted = d, !.clarified = known]))
        PROVE  RowKept
    <3> DEFINE t == [task EXCEPT !.kind = k, !.drafted = d, !.clarified = known]
    <3>1. /\ t \in TaskSet /\ t.rev = task.rev /\ t.src = task.src /\ t.digests = task.digests
          /\ t.ver = task.ver /\ t.ev = task.ev
          /\ t.contract = task.contract /\ t.prepared = task.prepared
      BY <1>1 DEF TaskSet
    <3> HIDE DEF t
    <3> QED
      BY <1>3, <2>1, <3>1 DEF t
  <2>2. CASE Finish(p, [task EXCEPT !.state = "BLOCKED"])
    <3> DEFINE t == [task EXCEPT !.state = "BLOCKED"]
    <3>1. /\ t \in TaskSet /\ t.rev = task.rev /\ t.src = task.src /\ t.digests = task.digests
          /\ t.ver = task.ver /\ t.ev = task.ev
          /\ t.contract = task.contract /\ t.prepared = task.prepared
      BY <1>1 DEF TaskSet
    <3> HIDE DEF t
    <3> QED
      BY <1>2, <2>2, <3>1 DEF t
  <2> QED
    BY <1>5, <2>1, <2>2 DEF RecordPlan
<1>6. CASE CommitDraft(p)
  <2>1. PICK d \in BOOLEAN : Finish(p, Validated([task EXCEPT !.drafted = d]))
    BY <1>6 DEF CommitDraft
  <2> DEFINE t == [task EXCEPT !.drafted = d]
  <2>2. /\ t \in TaskSet /\ t.rev = task.rev /\ t.src = task.src /\ t.digests = task.digests
        /\ t.ver = task.ver /\ t.ev = task.ev
        /\ t.contract = task.contract /\ t.prepared = task.prepared
    BY <1>1 DEF TaskSet
  <2> HIDE DEF t
  <2> QED
    BY <1>3, <2>1, <2>2 DEF t
<1>7. CASE CommitClarify(p)
  <2> DEFINE t == [task EXCEPT !.clarified = TRUE]
  <2>1. /\ t \in TaskSet /\ t.rev = task.rev /\ t.src = task.src /\ t.digests = task.digests
        /\ t.ver = task.ver /\ t.ev = task.ev
        /\ t.contract = task.contract /\ t.prepared = task.prepared
    BY <1>1 DEF TaskSet
  <2>2. Finish(p, Validated(t))
    BY <1>7 DEF CommitClarify
  <2> HIDE DEF t
  <2> QED
    BY <1>3, <2>1, <2>2
<1>8. CASE CommitPrepare(p)
  <2> DEFINE t == [task EXCEPT !.state = "BOOTSTRAP_PREPARED", !.prepared = TRUE,
                               !.src = "PENDING_FILESET", !.ver = "PENDING_VERIFICATION"]
  <2>1. /\ t \in TaskSet /\ t.rev = task.rev /\ t.src = "PENDING_FILESET"
        /\ t.ver = "PENDING_VERIFICATION" /\ t.contract = task.contract /\ t.prepared = TRUE
    BY <1>1 DEF TaskSet
  <2>2. Finish(p, t)
    BY <1>8 DEF CommitPrepare
  <2> HIDE DEF t
  <2>3. ASSUME Unchanged(p), NEW d \in Decisions PROVE decisions[d].state \notin Results
    <3>1. ~task.prepared
      BY <1>8, <2>3, Reading DEF RowKnown, CommitPrepare, At
    <3> QED
      BY <3>1 DEF RecordsInv, Known, Results
  <2>4. Unchanged(p) => Kept(t)
    BY <2>1, <2>3, TaskFields DEF Kept, RowFiles, Results, TypeOK
  <2> QED
    BY <2>1, <2>2, <2>4, UpdateKeeps DEF Finish
<1>9. CASE AttachRun(p)
  <2> DEFINE t == [task EXCEPT !.state = "WAITING_APPROVAL", !.run = proc[p].rev]
  <2>1. proc[p].rev \in 1..MaxRev
    BY <1>9, Reading DEF Carried, AttachRun, At
  <2>2. /\ t \in TaskSet /\ t.rev = task.rev /\ t.src = task.src /\ t.digests = task.digests
        /\ t.ver = task.ver /\ t.ev = task.ev
        /\ t.contract = task.contract /\ t.prepared = task.prepared
    BY <1>1, <2>1 DEF TaskSet
  <2>3. Finish(p, t)
    BY <1>9 DEF AttachRun
  <2> HIDE DEF t
  <2> QED
    BY <1>2, <2>2, <2>3
<1>10. CASE CommitReview(p)
  <2> DEFINE t == [task EXCEPT !.state = "VALIDATED", !.drafted = TRUE, !.run = None]
  <2>1. /\ t \in TaskSet /\ t.rev = task.rev /\ t.src = task.src /\ t.digests = task.digests
        /\ t.ver = task.ver /\ t.ev = task.ev
        /\ t.contract = task.contract /\ t.prepared = task.prepared
    BY <1>1 DEF TaskSet
  <2>2. Finish(p, t)
    BY <1>10 DEF CommitReview
  <2> HIDE DEF t
  <2> QED
    BY <1>2, <2>1, <2>2
<1>11. CASE CommitReject(p)
  <2> DEFINE t == [task EXCEPT !.state = "REJECTED"]
  <2>1. /\ t \in TaskSet /\ t.rev = task.rev /\ t.src = task.src /\ t.digests = task.digests
        /\ t.ver = task.ver /\ t.ev = task.ev
        /\ t.contract = task.contract /\ t.prepared = task.prepared
    BY <1>1 DEF TaskSet
  <2>2. Finish(p, t)
    BY <1>11 DEF CommitReject
  <2> HIDE DEF t
  <2> QED
    BY <1>2, <2>1, <2>2
<1>12. CASE \/ BeginDraft(p) \/ BeginClarify(p) \/ BeginPrepare(p) \/ CreateRun(p)
            \/ BeginReview(p) \/ BeginReject(p) \/ RevokeRun(p) \/ CancelRun(p)
            \/ BeginApprove(p) \/ ApproveRun(p) \/ Crash(p)
  <2>1. task' = task
    BY <1>12 DEF BeginDraft, BeginClarify, BeginPrepare, CreateRun, BeginReview, BeginReject,
       RevokeRun, CancelRun, BeginApprove, ApproveRun, Crash
  <2> QED
    BY <2>1, SameRow
<1> QED
  BY <1>4, <1>5, <1>6, <1>7, <1>8, <1>9, <1>10, <1>11, <1>12 DEF Plans

\* A source that is materialized has its digests on record.
LEMMA RecordedFiles ==
  ASSUME FilesInv, task.src = "MATERIALIZED"
  PROVE  Recorded \in Written
  BY Numbers DEF FilesInv, Recorded

LEMMA BuildsKeep ==
  ASSUME TypeOK, OnceInv, TaskInv, FilesInv, RecordsInv, NEW p \in Procs, Builds(p)
  PROVE  RowKept
<1>1. /\ task \in TaskSet /\ Recorded \in Trees
      /\ task.contract \in Nat /\ task.rev \in Nat
  BY RecordedTree, TaskFields DEF TypeOK
<1>2. CASE RecordFileset(p)
  <2> DEFINE x == [task EXCEPT !.run = proc[p].rev]
             y == [x EXCEPT !.src = "REPAIR_PROPOSED"]
             t == IF proc[p].arg.op = "create" THEN [x EXCEPT !.src = "FILESET_PROPOSED"]
                  ELSE [x EXCEPT !.src = "REPAIR_PROPOSED", !.digests = Recorded]
  <2>1. Finish(p, t) /\ proc[p].rev \in 1..MaxRev
    BY <1>2, Reading DEF RecordFileset, Carried, At
  <2>2. /\ x \in TaskSet /\ x.rev = task.rev /\ x.ver = task.ver /\ x.ev = task.ev
        /\ x.contract = task.contract /\ x.prepared = task.prepared
    BY <1>1, <2>1 DEF TaskSet
  <2> HIDE DEF x
  <2>3. /\ y \in TaskSet /\ y.rev = task.rev /\ y.ver = task.ver /\ y.ev = task.ev
        /\ y.contract = task.contract /\ y.prepared = task.prepared /\ y.src = "REPAIR_PROPOSED"
    BY <2>2 DEF TaskSet
  <2>4. /\ t \in TaskSet /\ t.rev = task.rev /\ t.src \in {"FILESET_PROPOSED", "REPAIR_PROPOSED"}
        /\ t.ver = task.ver /\ t.ev = task.ev
        /\ t.contract = task.contract /\ t.prepared = task.prepared
    <3>1. CASE proc[p].arg.op = "create"
      <4>1. t = [x EXCEPT !.src = "FILESET_PROPOSED"]
        BY <3>1
      <4> HIDE DEF t
      <4> QED
        BY <2>2, <4>1 DEF TaskSet
    <3>2. CASE proc[p].arg.op # "create"
      <4>1. t = [y EXCEPT !.digests = Recorded]
        BY <3>2
      <4> HIDE DEF t, y
      <4> QED
        BY <1>1, <2>3, <4>1 DEF TaskSet
    <3> QED
      BY <3>1, <3>2
  <2> HIDE DEF t
  <2>5. Kept(t)
    BY <1>1, <2>4 DEF Kept, RowFiles, FilesInv
  <2> QED
    BY <2>1, <2>4, <2>5, UpdateKeeps DEF Finish
<1>3. CASE Settle(p)
  <2>1. PICK src \in Ends, ver \in {task.ver, "VERIFICATION_STALE"} :
          /\ src = "MATERIALIZED" => Rewritten(p) \in Written
          /\ src = "MATERIALIZED" => ver \notin Results
          /\ Update(p, EndedTask(task, Rewritten(p), src, ver))
    BY <1>3, Settling
  <2> DEFINE t == EndedTask(task, Rewritten(p), src, ver)
  <2>2. Update(p, t) /\ t = EndedTask(task, Rewritten(p), src, ver)
    BY <2>1
  <2> HIDE DEF t
  <2>3. Rewritten(p) \in Trees /\ ver \in Shown
    <3>1. task.ver \in Shown
      BY <1>1 DEF TaskSet, Shown
    <3> QED
      BY <1>3, <3>1, Settling DEF Shown
  <2>4. /\ t \in TaskSet /\ t.rev = task.rev /\ t.prepared = task.prepared
        /\ t.contract = task.contract /\ t.ev = task.ev
        /\ t.digests = Rewritten(p) /\ t.src = src /\ t.ver = ver
    BY <1>1, <2>2, <2>3, EndedRow
  <2>5. Kept(t)
    <3>1. "VERIFICATION_STALE" \notin Results
      BY DEF Results
    <3> QED
      BY <1>1, <2>1, <2>4, <3>1 DEF Kept, RowFiles, FilesInv
  <2> QED
    BY <2>2, <2>4, <2>5, UpdateKeeps
<1>4. CASE EndVerify(p)
  <2>1. PICK status \in Results :
          Finish(p, [task EXCEPT !.ver = status, !.digests = Recorded,
                                 !.ev = Evidence(p, status, proc[p].arg.tree, None)])
    BY <1>4 DEF EndVerify, Verdicts, Results
  <2> DEFINE e == Evidence(p, status, proc[p].arg.tree, None)
             x == [task EXCEPT !.ver = status]
             y == [x EXCEPT !.digests = Recorded]
             t == [y EXCEPT !.ev = e]
  <2>2. e \in EvidenceSet
    <3>1. proc[p].arg.tree \in Written /\ proc[p].rev \in Nat
      BY <1>4, Reading DEF EndVerify, At, Carried
    <3> QED
      BY <1>1, <3>1 DEF Evidence, EvidenceSet
  <2>3. Finish(p, t)
    BY <2>1
  <2> HIDE DEF e
  <2>4. /\ x \in TaskSet /\ x.rev = task.rev /\ x.src = task.src
        /\ x.contract = task.contract /\ x.prepared = task.prepared
    BY <1>1 DEF TaskSet
  <2> HIDE DEF x
  <2>5. /\ y \in TaskSet /\ y.rev = task.rev /\ y.src = task.src /\ y.digests = Recorded
        /\ y.contract = task.contract /\ y.prepared = task.prepared
    BY <1>1, <2>4 DEF TaskSet
  <2> HIDE DEF y
  <2>6. /\ t \in TaskSet /\ t.rev = task.rev /\ t.src = task.src /\ t.digests = Recorded
        /\ t.ev = e /\ t.contract = task.contract /\ t.prepared = task.prepared
    BY <2>2, <2>5 DEF TaskSet
  <2> HIDE DEF t
  <2>7. e # None
    BY <2>2, NullAssumption
  <2>8. Unchanged(p) => \A d \in Decisions : decisions[d].state \notin Results
    BY <1>4 DEF RecordsInv, EndVerify
  <2>9. Unchanged(p) => Kept(t)
    BY <1>1, <2>6, <2>7, <2>8, RecordedFiles DEF Kept, RowFiles
  <2> QED
    BY <2>3, <2>6, <2>9, UpdateKeeps DEF Finish
<1>5. CASE CommitRevise(p)
  <2>1. CASE task' = task
    BY <2>1, SameRow
  <2>2. CASE task'.rev = task.rev + 1 /\ RevisedTask(task')
    <3>1. "PENDING_VERIFICATION" \notin Results
      BY DEF Results
    <3>2. RowFiles(task')
      BY <2>2, <3>1, RecordedFiles DEF RowFiles, RevisedTask, FilesInv
    <3> QED
      BY <1>1, <2>2, <3>2 DEF RowKept, Kept, RevisedTask
  <2> QED
    BY <1>5, <2>1, <2>2, Revising
<1>6. CASE \/ BeginSubmit(p) \/ BeginRepair(p) \/ InsertFileset(p) \/ BeginFiles(p)
           \/ ClaimFileset(p) \/ PutFile(p) \/ EndFiles(p) \/ ReadLatest(p)
           \/ BeginVerify(p) \/ BeginRevise(p)
  <2>1. task' = task
    BY <1>6 DEF BeginSubmit, BeginRepair, InsertFileset, BeginFiles, ClaimFileset, PutFile,
       EndFiles, ReadLatest, BeginVerify, BeginRevise
  <2> QED
    BY <2>1, SameRow
<1> QED
  BY <1>2, <1>3, <1>4, <1>5, <1>6 DEF Builds

\* A verification begins when no decision was issued.
VerifyMoves ==
  \A q \in Procs : At(q, "verify")' => proc'[q] = proc[q] \/ Known = {}

LEMMA DoneVerifies == ASSUME OnceInv, NEW p \in Procs, Done(p) PROVE VerifyMoves
  BY DoneMoves DEF VerifyMoves, Others, At, Idle

LEMMA GotoVerifies ==
  ASSUME OnceInv, NEW p \in Procs, NEW at, at # "verify", Goto(p, at) PROVE VerifyMoves
  BY GotoMoves DEF VerifyMoves, Others, At

LEMMA EnterVerifies ==
  ASSUME OnceInv, NEW p \in Procs, NEW at, NEW run, NEW arg, Enter(p, at, run, arg),
         at = "verify" => Known = {}
  PROVE  VerifyMoves
<1>1. Others(p) /\ proc'[p].at = at
  BY DEF Enter, OnceInv, Others
<1> QED
  BY <1>1 DEF VerifyMoves, Others, At

LEMMA PlansVerify ==
  ASSUME OnceInv, NEW p \in Procs, Plans(p) PROVE VerifyMoves
<1>1. CASE CreateTask(p)
  <2>1. Others(p) /\ proc'[p].at = "plan"
    BY <1>1 DEF CreateTask, Others, OnceInv, Idle
  <2> QED
    BY <2>1 DEF VerifyMoves, Others, At
<1>2. CASE \/ BeginDraft(p) \/ BeginClarify(p) \/ BeginPrepare(p) \/ BeginApprove(p)
  BY <1>2, EnterVerifies DEF BeginDraft, BeginClarify, BeginPrepare, BeginApprove, Begin
<1>3. CASE BeginReview(p) \/ BeginReject(p)
  BY <1>3, EnterVerifies DEF BeginReview, BeginReject, Begin
<1>4. CASE \/ RecordPlan(p) \/ CommitDraft(p) \/ CommitClarify(p) \/ CommitPrepare(p)
           \/ AttachRun(p) \/ CommitReview(p) \/ CommitReject(p) \/ ApproveRun(p) \/ Crash(p)
  <2>1. Done(p)
    BY <1>4 DEF RecordPlan, CommitDraft, CommitClarify, CommitPrepare, AttachRun, CommitReview,
       CommitReject, ApproveRun, Crash, Finish
  <2> QED
    BY <2>1, DoneVerifies
<1>5. CASE CreateRun(p) \/ RevokeRun(p)
  BY <1>5, GotoVerifies DEF CreateRun, RevokeRun
<1>6. CASE CancelRun(p)
  <2>1. Goto(p, proc[p].arg.then) /\ proc[p].arg.then \in {"review", "reject"}
    BY <1>6 DEF CancelRun, OnceInv, ProcFits, At
  <2> QED
    BY <2>1, GotoVerifies
<1> QED
  BY <1>1, <1>2, <1>3, <1>4, <1>5, <1>6 DEF Plans

LEMMA BuildsVerify ==
  ASSUME OnceInv, NEW p \in Procs, Builds(p) PROVE VerifyMoves
<1>1. CASE \/ BeginSubmit(p) \/ BeginFiles(p) \/ BeginVerify(p)
  BY <1>1, EnterVerifies DEF BeginSubmit, BeginFiles, BeginVerify, Begin
<1>2. CASE BeginRepair(p)
  BY <1>2, EnterVerifies DEF BeginRepair, Begin
<1>3. CASE BeginRevise(p)
  BY <1>3, EnterVerifies DEF BeginRevise, Begin
<1>4. CASE InsertFileset(p)
  BY <1>4, DoneVerifies, GotoVerifies DEF InsertFileset
<1>5. CASE RecordFileset(p) \/ Settle(p) \/ EndVerify(p) \/ CommitRevise(p)
  <2>1. Done(p)
    BY <1>5 DEF RecordFileset, Settle, EndVerify, CommitRevise, Finish, Abandon
  <2> QED
    BY <2>1, DoneVerifies
<1>6. CASE ClaimFileset(p) \/ PutFile(p) \/ EndFiles(p) \/ ReadLatest(p)
  <2>1. DOMAIN proc = Procs /\ DOMAIN proc[p] = {"at", "rev", "run", "arg"}
    BY DEF OnceInv, ProcFits, Idle
  <2>2. ASSUME NEW x, proc' = [proc EXCEPT ![p] = x], x.at # "verify" PROVE VerifyMoves
    BY <2>1, <2>2 DEF VerifyMoves, At
  <2>3. CASE ClaimFileset(p)
    <3>1. CASE proc' = [proc EXCEPT ![p].at = "put", ![p].arg = Preflight(proc[p].run)]
      <4> DEFINE x == [proc[p] EXCEPT !.at = "put", !.arg = Preflight(proc[p].run)]
      <4>1. x.at = "put" /\ proc' = [proc EXCEPT ![p] = x]
        BY <2>1, <3>1
      <4> HIDE DEF x
      <4> QED
        BY <2>2, <4>1
    <3> QED
      BY <2>3, <3>1, DoneVerifies DEF ClaimFileset
  <2>4. CASE PutFile(p)
    <3>1. Abandon(p) \/ \E a : proc' = [proc EXCEPT ![p].arg = a]
      BY <2>4, Zenon DEF PutFile
    <3>2. ASSUME NEW a, proc' = [proc EXCEPT ![p].arg = a] PROVE VerifyMoves
      <4> DEFINE x == [proc[p] EXCEPT !.arg = a]
      <4>1. x.at = "put" /\ proc' = [proc EXCEPT ![p] = x]
        BY <2>1, <2>4, <3>2 DEF PutFile, At
      <4> HIDE DEF x
      <4> QED
        BY <2>2, <4>1
    <3> QED
      BY <3>1, <3>2, DoneVerifies DEF Abandon
  <2>5. CASE EndFiles(p)
    BY <2>5, DoneVerifies, GotoVerifies DEF EndFiles, Abandon
  <2>6. CASE ReadLatest(p)
    <3> DEFINE x == [proc[p] EXCEPT !.at = "settle", !.rev = task.rev]
    <3>1. x.at = "settle" /\ proc' = [proc EXCEPT ![p] = x]
      BY <2>1, <2>6 DEF ReadLatest
    <3> HIDE DEF x
    <3> QED
      BY <2>2, <3>1
  <2> QED
    BY <1>6, <2>3, <2>4, <2>5, <2>6
<1> QED
  BY <1>1, <1>2, <1>3, <1>4, <1>5, <1>6 DEF Builds

LEMMA DecidesVerify ==
  ASSUME OnceInv, NEW p \in Procs, Decides(p) PROVE VerifyMoves
<1>1. CASE BeginIssue(p)
  BY <1>1, EnterVerifies DEF BeginIssue
<1>2. CASE CommitIssue(p)
  BY <1>2, DoneVerifies DEF CommitIssue
<1>3. ASSUME NEW d \in Decisions, BeginExecute(p, d) PROVE VerifyMoves
  <2>1. CASE UNCHANGED proc
    BY <2>1 DEF VerifyMoves
  <2>2. CASE proc' = [proc EXCEPT ![p] = [Idle EXCEPT !.at = "reserve", !.arg = [decision |-> d]]]
    <3>1. Others(p) /\ proc'[p].at = "reserve"
      BY <2>2 DEF Others, OnceInv, Idle
    <3> QED
      BY <3>1 DEF VerifyMoves, Others, At
  <2> QED
    BY <1>3, <2>1, <2>2 DEF BeginExecute
<1>4. CASE Reserve(p)
  <2>1. Done(p) \/ Goto(p, "start")
    BY <1>4, Zenon DEF Reserve
  <2> QED
    BY <2>1, DoneVerifies, GotoVerifies
<1>5. CASE Start(p)
  <2>1. Done(p) \/ Goto(p, "commit")
    BY <1>5, Zenon DEF Start, HandOff
  <2> QED
    BY <2>1, DoneVerifies, GotoVerifies
<1>6. CASE Commit(p)
  <2>1. Done(p)
    BY <1>6, Zenon DEF Commit, HandOff
  <2> QED
    BY <2>1, DoneVerifies
<1> QED
  BY <1>1, <1>2, <1>3, <1>4, <1>5, <1>6 DEF Decides

LEMMA NextVerifies == ASSUME OnceInv, [Next]_vars PROVE VerifyMoves
<1>1. CASE UNCHANGED proc
  BY <1>1 DEF VerifyMoves
<1>2. ASSUME NEW r, WorkerStep(r) PROVE UNCHANGED proc
  BY <1>2 DEF WorkerStep, WorkerClaims, WorkerAttempts, WorkerEnds, ApprovalExpires
<1>3. ASSUME NEW d, Revoke(d) \/ DecisionLapses(d) \/ ClockSetBack(d) \/ ReservationLapses(d)
      PROVE  UNCHANGED proc
  BY <1>3 DEF Revoke, DecisionLapses, ClockSetBack, ReservationLapses
<1>4. ASSUME NEW x, LeaseLapses(x) \/ ForeignEdit(x) PROVE UNCHANGED proc
  BY <1>4 DEF LeaseLapses, ForeignEdit
<1>5. CASE UNCHANGED vars
  BY <1>1, <1>5 DEF vars
<1> QED
  BY <1>1, <1>2, <1>3, <1>4, <1>5, PlansVerify, BuildsVerify, DecidesVerify
  DEF Next, DecisionNext, BuildNext, TaskNext

\* A decision keeps what it binds, and its result once it has one.
DecisionsKept ==
  \A d \in Decisions :
    /\ decisions'[d].rev = decisions[d].rev /\ decisions'[d].contract = decisions[d].contract
    /\ decisions'[d].tree = decisions[d].tree
    /\ (decisions'[d].state = "ABSENT") <=> (decisions[d].state = "ABSENT")
    /\ decisions[d].state \in Results \/ decisions'[d].state \in Results =>
         decisions'[d].state = decisions[d].state /\ decisions'[d].ev = decisions[d].ev

\* What a process verifies when it still may, no result can be recorded for.
LEMMA StillNoResult ==
  ASSUME TypeOK, TaskInv, RecordsInv, VerifyMoves, task'.rev \in Nat, task'.rev >= task.rev,
         NEW q \in Procs, At(q, "verify")', Unchanged(q)'
  PROVE  /\ \A d \in Decisions : decisions[d].state \notin Results
         /\ Known = {} \/ task'.rev = task.rev
<1>1. CASE Known = {}
  BY <1>1 DEF Known, Results
<1>2. CASE Known # {}
  <2>1. proc'[q] = proc[q] /\ At(q, "verify")
    BY <1>2 DEF VerifyMoves, At
  <2>2. proc[q].rev <= task.rev /\ proc[q].rev \in Nat /\ task.rev \in Nat
    BY Reading, TaskFields DEF Knows, Carried, TypeOK
  <2>3. Unchanged(q) /\ task'.rev = task.rev
    BY <2>1, <2>2 DEF Unchanged
  <2> QED
    BY <2>1, <2>3 DEF RecordsInv
<1> QED
  BY <1>1, <1>2

LEMMA RowsKept ==
  ASSUME TypeOK, TypeOK', TaskInv, FilesInv, RecordsInv, RowKept, DecisionsKept, VerifyMoves
  PROVE  FilesInv' /\ RecordsInv'
<1>1. /\ task.rev \in Nat /\ task'.rev \in Nat /\ task'.rev >= task.rev
      /\ task.contract \in Nat /\ task'.contract \in Nat /\ task'.contract >= task.contract
  BY TaskFields DEF TypeOK, RowKept, Kept
<1>2. Known' = Known
  BY DEF DecisionsKept, Known
<1>3. FilesInv'
  BY <1>2 DEF FilesInv, RowKept, Kept, RowFiles, DecisionsKept, Known
<1>4. (Known # {} => task.prepared)'
  BY <1>2 DEF RecordsInv, RowKept, Kept
<1>5. ASSUME NEW d \in Decisions
      PROVE  /\ decisions'[d].rev <= task'.rev /\ decisions'[d].contract <= task'.contract
             /\ d \notin Known' => decisions'[d].rev = 0
  <2>1. decisions[d].rev \in Nat /\ decisions[d].contract \in Nat
    BY DEF TypeOK, DecisionSet
  <2> QED
    BY <1>1, <1>2, <2>1 DEF RecordsInv, DecisionsKept
<1>6. ASSUME NEW d \in Decisions, decisions'[d].state \in Results
      PROVE  /\ decisions'[d].rev < task'.rev
             /\ \/ task'.ev = decisions'[d].ev /\ task'.ver = decisions'[d].state
                \/ task'.ver = "VERIFICATION_STALE"
                \/ decisions'[d].contract < task'.contract
                \/ \E e \in Decisions :
                     decisions'[e].state \in Results /\ decisions'[e].rev > decisions'[d].rev
  <2>1. /\ decisions[d].state \in Results /\ decisions'[d].state = decisions[d].state
        /\ decisions'[d].ev = decisions[d].ev /\ decisions'[d].rev = decisions[d].rev
        /\ decisions'[d].contract = decisions[d].contract
        /\ decisions[d].rev \in Nat /\ decisions[d].contract \in Nat
    BY <1>6 DEF DecisionsKept, TypeOK, DecisionSet
  <2>2. decisions[d].rev < task.rev /\ decisions[d].contract <= task.contract
    BY <2>1 DEF RecordsInv
  <2>3. CASE task.ev = decisions[d].ev /\ task.ver = decisions[d].state
    BY <1>1, <2>1, <2>2, <2>3 DEF RowKept, Kept
  <2>4. CASE task.ver = "VERIFICATION_STALE"
    BY <1>1, <2>1, <2>2, <2>4 DEF RowKept, Kept
  <2>5. CASE decisions[d].contract < task.contract
    BY <1>1, <2>1, <2>2, <2>5
  <2>6. ASSUME NEW e \in Decisions, decisions[e].state \in Results,
               decisions[e].rev > decisions[d].rev
        PROVE  decisions'[e].state \in Results /\ decisions'[e].rev > decisions'[d].rev
    BY <2>1, <2>6 DEF DecisionsKept
  <2> QED
    BY <1>1, <2>1, <2>2, <2>3, <2>4, <2>5, <2>6 DEF RecordsInv
<1>7. ASSUME NEW q \in Procs, At(q, "verify")', Unchanged(q)'
      PROVE  \A d \in Decisions : decisions'[d].state \notin Results
  BY <1>1, <1>7, StillNoResult DEF DecisionsKept
<1>8. RecordsInv'
  BY <1>4, <1>5, <1>6, <1>7 DEF RecordsInv
<1> QED
  BY <1>3, <1>8

LEMMA SameDecisions == ASSUME decisions' = decisions PROVE DecisionsKept
  BY DEF DecisionsKept

LEMMA OneKept ==
  ASSUME OnceInv, NEW d \in Decisions, NEW x, decisions' = [decisions EXCEPT ![d] = x],
         x.rev = decisions[d].rev, x.contract = decisions[d].contract,
         x.tree = decisions[d].tree, x.ev = decisions[d].ev,
         \/ x.state = decisions[d].state
         \/ /\ decisions[d].state \notin Results \cup {"ABSENT"}
            /\ x.state \notin Results \cup {"ABSENT"}
  PROVE  DecisionsKept
<1>1. decisions'[d] = x /\ \A e \in Decisions \ {d} : decisions'[e] = decisions[e]
  BY DEF OnceInv
<1> QED
  BY <1>1 DEF DecisionsKept

LEMMA ObserveKept ==
  ASSUME OnceInv, NEW d \in Decisions, Observe(d) PROVE DecisionsKept
<1> DEFINE x == [decisions[d] EXCEPT !.seen = decisions[d].seen \/ decisions[d].late]
<1>1. /\ x.rev = decisions[d].rev /\ x.contract = decisions[d].contract
      /\ x.tree = decisions[d].tree /\ x.ev = decisions[d].ev /\ x.state = decisions[d].state
  BY DEF OnceInv, Absent
<1>2. decisions' = [decisions EXCEPT ![d] = x]
  BY DEF Observe
<1> HIDE DEF x
<1> QED
  BY <1>1, <1>2, OneKept

LEMMA HandOffKept ==
  ASSUME TypeOK, OnceInv, NEW p \in Procs, NEW d \in Decisions, HandOff(p, d),
         decisions[d].state \in {"RESERVED", "STARTED"}
  PROVE  DecisionsKept
<1> DEFINE x == [decisions[d] EXCEPT !.state = "HUMAN_HANDOFF", !.owner = None, !.lease = FALSE]
<1>1. /\ x.rev = decisions[d].rev /\ x.contract = decisions[d].contract
      /\ x.tree = decisions[d].tree /\ x.ev = decisions[d].ev /\ x.state = "HUMAN_HANDOFF"
  BY DEF OnceInv, Absent
<1>2. decisions' = [decisions EXCEPT ![d] = x]
  BY DEF HandOff, TypeOK, DecisionSet
<1>3. /\ decisions[d].state \notin Results \cup {"ABSENT"}
      /\ x.state \notin Results \cup {"ABSENT"}
  BY <1>1 DEF Results
<1> HIDE DEF x
<1> QED
  BY <1>1, <1>2, <1>3, OneKept

\* Plans, filesets and time leave what decisions bind, and their results.
LEMMA OthersKept ==
  ASSUME TypeOK, OnceInv, [Next]_vars, ~\E p \in Procs : Decides(p)
  PROVE  DecisionsKept
<1>1. ASSUME NEW p \in Procs, Builds(p) PROVE DecisionsKept
  <2>1. CASE CommitRevise(p)
    <3>1. CASE decisions' = Revised
      BY <3>1 DEF DecisionsKept, Revised, OnceInv, Absent
    <3> QED
      BY <2>1, <3>1, SameDecisions DEF CommitRevise, Revised
  <2>2. CASE ~CommitRevise(p)
    BY <1>1, <2>2, SameDecisions
    DEF Builds, BeginSubmit, BeginRepair, InsertFileset, RecordFileset, BeginFiles,
        ClaimFileset, PutFile, EndFiles, ReadLatest, Settle, BeginVerify, EndVerify,
        BeginRevise, bootVars
  <2> QED
    BY <2>1, <2>2
<1>2. ASSUME NEW d \in Decisions,
             Revoke(d) \/ DecisionLapses(d) \/ ClockSetBack(d) \/ ReservationLapses(d)
      PROVE  DecisionsKept
  <2>1. \E b \in BOOLEAN :
          \/ decisions' = [decisions EXCEPT ![d].revoked = b]
          \/ decisions' = [decisions EXCEPT ![d].late = b]
          \/ decisions' = [decisions EXCEPT ![d].lease = b]
    BY <1>2 DEF Revoke, DecisionLapses, ClockSetBack, ReservationLapses
  <2> QED
    BY <2>1 DEF DecisionsKept, OnceInv, Absent
<1>3. CASE TaskNext /\ UNCHANGED bootVars
  BY <1>3, SameDecisions DEF bootVars
<1>4. ASSUME NEW x, LeaseLapses(x) \/ ForeignEdit(x) PROVE DecisionsKept
  BY <1>4, SameDecisions DEF LeaseLapses, ForeignEdit, bootVars
<1>5. CASE UNCHANGED vars
  BY <1>5, SameDecisions DEF vars
<1> QED
  BY <1>1, <1>2, <1>3, <1>4, <1>5 DEF Next, DecisionNext, BuildNext

\* They leave an explanation of what the task shows.
LEMMA OthersRow ==
  ASSUME TypeOK, OnceInv, TaskInv, FilesInv, RecordsInv, [Next]_vars,
         ~\E p \in Procs : Decides(p)
  PROVE  RowKept
<1>1. ASSUME NEW r, WorkerStep(r) PROVE task' = task
  BY <1>1 DEF WorkerStep, WorkerClaims, WorkerAttempts, WorkerEnds, ApprovalExpires
<1>2. ASSUME NEW d, Revoke(d) \/ DecisionLapses(d) \/ ClockSetBack(d) \/ ReservationLapses(d)
      PROVE  task' = task
  BY <1>2 DEF Revoke, DecisionLapses, ClockSetBack, ReservationLapses
<1>3. ASSUME NEW x, LeaseLapses(x) \/ ForeignEdit(x) PROVE task' = task
  BY <1>3 DEF LeaseLapses, ForeignEdit
<1>4. CASE UNCHANGED vars
  BY <1>4, SameRow DEF vars
<1> QED
  BY <1>1, <1>2, <1>3, <1>4, SameRow, PlansKeep, BuildsKeep
  DEF Next, DecisionNext, BuildNext, TaskNext

\* What is issued binds the row as it is and files that are all there.
LEMMA IssueKeeps ==
  ASSUME TypeOK, TypeOK', OnceInv, TaskInv, FilesInv, RecordsInv, NEW p \in Procs, CommitIssue(p)
  PROVE  FilesInv' /\ RecordsInv'
<1>0. task' = task /\ VerifyMoves /\ Done(p)
  BY Issuing, DoneVerifies
<1>1. CASE UNCHANGED decisions
  BY <1>0, <1>1, SameRow, SameDecisions, RowsKept
<1>2. ASSUME Current(proc[p].arg), proc[p].arg.tree \in Written, NEW d \in Decisions \ Known,
             decisions' = [decisions EXCEPT ![d] = Issued(proc[p].arg)]
      PROVE  FilesInv' /\ RecordsInv'
  <2> DEFINE x == Issued(proc[p].arg)
  <2>1. /\ x.state = "ISSUED" /\ x.tree # None
        /\ x.rev = task.rev /\ x.contract = task.contract
    BY <1>2, Numbers DEF Issued, Absent, Current
  <2> HIDE DEF x
  <2>2. decisions'[d] = x /\ \A e \in Decisions \ {d} : decisions'[e] = decisions[e]
    BY <1>2 DEF OnceInv, x
  <2>3. task.prepared /\ task.rev \in Nat /\ task.contract \in Nat
    BY <1>2, TaskFields DEF Current, Prepared, TypeOK
  <2>4. FilesInv'
    BY <1>0, <2>1, <2>2 DEF FilesInv, Known
  <2>5. /\ (Known # {} => task.prepared)'
        /\ \A e \in Decisions : /\ decisions'[e].rev <= task'.rev
                                /\ decisions'[e].contract <= task'.contract
                                /\ e \notin Known' => decisions'[e].rev = 0
    BY <1>0, <2>1, <2>2, <2>3 DEF RecordsInv, Known
  <2>6. \A e \in Decisions : decisions'[e].state \in Results =>
          e # d /\ decisions'[e] = decisions[e]
    BY <2>1, <2>2 DEF Results
  <2>7. \A e \in Decisions : decisions[e].state \in Results =>
          e # d /\ decisions'[e] = decisions[e]
    BY <1>2, <2>2 DEF Results, Known
  <2>8. ASSUME NEW q \in Procs, At(q, "verify")', Unchanged(q)'
        PROVE  \A e \in Decisions : decisions'[e].state \notin Results
    BY <1>0, <2>3, <2>6, <2>8, StillNoResult
  <2>9. \A e \in Decisions : decisions'[e].state \in Results =>
          /\ decisions'[e].rev < task'.rev
          /\ \/ task'.ev = decisions'[e].ev /\ task'.ver = decisions'[e].state
             \/ task'.ver = "VERIFICATION_STALE"
             \/ decisions'[e].contract < task'.contract
             \/ \E g \in Decisions :
                  decisions'[g].state \in Results /\ decisions'[g].rev > decisions'[e].rev
    <3> SUFFICES ASSUME NEW e \in Decisions, decisions'[e].state \in Results
                 PROVE  /\ decisions'[e].rev < task'.rev
                        /\ \/ task'.ev = decisions'[e].ev /\ task'.ver = decisions'[e].state
                           \/ task'.ver = "VERIFICATION_STALE"
                           \/ decisions'[e].contract < task'.contract
                           \/ \E g \in Decisions :
                                decisions'[g].state \in Results /\ decisions'[g].rev > decisions'[e].rev
      OBVIOUS
    <3>1. decisions'[e] = decisions[e] /\ decisions[e].state \in Results
      BY <2>6
    <3> QED
      BY <1>0, <2>7, <3>1 DEF RecordsInv
  <2> QED
    BY <2>4, <2>5, <2>8, <2>9 DEF RecordsInv
<1> QED
  BY <1>1, <1>2, Issuing

\* A result is recorded with an update of the task, which it then agrees with.
LEMMA ResultKeeps ==
  ASSUME TypeOK, TypeOK', OnceInv, TaskInv, FilesInv, RecordsInv, VerifyMoves,
         NEW d \in Decisions, Current(decisions[d]), decisions[d].state = "STARTED",
         decisions[d].tree \in Written, NEW status \in Results, NEW e \in EvidenceSet,
         ResultRecorded(d, status, e)
  PROVE  FilesInv' /\ RecordsInv'
<1>1. /\ decisions'[d].rev = decisions[d].rev /\ decisions'[d].contract = decisions[d].contract
      /\ decisions'[d].tree = decisions[d].tree /\ decisions'[d].state = status
      /\ decisions'[d].ev = e /\ \A g \in Decisions \ {d} : decisions'[g] = decisions[g]
  BY DEF ResultRecorded, OnceInv, Absent
<1>2. /\ task'.rev = task.rev + 1 /\ task'.ver = status /\ task'.ev = e
      /\ task'.digests = decisions[d].tree /\ task'.contract = task.contract
      /\ task'.prepared = task.prepared /\ task'.src = task.src
  BY DEF ResultRecorded
<1>3. /\ task.rev \in Nat /\ task.contract \in Nat /\ decisions[d].rev = task.rev
      /\ decisions[d].contract = task.contract
      /\ \A g \in Decisions : decisions[g].rev \in Nat /\ decisions[g].contract \in Nat
  BY TaskFields DEF TypeOK, DecisionSet, Current
<1>4. status # "ABSENT" /\ e # None /\ d \in Known
  <2>1. status # "ABSENT"
    BY DEF Results
  <2>2. e # None
    BY NullAssumption
  <2>3. d \in Known
    BY DEF Known
  <2> QED
    BY <2>1, <2>2, <2>3
<1>5. Known' = Known
  BY <1>1, <1>4 DEF Known
<1>6. FilesInv'
  <2>1. \A g \in Decisions : decisions'[g].tree = decisions[g].tree
    BY <1>1
  <2>2. \A g \in Known' : decisions'[g].tree # None
    BY <1>5, <2>1 DEF FilesInv, Known
  <2>3. task'.digests \in Written /\ task'.ev # None
    BY <1>2, <1>4
  <2> QED
    BY <2>2, <2>3 DEF FilesInv
<1>7. /\ (Known # {} => task.prepared)'
      /\ \A g \in Decisions : /\ decisions'[g].rev <= task'.rev
                              /\ decisions'[g].contract <= task'.contract
                              /\ g \notin Known' => decisions'[g].rev = 0
  BY <1>1, <1>2, <1>3, <1>4, <1>5 DEF RecordsInv
<1>8. \A g \in Decisions : decisions'[g].state \in Results =>
        /\ decisions'[g].rev < task'.rev
        /\ \/ task'.ev = decisions'[g].ev /\ task'.ver = decisions'[g].state
           \/ decisions'[d].state \in Results /\ decisions'[d].rev > decisions'[g].rev
  BY <1>1, <1>2, <1>3 DEF RecordsInv
<1>9. ASSUME NEW q \in Procs, At(q, "verify")', Unchanged(q)' PROVE FALSE
  BY <1>2, <1>3, <1>4, <1>9, StillNoResult
<1>10. RecordsInv'
  BY <1>7, <1>8, <1>9 DEF RecordsInv
<1> QED
  BY <1>6, <1>10

LEMMA DecidesKeep ==
  ASSUME TypeOK, TypeOK', OnceInv, TaskInv, FilesInv, RecordsInv, NEW p \in Procs, Decides(p)
  PROVE  FilesInv' /\ RecordsInv'
<1>1. VerifyMoves
  BY DecidesVerify
<1>2. ASSUME task' = task, DecisionsKept PROVE FilesInv' /\ RecordsInv'
  BY <1>1, <1>2, SameRow, RowsKept
<1>3. CASE BeginIssue(p)
  BY <1>2, <1>3, SameDecisions DEF BeginIssue, bootVars
<1>4. ASSUME NEW d \in Decisions, BeginExecute(p, d) PROVE FilesInv' /\ RecordsInv'
  <2>1. DecisionsKept
    BY <1>4, SameDecisions, ObserveKept DEF BeginExecute
  <2> QED
    BY <1>2, <1>4, <2>1 DEF BeginExecute
<1>5. CASE Reserve(p)
  <2> DEFINE d == proc[p].arg.decision
  <2>1. d \in Decisions /\ task' = task
    BY <1>5 DEF Reserve, At, OnceInv, ProcFits
  <2>2. CASE UNCHANGED decisions
    BY <1>2, <2>1, <2>2, SameDecisions
  <2>3. CASE Observe(d)
    BY <1>2, <2>1, <2>3, ObserveKept
  <2>4. CASE /\ d \notin Reserved /\ Current(decisions[d])
             /\ decisions' = [decisions EXCEPT ![d].state = "RESERVED", ![d].owner = p,
                                               ![d].lease = TRUE]
    <3> DEFINE x == [decisions[d] EXCEPT !.state = "RESERVED", !.owner = p, !.lease = TRUE]
    <3>1. /\ x.rev = decisions[d].rev /\ x.contract = decisions[d].contract
          /\ x.tree = decisions[d].tree /\ x.ev = decisions[d].ev /\ x.state = "RESERVED"
      BY <2>1 DEF OnceInv, Absent
    <3>2. decisions' = [decisions EXCEPT ![d] = x]
      BY <2>1, <2>4 DEF TypeOK, DecisionSet
    <3> HIDE DEF x, d
    <3>3. decisions[d].state \notin Results
      BY <2>1, <2>4 DEF Reserved, Executed
    <3>4. decisions[d].state # "ABSENT"
      <4>1. task.rev # 0
        BY <2>4 DEF Current, Prepared, TaskInv
      <4> QED
        BY <2>1, <2>4, <4>1 DEF RecordsInv, Known, Current
    <3>5. x.state \notin Results \cup {"ABSENT"}
      BY <3>1 DEF Results
    <3>6. DecisionsKept
      BY <2>1, <3>1, <3>2, <3>3, <3>4, <3>5, OneKept
    <3> QED
      BY <1>2, <2>1, <3>6
  <2> QED
    BY <1>5, <2>2, <2>3, <2>4, Zenon DEF Reserve
<1>6. CASE Start(p)
  <2> DEFINE d == proc[p].arg.decision
  <2>1. d \in Decisions /\ task' = task /\ decisions[d].state = "RESERVED"
    BY <1>6 DEF Start, At, OnceInv, ProcFits, Executes
  <2>2. CASE HandOff(p, d)
    BY <1>2, <2>1, <2>2, HandOffKept
  <2>3. CASE decisions' = [decisions EXCEPT ![d].state = "STARTED"]
    <3> DEFINE x == [decisions[d] EXCEPT !.state = "STARTED"]
    <3>1. /\ x.rev = decisions[d].rev /\ x.contract = decisions[d].contract
          /\ x.tree = decisions[d].tree /\ x.ev = decisions[d].ev /\ x.state = "STARTED"
      BY <2>1 DEF OnceInv, Absent
    <3>2. decisions' = [decisions EXCEPT ![d] = x]
      BY <2>3
    <3> HIDE DEF x, d
    <3>3. /\ decisions[d].state \notin Results \cup {"ABSENT"}
          /\ x.state \notin Results \cup {"ABSENT"}
      BY <2>1, <3>1 DEF Results
    <3>4. DecisionsKept
      BY <2>1, <3>1, <3>2, <3>3, OneKept
    <3> QED
      BY <1>2, <2>1, <3>4
  <2> QED
    BY <1>6, <2>2, <2>3, Zenon DEF Start
<1>7. CASE Commit(p)
  <2> DEFINE d == proc[p].arg.decision
  <2>1. d \in Decisions /\ decisions[d].state = "STARTED"
    BY <1>7 DEF Commit, At, OnceInv, ProcFits, Executes
  <2>2. CASE HandOff(p, d) /\ UNCHANGED task
    BY <1>2, <2>1, <2>2, HandOffKept
  <2>3. ASSUME Fenced(p, d, "STARTED"), decisions[d].tree \in Written,
               NEW status \in Results, NEW e \in EvidenceSet, ResultRecorded(d, status, e)
        PROVE  FilesInv' /\ RecordsInv'
    <3>1. Current(decisions[d])
      BY <2>3 DEF Fenced
    <3> HIDE DEF d
    <3> QED
      BY <1>1, <2>1, <2>3, <3>1, ResultKeeps
  <2>4. \/ HandOff(p, d) /\ UNCHANGED task
        \/ /\ Fenced(p, d, "STARTED") /\ decisions[d].tree \in Written
           /\ \E status \in Results, e \in EvidenceSet : ResultRecorded(d, status, e)
    BY <1>7, Committing
  <2> HIDE DEF d
  <2> QED
    BY <2>2, <2>3, <2>4
<1> QED
  BY <1>3, <1>4, <1>5, <1>6, <1>7, IssueKeeps DEF Decides

LEMMA NextRows ==
  OnceInv /\ TypeOK /\ TaskInv /\ FilesInv /\ RecordsInv /\ [Next]_vars
    => TypeOK' /\ TaskInv' /\ FilesInv' /\ RecordsInv'
<1> SUFFICES ASSUME OnceInv, TypeOK, TaskInv, FilesInv, RecordsInv, [Next]_vars
             PROVE  TypeOK' /\ TaskInv' /\ FilesInv' /\ RecordsInv'
  OBVIOUS
<1>1. TypeOK' /\ TaskInv'
  BY NextTyped
<1>2. FilesInv' /\ RecordsInv'
  <2>1. CASE \E p \in Procs : Decides(p)
    BY <1>1, <2>1, DecidesKeep
  <2>2. CASE ~\E p \in Procs : Decides(p)
    BY <1>1, <2>2, OthersKept, OthersRow, NextVerifies, RowsKept
  <2> QED
    BY <2>1, <2>2
<1> QED
  BY <1>1, <1>2

LEMMA RowsHold == Spec => [](OnceInv /\ TypeOK /\ TaskInv /\ FilesInv /\ RecordsInv)
<1>1. InitDecisions => OnceInv /\ TypeOK /\ TaskInv /\ FilesInv /\ RecordsInv
  BY InitOnce, InitRows
<1>2. OnceInv /\ TypeOK /\ TaskInv /\ FilesInv /\ RecordsInv /\ [Next]_vars
        => OnceInv' /\ TypeOK' /\ TaskInv' /\ FilesInv' /\ RecordsInv'
  BY NextOnce, NextRows
<1>3. OnceInv /\ TypeOK /\ TaskInv /\ FilesInv /\ RecordsInv /\ UNCHANGED vars
        => OnceInv' /\ TypeOK' /\ TaskInv' /\ FilesInv' /\ RecordsInv'
  BY <1>2
<1> QED
  BY <1>1, <1>2, <1>3, PTL DEF Spec

\* The rows and the files have their types in every state: the evidence a decision
\* ends with names a tree of files that were all written, and no step leaves a value
\* in a column that the schema of the product does not have.
THEOREM TypeCorrect == Spec => []TypeOK
  BY RowsHold, PTL

-----------------------------------------------------------------------------
(* What a person is shown.                                                  *)

\* What is shown as passed was verified on what was last written.
LEMMA ShownTree ==
  ASSUME TypeOK, FilesInv, EffectiveVer(Drift) \in {"LOCAL_PASSED", "LOCAL_CHECKPOINT"}
  PROVE  Drift = {} /\ task.ev # None /\ task.ev.tree = Recorded
<1>1. task.ev # None /\ task.ver \in Results
  <2>1. CASE task.ev = None \/ task.ver \notin Results
    <3>1. EffectiveVer(Drift) = task.ver
      BY <2>1 DEF EffectiveVer
    <3>2. task.ver # "LOCAL_CHECKPOINT"
      <4>1. task.ver \in Results \cup {None, "PENDING_VERIFICATION", "VERIFICATION_STALE"}
        BY DEF TypeOK, TaskSet
      <4>2. None # "LOCAL_CHECKPOINT"
        BY NullAssumption
      <4> QED
        BY <4>1, <4>2 DEF Results
    <3>3. task.ver = "LOCAL_PASSED"
      BY <3>1, <3>2
    <3> QED
      BY <2>1, <3>3 DEF FilesInv, Results
  <2> QED
    BY <2>1
<1>2. task.ev.status = task.ver /\ Supported(task.ev)
  <2>1. CASE ~(task.ev.status = task.ver /\ Supported(task.ev))
    <3>1. EffectiveVer(Drift) = "EVIDENCE_INVALID"
      BY <1>1, <2>1 DEF EffectiveVer
    <3> QED
      BY <3>1
  <2> QED
    BY <2>1
<1>3. Drift = {}
  <2>1. CASE Drift # {}
    <3>1. EffectiveVer(Drift) = "VERIFICATION_STALE"
      BY <1>1, <1>2, <2>1 DEF EffectiveVer
    <3> QED
      BY <3>1
  <2> QED
    BY <2>1
<1>4. task.ev.tree = Recorded
  <2>1. CASE Checkpoint(task.ev)
    BY <2>1 DEF Checkpoint
  <2>2. CASE ~Checkpoint(task.ev) /\ task.ev.tree # Recorded
    <3>1. EffectiveVer(Drift) = "VERIFICATION_STALE"
      BY <1>1, <1>2, <1>3, <2>2 DEF EffectiveVer
    <3> QED
      BY <3>1
  <2> QED
    BY <2>1, <2>2
<1> QED
  BY <1>1, <1>3, <1>4

\* A result that is shown as passed is about the bytes that are on the disk: however
\* commands, foreign edits, revisions of the contract and crashes interleave, what
\* effectiveStates shows was verified on exactly the files that are there.
THEOREM ShownIsCurrent == Spec => []PassIsCurrent
<1>1. TypeOK /\ FilesInv => PassIsCurrent
  <2> SUFFICES ASSUME TypeOK, FilesInv,
                      EffectiveVer(Drift) \in {"LOCAL_PASSED", "LOCAL_CHECKPOINT"}
               PROVE  task.ev.tree = disk
    BY DEF PassIsCurrent
  <2>1. Drift = {} /\ task.ev # None /\ task.ev.tree = Recorded
    BY ShownTree
  <2>2. Recorded \in Written
    <3>1. task.ev \in EvidenceSet
      BY <2>1, TaskFields DEF TypeOK
    <3> QED
      BY <2>1, <3>1 DEF EvidenceSet
  <2>3. \A f \in Files : disk[f] = Recorded[f]
    BY <2>1, <2>2, Numbers DEF Drift, Written
  <2>4. disk = Recorded
    BY <2>2, <2>3 DEF TypeOK, Trees, Written
  <2> QED
    BY <2>1, <2>4
<1> QED
  BY <1>1, RowsHold, PTL

\* A reservation that ended and its task agree, or what the task shows since is
\* explained: by files written after it, which is marked, by a revised contract, or
\* by the result of a later execution, of which there are only ever more.
THEOREM RecordsStayTogether == Spec => []RecordsAgree
<1>1. RecordsInv /\ TypeOK => RecordsAgree
  <2> SUFFICES ASSUME RecordsInv, TypeOK, NEW d \in Reserved, decisions[d].state \in Results
               PROVE  \/ Agrees(d) \/ task.ver = "VERIFICATION_STALE"
                      \/ \E e \in Reserved : /\ decisions[e].state \in Results
                                             /\ decisions[e].rev > decisions[d].rev
    BY DEF RecordsAgree
  <2>1. d \in Decisions
    BY DEF Reserved
  <2>2. \A e \in Decisions : decisions[e].state \in Results => e \in Reserved
    BY DEF Reserved, Executed
  <2>3. decisions[d].contract \in Nat /\ task.contract \in Nat
    BY <2>1, TaskFields DEF TypeOK, DecisionSet
  <2>4. decisions[d].contract < task.contract => decisions[d].contract # task.contract
    BY <2>3
  <2> QED
    BY <2>1, <2>2, <2>4 DEF RecordsInv, Agrees
<1> QED
  BY <1>1, RowsHold, PTL

-----------------------------------------------------------------------------
(* What approval binds.                                                     *)

\* No run is attempted and no file is written for a run by a step.
NoneTried ==
  \A r \in 1..MaxRev : runs[r] # None /\ ~runs[r].tried => ~runs'[r].tried

Approved(r) == runs[r].approved /\ Named(r)

\* A run that is written was read with the row, which is still the row that names it.
LEMMA FencedRun ==
  ASSUME TaskInv, NEW p \in Procs, At(p, "put"), Fence(p)
  PROVE  Approved(proc[p].run)
<1>1. Knows(proc[p])
  BY DEF TaskInv
<1>2. task.rev = proc[p].rev /\ proc[p].at = "put" /\ runs[proc[p].run].approved
  BY DEF Fence, Unchanged, MayStart, At
<1> QED
  BY <1>1, <1>2 DEF Knows, RowKnown, Prepared, Named, Approved

LEMMA PlansTryNothing ==
  ASSUME TypeOK, OnceInv, TaskInv, NEW p \in Procs, Plans(p)
  PROVE  NoneTried
<1>1. \A r \in 1..MaxRev : runs[r] # None => runs[r] \in RunSet
  BY DEF TypeOK
<1>2. DOMAIN runs = 1..MaxRev
  BY DEF TypeOK
<1>3. CASE runs' = runs
  BY <1>3 DEF NoneTried
<1>4. CASE CreateRun(p)
  BY <1>2, <1>4 DEF CreateRun, NoneTried
<1>5. CASE RevokeRun(p)
  <2>1. runs' = [runs EXCEPT ![proc[p].run].approved = FALSE]
    BY <1>5 DEF RevokeRun
  <2> QED
    BY <1>1, <1>2, <2>1 DEF NoneTried, RunSet
<1>6. CASE CancelRun(p)
  <2>1. runs' = [runs EXCEPT ![proc[p].run] = Cancelled(runs[proc[p].run])]
    BY <1>6 DEF CancelRun
  <2>2. \A r \in RunSet : Cancelled(r).tried = r.tried
    BY DEF Cancelled, RunSet
  <2> QED
    BY <1>1, <1>2, <2>1, <2>2 DEF NoneTried
<1>7. CASE ApproveRun(p)
  <2> DEFINE r == proc[p].run
             x == [runs[r] EXCEPT !.approved = TRUE, !.state = "READY"]
  <2>1. r \in 1..MaxRev /\ runs[r] # None /\ runs[r] \in RunSet
    BY <1>1, <1>7, Reading DEF ApproveRun, Carried, RunKnown, At
  <2>2. [runs EXCEPT ![r].approved = TRUE, ![r].state = "READY"] = [runs EXCEPT ![r] = x]
    BY <2>1 DEF TypeOK, RunSet
  <2>3. runs' = [runs EXCEPT ![r] = x] \/ runs' = runs
    BY <1>7, <2>2 DEF ApproveRun
  <2>4. x.tried = runs[r].tried
    BY <2>1 DEF RunSet
  <2> HIDE DEF x
  <2> QED
    BY <1>2, <1>3, <2>1, <2>3, <2>4 DEF NoneTried
<1>8. CASE Crash(p)
  <2>1. runs' = [r \in 1..MaxRev |-> IF runs[r] # None /\ runs[r].owner = p
                                    THEN [runs[r] EXCEPT !.owner = "dead"] ELSE runs[r]]
    BY <1>8 DEF Crash
  <2>2. ASSUME NEW r \in 1..MaxRev, runs[r] # None
        PROVE  runs'[r].tried = runs[r].tried
    <3>1. [runs[r] EXCEPT !.owner = "dead"].tried = runs[r].tried
      BY <1>1, <2>2 DEF RunSet
    <3> QED
      BY <2>1, <3>1
  <2> QED
    BY <2>2 DEF NoneTried
<1>9. CASE \/ CreateTask(p) \/ RecordPlan(p)
           \/ BeginDraft(p) \/ CommitDraft(p) \/ BeginClarify(p) \/ CommitClarify(p)
           \/ BeginPrepare(p) \/ CommitPrepare(p) \/ AttachRun(p)
           \/ BeginReview(p) \/ BeginReject(p) \/ CommitReview(p) \/ CommitReject(p)
           \/ BeginApprove(p)
  BY <1>3, <1>9 DEF CreateTask, RecordPlan, BeginDraft, CommitDraft, BeginClarify, CommitClarify,
     BeginPrepare, CommitPrepare, AttachRun, BeginReview, BeginReject, CommitReview, CommitReject,
     BeginApprove, Finish
<1> QED
  BY <1>4, <1>5, <1>6, <1>7, <1>8, <1>9 DEF Plans

\* The worker attempts a workflow that is approved, and so the one that is named.
LEMMA WorkersTry ==
  ASSUME TypeOK, TaskInv, NEW s \in 1..MaxRev, WorkerStep(s), NEW r \in 1..MaxRev,
         runs[r] # None, runs[r].op = "workflow", ~runs[r].tried, runs'[r].tried
  PROVE  Approved(r)
<1>1. runs[r] \in RunSet /\ DOMAIN runs = 1..MaxRev
  BY DEF TypeOK
<1>a. \A q \in RunSet : \A o, st, b :
        /\ [q EXCEPT !.owner = o].tried = q.tried
        /\ [q EXCEPT !.owner = o, !.state = st].tried = q.tried
        /\ [q EXCEPT !.approved = b].tried = q.tried
  BY DEF RunSet
<1>b. ~WorkerClaims(s)
  <2> SUFFICES ASSUME WorkerClaims(s) PROVE FALSE
    OBVIOUS
  <2>1. runs' = [runs EXCEPT ![s] = [runs[s] EXCEPT !.owner = "worker"]]
    BY DEF WorkerClaims
  <2>2. runs'[r] = IF r = s THEN [runs[r] EXCEPT !.owner = "worker"] ELSE runs[r]
    BY <1>1, <2>1
  <2> QED BY <1>1, <1>a, <2>2
<1>c. ~WorkerEnds(s)
  <2> SUFFICES ASSUME NEW st, runs' = [runs EXCEPT ![s].owner = None, ![s].state = st] PROVE FALSE
    BY DEF WorkerEnds
  <2>1. runs'[r] = IF r = s THEN [runs[r] EXCEPT !.owner = None, !.state = st] ELSE runs[r]
    BY <1>1
  <2> QED BY <1>1, <1>a, <2>1
<1>d. ~ApprovalExpires(s)
  <2> SUFFICES ASSUME ApprovalExpires(s) PROVE FALSE
    OBVIOUS
  <2>1. runs' = [runs EXCEPT ![s] = [runs[s] EXCEPT !.approved = FALSE]]
    BY DEF ApprovalExpires
  <2>2. runs'[r] = IF r = s THEN [runs[r] EXCEPT !.approved = FALSE] ELSE runs[r]
    BY <1>1, <2>1
  <2> QED BY <1>1, <1>a, <2>2
<1>e. WorkerAttempts(s)
  BY <1>b, <1>c, <1>d DEF WorkerStep
<1>f. r = s
  <2>1. runs' = [runs EXCEPT ![s] = [runs[s] EXCEPT !.tried = TRUE]]
    BY <1>e DEF WorkerAttempts
  <2> QED BY <1>1, <2>1
<1>2. r = s /\ WorkerAttempts(s)
  BY <1>e, <1>f
<1>3. Workable(r) /\ runs[r].approved
  BY <1>2 DEF WorkerAttempts, MayStart, Workable
<1> QED
  BY <1>3 DEF TaskInv, Approved

\* What is attempted or written behind the fence is for the run that is named.
TriedByFence(p) ==
  \A r \in 1..MaxRev : runs[r] # None /\ ~runs[r].tried /\ runs'[r].tried =>
    r = proc[p].run /\ At(p, "put") /\ Fence(p)

LEMMA ReleaseTriesNothing ==
  ASSUME TypeOK, NEW p \in Procs, Abandon(p)
  PROVE  NoneTried
<1>1. \A r \in 1..MaxRev : runs[r] # None => runs[r] \in RunSet
  BY DEF TypeOK
<1>2. DOMAIN runs = 1..MaxRev
  BY DEF TypeOK
<1>3. \A r \in 1..MaxRev :
        runs'[r] = runs[r] \/ runs'[r] = [runs[r] EXCEPT !.owner = None, !.lease = FALSE]
  <2>1. runs' = [r \in 1..MaxRev |-> IF r = proc[p].run /\ runs[r].owner = p
                   THEN [runs[r] EXCEPT !.owner = None, !.lease = FALSE] ELSE runs[r]]
    BY <1>2 DEF Abandon, Released
  <2> QED
    BY <2>1, Zenon
<1>4. \A r \in RunSet : [r EXCEPT !.owner = None, !.lease = FALSE].tried = r.tried
  BY DEF RunSet
<1> QED
  BY <1>1, <1>3, <1>4 DEF NoneTried

LEMMA BuildsTry ==
  ASSUME TypeOK, TaskInv, NEW p \in Procs, Builds(p)
  PROVE  TriedByFence(p)
<1>1. \A r \in 1..MaxRev : runs[r] # None => runs[r] \in RunSet
  BY DEF TypeOK
<1>2. DOMAIN runs = 1..MaxRev
  BY DEF TypeOK
<1>3. CASE NoneTried
  BY <1>3 DEF NoneTried, TriedByFence
<1>4. CASE runs' = runs
  BY <1>4 DEF TriedByFence
<1>5. ASSUME NEW s, NEW row, runs' = [runs EXCEPT ![s] = row],
             runs[s] \in RunSet => row.tried = runs[s].tried
      PROVE  NoneTried
  BY <1>1, <1>2, <1>5 DEF NoneTried
<1>6. CASE InsertFileset(p)
  <2>1. CASE runs' # runs
    <3> DEFINE new == NewRun(proc[p].arg.op, proc[p].arg.base, proc[p].arg.failure)
    <3>1. \A r \in 1..MaxRev : runs[r] # None => runs'[r] \in {runs[r], Superseded(r)}
      <4>1. /\ runs[proc[p].rev] = None
            /\ runs' = [k \in DOMAIN runs |-> IF k = proc[p].rev THEN new
                          ELSE IF k = proc[p].run THEN Superseded(k) ELSE runs[k]]
        BY <1>6, <2>1 DEF InsertFileset
      <4> HIDE DEF new
      <4> QED
        BY <1>2, <4>1
    <3>2. \A r \in 1..MaxRev : runs[r] # None => Superseded(r).tried = runs[r].tried
      BY <1>1 DEF Superseded, RunSet
    <3>3. NoneTried
      BY <3>1, <3>2 DEF NoneTried
    <3> QED
      BY <1>3, <3>3
  <2> QED
    BY <1>4, <2>1
<1>7. CASE ClaimFileset(p)
  <2> DEFINE r == proc[p].run
             mine == [runs[r] EXCEPT !.owner = p, !.lease = TRUE, !.state = "MATERIALIZING"]
             free == [runs[r] EXCEPT !.owner = None, !.lease = FALSE]
  <2>1. \/ runs' = runs
        \/ runs' = [runs EXCEPT ![r] = mine]
        \/ runs' = [runs EXCEPT ![r] = free]
    BY <1>7 DEF ClaimFileset
  <2>2. runs[r] \in RunSet => mine.tried = runs[r].tried /\ free.tried = runs[r].tried
    BY DEF RunSet
  <2> HIDE DEF mine, free, r
  <2>3. runs' = runs \/ NoneTried
    BY <1>5, <2>1, <2>2
  <2> QED
    BY <1>3, <1>4, <2>3
<1>8. CASE PutFile(p)
  <2>1. CASE Abandon(p)
    BY <1>3, <2>1, ReleaseTriesNothing
  <2>2. CASE ~Abandon(p)
    <3>1. At(p, "put") /\ Fence(p) /\ runs' = [runs EXCEPT ![proc[p].run].tried = TRUE]
      BY <1>8, <2>2 DEF PutFile
    <3> QED
      BY <1>2, <3>1 DEF TriedByFence
  <2> QED
    BY <2>1, <2>2
<1>9. CASE EndFiles(p)
  <2>1. CASE Abandon(p)
    BY <1>3, <2>1, ReleaseTriesNothing
  <2>2. CASE ~Abandon(p)
    <3> DEFINE r == proc[p].run
               state == IF proc[p].arg.outcome = "MATERIALIZED" THEN "COMPLETED" ELSE "WAITING_HUMAN"
               row == [runs[r] EXCEPT !.state = state, !.tried = TRUE]
    <3>1. At(p, "put") /\ Fence(p) /\ runs' = [runs EXCEPT ![r] = row]
      BY <1>9, <2>2 DEF EndFiles
    <3> HIDE DEF row
    <3> QED
      BY <1>2, <3>1 DEF TriedByFence
  <2> QED
    BY <2>1, <2>2
<1>10. CASE Settle(p)
  BY <1>3, <1>10, ReleaseTriesNothing DEF Settle
<1>11. CASE CommitRevise(p)
  <2> DEFINE row == [runs[task.run] EXCEPT !.control = "cancel"]
  <2>1. runs' = runs \/ runs' = [runs EXCEPT ![task.run] = row]
    BY <1>11 DEF CommitRevise
  <2>2. runs[task.run] \in RunSet => row.tried = runs[task.run].tried
    BY DEF RunSet
  <2> HIDE DEF row
  <2> QED
    BY <1>3, <1>4, <1>5, <2>1, <2>2
<1>12. CASE \/ BeginSubmit(p) \/ BeginRepair(p) \/ RecordFileset(p) \/ BeginFiles(p)
            \/ ReadLatest(p) \/ BeginVerify(p) \/ EndVerify(p) \/ BeginRevise(p)
  BY <1>4, <1>12 DEF BeginSubmit, BeginRepair, RecordFileset, BeginFiles, ReadLatest, BeginVerify,
     EndVerify, BeginRevise, Finish
<1> QED
  BY <1>6, <1>7, <1>8, <1>9, <1>10, <1>11, <1>12 DEF Builds

LEMMA LapsesTryNothing ==
  ASSUME TypeOK, NEW s \in 1..MaxRev, LeaseLapses(s)
  PROVE  NoneTried
<1>1. runs[s] \in RunSet /\ DOMAIN runs = 1..MaxRev
  BY DEF TypeOK, LeaseLapses
<1> QED
  BY <1>1 DEF LeaseLapses, NoneTried, RunSet

\* The disk changes by a write behind the fence or by a foreign program.
LEMMA DiskMoves ==
  ASSUME [Next]_vars, disk' # disk
  PROVE  \/ \E p \in Procs : \E f :
              At(p, "put") /\ Fence(p) /\ disk' = [disk EXCEPT ![f] = proc[p].run]
         \/ \E f \in Files : disk' = [disk EXCEPT ![f] = Foreign]
<1>1. CASE DecisionNext
  BY <1>1 DEF DecisionNext, Decides, BeginIssue, CommitIssue, BeginExecute, Reserve, Start, Commit,
     Revoke, DecisionLapses, ClockSetBack, ReservationLapses, bootVars
<1>2. ASSUME NEW p \in Procs, Builds(p)
      PROVE  \E f : At(p, "put") /\ Fence(p) /\ disk' = [disk EXCEPT ![f] = proc[p].run]
  <2>1. PutFile(p)
    BY <1>2 DEF Builds, BeginSubmit, BeginRepair, InsertFileset, RecordFileset, BeginFiles,
       ClaimFileset, EndFiles, ReadLatest, Settle, BeginVerify, EndVerify, BeginRevise,
       CommitRevise, bootVars
  <2> QED
    BY <2>1 DEF PutFile
<1>3. CASE \E r \in DOMAIN runs : LeaseLapses(r)
  BY <1>3 DEF LeaseLapses, bootVars
<1>4. CASE \E f \in Files : ForeignEdit(f)
  BY <1>4 DEF ForeignEdit
<1>5. CASE (TaskNext /\ UNCHANGED bootVars) \/ UNCHANGED vars
  BY <1>5 DEF bootVars, vars
<1> QED
  BY <1>1, <1>2, <1>3, <1>4, <1>5 DEF Next, BuildNext

LEMMA NextActs ==
  ASSUME TypeOK, OnceInv, TaskInv, [Next]_vars, NEW r \in 1..MaxRev, Acts(r)
  PROVE  Approved(r)
<1>1. CASE \E f \in Files : disk[f] # r /\ disk'[f] = r
  <2>1. PICK f \in Files : disk[f] # r /\ disk'[f] = r
    BY <1>1
  <2>2. disk' # disk /\ DOMAIN disk = Files /\ Foreign # r
    BY <2>1, Numbers DEF TypeOK, Trees
  <2>3. PICK p \in Procs : \E g :
          At(p, "put") /\ Fence(p) /\ disk' = [disk EXCEPT ![g] = proc[p].run]
    <3>1. ~\E g \in Files : disk' = [disk EXCEPT ![g] = Foreign]
      BY <2>1, <2>2
    <3> QED
      BY <2>2, <3>1, DiskMoves
  <2>4. r = proc[p].run
    BY <2>1, <2>2, <2>3
  <2> QED
    BY <2>3, <2>4, FencedRun
<1>2. CASE runs[r] # None /\ runs[r].op = "workflow" /\ ~runs[r].tried /\ runs'[r].tried
  <2>1. CASE NoneTried
    BY <1>2, <2>1 DEF NoneTried
  <2>2. CASE runs' = runs
    BY <1>2, <2>2
  <2>3. CASE \E p \in Procs : Plans(p)
    BY <2>1, <2>3, PlansTryNothing
  <2>4. CASE \E s \in 1..MaxRev : WorkerStep(s)
    BY <1>2, <2>4, WorkersTry
  <2>5. CASE \E p \in Procs : Builds(p)
    BY <1>2, <2>5, BuildsTry, FencedRun DEF TriedByFence
  <2>6. CASE \E s \in DOMAIN runs : LeaseLapses(s)
    BY <2>1, <2>6, LapsesTryNothing DEF TypeOK
  <2>7. CASE DecisionNext \/ (\E f \in Files : ForeignEdit(f)) \/ UNCHANGED vars
    <3>1. runs' = runs
      BY <2>7 DEF DecisionNext, Decides, BeginIssue, CommitIssue, BeginExecute, Reserve, Start,
         Commit, Revoke, DecisionLapses, ClockSetBack, ReservationLapses, ForeignEdit, vars
    <3> QED
      BY <2>2, <3>1
  <2> QED
    BY <2>3, <2>4, <2>5, <2>6, <2>7 DEF Next, BuildNext, TaskNext
<1> QED
  BY <1>1, <1>2 DEF Acts

\* Approval binds one proposal: a workflow is attempted and a file is written only for
\* the run that the row names, approved, of an objective that was not rejected, however
\* reviews, rejections and proposals of other processes interleave with the coordinator.
THEOREM ApprovalBindsOneRun == Spec => OnlyTheNamedRunActs
<1>1. TypeOK /\ OnceInv /\ TaskInv /\ [Next]_vars =>
        [\A r \in DOMAIN runs : Acts(r) =>
           runs[r].approved /\ task.run = r /\ task.state # "REJECTED"]_vars
  <2> SUFFICES ASSUME TypeOK, OnceInv, TaskInv, [Next]_vars, NEW r \in DOMAIN runs, Acts(r)
               PROVE  runs[r].approved /\ task.run = r /\ task.state # "REJECTED"
    OBVIOUS
  <2>1. r \in 1..MaxRev
    BY DEF TypeOK
  <2> QED
    BY <2>1, NextActs DEF Approved, Named
<1> QED
  BY <1>1, RowsHold, PTL DEF Spec, OnlyTheNamedRunActs

=============================================================================
