----------------------------- MODULE RunDecision -----------------------------
(***************************************************************************)
(* From a finished run to the workspace: local reviews of it (src/src/review.ts, *)
(* auto-review.ts), their import into the ledger of the Objective and their *)
(* correction there (ledger.ts), and the application of the patch (apply.ts). *)
(*                                                                         *)
(* A review takes no lock: two of them may take the same number and write  *)
(* the same files.  Import, correction and application go through the      *)
(* mutation engine, here with a lock that is broken only when its holder is *)
(* gone; ObjectiveLedger has its phases and its broken locks.              *)
(***************************************************************************)
EXTENDS ObjectiveReplay, RunEvidence, FiniteSets

CONSTANTS
  Procs,        \* processes that run commands
  Traces,       \* what the run may have left (TraceSet)
  MaxReviews,   \* bound: reviews started
  MaxEvents,    \* bound on the events in the ledger when a lock is taken
  MaxCrashes    \* bound: processes that die

Verdicts == {"ACCEPTED", "REJECTED"}

ASSUME DecisionAssumption ==
  /\ None \notin Procs \cup Nat \cup (Nat \X Nat)
  /\ Traces \subseteq TraceSet
  /\ MaxReviews \in Nat /\ MaxEvents \in Nat /\ MaxCrashes \in Nat

VARIABLES
  trace,      \* the artifacts of the run
  intact,     \* they still hash to what the summary recorded
  bundles,    \* reviews/<run>-review-NNN/evidence-bundle.json, by number
  started,    \* reviews started; createdAt makes each bundle one of its own
  localFile,  \* review-decision.local.json of the run, or NoReview
  log,        \* the ledger of the Objective, with the item of the run attached
  inForce,    \* the decision in force, as a replay of it derives it
  workspace,  \* the patch is not in it, applied, or half applied
  lock, pc, cmd,
  crashes     \* so far

artifacts == <<trace, intact>>
reviews == <<bundles, started, localFile>>
local == <<pc, cmd>>
objective == <<log, inForce>>
vars == <<artifacts, reviews, objective, workspace, lock, local, crashes>>

NoReview == [decision |-> NoDecision, ready |-> FALSE]
NoCommand == [op |-> "REVIEW", number |-> 0, stamp |-> 0, waived |-> {},
              decision |-> NoDecision, ready |-> FALSE]
Critical == {"check", "append", "git", "record"}
Phases == {"idle", "numbered", "bundled", "written", "import", "apply"} \cup Critical

TypeOK ==
  /\ trace \in Traces
  /\ intact \in BOOLEAN
  /\ bundles \in Seq([stamp : 1..started, intact : BOOLEAN])
  /\ started \in 0..MaxReviews
  /\ localFile.ready \in BOOLEAN
  /\ workspace \in {"without", "applied", "half applied"}
  /\ lock \in Procs \cup {None}
  /\ pc \in [Procs -> Phases]
  /\ \A p \in Procs :
       pc[p] \in {"numbered", "bundled", "written"} => cmd[p].number \in 1..MaxReviews
  /\ crashes \in 0..MaxCrashes

-----------------------------------------------------------------------------
(* What a reviewer, and what the policy, may accept.                        *)

\* classifyGap: nobody can stand in for evidence that is cut or was changed.
Mutant_CutIsNoDefect(b) == IF b.intact THEN {} ELSE {"HASH_INVALID"}
Defects(b) == (IF b.intact THEN {} ELSE {"HASH_INVALID"}) \cup (trace.gaps \cap Unwaivable)
CapabilityGaps == trace.gaps \ Unwaivable
BundleComplete(b) == Defects(b) = {} /\ CapabilityGaps = {}

EvaluateAcceptance(b, waived) ==
  /\ Defects(b) = {}
  /\ CapabilityGaps \subseteq waived
  /\ trace.done /\ trace.gate /\ ~trace.violation

\* A gap a person could waive stops the policy.
EvaluateAutoReview(b, waived) ==
  /\ trace.auto /\ ~trace.explicit /\ trace.low
  /\ BundleComplete(b)
  /\ EvaluateAcceptance(b, waived)

\* What reviewRun refuses after its bundle has been written.
MayDecide(b, c) ==
  /\ c.decision.verdict = "ACCEPTED" => EvaluateAcceptance(b, c.waived)
  /\ c.decision.actor \in trace.allowed
  /\ c.decision.actor = "SYSTEM_POLICY" =>
       c.decision.verdict = "ACCEPTED" /\ EvaluateAutoReview(b, c.waived)

\* deriveLocalReviewStatus: MIGRATION_READY or MIGRATION_READY_WAIVED.
MigrationReady(b, c) ==
  /\ Defects(b) = {}
  /\ IF c.decision.verdict = "ACCEPTED" THEN EvaluateAcceptance(b, c.waived)
                                        ELSE BundleComplete(b)

-----------------------------------------------------------------------------
(* The ledger, as apply and import read it.                                 *)

Decided == Reviews(log)
LastDecision == {log[k].decision : k \in {m \in Decided : \A j \in Decided : j <= m}}
AlreadyApplied == \E k \in DOMAIN log : log[k].type = "APPLIED"
Imported(id) == {k \in Decided : log[k].decision.id = id}

\* planApply: the decision of the run that comes last in the ledger, whether it
\* is in force or not.
Mutant_AnyAcceptance == \E k \in Decided : log[k].decision.verdict = "ACCEPTED"
AcceptedLast == \E d \in LastDecision : d.verdict = "ACCEPTED"
Applicable ==
  /\ AcceptedLast
  /\ trace.isolated
  /\ trace.gaps \cap {"GIT_DIFF_FAILED", Cut, "VERIFICATION_OUTPUT_TRUNCATED"} = {}

-----------------------------------------------------------------------------
Attaching == [Blank EXCEPT !.type = "ATTACHED", !.seq = 2, !.item = 1]

Init ==
  /\ trace \in Traces
  /\ intact = TRUE
  /\ bundles = <<>> /\ started = 0 /\ localFile = NoReview
  /\ log = <<[Blank EXCEPT !.seq = 1], Attaching>> /\ inForce = {}
  /\ workspace = IF trace.isolated THEN "without" ELSE "applied"
  /\ lock = None
  /\ pc = [p \in Procs |-> "idle"]
  /\ cmd = [p \in Procs |-> NoCommand]
  /\ crashes = 0

Goto(p, phase) == pc' = [pc EXCEPT ![p] = phase]
Exit(p) == Goto(p, "idle") /\ cmd' = [cmd EXCEPT ![p] = NoCommand]
Live(p) == pc[p] \in Critical

(* reviewRun.                                                               *)

\* nextReviewDecisionId: the directories there are, read without a lock.
NextReviewDecisionId == Len(bundles) + 1

Number(p) ==
  /\ pc[p] = "idle"
  /\ started < MaxReviews
  /\ started' = started + 1
  /\ \E v \in Verdicts, a \in Actors, w \in SUBSET CapabilityGaps :
       cmd' = [cmd EXCEPT ![p] =
                 [NoCommand EXCEPT
                   !.number = NextReviewDecisionId, !.stamp = started', !.waived = w,
                   !.decision = [NoDecision EXCEPT !.verdict = v, !.actor = a]]]
  /\ Goto(p, "numbered")
  /\ UNCHANGED <<artifacts, bundles, localFile, objective, workspace, lock, crashes>>

\* The bundle is written before the verdict is judged; a refused one stays.
Bundle(p) ==
  LET c == cmd[p]
      b == [stamp |-> c.stamp, intact |-> intact]
  IN  /\ pc[p] = "numbered"
      /\ bundles' = IF c.number <= Len(bundles) THEN [bundles EXCEPT ![c.number] = b]
                                                ELSE Append(bundles, b)
      /\ IF MayDecide(b, c)
           THEN /\ cmd' = [cmd EXCEPT ![p].ready = MigrationReady(b, c)]
                /\ Goto(p, "bundled")
           ELSE Exit(p)
      /\ UNCHANGED <<artifacts, started, localFile, objective, workspace, lock, crashes>>

\* The reference to the bundle hashes the file that is there now.
BundleHash(p) == bundles[cmd[p].number].stamp

Refer(p) ==
  /\ pc[p] = "bundled"
  /\ cmd' = [cmd EXCEPT ![p].decision =
               [@ EXCEPT !.id = <<cmd[p].number, 0>>,
                         !.bundle = BundleHash(p),
                         !.proved = trace.done /\ trace.gate,
                         !.allowed = trace.allowed]]
  /\ Goto(p, "written")
  /\ UNCHANGED <<artifacts, reviews, objective, workspace, lock, crashes>>

WriteLocal(p) ==
  /\ pc[p] = "written"
  /\ localFile' = [decision |-> cmd[p].decision, ready |-> cmd[p].ready]
  /\ Exit(p)
  /\ UNCHANGED <<artifacts, bundles, started, objective, workspace, lock, crashes>>

(* What is read before the lock: the local review to import, the plan to   *)
(* apply.                                                                  *)

BeginImport(p) ==
  /\ pc[p] = "idle"
  /\ localFile # NoReview
  /\ cmd' = [cmd EXCEPT ![p] = [NoCommand EXCEPT !.op = "IMPORT", !.ready = localFile.ready,
                                                 !.decision = localFile.decision]]
  /\ Goto(p, "import")
  /\ UNCHANGED <<artifacts, reviews, objective, workspace, lock, crashes>>

PlanApply(p) ==
  /\ pc[p] = "idle"
  /\ Applicable \/ AlreadyApplied
  /\ \E d \in LastDecision :
       cmd' = [cmd EXCEPT ![p] = [NoCommand EXCEPT !.op = "APPLY", !.decision = d]]
  /\ Goto(p, "apply")
  /\ UNCHANGED <<artifacts, reviews, objective, workspace, lock, crashes>>

Acquire(p) ==
  /\ lock = None
  /\ Len(log) < MaxEvents
  /\ \/ pc[p] \in {"import", "apply"} /\ UNCHANGED cmd
     \/ /\ pc[p] = "idle"
        /\ \E k \in Decided :
             cmd' = [cmd EXCEPT ![p] = [NoCommand EXCEPT !.op = "CORRECT",
                                                         !.decision = log[k].decision]]
  /\ lock' = p
  /\ Goto(p, "check")
  /\ UNCHANGED <<artifacts, reviews, objective, workspace, crashes>>

NotAcquired(p) ==
  /\ pc[p] \in {"import", "apply"}
  /\ Exit(p)
  /\ UNCHANGED <<artifacts, reviews, objective, workspace, lock, crashes>>

(* M2 and M3.  Nothing they read but the workspace changes under the lock.  *)

Leave(p) == lock' = None /\ Exit(p)

\* An import of the same number counts as applied, or with another bundle is refused.
CheckImport(p) ==
  LET d == cmd[p].decision IN
  /\ pc[p] = "check" /\ cmd[p].op = "IMPORT"
  /\ \/ /\ cmd[p].ready /\ Imported(d.id) = {}
        /\ Goto(p, "append")
        /\ UNCHANGED <<lock, cmd>>
     \/ /\ ~cmd[p].ready \/ Imported(d.id) # {}
        /\ Leave(p)
  /\ UNCHANGED <<artifacts, reviews, objective, workspace, crashes>>

CheckCorrect(p) ==
  /\ pc[p] = "check" /\ cmd[p].op = "CORRECT"
  /\ IF \E k \in Decided : log[k].decision.overturns = cmd[p].decision.id
       THEN Leave(p)
       ELSE Goto(p, "append") /\ UNCHANGED <<lock, cmd>>
  /\ UNCHANGED <<artifacts, reviews, objective, workspace, crashes>>

\* The plan is made again, and git says whether the patch fits.  A workspace that
\* holds it already is one it does not fit.
StillApplicable(p) == Applicable /\ ~AlreadyApplied /\ workspace = "without"
CheckApply(p) ==
  /\ pc[p] = "check" /\ cmd[p].op = "APPLY"
  /\ \/ StillApplicable(p) /\ Goto(p, "git") /\ UNCHANGED <<lock, cmd>>
     \/ Leave(p)
  /\ UNCHANGED <<artifacts, reviews, objective, workspace, crashes>>

(* M4 to M7.                                                                *)

Correction(d) ==
  [d EXCEPT !.id = <<d.id[1], d.id[2] + 1>>, !.overturns = d.id, !.verdict = "REJECTED"]

\* A replay after the append.
Replayed(events) == LET o == Ordered(events) IN InForce(o, Queue(o), 2)

Event(type, d) == [Blank EXCEPT !.type = type, !.seq = Len(log) + 1, !.item = 1,
                                !.decision = d]

Decide(p) ==
  /\ pc[p] = "append"
  /\ log' = Append(log, Event("REVIEWED", IF cmd[p].op = "IMPORT" THEN cmd[p].decision
                                          ELSE Correction(cmd[p].decision)))
  /\ inForce' = Replayed(log')
  /\ Leave(p)
  /\ UNCHANGED <<artifacts, reviews, workspace, crashes>>

Mutant_AnyExitCode(after) == TRUE
Succeeded(after) == after = "applied"

\* git apply, and the failure after a check that passed.
GitApply(p) ==
  /\ pc[p] = "git"
  /\ \E after \in {"applied", "without", "half applied"} :
       /\ workspace' = after
       /\ IF Succeeded(after) THEN Goto(p, "record") /\ UNCHANGED <<lock, cmd>>
                              ELSE Leave(p)
  /\ UNCHANGED <<artifacts, reviews, objective, crashes>>

\* The decision that is recorded is that of the plan made before the lock.
Record(p) ==
  /\ pc[p] = "record"
  /\ log' = Append(log, Event("APPLIED", cmd[p].decision))
  /\ inForce' = Replayed(log')
  /\ Leave(p)
  /\ UNCHANGED <<artifacts, reviews, workspace, crashes>>

-----------------------------------------------------------------------------
\* An artifact of the run is edited or lost.
Damage ==
  /\ intact
  /\ intact' = FALSE
  /\ UNCHANGED <<trace, reviews, objective, workspace, lock, local, crashes>>

Crash(p) ==
  /\ pc[p] # "idle"
  /\ crashes < MaxCrashes
  /\ crashes' = crashes + 1
  /\ workspace' \in {workspace} \cup (IF pc[p] = "git" THEN {"half applied"} ELSE {})
  /\ Exit(p)
  /\ UNCHANGED <<artifacts, reviews, objective, lock>>

BreakLock ==
  /\ lock # None
  /\ ~Live(lock)
  /\ lock' = None
  /\ UNCHANGED <<artifacts, reviews, objective, workspace, local, crashes>>

Next ==
  \/ \E p \in Procs :
       \/ Number(p) \/ Bundle(p) \/ Refer(p) \/ WriteLocal(p)
       \/ BeginImport(p) \/ PlanApply(p) \/ Acquire(p) \/ NotAcquired(p)
       \/ CheckImport(p) \/ CheckCorrect(p) \/ CheckApply(p)
       \/ Decide(p) \/ GitApply(p) \/ Record(p) \/ Crash(p)
  \/ Damage \/ BreakLock

Spec == Init /\ [][Next]_vars

-----------------------------------------------------------------------------
(* Safety.                                                                 *)

IsVerified == \E d \in inForce : d.verdict = "ACCEPTED" /\ d.proved

\* VERIFIED is earned: nothing a person cannot stand in for was stood in for, and
\* a person did the accepting, because every run has the gap of the commands no one
\* observed and the policy accepts no run with a gap, not even a waived one
\* (evaluateAutoReview: "exactly the state a human may accept and CodeFleet may
\* not"), through every file on the way to the ledger.
VerifiedIsEarned ==
  \A d \in inForce : d.verdict = "ACCEPTED" =>
    /\ trace.done /\ trace.gate /\ ~trace.violation
    /\ Cut \notin trace.gaps
    /\ d.actor = "HUMAN"

\* An application follows a decision that was ACCEPTED and was the last one when
\* the patch went in, also when the run was reviewed again after the application
\* had been planned (applyRunResult: "Asked again inside the lock"), and there is
\* one application at most.
AppliedOnAcceptance ==
  \A k \in DOMAIN log : log[k].type = "APPLIED" =>
    /\ \A j \in DOMAIN log : log[j].type = "APPLIED" => j = k
    /\ \E m \in Decided :
         /\ m < k /\ log[m].decision.verdict = "ACCEPTED"
         /\ \A j \in Decided : j < k => j <= m

\* What is recorded as applied is in the workspace, and what was put there is
\* recorded, unless a process died between the two.
WorkspaceIsRecorded ==
  /\ AlreadyApplied => workspace = "applied"
  /\ (workspace = "applied" /\ trace.isolated /\ crashes = 0) =>
       AlreadyApplied \/ \E p \in Procs : pc[p] = "record"

\* An item becomes VERIFIED by a new decision only: correcting a decision, also
\* one that rejected, does not bring an overturned one back (applyReviewDecisions).
VerifiedByNewDecision ==
  [][~IsVerified /\ IsVerified' =>
       LET d == log'[Len(log')].decision IN
       d.overturns = None /\ Imported(d.id) = {}]_objective

=============================================================================
