------------------------------- MODULE TaskRun -------------------------------
(***************************************************************************)
(* One run of src/alpha/controller.mjs (execute) with its row in            *)
(* alpha/store.mjs, its provider, its verifier and the pull request of      *)
(* alpha/delivery.mjs.  Several executions of the run may overlap: a worker *)
(* that crashes, hangs or is replaced keeps its in-memory copy `run`, and   *)
(* only the fence of the row (WorkerLease, FencedStore) separates them.     *)
(*                                                                          *)
(* An action is what happens between two points where another process can   *)
(* get in: an await, or a statement on the database.  So a guard() and the  *)
(* save() after it are two actions, and the operator may act in between.    *)
(*                                                                          *)
(* Abstracted: a proposal is a member of Contents (what it does to the      *)
(* declared files); hashes are the values they name; a lease is live until  *)
(* it expires once, by the proof that an observed loss is permanent; the    *)
(* time budget, invalid proposals and every error a service can throw are   *)
(* the nondeterministic action Fail.                                        *)
(***************************************************************************)
EXTENDS Integers

CONSTANTS
  Workers,        \* executions of the run, each in its own process
  Contents,       \* effects a proposal can have on the declared files
  MaxAttempts,    \* contract.maxAttempts
  Modes,          \* delivery modes a contract may have: "local", "pr"
  MaxGrants,      \* bound: number of claims
  MaxSaveErrors   \* bound: transactions SQLite refuses (busy, I/O error)

None == "none"
Foreign == "foreign"  \* a branch of that name somebody else made

ASSUME TaskRunAssumption ==
  /\ MaxAttempts \in Nat
  /\ MaxGrants \in Nat
  /\ MaxSaveErrors \in Nat
  /\ Modes \subseteq {"local", "pr"}
  /\ None \notin Contents /\ Foreign \notin Contents

NoGrant == 0
Delivery == {"DELIVERING", "RECONCILING"}
RunState == {"READY", "BASELINE", "GENERATING", "VERIFYING", "WAITING_HUMAN",
             "PAUSED", "CANCELLED", "COMPLETED"} \cup Delivery
Outcome == {"ACCEPT", "RETRY", "ESCALATE"}
Evidence == [of : Contents, outcome : Outcome]
NoEvidence == [of |-> None, outcome |-> "ESCALATE"]

\* One more than a contract allows, so that exceeding it could be seen.
AttemptNumbers == 1..(MaxAttempts + 1)

\* The fields of a run body that decide what execute does next.
Body ==
  [state : RunState,
   attempts : Nat,                       \* attempts reserved so far
   unknown : Nat,                        \* unknownCostAttempts
   known : Nat,                          \* attempts in reportedCostUsd
   costPending : BOOLEAN,
   baseline : {None, "failing", "other"},
   proposal : Contents \cup {None},      \* proposalHash
   digest : Contents \cup {None},        \* lastProposalDigest
   pending : BOOLEAN,                    \* pendingVerification
   candidate : Contents \cup {None},     \* candidateHash
   evidence : Evidence \cup {NoEvidence},\* lastEvidenceHash, evidenceHash
   accepted : Contents \cup {None}]      \* acceptedHash

NewRun ==
  [state |-> "READY", attempts |-> 0, unknown |-> 0, known |-> 0,
   costPending |-> FALSE, baseline |-> None, proposal |-> None, digest |-> None,
   pending |-> FALSE, candidate |-> None, evidence |-> NoEvidence, accepted |-> None]

\* Where a worker is.  At an await the heartbeat timer can run.
Awaits == {"preparing", "baseline", "awaiting", "fixing", "verifying", "lookup",
           "lookupBranch", "postBranch", "postPr"}
Labels == Awaits \cup
  {"idle", "claimed", "reconcile", "starting", "recovering", "toBaseline", "loop",
   "reserving", "calling", "retrying", "declaring", "intent", "checkBranch",
   "checkPr", "completing", "stopping", "failed", "recording", "done"}

VARIABLES
  mode,        \* contract.delivery.mode
  body,        \* column body of the row
  control,     \* column control
  owner,       \* column owner: index of the claim, or NoGrant
  leaseLive,   \* the owner's lease has not run out
  issued,      \* number of claims so far
  saveErrors,  \* number of saves SQLite has refused
  pc,          \* [Workers -> Labels]
  token,       \* [Workers -> `owner` in execute]
  run,         \* [Workers -> `run` in execute, the in-memory copy]
  leaseLost,   \* the workers whose heartbeat has failed
  reconciling, \* the workers that only reconcile a recorded delivery intent
  readOnly,    \* those of them without permission to write
  sawBranch,   \* [Workers -> `existing` in deliver]
  sawPr,       \* [Workers -> `prs` in deliver]
  branch,      \* GitHub: content of the branch codefleet/<run id>
  pr,          \* GitHub: content of its pull request
  calls,       \* history: [AttemptNumbers -> provider invocations made under it]
  priced,      \* history: number of invocations that answered with a cost
  intents,     \* history: accepted contents of the rows committed in a delivery state
  late         \* history: [Workers -> effects begun after the guard would refuse]

store == <<body, control, owner, leaseLive, issued, saveErrors>>
worker == <<pc, token, run, leaseLost, reconciling, readOnly, sawBranch, sawPr>>
remote == <<branch, pr>>
ghosts == <<calls, priced, intents, late>>
vars == <<mode, store, worker, remote, ghosts>>

TypeOK ==
  /\ mode \in Modes
  /\ body \in Body
  /\ control \in {"run", "pause", "cancel"}
  /\ owner \in Nat /\ issued \in Nat /\ saveErrors \in Nat
  /\ leaseLive \in BOOLEAN
  /\ pc \in [Workers -> Labels]
  /\ token \in [Workers -> Nat]
  /\ run \in [Workers -> Body]
  /\ leaseLost \subseteq Workers
  /\ reconciling \subseteq Workers
  /\ readOnly \subseteq reconciling
  /\ sawBranch \in [Workers -> Contents \cup {None, Foreign}]
  /\ sawPr \in [Workers -> Contents \cup {None, Foreign}]
  /\ branch \in Contents \cup {None, Foreign}
  /\ pr \in Contents \cup {None, Foreign}
  /\ calls \in [AttemptNumbers -> Nat] /\ priced \in Nat
  /\ intents \subseteq Contents
  /\ late \in [Workers -> Nat]

Init ==
  /\ mode \in Modes
  /\ body = NewRun
  /\ control = "run"
  /\ owner = NoGrant /\ leaseLive = FALSE /\ issued = 0 /\ saveErrors = 0
  /\ pc = [w \in Workers |-> "idle"]
  /\ token = [w \in Workers |-> NoGrant]
  /\ run = [w \in Workers |-> NewRun]
  /\ leaseLost = {} /\ reconciling = {} /\ readOnly = {}
  /\ sawBranch = [w \in Workers |-> None]
  /\ sawPr = [w \in Workers |-> None]
  /\ branch \in {None, Foreign}
  /\ pr = None
  /\ calls = [n \in AttemptNumbers |-> 0] /\ priced = 0 /\ intents = {}
  /\ late = [w \in Workers |-> 0]

-----------------------------------------------------------------------------
(* The row: Store.save, control, claim, heartbeat, release                  *)

Goto(w, label) == pc' = [pc EXCEPT ![w] = label]

\* Everything a save leaves alone.
unsaved == <<mode, control, owner, leaseLive, issued, token, leaseLost,
             reconciling, readOnly, sawBranch, sawPr, remote>>

Mutant_AnyOwnerSaves(w) == leaseLive
Fenced(w) == owner = token[w] /\ leaseLive

\* save(): `run` has already changed in memory when the transaction commits, is
\* refused by the fence ("Worker lease lost"), or is refused by SQLite.
Save(w, b, next, onError) ==
  /\ run' = [run EXCEPT ![w] = b]
  /\ \/ /\ Fenced(w)
        /\ body' = b
        /\ Goto(w, next)
        /\ UNCHANGED saveErrors
     \/ /\ ~Fenced(w)
        /\ Goto(w, onError)
        /\ UNCHANGED <<body, saveErrors>>
     \/ /\ Fenced(w) /\ saveErrors < MaxSaveErrors
        /\ saveErrors' = saveErrors + 1
        /\ Goto(w, onError)
        /\ UNCHANGED body
  /\ UNCHANGED unsaved

SaveState(w, s, next) ==
  Save(w, [run[w] EXCEPT !.state = s], next, "failed")

Cancelled == control = "cancel" \/ body.state = "CANCELLED"

\* A delivery whose intent is recorded is never dropped by a cancellation.
Mutant_IntentCancelled(s) == IF s = "COMPLETED" THEN s ELSE "CANCELLED"
Mutant_CancelReconciles(s) == IF s = "COMPLETED" THEN s ELSE "RECONCILING"
StateAfterCancel(s) ==
  IF s = "COMPLETED" THEN s ELSE IF s \in Delivery THEN "RECONCILING" ELSE "CANCELLED"

Control(c) ==
  /\ c \in {"pause", "cancel"}
  /\ Cancelled => c = "cancel"
  /\ control' = c
  /\ body' = IF c = "cancel" THEN [body EXCEPT !.state = StateAfterCancel(@)] ELSE body
  /\ UNCHANGED <<mode, owner, leaseLive, issued, saveErrors, worker, remote, ghosts>>

Claim(w, resume) ==
  /\ pc[w] = "idle"
  /\ issued < MaxGrants
  /\ leaseLive => \A v \in Workers : token[v] # owner
  /\ resume /\ Cancelled => body.state \in Delivery
  /\ control' = IF resume /\ ~Cancelled THEN "run" ELSE control
  /\ issued' = issued + 1
  /\ owner' = issued' /\ leaseLive' = TRUE
  /\ token' = [token EXCEPT ![w] = issued']
  /\ late' = [late EXCEPT ![w] = 0]
  /\ Goto(w, "claimed")
  /\ UNCHANGED <<mode, body, saveErrors, run, leaseLost, reconciling, readOnly,
                 sawBranch, sawPr, remote, calls, priced, intents>>

\* No heartbeat reached the row in time.
LeaseExpires ==
  /\ owner # NoGrant /\ leaseLive
  /\ leaseLive' = FALSE
  /\ UNCHANGED <<mode, body, control, owner, issued, saveErrors, worker, remote, ghosts>>

\* The interval timer, while execute awaits something.
HeartbeatFails(w) ==
  /\ pc[w] \in Awaits
  /\ ~Fenced(w)
  /\ leaseLost' = leaseLost \cup {w}
  /\ UNCHANGED <<mode, store, pc, token, run, reconciling, readOnly, sawBranch,
                 sawPr, remote, ghosts>>

\* What a worker forgets when execute returns or its process dies.
Forget(w) ==
  /\ Goto(w, "idle")
  /\ token' = [token EXCEPT ![w] = NoGrant]
  /\ run' = [run EXCEPT ![w] = NewRun]
  /\ leaseLost' = leaseLost \ {w}
  /\ reconciling' = reconciling \ {w}
  /\ readOnly' = readOnly \ {w}
  /\ sawBranch' = [sawBranch EXCEPT ![w] = None]
  /\ sawPr' = [sawPr EXCEPT ![w] = None]

Release(w) ==
  /\ pc[w] = "done"
  /\ IF owner = token[w]
       THEN owner' = NoGrant /\ leaseLive' = FALSE
       ELSE UNCHANGED <<owner, leaseLive>>
  /\ Forget(w)
  /\ UNCHANGED <<mode, body, control, issued, saveErrors, remote, ghosts>>

Crash(w) ==
  /\ pc[w] # "idle"
  /\ Forget(w)
  /\ UNCHANGED <<mode, store, remote, ghosts>>

-----------------------------------------------------------------------------
(* execute: entry, recovery, baseline                                       *)

Guard(w) == w \notin leaseLost /\ owner = token[w] /\ control = "run"

\* A step in memory that leaves the row, GitHub and the other workers alone.
Think(w, b, label) ==
  /\ run' = [run EXCEPT ![w] = b]
  /\ Goto(w, label)
  /\ UNCHANGED <<mode, store, token, leaseLost, reconciling, readOnly, sawBranch,
                 sawPr, remote>>

Checked(w, ok, next) ==
  Think(w, run[w], IF ok THEN next ELSE "failed") /\ UNCHANGED ghosts

\* `timeUp`: remaining() <= 0 when execute starts.
LoadsReadOnly(timeUp) == body.state \in Delivery /\ (timeUp \/ control = "cancel")

Load(w, timeUp) ==
  /\ pc[w] = "claimed"
  /\ run' = [run EXCEPT ![w] = body]
  /\ Goto(w, IF body.state \in {"COMPLETED", "CANCELLED"} THEN "done"
             ELSE IF body.state \in Delivery THEN "reconcile" ELSE "starting")
  /\ reconciling' = IF body.state \in Delivery THEN reconciling \cup {w} ELSE reconciling
  /\ readOnly' = IF LoadsReadOnly(timeUp) THEN readOnly \cup {w} ELSE readOnly
  /\ UNCHANGED <<mode, store, token, leaseLost, sawBranch, sawPr, remote, ghosts>>

Start(w) ==
  /\ pc[w] = "starting"
  /\ Checked(w, Guard(w), IF run[w].state = "GENERATING" THEN "recovering" ELSE "preparing")

\* The attempt reserved by the worker that disappeared stays consumed.
RecoverProvider(w) ==
  /\ pc[w] = "recovering"
  /\ LET r == run[w] IN
       Save(w, [r EXCEPT !.state = "READY", !.costPending = FALSE,
                         !.unknown = IF r.costPending THEN @ ELSE @ + 1],
            "preparing", "failed")
  /\ UNCHANGED ghosts

\* ready, cleanup of the old container, snapshot and context, then the guard.
Prepare(w) ==
  /\ pc[w] = "preparing"
  /\ Checked(w, Guard(w), IF run[w].baseline = None THEN "toBaseline"
                          ELSE IF run[w].baseline = "failing" THEN "loop" ELSE "stopping")

EnterBaseline(w) ==
  /\ pc[w] = "toBaseline"
  /\ SaveState(w, "BASELINE", "baseline")
  /\ UNCHANGED ghosts

BaselineDone(w, result) ==
  /\ pc[w] = "baseline"
  /\ IF Guard(w)
       THEN Think(w, [run[w] EXCEPT !.baseline = result],
                  IF result = "failing" THEN "loop" ELSE "stopping")
       ELSE Think(w, run[w], "failed")
  /\ UNCHANGED ghosts

-----------------------------------------------------------------------------
(* execute: the attempt loop                                                *)

Mutant_OneTooMany(r) == r.attempts <= MaxAttempts
MayTry(r) == r.attempts < MaxAttempts

Loop(w) ==
  /\ pc[w] = "loop"
  /\ IF run[w].pending \/ MayTry(run[w])
       THEN Checked(w, Guard(w), IF run[w].pending THEN "fixing" ELSE "reserving")
       ELSE Checked(w, TRUE, "stopping")

\* Attempt and unknown cost are in the row before the provider is invoked.
Reserved(r) ==
  [r EXCEPT !.state = "GENERATING", !.attempts = r.attempts + 1,
            !.unknown = r.unknown + 1, !.costPending = TRUE]

Reserve(w) ==
  /\ pc[w] = "reserving"
  /\ Save(w, Reserved(run[w]), "calling", "failed")
  /\ UNCHANGED ghosts

\* An effect begun although a guard evaluated now would refuse it.
CountLate(w) == late' = IF Guard(w) THEN late ELSE [late EXCEPT ![w] = @ + 1]

CallProvider(w) ==
  /\ pc[w] = "calling"
  /\ calls' = [calls EXCEPT ![run[w].attempts] = @ + 1]
  /\ CountLate(w)
  /\ Think(w, run[w], "awaiting")
  /\ UNCHANGED <<priced, intents>>

\* The reservation is settled in memory; the row learns of it with a later save.
Mutant_UnpricedIsFree(r, cost) ==
  [r EXCEPT !.unknown = r.unknown - 1, !.costPending = FALSE,
            !.known = IF cost THEN r.known + 1 ELSE r.known]
Settled(r, cost) ==
  IF cost THEN [r EXCEPT !.unknown = r.unknown - 1, !.known = r.known + 1,
                         !.costPending = FALSE]
          ELSE [r EXCEPT !.costPending = FALSE]

Price(cost) ==
  priced' = (IF cost THEN priced + 1 ELSE priced) /\ UNCHANGED <<calls, intents, late>>

\* propose answers with content p; a proposal identical to the last one stops.
Respond(w, p, cost) ==
  /\ pc[w] = "awaiting"
  /\ LET r == Settled(run[w], cost) IN
       IF ~Guard(w) THEN Think(w, r, "failed")
       ELSE IF r.digest = p THEN Think(w, r, "stopping")
       ELSE Think(w, [r EXCEPT !.digest = p, !.proposal = p, !.pending = TRUE], "fixing")
  /\ Price(cost)

\* A ProviderError that reports a cost, or edits that cannot be applied.
Reject(w, cost) ==
  /\ pc[w] = "awaiting"
  /\ Think(w, Settled(run[w], cost), "failed")
  /\ Price(cost)

\* The files are written, the candidate is hashed and VERIFYING is saved.
Fix(w) ==
  /\ pc[w] = "fixing"
  /\ LET r == run[w] IN
       Save(w, [r EXCEPT !.candidate = r.proposal, !.state = "VERIFYING"],
            "verifying", "failed")
  /\ UNCHANGED ghosts

\* verify answers; the evidence is bound to the candidate and judged.
Mutant_PendingKept(r, outcome) ==
  [r EXCEPT !.evidence = [of |-> r.candidate, outcome |-> outcome],
            !.accepted = IF outcome = "ACCEPT" THEN r.candidate ELSE @]
Judged(r, outcome) ==
  LET e == [r EXCEPT !.evidence = [of |-> r.candidate, outcome |-> outcome]] IN
  CASE outcome = "ACCEPT" -> [e EXCEPT !.accepted = r.candidate]
    [] outcome = "RETRY" -> [e EXCEPT !.pending = FALSE]
    [] OTHER -> e

Verified(w, outcome) ==
  /\ pc[w] = "verifying"
  /\ IF Guard(w)
       THEN Think(w, Judged(run[w], outcome),
                  CASE outcome = "ESCALATE" -> "stopping"
                    [] outcome = "RETRY" -> "retrying"
                    [] OTHER -> IF mode = "local" THEN "completing" ELSE "declaring")
       ELSE Think(w, run[w], "failed")
  /\ UNCHANGED ghosts

Retry(w) ==
  /\ pc[w] = "retrying"
  /\ SaveState(w, "READY", "loop")
  /\ UNCHANGED ghosts

Stop(w) ==
  /\ pc[w] = "stopping"
  /\ SaveState(w, "WAITING_HUMAN", "done")
  /\ UNCHANGED ghosts

Complete(w) ==
  /\ pc[w] = "completing"
  /\ SaveState(w, "COMPLETED", "done")
  /\ UNCHANGED ghosts

-----------------------------------------------------------------------------
(* execute and deliver: the pull request                                    *)

\* The intent is durable before anything is sent.
NoteIntent ==
  intents' = IF body'.state \in Delivery THEN intents \cup {body'.accepted} ELSE intents

Mutant_IntentNotSaved(w) ==
  pc[w] = "declaring" /\ Checked(w, TRUE, "intent")

Declare(w) ==
  /\ pc[w] = "declaring"
  /\ SaveState(w, "DELIVERING", "intent")
  /\ NoteIntent
  /\ UNCHANGED <<calls, priced, late>>

Intent(w) ==
  /\ pc[w] = "intent"
  /\ Checked(w, Guard(w), "lookup")

\* Reconciliation re-reads the accepted artifacts before it looks anything up.
Proven(r) ==
  /\ r.accepted = r.candidate /\ r.candidate # None
  /\ r.evidence = [of |-> r.candidate, outcome |-> "ACCEPT"]

\* checkpoint(): guard for a fresh delivery, reconciliationGuard otherwise.
MayLookUp(w) ==
  IF w \in reconciling THEN w \notin leaseLost /\ control # "pause" ELSE Guard(w)

Mutant_WriteUnguarded(w) == w \notin leaseLost /\ w \notin readOnly
MayWrite(w) == Guard(w) /\ w \notin readOnly

Reconcile(w) ==
  /\ pc[w] = "reconcile"
  /\ Checked(w, MayLookUp(w) /\ Proven(run[w]), "lookup")

LookUp(w) ==
  /\ pc[w] = "lookup"
  /\ sawPr' = [sawPr EXCEPT ![w] = pr]
  /\ Goto(w, IF MayLookUp(w) THEN "lookupBranch" ELSE "failed")
  /\ UNCHANGED <<mode, store, token, run, leaseLost, reconciling, readOnly,
                 sawBranch, remote, ghosts>>

\* A merged pull request still proves its content after its branch is gone.
\* An existing branch must have exactly the accepted content.
LookUpBranch(w) ==
  /\ pc[w] = "lookupBranch"
  /\ LET found == IF branch = None THEN sawPr[w] ELSE branch IN
       /\ sawBranch' = [sawBranch EXCEPT ![w] = found]
       /\ Goto(w, IF ~MayLookUp(w) THEN "failed"
                  ELSE IF found = None THEN "checkBranch"
                  ELSE IF found # run[w].accepted THEN "failed"
                  ELSE IF sawPr[w] = None THEN "checkPr"
                  ELSE IF sawPr[w] = found THEN "completing" ELSE "failed")
  /\ UNCHANGED <<mode, store, token, run, leaseLost, reconciling, readOnly,
                 sawPr, remote, ghosts>>

\* requireWritableBase and the checkpoints before blobs, tree, commit and ref;
\* the unreferenced Git objects are not modelled.
CheckBranch(w) ==
  /\ pc[w] = "checkBranch"
  /\ Checked(w, MayWrite(w), "postBranch")

\* GitHub refuses a ref that exists.  `answered`: the response arrives.
PostBranch(w, answered) ==
  /\ pc[w] = "postBranch"
  /\ branch' = IF branch = None THEN run[w].accepted ELSE branch
  /\ Goto(w, IF branch = None /\ answered THEN "checkPr" ELSE "failed")
  /\ CountLate(w)
  /\ UNCHANGED <<mode, store, token, run, leaseLost, reconciling, readOnly,
                 sawBranch, sawPr, pr, calls, priced, intents>>

CheckPr(w) ==
  /\ pc[w] = "checkPr"
  /\ Checked(w, MayWrite(w), "postPr")

\* GitHub refuses a second pull request for the branch, or one without it.
PostPr(w, answered) ==
  /\ pc[w] = "postPr"
  /\ pr' = IF pr = None /\ branch # None THEN branch ELSE pr
  /\ Goto(w, IF pr' # pr /\ answered THEN "completing" ELSE "failed")
  /\ CountLate(w)
  /\ UNCHANGED <<mode, store, token, run, leaseLost, reconciling, readOnly,
                 sawBranch, sawPr, branch, calls, priced, intents>>

\* A reviewer merges the pull request and its branch is deleted.
BranchDeleted ==
  /\ pr # None /\ branch # None
  /\ branch' = None
  /\ UNCHANGED <<mode, store, worker, pr, ghosts>>

-----------------------------------------------------------------------------
(* execute: the catch block                                                 *)

\* A service throws, or the execution time budget is used up at a guard.
Fail(w) ==
  /\ pc[w] \in Awaits \cup {"reconcile", "starting", "loop", "intent",
                           "checkBranch", "checkPr"}
  /\ Checked(w, FALSE, "failed")

StateAfterError(s) ==
  IF s \in Delivery THEN "RECONCILING"
  ELSE CASE control = "cancel" -> "CANCELLED"
         [] control = "pause" -> "PAUSED"
         [] OTHER -> "WAITING_HUMAN"

\* `control` is read here; the state it leads to is saved by the next step.
Catch(w) ==
  /\ pc[w] = "failed"
  /\ IF w \in leaseLost
       THEN Checked(w, TRUE, "done")
       ELSE Think(w, [run[w] EXCEPT !.state = StateAfterError(@)], "recording")
            /\ UNCHANGED ghosts

Record(w) ==
  /\ pc[w] = "recording"
  /\ Save(w, run[w], "done", "done")
  /\ NoteIntent
  /\ UNCHANGED <<calls, priced, late>>

-----------------------------------------------------------------------------

Proceed(w) ==
  \/ \E timeUp \in BOOLEAN : Load(w, timeUp)
  \/ Start(w) \/ RecoverProvider(w) \/ Prepare(w) \/ EnterBaseline(w)
  \/ \E result \in {"failing", "other"} : BaselineDone(w, result)
  \/ Loop(w) \/ Reserve(w) \/ CallProvider(w)
  \/ \E p \in Contents, cost \in BOOLEAN : Respond(w, p, cost)
  \/ \E cost \in BOOLEAN : Reject(w, cost)
  \/ Fix(w)
  \/ \E outcome \in Outcome : Verified(w, outcome)
  \/ Retry(w) \/ Stop(w) \/ Complete(w)
  \/ Declare(w) \/ Intent(w) \/ Reconcile(w) \/ LookUp(w) \/ LookUpBranch(w)
  \/ CheckBranch(w) \/ CheckPr(w)
  \/ \E answered \in BOOLEAN : PostBranch(w, answered) \/ PostPr(w, answered)
  \/ Catch(w) \/ Record(w) \/ Release(w)

WorkerStep(w) == Proceed(w) \/ Fail(w)

Next ==
  \/ \E c \in {"pause", "cancel"} : Control(c)
  \/ \E w \in Workers, resume \in BOOLEAN : Claim(w, resume)
  \/ \E w \in Workers : WorkerStep(w) \/ HeartbeatFails(w) \/ Crash(w)
  \/ LeaseExpires
  \/ BranchDeleted

Safety == Init /\ [][Next]_vars

\* An execution that has begun goes on: every service call has a timeout and
\* every wait ends with an answer or an exception.  It is not assumed to fail.
Spec == Safety /\ \A w \in Workers : WF_vars(Proceed(w))

-----------------------------------------------------------------------------
(* Properties                                                               *)

\* The provider is really invoked at most once under each attempt number, only
\* under numbers the row had recorded before, and never beyond the contract: also
\* when workers crash, hang and replace each other between the two.
BudgetRespected ==
  /\ \A n \in AttemptNumbers : calls[n] <= 1 /\ (calls[n] > 0 => n <= body.attempts)
  /\ body.attempts <= MaxAttempts

\* No attempt is free: each one in the row is either counted unknown or priced by
\* an answer that really came, even if that answer died with its worker.
CostAccounted ==
  /\ body.unknown + body.known = body.attempts
  /\ body.known <= priced

\* Only a candidate with ACCEPT evidence of its own is delivered or completed.
AcceptedOnly ==
  body.state \in Delivery \cup {"COMPLETED"} => body.baseline = "failing" /\ Proven(body)

\* What this program put on GitHub had its delivery intent committed before, and
\* a completed PR run really has the pull request of its accepted candidate.
RemoteFollowsIntent ==
  /\ branch \in intents \cup {None, Foreign}
  /\ pr \in intents \cup {None}
  /\ mode = "pr" /\ body.state = "COMPLETED" => pr = body.accepted

\* After a pause, a cancellation or a takeover a worker starts at most the one
\* effect that had already passed its guard, however long it goes on running.
OneLateEffect == \A w \in Workers : late[w] <= 1

\* A completed run is final: no stale worker, retry or cancellation rewrites it.
CompletedIsFinal == [][body.state = "COMPLETED" => body' = body]_vars

\* "Work whose delivery intent is already stored is kept in RECONCILING even when
\* it is cancelled", as long as SQLite refuses no save.
IntentRemembered ==
  [][body.state \in Delivery /\ saveErrors' = 0
       => body'.state \in Delivery \cup {"COMPLETED"}]_vars

\* Every execution ends and releases what it holds.
ExecutionEnds == \A w \in Workers : pc[w] # "idle" ~> pc[w] = "idle"
==============================================================================
