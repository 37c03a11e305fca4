----------------------------- MODULE RunPipeline -----------------------------
(***************************************************************************)
(* A run (src/src/run.ts): lock, plan, isolated tree (isolation.ts), agent *)
(* (agent.ts), snapshots (workspace-snapshot.ts), evidence, verification   *)
(* and summary, by several processes over one workspace while task files,  *)
(* approvals and queues change and processes die.                          *)
(*                                                                         *)
(* The decisions are those of RunPolicy.  The approval in force and the    *)
(* queue are data here; TaskLedger and ObjectiveLedger are their modules.  *)
(* A profile is one record that no run changes: an approval covers the     *)
(* profile it was given under, as TaskLedger has it.                       *)
(***************************************************************************)
EXTENDS RunPolicy, RunEvidence

CONSTANTS
  Procs, Tasks,
  Profiles,     \* what config.json and the overlay may come to
  Contents,     \* the revisions of a task file: the contract each one states
  Options,      \* adapters a run may be asked for, None for none
  Works,        \* what an agent may do: its status, its edits, a repository it nests
  CaseSensitive, \* the file system tells capitals apart (detectCaseSensitivity)
  MaxRuns,      \* 999 in the code: the numbers one day has
  MaxTrouble    \* bound: task files, approvals and queues that change, calls that fail,
                \* processes that die, locks that are broken

\* An edit of a tracked file, of a file git does not track yet, of one that is too
\* large to carry, of a link that leads out of the tree, of a file that is staged, and
\* of one that is committed or ignored.
Hows == {"modified", "created", "large", "link", "staged", "hidden"}
Registry == {"codex", "claude"}

ASSUME PipelineAssumption ==
  /\ None \notin Procs \cup Tasks
  /\ None \notin {CoreRequiredGates, CoreRequiredGates.resultReview, CoreRequiredGates.verification}
  /\ MaxRuns \in Nat \ {0} /\ MaxTrouble \in Nat
  /\ CaseSensitive \in BOOLEAN
  /\ \A f \in Profiles : f.mode \in HarnessModes
  /\ \A w \in Works : \A e \in w.edits : e.how \in Hows

VARIABLES
  profile,
  file,       \* tasks/<task>.yaml: the revision that is in it
  approved,   \* the revision approved for each task, or 0
  queue,      \* the items of each task over all objectives, WAITING or HELD: blocked,
              \* skipped or canceled
  replayable, \* every objective replays as COMPLETE
  runs,       \* runs/<day>_<nnn>, by number
  trees,      \* the runs whose worktree is on disk
  workspace,  \* the edits that have been made in the workspace
  lock,       \* locks/run-<task>.lock: who created it, or None
  pc, cmd,
  broken,     \* history: tasks whose lock was broken while its holder ran
  trouble     \* so far

contract == <<file, approved, queue, replayable>>
disk == <<runs, trees, workspace>>
local == <<pc, cmd>>
history == <<broken, trouble>>
vars == <<profile, contract, disk, lock, local, history>>

Early == {"loaded", "approved", "listed"}
Running == {"reserved", "copied", "isolated", "planned", "ran", "observed", "verified",
            "discarded"}
Phases == {"idle", "leaving"} \cup Early \cup Running

NoCommand == [task |-> None, option |-> None, loaded |-> 0, revision |-> 0, moved |-> FALSE,
              run |-> 0, tree |-> FALSE, before |-> {}]
Reserved(t) ==
  [task |-> t, stage |-> "reserved", snapshot |-> 0, executed |-> 0, revision |-> 0,
   moved |-> FALSE, told |-> FALSE, isolated |-> FALSE, status |-> None, edits |-> {},
   nested |-> FALSE,
   patch |-> {}, delta |-> {}, attempts |-> <<>>, gate |-> FALSE, violation |-> FALSE,
   gaps |-> {}]

TypeOK ==
  /\ profile \in Profiles
  /\ file \in [Tasks -> DOMAIN Contents]
  /\ approved \in [Tasks -> 0..Len(Contents)]
  /\ Len(runs) <= MaxRuns
  /\ \A i \in DOMAIN runs : runs[i].gaps \subseteq Gaps
  /\ trees \subseteq {i \in DOMAIN runs : runs[i].isolated}
  /\ lock \in [Tasks -> Procs \cup {None}]
  /\ pc \in [Procs -> Phases]
  /\ \A p \in Procs : pc[p] \in Running => cmd[p].run \in DOMAIN runs
  /\ broken \subseteq Tasks

-----------------------------------------------------------------------------
(* What the plan resolves before a run has a directory.                     *)

Contract(p) == Contents[cmd[p].loaded]

RoleId(c) == IF c.role = None THEN profile.role ELSE c.role
Ceiling(c) == MeetMode(RoleOf(RoleId(c), profile.custom).maxMode, profile.mode)
ResolveRoleAndMode(c) ==
  /\ \A id \in DOMAIN profile.custom : MayNarrow(profile.custom[id])
  /\ Resolvable(RoleId(c), profile.roles, profile.custom)
  /\ Narrows(c.mode, Ceiling(c))
EffectiveMode(c) == ModeUnder(c.mode, Ceiling(c))
Capabilities(c) ==
  [fileEdit         |-> ModeRank(EffectiveMode(c)) >= ModeRank("WORKSPACE_EDIT"),
   commandExecution |-> ModeRank(EffectiveMode(c)) >= ModeRank("COMMAND_EXEC"),
   allowedPaths     |-> c.include,
   deniedPaths      |-> c.exclude,
   commands         |-> profile.commands]
AutoAdvance(c) == profile.auto /\ c.auto

\* The option replaces the default of the profile and is held to the same list.
Selected(option) == IF option = None THEN profile.adapter ELSE option
ResolveAgentAdapter(option) ==
  /\ Selected(option) # Deferred
  /\ Selected(option) \in profile.adapters \cap Registry
ResolveIsolation == profile.isolation # Deferred
\* blindly: commands may run though no channel lets the harness see them.
CommandChannelBlocked == ~profile.dryRun /\ ~profile.blindly

\* Any item that is held back refuses the task, whatever its revision.
Mutant_AnyRevisionWillDo(t, rev) ==
  replayable /\ queue[t] # {} /\ \A i \in queue[t] : i.state = "WAITING"
QueueAllows(t, rev) ==
  /\ replayable
  /\ \A i \in queue[t] : i.state = "WAITING"
  /\ \E i \in queue[t] : i.revision = rev

Sources(c) == {CoreRequiredGates, profile.gates, c.gates} \ {None}
MergedGates(c) == MergeRequiredGates(Sources(c), "UNKNOWN")
GatesResolve(c) == (c.gates # None => Concrete(c.gates)) /\ ~Unresolved(Sources(c))

Subject(c) ==
  [changed |-> {}, scope |-> c.include \cup c.exclude, commands |-> Elements(c.commands),
   fields |-> [agentRole |-> RoleId(c), harnessMode |-> EffectiveMode(c)]]
ComputedRisk(c) == EvaluateRisk(profile.rules, Subject(c))

\* acceptedObjectiveContext, read again for the prompt.
Told(t, rev) == replayable /\ [state |-> "WAITING", revision |-> rev] \in queue[t]

-----------------------------------------------------------------------------
Init ==
  /\ profile \in Profiles
  /\ \E v, attached \in DOMAIN Contents :
       /\ file = [t \in Tasks |-> v] /\ approved = file
       /\ queue = [t \in Tasks |-> {[state |-> "WAITING", revision |-> attached]}]
  /\ replayable = TRUE
  /\ runs = <<>> /\ trees = {} /\ workspace = {}
  /\ lock = [t \in Tasks |-> None]
  /\ pc = [p \in Procs |-> "idle"]
  /\ cmd = [p \in Procs |-> NoCommand]
  /\ broken = {} /\ trouble = 0

Goto(p, phase) == pc' = [pc EXCEPT ![p] = phase]
Leave(p) == Goto(p, "leaving") /\ UNCHANGED cmd
Only(p, c) == cmd' = [cmd EXCEPT ![p] = c]
Changing(i, r) == runs' = [runs EXCEPT ![i] = r]

\* Calls of git fail or are cut; those of one step count once.
Trouble == trouble < MaxTrouble /\ trouble' = trouble + 1
Unless(failed) == IF failed THEN Trouble ELSE UNCHANGED trouble

(* runTask takes the lock of its task; executeRun reads the task file.       *)
Lock(p, t, option) ==
  /\ pc[p] = "idle" /\ lock[t] = None
  /\ lock' = [lock EXCEPT ![t] = p]
  /\ Only(p, [NoCommand EXCEPT !.task = t, !.option = option, !.loaded = file[t]])
  /\ Goto(p, "loaded")
  /\ UNCHANGED <<profile, contract, disk, history>>

\* The approval is asked about the file as it is now.
Approve(p) ==
  LET t == cmd[p].task IN
  /\ pc[p] = "loaded"
  /\ IF approved[t] # file[t] THEN Leave(p)
     ELSE /\ Only(p, [cmd[p] EXCEPT !.revision = approved[t]])
          /\ Goto(p, "approved")
  /\ UNCHANGED <<profile, contract, disk, lock, history>>

\* blockedQueueReason, the refusals that read nothing but the profile, and the first
\* half of reserveRunDir: the highest number there is.
AskQueue(p) ==
  /\ pc[p] = "approved"
  /\ IF /\ QueueAllows(cmd[p].task, cmd[p].revision)
        /\ ~CommandChannelBlocked
        /\ ResolveRoleAndMode(Contract(p))
        /\ ResolveAgentAdapter(cmd[p].option)
        /\ ResolveIsolation
        /\ Len(runs) < MaxRuns
       THEN Only(p, [cmd[p] EXCEPT !.run = Len(runs) + 1]) /\ Goto(p, "listed")
       ELSE Leave(p)
  /\ UNCHANGED <<profile, contract, disk, lock, history>>

\* The directory is the reservation: the next number that nobody has.
Mutant_Recursive(p) ==
  /\ pc[p] = "listed"
  /\ IF cmd[p].run \in DOMAIN runs
       THEN Goto(p, "reserved") /\ UNCHANGED <<runs, cmd>>
       ELSE /\ runs' = Append(runs, Reserved(cmd[p].task))
            /\ Goto(p, "reserved") /\ UNCHANGED cmd
  /\ UNCHANGED <<profile, contract, trees, workspace, lock, history>>
MakeDir(p) ==
  LET number == cmd[p].run IN
  /\ pc[p] = "listed"
  /\ IF number \notin DOMAIN runs
       THEN /\ runs' = Append(runs, Reserved(cmd[p].task))
            /\ Goto(p, "reserved") /\ UNCHANGED cmd
     ELSE IF number < MaxRuns
       THEN /\ Only(p, [cmd[p] EXCEPT !.run = number + 1])
            /\ UNCHANGED <<runs, pc>>
       ELSE Leave(p) /\ UNCHANGED runs
  /\ UNCHANGED <<profile, contract, trees, workspace, lock, history>>

\* The file is read a third time.  A plan whose gates do not resolve leaves its
\* directory behind.
CopyTask(p) ==
  LET i == cmd[p].run IN
  /\ pc[p] = "reserved"
  /\ Changing(i, [runs[i] EXCEPT !.snapshot = file[cmd[p].task]])
  /\ Goto(p, IF GatesResolve(Contract(p)) THEN "copied" ELSE "leaving")
  /\ UNCHANGED <<profile, contract, trees, workspace, lock, cmd, history>>

\* prepareIsolation and checkIsolationRequirement.  A worktree that cannot be added
\* and a mode that is not implemented leave the run in the workspace.
Mutant_NoneIsEnough(c, added) ==
  Capabilities(c).fileEdit /\ profile.requireIsolation => added \/ profile.isolation = "TEMP_WORKSPACE"
RequirementMet(c, added) == Capabilities(c).fileEdit /\ profile.requireIsolation => added
Isolate(p) ==
  LET i == cmd[p].run IN
  /\ pc[p] = "copied"
  /\ \E added \in (IF profile.isolation = "GIT_WORKTREE" THEN BOOLEAN ELSE {FALSE}) :
       /\ Unless(profile.isolation = "GIT_WORKTREE" /\ ~added)
       /\ runs' = [runs EXCEPT ![i].isolated = added]
       /\ trees' = IF added THEN trees \cup {i} ELSE trees
       /\ Only(p, [cmd[p] EXCEPT !.tree = added])
       /\ Goto(p, IF RequirementMet(Contract(p), added) THEN "isolated" ELSE "leaving")
  /\ UNCHANGED <<profile, contract, workspace, lock, broken>>

-----------------------------------------------------------------------------
(* The run proper.                                                          *)

\* What git and the snapshots look at: a worktree starts at HEAD.
Observed(i) == IF runs[i].isolated THEN runs[i].edits ELSE workspace
NestedIn(i) == IF runs[i].isolated THEN runs[i].nested
               ELSE \E j \in DOMAIN runs : ~runs[j].isolated /\ runs[j].nested

\* captureWorkspaceSnapshot: the files in scope, by their hashes.
Snapshot(i, c) == {e \in Observed(i) : MatchesAny(e.path, c.include, TRUE)}

\* The plan, the prompt, the request and the snapshot before the agent.
WritePlan(p) ==
  LET i == cmd[p].run
      c == Contract(p)
  IN
  /\ pc[p] = "isolated"
  /\ Changing(i, [runs[i] EXCEPT
                    !.stage = "planned", !.executed = cmd[p].loaded,
                    !.revision = cmd[p].revision, !.moved = cmd[p].moved,
                    !.told = Told(cmd[p].task, cmd[p].revision)])
  /\ Only(p, [cmd[p] EXCEPT !.before = Snapshot(i, c)])
  /\ Goto(p, IF Expands(Capabilities(c), Capabilities(c)) THEN "leaving" ELSE "planned")
  /\ UNCHANGED <<profile, contract, trees, workspace, lock, history>>

\* Where the agent may not run it does nothing.
Outcomes(c) ==
  IF profile.dryRun THEN {[status |-> "DRY_RUN", edits |-> {}, nested |-> FALSE]}
  ELSE IF ~Capabilities(c).commandExecution THEN {[status |-> "FAILED", edits |-> {}, nested |-> FALSE]}
  ELSE Works
RunAgent(p) ==
  LET i == cmd[p].run IN
  /\ pc[p] = "planned"
  /\ \E w \in Outcomes(Contract(p)) :
       LET made == {[path |-> e.path, how |-> e.how, run |-> i] : e \in w.edits} IN
       /\ Changing(i, [runs[i] EXCEPT
                         !.status = w.status, !.edits = made, !.nested = w.nested])
       /\ workspace' = IF runs[i].isolated THEN workspace ELSE workspace \cup made
  /\ Goto(p, "ran")
  /\ UNCHANGED <<profile, contract, trees, lock, cmd, history>>

Having(seen, hows) == {e \in seen : e.how \in hows}
PathsOf(seen) == {e.path : e \in seen}

\* What git does not track, and what of it travels in the patch.
Untracked(seen) == Having(seen, {"created", "large", "link"})
Carried(untracked) == Having(untracked, {"created", "link"})

\* captureGitDiff: the tracked files that are not staged, then the created ones.
NotCaptured == "NEW_FILE_CONTENT_NOT_CAPTURED"
Mutant_UnlistedIsNone(seen, diff, listing) ==
  LET untracked == IF listing = "ok" THEN Untracked(seen) ELSE {} IN
  CASE diff = "failed" -> [patch |-> {}, gaps |-> {"GIT_DIFF_FAILED"}]
    [] diff = "cut"    -> [patch |-> {}, gaps |-> {Cut}]
    [] OTHER -> [patch |-> Having(seen, {"modified"}) \cup Carried(untracked),
                 gaps |-> IF untracked = Carried(untracked) THEN {} ELSE {NotCaptured}]
GitDiff(seen, diff, listing) ==
  CASE diff = "failed" -> [patch |-> {}, gaps |-> {"GIT_DIFF_FAILED"}]
    [] diff = "cut"    -> [patch |-> {}, gaps |-> {Cut}]
    [] OTHER -> IF listing # "ok" THEN [patch |-> Having(seen, {"modified"}), gaps |-> {NotCaptured}]
                ELSE [patch |-> Having(seen, {"modified"}) \cup Carried(Untracked(seen)),
                      gaps  |-> IF Untracked(seen) = Carried(Untracked(seen)) THEN {}
                                ELSE {NotCaptured}]

\* captureGitChangedFiles: staged files too, and neither committed nor ignored ones.
ChangedFiles(seen) == PathsOf(Having(seen, Hows \ {"hidden"}))

\* computeDelta: what the two snapshots do not share, whatever git says of it.
Delta(before, after) == PathsOf((after \ before) \cup (before \ after))
ScopeGaps(c) == IF c.include = {} THEN {"NO_SCOPE_PATTERNS"} ELSE {}

\* The path policy as the summary has it: what was not evaluated whole found nothing.
PathPolicy(seen, status, nested, c) ==
  LET escapes == PathsOf(Having(seen, {"link"})) IN
  CASE status = "cut"    -> [violation |-> FALSE, gaps |-> {Cut}]
    [] status = "failed" -> [violation |-> FALSE, gaps |-> {"GIT_CHANGED_FILES_FAILED"}]
    [] status = "ok" /\ nested ->
         [violation |-> FALSE, gaps |-> {"NESTED_REPO_NOT_TRAVERSED"}]
    [] OTHER -> [violation |-> PathViolations(ChangedFiles(seen), c.include, c.exclude,
                                              CaseSensitive, escapes) # {},
                 gaps |-> {}]

HarnessObservation(i, before, c, found, policy) ==
  [runs[i] EXCEPT
     !.patch = found.patch,
     !.delta = Delta(before, Snapshot(i, c)),
     !.violation = policy.violation,
     !.gaps = found.gaps \cup policy.gaps \cup ScopeGaps(c) \cup {Unobserved} \cup
              (IF runs[i].status = "DRY_RUN" THEN {"DRY_RUN_NOT_EXECUTED"} ELSE {})]

Observe(p) ==
  LET i == cmd[p].run
      seen == Observed(i)
      c == Contract(p)
  IN
  /\ pc[p] = "ran"
  /\ \E diff, status \in {"ok", "failed", "cut"}, listing \in {"ok", "failed"} :
       /\ Unless({diff, status, listing} # {"ok"})
       /\ Changing(i, HarnessObservation(i, cmd[p].before, c, GitDiff(seen, diff, listing),
                                         PathPolicy(seen, status, NestedIn(i), c)))
  /\ Goto(p, "observed")
  /\ UNCHANGED <<profile, contract, trees, workspace, lock, cmd, broken>>

\* buildVerificationEvidence: a blocked command is an attempt and not an execution.
Executed(attempts) == {k \in DOMAIN attempts : attempts[k] # "BLOCKED"}
VerificationGaps(attempts, cut) ==
  (IF Executed(attempts) = {} THEN {"VERIFICATION_NOT_EXECUTED"} ELSE {}) \cup
  (IF cut THEN {"VERIFICATION_OUTPUT_TRUNCATED"} ELSE {})

\* assertVerificationEvidence and assertRunSummary.
Asserted(outcome, attempts) ==
  /\ Executed(attempts) = {} => outcome.check # "PASS"
  /\ outcome.satisfied /\ outcome.reason # "NOT_REQUIRED" => outcome.check = "PASS"

\* runVerificationCommands, where the agent worked; a dry run verifies as well.
Outcome(attempts, c) == VerificationOutcome(attempts, MergedGates(c).verification.required)
Verify(p) ==
  LET i == cmd[p].run
      c == Contract(p)
      granted == Capabilities(c)
      allowed(k) == Preflight(Normal(c.commands[k]), granted.commandExecution, granted.commands)
  IN
  /\ pc[p] = "observed"
  /\ \E results \in [DOMAIN c.commands -> {"PASS", "FAIL"}], cut \in BOOLEAN :
       LET attempts == [k \in DOMAIN c.commands |-> IF allowed(k) THEN results[k] ELSE "BLOCKED"]
       IN  /\ cut => Executed(attempts) # {}
           /\ Unless(cut)
           /\ Changing(i, [runs[i] EXCEPT
                !.attempts = attempts,
                !.gate = Outcome(attempts, c).satisfied,
                !.gaps = @ \cup VerificationGaps(attempts, cut)])
  /\ Goto(p, "verified")
  /\ UNCHANGED <<profile, contract, trees, workspace, lock, cmd, broken>>

\* The worktree of the run, where there is one, is removed or stays; a second attempt
\* does nothing.
RemoveTree(p, removed) ==
  /\ Unless(~removed)
  /\ trees' = IF cmd[p].tree /\ removed THEN trees \ {cmd[p].run} ELSE trees
Discard(p) ==
  LET i == cmd[p].run IN
  /\ pc[p] = "verified"
  /\ \E removed \in (IF cmd[p].tree THEN BOOLEAN ELSE {TRUE}) :
       /\ RemoveTree(p, removed)
       /\ runs' = [runs EXCEPT ![i].gaps =
                     IF removed THEN @ ELSE @ \cup {"ISOLATION_DISCARD_FAILED"}]
  /\ Only(p, [cmd[p] EXCEPT !.tree = FALSE])
  /\ Goto(p, "discarded")
  /\ UNCHANGED <<profile, contract, workspace, lock, broken>>

\* What the summary says (RunEvidence).
Trace(i) ==
  LET c == Contents[runs[i].executed]  review == MergedGates(c).resultReview IN
  [done |-> runs[i].status = "SUCCEEDED", gate |-> runs[i].gate,
   violation |-> runs[i].violation, low |-> ComputedRisk(c) = "LOW", gaps |-> runs[i].gaps,
   isolated |-> runs[i].isolated, allowed |-> review.actors,
   auto |-> AutoAdvance(c), explicit |-> review.explicit]

\* The observation, the result of the adapter, the verification, the summary and, last,
\* result.json: where this stops half-way, listRuns does not show the run.
Record(p) ==
  /\ pc[p] = "discarded"
  /\ LET i == cmd[p].run IN
     runs' = IF Asserted(Outcome(runs[i].attempts, Contract(p)), runs[i].attempts)
               THEN [runs EXCEPT ![i].stage = "finished"] ELSE runs
  /\ Goto(p, "leaving")
  /\ UNCHANGED <<profile, contract, trees, workspace, lock, cmd, history>>

\* listRuns: a directory without result.json is passed over.
ListRuns == {i \in DOMAIN runs : runs[i].stage = "finished"}

\* The finally of runTask: a tree that is left, then the lock, whoever holds it.
Release(p) ==
  /\ pc[p] = "leaving"
  /\ \E removed \in (IF cmd[p].tree THEN BOOLEAN ELSE {TRUE}) :
       RemoveTree(p, removed)
  /\ lock' = [lock EXCEPT ![cmd[p].task] = None]
  /\ Only(p, NoCommand)
  /\ Goto(p, "idle")
  /\ UNCHANGED <<profile, contract, runs, workspace, broken>>

-----------------------------------------------------------------------------
(* What goes wrong, and what happens meanwhile.                             *)

Holding(p) == pc[p] # "idle"

\* A write that fails throws.
Throw(p) ==
  /\ pc[p] \in Running /\ Trouble
  /\ Leave(p)
  /\ UNCHANGED <<profile, contract, disk, lock, broken>>

\* The lock file is there and its holder cannot be written into it: runTask has not
\* reached the finally that removes it.
LockUnwritten(t) ==
  /\ lock[t] = None /\ Trouble
  /\ \E p \in Procs : pc[p] = "idle" /\ lock' = [lock EXCEPT ![t] = p]
  /\ UNCHANGED <<profile, contract, disk, local, broken>>

\* The lock and the tree of a process that died stay.
Crash(p) ==
  /\ Holding(p) /\ Trouble
  /\ Only(p, NoCommand) /\ Goto(p, "idle")
  /\ UNCHANGED <<profile, contract, disk, lock, broken>>

BreakRunLock(t) ==
  /\ lock[t] # None /\ Trouble
  /\ lock' = [lock EXCEPT ![t] = None]
  /\ broken' = IF \E p \in Procs : Holding(p) /\ cmd[p].task = t THEN broken \cup {t} ELSE broken
  /\ UNCHANGED <<profile, contract, disk, local>>

Planning(p, t) == pc[p] \in Early \cup {"reserved"} /\ cmd[p].task = t

EditTask(t) ==
  /\ Trouble
  /\ \E v \in DOMAIN Contents \ {file[t]} : file' = [file EXCEPT ![t] = v]
  /\ cmd' = [p \in Procs |-> IF Planning(p, t) THEN [cmd[p] EXCEPT !.moved = TRUE] ELSE cmd[p]]
  /\ UNCHANGED <<profile, approved, queue, replayable, disk, lock, pc, broken>>

ChangeApproval(t) ==
  /\ Trouble
  /\ \E v \in {0, file[t]} \ {approved[t]} : approved' = [approved EXCEPT ![t] = v]
  /\ UNCHANGED <<profile, file, queue, replayable, disk, lock, local, broken>>

\* An item is attached, held back or let go, or the ledger becomes unreadable.
ChangeQueue(t) ==
  /\ Trouble
  /\ \/ /\ \E v \in DOMAIN Contents :
             queue' = [queue EXCEPT ![t] = @ \cup {[state |-> "WAITING", revision |-> v]}]
        /\ UNCHANGED replayable
     \/ /\ \E i \in queue[t], s \in {"WAITING", "HELD"} :
             queue' = [queue EXCEPT ![t] = (@ \ {i}) \cup {[i EXCEPT !.state = s]}]
        /\ UNCHANGED replayable
     \/ replayable' = FALSE /\ UNCHANGED queue
  /\ UNCHANGED <<profile, file, approved, disk, lock, local, broken>>

Next ==
  \/ \E p \in Procs, t \in Tasks, o \in Options : Lock(p, t, o)
  \/ \E p \in Procs :
       \/ Approve(p) \/ AskQueue(p) \/ MakeDir(p) \/ CopyTask(p)
       \/ Isolate(p) \/ WritePlan(p) \/ RunAgent(p) \/ Observe(p) \/ Verify(p) \/ Discard(p)
       \/ Record(p) \/ Release(p) \/ Throw(p) \/ Crash(p)
  \/ \E t \in Tasks : LockUnwritten(t) \/ BreakRunLock(t) \/ EditTask(t) \/ ChangeApproval(t) \/ ChangeQueue(t)

Spec == Init /\ [][Next]_vars

-----------------------------------------------------------------------------
(* Properties.                                                              *)

\* Two live runs never share a directory, whatever becomes of their locks, and two
\* of one task are alive together only after the lock of a live one was broken:
\* reserveRunDir and acquireRunLock.
RunsAreSeparate ==
  \A p, q \in Procs : p # q =>
    /\ {pc[p], pc[q]} \subseteq Running => cmd[p].run # cmd[q].run
    /\ Holding(p) /\ Holding(q) /\ cmd[p].task = cmd[q].task => cmd[p].task \in broken

\* A planned run has the contract that was approved, keeps a copy of that contract, and
\* some objective holds that revision of the task; the task file may have been edited
\* while executeRun was reading it three times, and nothing else sets them apart.
ApprovedContractRuns ==
  \A i \in DOMAIN runs : runs[i].stage # "reserved" =>
    /\ ~runs[i].moved => /\ runs[i].executed = runs[i].revision
                         /\ runs[i].snapshot = runs[i].revision
    /\ \E item \in queue[runs[i].task] : item.revision = runs[i].revision

\* What an agent edited and git can carry is in the patch of its run, what it edited in
\* scope is in the delta, committed or not, and an edit out of scope is a violation,
\* or the summary names a reason why it may be missing: captureGitDiff,
\* captureGitChangedFiles, computeDelta and runSummaryUnavailableReasons.
EvidenceIsHonest ==
  \A i \in ListRuns : \A e \in runs[i].edits :
    LET c == Contents[runs[i].executed]
        Named(reasons) == runs[i].gaps \cap reasons # {}
    IN  /\ \/ e.how \in {"staged", "hidden"} \/ e \in runs[i].patch
           \/ Named({"GIT_DIFF_FAILED", NotCaptured, Cut})
        /\ MatchesAny(e.path, c.include, TRUE) => e.path \in runs[i].delta
        /\ \/ e.how = "hidden" \/ runs[i].violation
           \/ PathViolations({e.path}, c.include, c.exclude, CaseSensitive,
                             IF e.how = "link" THEN {e.path} ELSE {}) = {}
           \/ Named({"GIT_CHANGED_FILES_FAILED", "NESTED_REPO_NOT_TRAVERSED", Cut})

\* The verification gate of a run is satisfied by commands of its contract alone, all of
\* them run by the harness and none of them failed; the assertions on the evidence never
\* throw a run away, and the summary is one that RunDecision can be about:
\* deriveVerificationOutcome, assertVerificationEvidence, buildRunSummary.
GateIsEarned ==
  /\ \A p \in Procs : pc[p] = "discarded" =>
       LET done == runs[cmd[p].run].attempts IN Asserted(Outcome(done, Contract(p)), done)
  /\ \A i \in ListRuns :
       /\ runs[i].gate => /\ runs[i].attempts # <<>>
                          /\ \A k \in DOMAIN runs[i].attempts : runs[i].attempts[k] = "PASS"
       /\ Trace(i) \in TraceSet

\* Where the profile requires isolation, no edit of a run reaches the workspace.  A
\* worktree that outlives its run belongs to a process that died or to a removal that
\* failed, and the summary, where there is one, says so: checkIsolationRequirement,
\* prepareIsolation and runTask.
IsolationHolds ==
  /\ profile.requireIsolation => workspace = {}
  /\ \A i \in trees \cap ListRuns : "ISOLATION_DISCARD_FAILED" \in runs[i].gaps

=============================================================================
