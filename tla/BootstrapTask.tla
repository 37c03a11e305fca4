---------------------------- MODULE BootstrapTask ----------------------------
(***************************************************************************)
(* An objective for a new project: filesets and their verification         *)
(* (src/product/tasks.mjs, src/workflow/bootstrap-files.mjs) and the        *)
(* revision of the contract (src/product/contract-revisions.mjs).          *)
(*                                                                         *)
(* The workflow has two items: one edits Files, the other verifies them.    *)
(* A fileset is a run; the bytes it proposes for a file are named by its    *)
(* number.  It is approved like a workflow and written to the disk by       *)
(* materializeTask under a lease; a later fileset may repair what a         *)
(* verification found to fail.                                             *)
(***************************************************************************)
EXTENDS ProductTask

CONSTANTS
  Files,        \* the files the project is planned to have
  Decisions,    \* numbers of the decisions to execute (module LocalDecision)
  Foreign       \* bytes that another program wrote

VARIABLES
  disk,         \* the contents of each file
  decisions     \* the rows of bootstrap_decisions and bootstrap_reservations

bootVars == <<disk, decisions>>

Results == {"LOCAL_PASSED", "LOCAL_FAILED", "INCONCLUSIVE"}

Prepared == task.prepared /\ task.state # "REJECTED"

\* A decision that was not issued has no row.
Absent ==
  [rev |-> 0, contract |-> 0, tree |-> None, repair |-> None, state |-> "ABSENT",
   late |-> FALSE, seen |-> FALSE, revoked |-> FALSE, owner |-> None, lease |-> FALSE,
   ev |-> None]

Known == {d \in Decisions : decisions[d].state # "ABSENT"}

-----------------------------------------------------------------------------
(* What the rows hold.                                                      *)

\* The bytes of a file are those of a fileset or those of another program.
Bytes == 1..MaxRev \cup {Foreign}
Trees == [Files -> Bytes \cup {None}]
Written == [Files -> Bytes]

EvidenceSet ==
  [status : Results, tree : Written, contract : Nat, rev : Nat, by : Decisions \cup {None}]

RunSet ==
  [op : {"workflow", "create", "modify"},
   state : {"WAITING_APPROVAL", "READY", "MATERIALIZING", "WAITING_HUMAN", "COMPLETED", "CANCELLED"},
   control : {"run", "cancel"}, approved : BOOLEAN,
   owner : Procs \cup {None, "worker", "dead"}, lease : BOOLEAN, tried : BOOLEAN,
   base : Trees \cup {None}, failure : EvidenceSet \cup {None}, contract : Nat]

TaskSet ==
  [rev : Nat, kind : Kinds \cup {None},
   state : {None, "PLANNING", "BLOCKED", "NEEDS_INPUT", "VALIDATED", "BOOTSTRAP_PREPARED",
            "WAITING_APPROVAL", "REJECTED"},
   drafted : BOOLEAN, clarified : BOOLEAN, prepared : BOOLEAN, run : 1..MaxRev \cup {None},
   src : {None, "PENDING_FILESET", "FILESET_PROPOSED", "REPAIR_PROPOSED", "MATERIALIZED",
          "CONFLICT", "FAILED", "REPAIR_CONFLICT", "REPAIR_FAILED"},
   ver : Results \cup {None, "PENDING_VERIFICATION", "VERIFICATION_STALE"},
   ev : EvidenceSet \cup {None}, digests : Trees \cup {None}, contract : Nat]

\* A column that is null holds nothing else, and bytes of another program are none
\* that a fileset proposes.
ASSUME NullAssumption ==
  /\ None \notin Nat \cup Results \cup {"MATERIALIZED", "LOCAL_CHECKPOINT"}
  /\ None \notin Trees /\ None \notin EvidenceSet /\ None \notin RunSet
  /\ Foreign \notin Nat /\ Foreign # None

-----------------------------------------------------------------------------
(* What CodeFleet last wrote, and what evidence still supports.             *)

\* A row without a map of digests has at most a completed first fileset.
Recorded ==
  IF task.digests # None THEN task.digests
  ELSE [f \in Files |-> IF task.run # None /\ runs[task.run].state = "COMPLETED"
                        THEN task.run ELSE None]

Drift == {f \in Files : Recorded[f] # None /\ disk[f] # Recorded[f]}

\* Evidence of an earlier contract that the revisions left in place.
Archived(e) == e # None /\ e = task.ev /\ e.contract # task.contract

Checkpoint(e) ==
  Archived(e) /\ e.by # None /\ e.status = "LOCAL_PASSED" /\ e.tree = Recorded

Supported(e) ==
  IF e.by = None THEN Known = {}
  ELSE /\ decisions[e.by].state = e.status
       /\ e.contract = task.contract \/ Checkpoint(e)

\* Mutant: effectiveStates without the observed drift.
Mutant_EffectiveVer(drift) ==
  IF task.ev = None \/ task.ver \notin Results THEN task.ver
  ELSE IF task.ev.status # task.ver \/ ~Supported(task.ev) THEN "EVIDENCE_INVALID"
  ELSE IF Checkpoint(task.ev) THEN "LOCAL_CHECKPOINT"
  ELSE IF task.ev.tree # Recorded THEN "VERIFICATION_STALE"
  ELSE task.ver

\* effectiveStates, for the item that verifies.
EffectiveVer(drift) ==
  IF task.ev = None \/ task.ver \notin Results THEN task.ver
  ELSE IF task.ev.status # task.ver \/ ~Supported(task.ev) THEN "EVIDENCE_INVALID"
  ELSE IF drift # {} THEN "VERIFICATION_STALE"
  ELSE IF Checkpoint(task.ev) THEN "LOCAL_CHECKPOINT"
  ELSE IF task.ev.tree # Recorded THEN "VERIFICATION_STALE"
  ELSE task.ver

-----------------------------------------------------------------------------
(* submitBootstrapFiles and submitRepairFiles: the fileset is inserted in   *)
(* one transaction and named by the row in the next.                        *)

Superseded(r) == [runs[r] EXCEPT !.approved = FALSE, !.control = "cancel"]

Unwritten(r) == runs[r].state \in {"WAITING_APPROVAL", "READY"}

BeginSubmit(p) ==
  /\ Prepared /\ task.src \in {"PENDING_FILESET", "FILESET_PROPOSED"}
  /\ task.run # None => Unwritten(task.run)
  /\ Begin(p, "insert", task.run, [op |-> "create", base |-> None, failure |-> None])
  /\ UNCHANGED <<task, runs, trouble, bootVars>>

BeginRepair(p) ==
  /\ Prepared /\ task.src \in {"MATERIALIZED", "REPAIR_PROPOSED"} /\ task.run # None
  /\ EffectiveVer({}) = "LOCAL_FAILED"
  /\ LET replaced == runs[task.run].op = "modify" /\ Unwritten(task.run)
     IN  /\ runs[task.run].op = "modify" => replaced \/ runs[task.run].state = "COMPLETED"
         /\ Begin(p, "insert", IF replaced THEN task.run ELSE None,
                  [op |-> "modify", base |-> Recorded, failure |-> task.ev])
  /\ UNCHANGED <<task, runs, trouble, bootVars>>

\* The transaction is rolled back when a run has the number already.
InsertFileset(p) ==
  /\ At(p, "insert")
  /\ LET r == proc[p].rev
         prior == proc[p].run
         new == NewRun(proc[p].arg.op, proc[p].arg.base, proc[p].arg.failure)
     IN  IF runs[r] # None THEN Done(p) /\ UNCHANGED runs
         ELSE /\ Goto(p, "record")
              /\ runs' = [k \in DOMAIN runs |-> IF k = r THEN new
                                                ELSE IF k = prior THEN Superseded(k) ELSE runs[k]]
  /\ UNCHANGED <<task, trouble, bootVars>>

RecordFileset(p) ==
  /\ At(p, "record")
  /\ LET next == [task EXCEPT !.run = proc[p].rev]
     IN  Finish(p, IF proc[p].arg.op = "create" THEN [next EXCEPT !.src = "FILESET_PROPOSED"]
                   ELSE [next EXCEPT !.src = "REPAIR_PROPOSED", !.digests = Recorded])
  /\ UNCHANGED bootVars

-----------------------------------------------------------------------------
(* materializeTask: every change of the run's row and every write of a file *)
(* is behind the fence; when it fails the command ends and releases.        *)

Fence(p) ==
  /\ runs[proc[p].run].owner = p /\ runs[proc[p].run].lease /\ MayStart(proc[p].run)
  /\ Unchanged(p)

Released(p) ==
  [r \in DOMAIN runs |-> IF r = proc[p].run /\ runs[r].owner = p
                         THEN [runs[r] EXCEPT !.owner = None, !.lease = FALSE] ELSE runs[r]]

Abandon(p) == runs' = Released(p) /\ Done(p)

BeginFiles(p) ==
  /\ Prepared /\ task.run # None
  /\ MayStart(task.run) /\ runs[task.run].state \in {"READY", "MATERIALIZING", "WAITING_HUMAN"}
  /\ runs[task.run].op = "create" => Drift = {}
  /\ Begin(p, "claim", task.run, None)
  /\ UNCHANGED <<task, runs, trouble, bootVars>>

Stands(r, f) == disk[f] = r
Free(r, f) == disk[f] = IF runs[r].op = "create" THEN None ELSE runs[r].base[f]

\* The preflight of createFiles and modifyFiles: nothing is written when one
\* file is neither as the fileset expects it nor as it will be.
Preflight(r) ==
  LET standing == {f \in Files : Stands(r, f)}
      clean == \A f \in Files \ standing : Free(r, f)
  IN  [left |-> IF clean THEN Files \ standing ELSE {}, done |-> standing, wrote |-> FALSE,
       outcome |-> IF clean THEN "MATERIALIZED" ELSE "CONFLICT"]

\* The claim, the first fenced save and the preflight, which looks at the disk only.
ClaimFileset(p) ==
  /\ At(p, "claim")
  /\ LET r == proc[p].run IN
       IF runs[r].owner \in Procs /\ runs[r].lease THEN Done(p) /\ UNCHANGED runs
       ELSE IF MayStart(r) /\ Unchanged(p)
       THEN /\ runs' = [runs EXCEPT ![r].owner = p, ![r].lease = TRUE, ![r].state = "MATERIALIZING"]
            /\ proc' = [proc EXCEPT ![p].at = "put", ![p].arg = Preflight(r)]
       ELSE runs' = [runs EXCEPT ![r].owner = None, ![r].lease = FALSE] /\ Done(p)
  /\ UNCHANGED <<task, trouble, bootVars>>

\* One file is written, refused because it changed since the preflight, or fails.
PutFile(p) ==
  /\ At(p, "put")
  /\ \E f \in proc[p].arg.left :
       LET r == proc[p].run
           tried == [proc[p].arg EXCEPT !.left = @ \ {f}]
           Carry(a) == proc' = [proc EXCEPT ![p].arg = a]
       IN  \/ /\ ~Fence(p) /\ Abandon(p) /\ UNCHANGED <<disk, trouble>>
           \/ /\ Fence(p) /\ Free(r, f)
              /\ disk' = [disk EXCEPT ![f] = r]
              /\ Carry([tried EXCEPT !.done = @ \cup {f}, !.wrote = TRUE])
              /\ runs' = [runs EXCEPT ![r].tried = TRUE]
              /\ UNCHANGED trouble
           \/ /\ Fence(p) /\ ~Free(r, f)
              /\ Carry([tried EXCEPT !.outcome = "CONFLICT"])
              /\ runs' = [runs EXCEPT ![r].tried = TRUE]
              /\ UNCHANGED <<disk, trouble>>
           \/ /\ Fence(p) /\ Trouble
              /\ Carry([tried EXCEPT !.outcome = IF @ = "CONFLICT" THEN @ ELSE "FAILED"])
              /\ runs' = [runs EXCEPT ![r].tried = TRUE]
              /\ UNCHANGED disk
  /\ UNCHANGED <<task, decisions>>

EndFiles(p) ==
  /\ At(p, "put") /\ proc[p].arg.left = {}
  /\ LET r == proc[p].run
         state == IF proc[p].arg.outcome = "MATERIALIZED" THEN "COMPLETED" ELSE "WAITING_HUMAN"
     IN  IF Fence(p) /\ (runs[r].op = "create" => Drift = {})
         THEN runs' = [runs EXCEPT ![r].state = state, ![r].tried = TRUE] /\ Goto(p, "latest")
         ELSE Abandon(p)
  /\ UNCHANGED <<task, trouble, bootVars>>

\* The row is read again: its latest revision is the one that is updated.
ReadLatest(p) ==
  /\ At(p, "latest")
  /\ proc' = [proc EXCEPT ![p].at = "settle", ![p].rev = task.rev]
  /\ UNCHANGED <<task, runs, trouble, bootVars>>

OutcomeState(op, outcome) ==
  IF op = "create" \/ outcome = "MATERIALIZED" THEN outcome
  ELSE IF outcome = "CONFLICT" THEN "REPAIR_CONFLICT" ELSE "REPAIR_FAILED"

Settle(p) ==
  /\ At(p, "settle")
  /\ LET r == proc[p].run
         a == proc[p].arg
         stale == (a.wrote \/ a.outcome = "MATERIALIZED") /\ task.ver \in Results
     IN  Update(p, [task EXCEPT
           !.digests = [f \in Files |-> IF f \in a.done THEN r ELSE Recorded[f]],
           !.src = OutcomeState(runs[r].op, a.outcome),
           !.ver = IF stale THEN "VERIFICATION_STALE" ELSE @])
  /\ Abandon(p)
  /\ UNCHANGED <<trouble, bootVars>>

-----------------------------------------------------------------------------
(* verifyTask with the hash of a reviewed command, which covers the tree.   *)

Verifiable == Prepared /\ task.src = "MATERIALIZED" /\ Drift = {}

Evidence(p, status, tree, by) ==
  [status |-> status, tree |-> tree, contract |-> task.contract, rev |-> proc[p].rev, by |-> by]

\* A tree that changed while the command ran makes its result inconclusive.
Verdicts(tree) == IF disk = tree THEN {"LOCAL_PASSED", "LOCAL_FAILED"} ELSE {"INCONCLUSIVE"}

BeginVerify(p) ==
  /\ Verifiable /\ Known = {}
  /\ Begin(p, "verify", None, [tree |-> disk])
  /\ UNCHANGED <<task, runs, trouble, bootVars>>

EndVerify(p) ==
  /\ At(p, "verify")
  /\ \E status \in Verdicts(proc[p].arg.tree) :
       Finish(p, [task EXCEPT !.ver = status, !.digests = Recorded,
                              !.ev = Evidence(p, status, proc[p].arg.tree, None)])
  /\ UNCHANGED bootVars

-----------------------------------------------------------------------------
(* Reservations, which module LocalDecision makes, as the task sees them.   *)

Executed == Results \cup {"RESERVED", "STARTED", "HUMAN_HANDOFF"}

Reserved == {d \in Decisions : decisions[d].state \in Executed}

CompletedRepair(r, d) ==
  /\ runs[r] # None /\ runs[r].op = "modify" /\ runs[r].state = "COMPLETED"
  /\ decisions[d].state = "LOCAL_FAILED" /\ runs[r].failure = decisions[d].ev

\* committedStatus: the record of a reservation that ended and the task agree, or
\* a completed repair or a revised contract explains why they do not.
Agrees(d) ==
  \/ task.ev = decisions[d].ev /\ task.ver = decisions[d].state
  \/ \E r \in DOMAIN runs : CompletedRepair(r, d)
  \/ decisions[d].contract # task.contract

-----------------------------------------------------------------------------
(* Revising the contract: allowed when nothing is under way, and what the   *)
(* new contract affects is done again.                                      *)

UnderWay == {"RESERVED", "STARTED", "HUMAN_HANDOFF", "MATERIALIZING", "WAITING_HUMAN"}

Quiet(r) ==
  runs[r] # None => /\ runs[r].owner = None /\ runs[r].state \notin UnderWay

Settled ==
  /\ \A r \in DOMAIN runs :
       Quiet(r) /\ (runs[r] # None /\ runs[r].tried => runs[r].state = "COMPLETED")
  /\ \A d \in Reserved : decisions[d].state = "LOCAL_PASSED" /\ Agrees(d)

\* What the change affects: the verification, and with it the source, which a new
\* project refuses once it is materialized.
Impacts ==
  {{}, {"ver"}} \cup (IF task.src = "MATERIALIZED" THEN {} ELSE {{"ver", "source"}})

BeginRevise(p) ==
  /\ Prepared /\ Settled /\ Drift = {}
  /\ EffectiveVer({}) \in {"PENDING_VERIFICATION", "LOCAL_PASSED", "LOCAL_CHECKPOINT"}
  /\ \E impact \in Impacts : Begin(p, "revise", task.run, [impact |-> impact, tree |-> disk])
  /\ UNCHANGED <<task, runs, trouble, bootVars>>

\* A fileset that was not completed, or whose source is affected, is proposed
\* again under the new contract.
CommitRevise(p) ==
  /\ At(p, "revise") /\ Done(p)
  /\ LET a == proc[p].arg
         completed == task.run # None /\ runs[task.run].state = "COMPLETED"
         reopen == task.src # "MATERIALIZED" /\ (completed => "source" \in a.impact)
         next == [task EXCEPT !.contract = @ + 1, !.digests = Recorded]
         sourced == IF reopen THEN [next EXCEPT !.src = "PENDING_FILESET", !.run = None] ELSE next
     IN  IF Unchanged(p) /\ disk = a.tree /\ \A r \in DOMAIN runs : Quiet(r)
         THEN /\ Update(p, IF "ver" \in a.impact
                           THEN [sourced EXCEPT !.ver = "PENDING_VERIFICATION", !.ev = None]
                           ELSE sourced)
              /\ runs' = IF reopen /\ task.run # None /\ ~completed
                         THEN [runs EXCEPT ![task.run].control = "cancel"] ELSE runs
              /\ decisions' = [d \in Decisions |->
                   IF decisions[d].state = "ISSUED"
                   THEN [decisions[d] EXCEPT !.revoked = TRUE] ELSE decisions[d]]
         ELSE UNCHANGED <<task, runs, decisions>>
  /\ UNCHANGED <<disk, trouble>>

-----------------------------------------------------------------------------
LeaseLapses(r) ==
  /\ Trouble /\ runs[r] # None /\ runs[r].owner \in Procs /\ runs[r].lease
  /\ runs' = [runs EXCEPT ![r].lease = FALSE]
  /\ UNCHANGED <<task, proc, bootVars>>

ForeignEdit(f) ==
  /\ Trouble /\ disk' = [disk EXCEPT ![f] = Foreign]
  /\ UNCHANGED <<task, runs, proc, decisions>>

Builds(p) ==
  \/ BeginSubmit(p) \/ BeginRepair(p) \/ InsertFileset(p) \/ RecordFileset(p)
  \/ BeginFiles(p) \/ ClaimFileset(p) \/ PutFile(p) \/ EndFiles(p)
  \/ ReadLatest(p) \/ Settle(p) \/ BeginVerify(p) \/ EndVerify(p)
  \/ BeginRevise(p) \/ CommitRevise(p)

BuildNext ==
  \/ \E p \in Procs : Builds(p)
  \/ \E r \in DOMAIN runs : LeaseLapses(r)
  \/ \E f \in Files : ForeignEdit(f)

=============================================================================
