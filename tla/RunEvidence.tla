----------------------------- MODULE RunEvidence -----------------------------
(***************************************************************************)
(* What a run hands to its review: the summary of src/src/run.ts as        *)
(* src/src/review.ts and apply.ts read it.  RunPipeline produces it,       *)
(* RunDecision decides about it.                                           *)
(***************************************************************************)

Actors == {"HUMAN", "SYSTEM_POLICY"}

\* Reasons for evidence a run does not have.  No run observes the commands of its
\* agent, so every summary names Unobserved.  Cut output of git is one reason here,
\* a command of git that timed out is one that failed, and what the agent says of its
\* own commands is left out.
Unobserved == "COMMAND_CHANNEL_NOT_HARNESS_VISIBLE"
Cut == "EVIDENCE_TRUNCATED"
Gaps == {Unobserved, Cut, "NEW_FILE_CONTENT_NOT_CAPTURED", "GIT_DIFF_FAILED",
         "GIT_CHANGED_FILES_FAILED", "NESTED_REPO_NOT_TRAVERSED", "ISOLATION_DISCARD_FAILED",
         "VERIFICATION_NOT_EXECUTED", "DRY_RUN_NOT_EXECUTED", "NO_SCOPE_PATTERNS",
         "VERIFICATION_OUTPUT_TRUNCATED"}

\* classifyGap: nobody can stand in for evidence that is cut.
Unwaivable == {Cut}

\* done, gate, violation: result DONE, verification gate satisfied, a path violation
\* found.  low: computed risk.  isolated: the edits are not in the workspace.
\* allowed, auto, explicit: the resultReview gate the run was planned under, where
\* the Core default leaves nobody but a person.
TraceSet ==
  [done : BOOLEAN, gate : BOOLEAN, violation : BOOLEAN, low : BOOLEAN,
   gaps : {g \in SUBSET Gaps : Unobserved \in g}, isolated : BOOLEAN,
   allowed : {{"HUMAN"}}, auto : BOOLEAN, explicit : BOOLEAN]

=============================================================================
