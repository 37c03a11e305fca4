---------------------------- MODULE MCRunPipeline ----------------------------
(* Two processes over two tasks, under a strict, an open and an unusable profile. *)
EXTENDS RunPipeline, TLC, SequencesExt

Inside == <<<<"s">>, <<"a">>>>
Denied == <<<<"s">>, <<"d">>>>
Beyond == <<<<"x">>>>
Outlink == <<<<"s">>, <<"l">>>>
Scope  == {<<<<"s">>, Anything>>}

Test  == <<"/bin/test">>
Shell == <<"Sh">>
MCFolded == [Sh |-> "sh"]
MCBase == ("/bin/test" :> "test")

MCContents ==
  <<[role |-> "INFRA_OPERATOR", mode |-> None, include |-> Scope, exclude |-> {Denied},
     commands |-> <<Test>>, gates |-> None, auto |-> TRUE],
    [role |-> None, mode |-> "COMMAND_EXEC", include |-> {}, exclude |-> {Denied},
     commands |-> <<Test, Shell>>, auto |-> FALSE,
     gates |-> [CoreRequiredGates EXCEPT !.runApproval = Decision(Yes, {"HUMAN"}, No)]]>>

Strict ==
  [dryRun |-> FALSE, mode |-> "COMMAND_EXEC", role |-> "INFRA_OPERATOR", roles |-> {},
   custom |-> <<>>, adapter |-> "codex", adapters |-> {"codex"}, isolation |-> "GIT_WORKTREE",
   requireIsolation |-> TRUE, blindly |-> TRUE, gates |-> None, rules |-> {}, auto |-> TRUE,
   commands |-> [allowed |-> {[argv |-> <<"test">>, exact |-> FALSE]}, denied |-> {},
                 destructive |-> {}]]
Planned(target, level) == [level |-> level, allOf |-> <<target>>]
Rules ==
  {Planned([target |-> "PATH", glob |-> <<Anything>>], "HIGH"),
   Planned([target |-> "TASK_SCOPE", glob |-> Beyond], "HIGH"),
   Planned([target |-> "COMMAND", argv |-> <<"test">>, exact |-> FALSE], "HIGH"),
   Planned([target |-> "FIELD", field |-> "harnessMode", anyOf |-> {"SUGGEST_ONLY"}], "MEDIUM")}
Narrowed == [base |-> "INFRA_OPERATOR", maxMode |-> "COMMAND_EXEC",
             denied |-> {"SERVICE_LIFECYCLE", "DEPLOYMENT_MUTATION", "INFRA_APPLY"}]
Open == [Strict EXCEPT !.isolation = "NONE", !.requireIsolation = FALSE, !.commands.allowed = {},
                       !.custom = [MINE |-> Narrowed], !.role = "MINE", !.rules = Rules]
Unusable == [Strict EXCEPT !.isolation = "TEMP_WORKSPACE"]
Dry == [Open EXCEPT !.dryRun = TRUE, !.blindly = FALSE]
MCProfiles == {Strict, Open, Unusable, Dry}

Edit(path, how) == [path |-> path, how |-> how]
Work(edits) == [status |-> "SUCCEEDED", edits |-> edits, nested |-> FALSE]
MCWorks ==
  {Work({Edit(Inside, "modified"), Edit(Denied, "created"), Edit(Beyond, "staged")}),
   [Work({Edit(Inside, "hidden"), Edit(Beyond, "large"), Edit(Outlink, "link")}) EXCEPT !.nested = TRUE, !.status = "FAILED"]}
MCOptions == {None, "claude"}
MCSymmetry == Permutations(Procs) \cup Permutations(Tasks)

-----------------------------------------------------------------------------
(* The matchers of RunPolicy against what they stand for, over every small input: *)
(* a star is any number of symbols, a double star any number of segments, one at   *)
(* least where it ends the pattern.                                               *)

Small(S, n) == UNION {[1..k -> S] : k \in 0..n}
Unfolded(p, star, one, counts) ==
  FlattenSeq([k \in DOMAIN p |-> IF p[k] = star THEN [x \in 1..counts[k] |-> one] ELSE <<p[k]>>])
StarMeans(v, p) ==
  \E counts \in [DOMAIN p -> 0..Len(v)] :
    LET q == Unfolded(p, "*", "?", counts) IN
    Len(q) = Len(v) /\ \A k \in DOMAIN q : q[k] \in {v[k], "?"}
ASSUME SegmentsMatchAsMeant ==
  \A v \in Small({"a", "b"}, 4), p \in Small({"a", "b", "*"}, 4) :
    MatchSegment(v, p) <=> StarMeans(v, p)

DoubleStarMeans(path, pattern) ==
  \E counts \in [DOMAIN pattern -> 0..Len(path)] :
    LET q == Unfolded(pattern, Anything, <<"*">>, counts) IN
    /\ pattern # <<>> /\ pattern[Len(pattern)] = Anything => counts[Len(pattern)] >= 1
    /\ Len(q) = Len(path) /\ \A k \in DOMAIN q : StarMeans(path[k], q[k])
ASSUME PathsMatchAsMeant ==
  \A path \in Small({<<"a">>, <<"b">>}, 3), pattern \in Small({<<"a">>, <<"*">>, Anything}, 3) :
    MatchSegments(path, pattern) <=> DoubleStarMeans(path, pattern)

=============================================================================
