------------------------------ MODULE RunPolicy ------------------------------
(***************************************************************************)
(* The pure decisions a run is planned and judged by: agent-role.ts,       *)
(* required-gates.ts, risk.ts, command-policy.ts and path-policy.ts under  *)
(* src/src.  Findings carry their codes, not their wording, and a function *)
(* that stops at the first finding is here the question whether there is one. *)
(***************************************************************************)
EXTENDS Integers, Sequences, FiniteSets

CONSTANTS
  None,     \* a field that is absent
  Folded,   \* tokens and path segments that have capitals |-> in lower case
  Base      \* argv[0] with a directory |-> its last component

Deferred == "REQUIRE_EXPLICIT"
Yes == "true"
No == "false"
Elements(s) == {s[i] : i \in DOMAIN s}

-----------------------------------------------------------------------------
(* Modes and roles: upper bounds, never grants.                            *)

Modes == <<"DRY_RUN", "SUGGEST_ONLY", "WORKSPACE_EDIT", "COMMAND_EXEC">>
HarnessModes == Elements(Modes)
ModeRank(m) == CHOOSE i \in DOMAIN Modes : Modes[i] = m
MeetMode(a, b) == IF ModeRank(a) <= ModeRank(b) THEN a ELSE b

Role(mode, denied) == [maxMode |-> mode, denied |-> denied, base |-> None]
Cloud == {"INFRA_APPLY", "CLOUD_RESOURCE_MUTATION"}
CoreRoles ==
  [BACKEND_IMPLEMENTER |-> Role("WORKSPACE_EDIT", Cloud),
   BACKEND_REVIEWER    |-> Role("SUGGEST_ONLY", {}),
   BACKEND_REFACTORER  |-> Role("WORKSPACE_EDIT", Cloud),
   INFRA_OPERATOR      |-> Role("COMMAND_EXEC", {"SERVICE_LIFECYCLE", "DEPLOYMENT_MUTATION"}),
   INFRA_DEBUGGER      |-> Role("SUGGEST_ONLY", {}),
   IAC_ENGINEER        |-> Role("COMMAND_EXEC", Cloud \cup {"INFRA_DESTROY"}),
   DOCS_WRITER         |-> Role("WORKSPACE_EDIT", Cloud \cup {"SERVICE_LIFECYCLE"})]

\* validateCustomRole.
MayNarrow(role) ==
  /\ role.base \in DOMAIN CoreRoles
  /\ role.maxMode \in HarnessModes
  /\ ModeRank(role.maxMode) <= ModeRank(CoreRoles[role.base].maxMode)
  /\ CoreRoles[role.base].denied \subseteq role.denied

\* resolveAgentRole: a custom role comes before the Core role of its id.
Resolvable(id, allowed, custom) ==
  /\ id \notin {None, Deferred}
  /\ id \in DOMAIN custom \cup DOMAIN CoreRoles
  /\ allowed # {} => id \in allowed
RoleOf(id, custom) == IF id \in DOMAIN custom THEN custom[id] ELSE CoreRoles[id]

\* resolveGuardrails.
Narrows(declared, ceiling) ==
  declared # None => declared \in HarnessModes /\ ModeRank(declared) <= ModeRank(ceiling)
ModeUnder(declared, ceiling) == IF declared = None THEN ceiling ELSE declared

-----------------------------------------------------------------------------
(* Gates.  A source states some of its three; required and explicit are Yes, *)
(* No or Deferred.                                                          *)

GateActors == {"HUMAN", "SYSTEM_POLICY"}
Decision(required, actors, explicit) ==
  [required |-> required, actors |-> actors, explicit |-> explicit]
Evidence(required, waivable, actors, explicit) ==
  [required |-> required, waivable |-> waivable, actors |-> actors, explicit |-> explicit]
CoreRequiredGates ==
  [runApproval  |-> Decision(No, {}, No),
   resultReview |-> Decision(Yes, {"HUMAN"}, No),
   verification |-> Evidence(Yes, FALSE, {}, Yes)]

\* validateRequiredGates of a Task Revision, which must be concrete.
Concrete(gates) ==
  /\ None \notin {gates.runApproval, gates.resultReview, gates.verification}
  /\ \A g \in {gates.runApproval, gates.resultReview} :
       /\ Deferred \notin {g.required, g.explicit}
       /\ g.required = Yes => g.actors # {}
       /\ g.required = No => g.actors = {} /\ g.explicit = No
  /\ Deferred \notin {gates.verification.required, gates.verification.explicit}
  /\ gates.verification.waivable => gates.verification.actors # {}

Stated(sources, key) == {s[key] : s \in sources} \ {None}
Common(gates) == {a \in GateActors : \A g \in gates : a \in g.actors}

\* Only the gates that are required have a say in who may decide.
MergeDecision(gates) ==
  LET requiring == {g \in gates : g.required = Yes} IN
  [required |-> requiring # {},
   actors   |-> IF requiring = {} THEN {} ELSE Common(requiring),
   explicit |-> requiring # {} /\ \E g \in gates : g.explicit = Yes]

MergeEvidence(gates) ==
  LET waivable == gates # {} /\ \A g \in gates : g.waivable IN
  [required |-> \E g \in gates : g.required = Yes,
   waivable |-> waivable,
   actors   |-> IF waivable THEN Common(gates) ELSE {},
   explicit |-> \E g \in gates : g.explicit = Yes]

\* Risk that is not low asks for a review that no source asked for.
Escalated(gate, risk) ==
  IF risk # "LOW" /\ ~gate.required
    THEN [gate EXCEPT !.required = TRUE, !.actors = IF @ = {} THEN {"HUMAN"} ELSE @]
    ELSE gate

MergeRequiredGates(sources, risk) ==
  [runApproval  |-> MergeDecision(Stated(sources, "runApproval")),
   resultReview |-> Escalated(MergeDecision(Stated(sources, "resultReview")), risk),
   verification |-> MergeEvidence(Stated(sources, "verification"))]

Unresolved(sources) ==
  \/ \E key \in {"runApproval", "resultReview", "verification"} :
       \E g \in Stated(sources, key) : Deferred \in {g.required, g.explicit}
  \/ \E key \in {"runApproval", "resultReview"} :
       LET gate == MergeDecision(Stated(sources, key)) IN gate.required /\ gate.actors = {}
  \/ LET gate == MergeEvidence(Stated(sources, "verification")) IN
       gate.waivable /\ gate.actors = {}

-----------------------------------------------------------------------------
(* Paths.  A path is a sequence of segments, a segment of symbols.         *)

Lower(t) == IF t \in DOMAIN Folded THEN Folded[t] ELSE t
LowerAll(s) == [i \in DOMAIN s |-> Lower(s[i])]
Normalized(path, caseSensitive) ==
  IF caseSensitive THEN path ELSE [i \in DOMAIN path |-> LowerAll(path[i])]

StarredAt(p) == {i \in DOMAIN p : p[i] = "*"}
At(v, part, i) == /\ i + Len(part) <= Len(v)
                  /\ \A k \in DOMAIN part : v[i + k] = part[k]
FirstAt(v, part, from) ==
  LET found == {i \in from..Len(v) : At(v, part, i)} IN
  IF found = {} THEN -1 ELSE CHOOSE i \in found : \A j \in found : i <= j

\* matchSegment: the part before the first star, each part between two stars at
\* the first place that is left for it, and the part after the last star.
MatchSegment(v, p) ==
  IF StarredAt(p) = {} THEN v = p ELSE
    LET stars  == StarredAt(p)
        next   == [i \in stars \cup {0} |->
                     LET later == {j \in stars : j > i} IN
                     IF later = {} THEN 0 ELSE CHOOSE j \in later : \A k \in later : j <= k]
        part   == [i \in stars \cup {0} |->
                     SubSeq(p, i + 1, IF next[i] = 0 THEN Len(p) ELSE next[i] - 1)]
        cursor[i \in stars] ==
          IF i = next[0] THEN Len(part[0])
          ELSE LET last == CHOOSE j \in stars : next[j] = i
                   from == cursor[last]
                   at   == IF from < 0 THEN -1 ELSE FirstAt(v, part[last], from)
               IN  IF at < 0 THEN -1 ELSE at + Len(part[last])
        final  == CHOOSE i \in stars : next[i] = 0
    IN  /\ At(v, part[0], 0)
        /\ cursor[final] >= 0
        /\ Len(v) - cursor[final] >= Len(part[final])
        /\ At(v, part[final], Len(v) - Len(part[final]))

\* matchSegments, from each place of the path and of the pattern.  A ** at the end
\* takes one segment at least.
Anything == <<"*", "*">>
MatchSegments(path, pattern) ==
  LET rest[i \in 0..Len(path), j \in 0..Len(pattern)] ==
        IF j = Len(pattern) THEN i = Len(path)
        ELSE IF pattern[j + 1] = Anything
          THEN \E skip \in 0..(Len(path) - i) :
                 (j + 1 = Len(pattern) => skip >= 1) /\ rest[i + skip, j + 1]
          ELSE i < Len(path) /\ MatchSegment(path[i + 1], pattern[j + 1]) /\ rest[i + 1, j + 1]
  IN  rest[0, 0]
MatchesPattern(path, pattern, caseSensitive) ==
  MatchSegments(Normalized(path, caseSensitive), Normalized(pattern, caseSensitive))
MatchesAny(path, patterns, caseSensitive) ==
  \E p \in patterns : MatchesPattern(path, p, caseSensitive)

\* evaluatePathPolicy: denied first.  A nested repository degrades the evaluation
\* and leaves its violations in place.
Outside(path) == <<".", ".">> \in Elements(path)
PathViolations(changed, allowed, denied, caseSensitive, escapes) ==
  {<<"SYMLINK_TARGET_ESCAPES_WORKSPACE", p>> : p \in escapes} \cup
  {<<"PATH_NOT_WORKSPACE_RELATIVE", p>> : p \in {q \in changed : Outside(q)}} \cup
  {<<"PATH_MATCHES_DENIED_PATHS", p>> :
     p \in {q \in changed : ~Outside(q) /\ MatchesAny(q, denied, caseSensitive)}} \cup
  {<<"PATH_OUTSIDE_ALLOWED_PATHS", p>> :
     p \in {q \in changed : /\ ~Outside(q) /\ ~MatchesAny(q, denied, caseSensitive)
                            /\ allowed # {} /\ ~MatchesAny(q, allowed, caseSensitive)}}

-----------------------------------------------------------------------------
(* Commands.                                                               *)

Shells == {"sh", "bash", "cmd", "powershell"}
Normal(argv) ==
  [i \in DOMAIN argv |-> IF i = 1 /\ argv[1] \in DOMAIN Base THEN Base[argv[1]] ELSE argv[i]]

MatchesCommand(argv, entry, caseSensitive) ==
  LET target  == IF caseSensitive THEN argv ELSE LowerAll(argv)
      pattern == IF caseSensitive THEN entry.argv ELSE LowerAll(entry.argv)
  IN  /\ pattern # <<>>
      /\ entry.exact => Len(target) = Len(pattern)
      /\ Len(target) >= Len(pattern)
      /\ \A i \in DOMAIN pattern : target[i] = pattern[i]

\* preflightCommand, where no category is approved.  The allowed list compares case,
\* the denied and the destructive list do not.
Preflight(argv, mayExecute, policy) ==
  /\ argv # <<>> /\ mayExecute
  /\ Lower(argv[1]) \notin Shells
  /\ \A e \in policy.denied : ~MatchesCommand(argv, e, FALSE)
  /\ policy.allowed # {} => \E e \in policy.allowed : MatchesCommand(argv, e, TRUE)
  /\ \A e \in policy.destructive : ~MatchesCommand(argv, e, FALSE)

\* findCapabilityExpansions: what a request may not add to what the policy grants.
Expands(requested, effective) ==
  \/ requested.fileEdit /\ ~effective.fileEdit
  \/ requested.commandExecution /\ ~effective.commandExecution
  \/ ~(requested.allowedPaths \subseteq effective.allowedPaths)
  \/ ~(requested.commands.allowed \subseteq effective.commands.allowed)
  \/ ~(effective.deniedPaths \subseteq requested.deniedPaths)
  \/ ~(effective.commands.denied \subseteq requested.commands.denied)

-----------------------------------------------------------------------------
(* Risk.                                                                    *)

RiskLevels == <<"LOW", "MEDIUM", "HIGH">>

\* evaluateCondition: which conditions cannot be evaluated, and which hold.
Unevaluable(c, subject) ==
  \/ c.target = "FILE_CONTENT"
  \/ c.target = "FIELD" /\ c.field \notin DOMAIN subject.fields
Holds(c, subject) ==
  CASE c.target = "PATH"       -> \E p \in subject.changed : MatchesPattern(p, c.glob, TRUE)
    [] c.target = "TASK_SCOPE" -> c.glob \in subject.scope
    [] c.target = "COMMAND"    -> \E a \in subject.commands : MatchesCommand(a, c, TRUE)
    [] c.target = "FIELD"      -> subject.fields[c.field] \in c.anyOf
    [] OTHER                   -> FALSE

\* The conditions of a rule are evaluated until one does not hold.
Reached(rule, i, subject) ==
  \A j \in 1..(i - 1) : ~Unevaluable(rule.allOf[j], subject) /\ Holds(rule.allOf[j], subject)
Matched(rule, subject) ==
  \A i \in DOMAIN rule.allOf : ~Unevaluable(rule.allOf[i], subject) /\ Holds(rule.allOf[i], subject)

EvaluateRisk(rules, subject) ==
  LET levels == {CHOOSE i \in DOMAIN RiskLevels : RiskLevels[i] = r.level :
                   r \in {q \in rules : Matched(q, subject)}}
  IN  IF \/ rules = {}
         \/ \E r \in rules : \E i \in DOMAIN r.allOf :
              Reached(r, i, subject) /\ Unevaluable(r.allOf[i], subject)
        THEN "UNKNOWN"
        ELSE IF levels = {} THEN "LOW"
             ELSE RiskLevels[CHOOSE n \in levels : \A k \in levels : k <= n]

-----------------------------------------------------------------------------
(* Verification: what the planned commands, each not run, passed or failed, *)
(* say (deriveVerificationOutcome).                                         *)

Mutant_BlockedIsLeftOut(attempts, required) ==
  LET executed == {i \in DOMAIN attempts : attempts[i] # "BLOCKED"}
      failed == \E i \in executed : attempts[i] = "FAIL"
  IN  [check |-> IF failed THEN "FAIL" ELSE "PASS",
       satisfied |-> IF executed = {} THEN ~required ELSE ~failed,
       reason |-> IF failed THEN "FAILED" ELSE "PASS"]
VerificationOutcome(attempts, required) ==
  LET executed == {i \in DOMAIN attempts : attempts[i] # "BLOCKED"} IN
  CASE executed = {} /\ attempts = <<>> ->
         [check |-> "NONE", satisfied |-> ~required, reason |-> IF required THEN "MISSING" ELSE "NOT_REQUIRED"]
    [] executed # DOMAIN attempts ->
         [check |-> "SKIP", satisfied |-> ~required, reason |-> IF required THEN "BLOCKED" ELSE "NOT_REQUIRED"]
    [] OTHER ->
         LET failed == \E i \in executed : attempts[i] = "FAIL" IN
         [check |-> IF failed THEN "FAIL" ELSE "PASS", satisfied |-> ~failed,
          reason |-> IF failed THEN "FAILED" ELSE "PASS"]

=============================================================================
