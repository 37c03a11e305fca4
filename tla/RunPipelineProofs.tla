-------------------------- MODULE RunPipelineProofs --------------------------
(***************************************************************************)
(* Proofs about RunPipeline for every set of processes, tasks, profiles,    *)
(* contracts and agents' works and every value of the bounds.               *)
(***************************************************************************)
EXTENDS RunPipeline, TLAPS, SequenceTheorems

(* Layer 1: what a process holds.                                            *)

\* The command of a process fits its phase.
CommandFits(p) ==
  /\ DOMAIN cmd[p] = DOMAIN NoCommand
  /\ Holding(p) => cmd[p].task \in Tasks
  /\ pc[p] = "listed" => cmd[p].run \in 1..(Len(runs) + 1)
  /\ pc[p] \in Running => cmd[p].run \in DOMAIN runs

Counted(s) == Len(s) \in Nat /\ s = [i \in 1..Len(s) |-> s[i]]

TypeInv ==
  /\ DOMAIN pc = Procs /\ DOMAIN cmd = Procs
  /\ \A p \in Procs : pc[p] \in Phases /\ CommandFits(p)
  /\ Counted(runs)
  /\ \A i \in DOMAIN runs : DOMAIN runs[i] = DOMAIN Reserved(None)
  /\ DOMAIN file = Tasks /\ DOMAIN approved = Tasks /\ DOMAIN queue = Tasks
  /\ DOMAIN lock = Tasks

\* Two processes that run have directories of their own, and the lock of a task is its
\* holder's unless it was broken while somebody held it.
SeparateInv ==
  /\ \A p, q \in Procs :
       p # q /\ pc[p] \in Running /\ pc[q] \in Running => cmd[p].run # cmd[q].run
  /\ \A p \in Procs :
       Holding(p) /\ cmd[p].task \notin broken => lock[cmd[p].task] = p

(* Layer 2: the contract of a run, its plan and its tree.                    *)

Before == {"reserved", "copied", "isolated"}
After(phase) == phase \in Running \ Before

\* What was read is what was approved, as long as nobody edits the task file meanwhile.
Follows(p) ==
  LET c == cmd[p] IN
  /\ pc[p] \in {"listed"} \cup Running =>
       /\ \E item \in queue[c.task] : item.revision = c.revision
       /\ ResolveRoleAndMode(Contract(p))
  /\ ~c.moved =>
       /\ pc[p] \in {"loaded", "approved", "listed", "reserved"} => file[c.task] = c.loaded
       /\ pc[p] \in {"approved", "listed"} \cup Before => c.loaded = c.revision

\* The directory of a run that a process is at.
PlanFits(p) ==
  LET c == cmd[p]  r == runs[cmd[p].run] IN
  pc[p] \in Running =>
    /\ r.task = c.task
    /\ r.stage = IF pc[p] \in Before THEN "reserved" ELSE "planned"
    /\ ~After(pc[p]) => r.edits = {}
    /\ pc[p] \in {"copied", "isolated"} /\ ~c.moved => r.snapshot = c.revision
    /\ After(pc[p]) => r.executed = c.loaded
    /\ pc[p] # "reserved" => GatesResolve(Contract(p))
    /\ pc[p] \notin {"reserved", "copied"} => RequirementMet(Contract(p), r.isolated)

\* The tree of a run is its process's to remove, or the summary says that it stayed.
TreeFits(p) ==
  pc[p] \in Running /\ cmd[p].run \in trees =>
    /\ pc[p] \notin {"reserved", "copied"}
    /\ IF pc[p] = "discarded" THEN "ISOLATION_DISCARD_FAILED" \in runs[cmd[p].run].gaps
       ELSE cmd[p].tree

RunFits(i) ==
  LET r == runs[i] IN
  /\ r.task \in Tasks
  /\ r.stage \in {"reserved", "planned", "finished"}
  /\ r.stage # "reserved" =>
       /\ ~r.moved => r.executed = r.revision /\ r.snapshot = r.revision
       /\ \E item \in queue[r.task] : item.revision = r.revision
       /\ GatesResolve(Contents[r.executed])
  /\ i \in trees /\ r.stage = "finished" => "ISOLATION_DISCARD_FAILED" \in r.gaps

PlanInv ==
  /\ profile \in Profiles
  /\ \A p \in Procs : Follows(p) /\ PlanFits(p) /\ TreeFits(p)
  /\ \A i \in DOMAIN runs : RunFits(i)
  /\ trees \subseteq DOMAIN runs
  /\ profile.requireIsolation => workspace = {}

(* Layer 3: the evidence of a run.                                           *)

\* What the summary may leave out of the edits, as EvidenceIsHonest has it.
Honest(r, c) ==
  \A e \in r.edits :
    /\ \/ e.how \in {"staged", "hidden"} \/ e \in r.patch
       \/ r.gaps \cap {"GIT_DIFF_FAILED", NotCaptured, Cut} # {}
    /\ MatchesAny(e.path, c.include, TRUE) => e.path \in r.delta
    /\ \/ e.how = "hidden" \/ r.violation
       \/ PathViolations({e.path}, c.include, c.exclude, CaseSensitive,
                         IF e.how = "link" THEN {e.path} ELSE {}) = {}
       \/ r.gaps \cap {"GIT_CHANGED_FILES_FAILED", "NESTED_REPO_NOT_TRAVERSED", Cut} # {}

\* The gate is what the attempts come to.
Judged(r, c) ==
  /\ r.attempts = [k \in DOMAIN r.attempts |-> r.attempts[k]]
  /\ \A k \in DOMAIN r.attempts : r.attempts[k] \in {"PASS", "FAIL", "BLOCKED"}
  /\ r.gate = Outcome(r.attempts, c).satisfied

EvidenceFits(p) ==
  LET c == cmd[p]  r == runs[cmd[p].run] IN
  /\ pc[p] \in Before \cup {"planned"} => \A e \in workspace : e.run # c.run
  /\ pc[p] \in {"planned", "ran"} => \A e \in c.before : e.run # c.run
  /\ pc[p] = "ran" /\ ~r.isolated => r.edits \subseteq workspace
  /\ pc[p] \in {"observed", "verified", "discarded"} =>
       Unobserved \in r.gaps /\ Honest(r, Contract(p))
  /\ pc[p] \in {"verified", "discarded"} => Judged(r, Contract(p))

RunHonest(i) ==
  LET r == runs[i] IN
  /\ {r.gate, r.violation, r.isolated} \subseteq BOOLEAN /\ r.gaps \subseteq Gaps
  /\ \A e \in r.edits : e.run = i /\ e.how \in Hows
  /\ r.stage = "finished" =>
       Unobserved \in r.gaps /\ Honest(r, Contents[r.executed]) /\ Judged(r, Contents[r.executed])

EvidenceInv ==
  /\ \A p \in Procs : EvidenceFits(p)
  /\ \A i \in DOMAIN runs : RunHonest(i)
  /\ \A e \in workspace : e.run \in DOMAIN runs

\* A step of p: the other processes stay, and of the runs only the one that p is at
\* changes, or one is added.
Moves(p) ==
  /\ UNCHANGED profile
  /\ \A q \in Procs \ {p} : pc'[q] = pc[q] /\ cmd'[q] = cmd[q]
  /\ DOMAIN runs \subseteq DOMAIN runs'
  /\ \A i \in DOMAIN runs :
       (pc[p] \in Running /\ i = cmd[p].run) \/ runs'[i] = runs[i]

-----------------------------------------------------------------------------
(* Sequences of runs.                                                        *)

LEMMA Adding ==
  ASSUME NEW s, Counted(s), NEW e
  PROVE  /\ Counted(Append(s, e)) /\ Len(Append(s, e)) = Len(s) + 1
         /\ DOMAIN s = 1..Len(s) /\ DOMAIN Append(s, e) = 1..(Len(s) + 1)
         /\ \A i \in 1..Len(s) : Append(s, e)[i] = s[i]
         /\ Append(s, e)[Len(s) + 1] = e
<1> DEFINE S == {s[i] : i \in 1..Len(s)} \cup {e}
<1>1. s \in [1..Len(s) -> S] /\ Len(s) \in Nat
  BY DEF Counted
<1>2. s \in Seq(S)
  BY <1>1, SeqDef
<1>3. e \in S
  OBVIOUS
<1> HIDE DEF S
<1>4. Append(s, e) \in Seq(S)
  BY <1>2, <1>3, AppendProperties
<1>5. /\ Len(Append(s, e)) = Len(s) + 1
      /\ \A i \in 1..Len(s) : Append(s, e)[i] = s[i]
      /\ Append(s, e)[Len(s) + 1] = e
  BY <1>2, <1>3, AppendProperties
<1>6. /\ Append(s, e) \in [1..Len(Append(s, e)) -> S]
      /\ DOMAIN Append(s, e) = 1..Len(Append(s, e))
  BY <1>4, LenProperties
<1>7. ASSUME NEW t, NEW n \in Nat, t \in [1..n -> S], Len(t) = n PROVE Counted(t)
  BY <1>7 DEF Counted
<1>8. Len(s) + 1 \in Nat /\ DOMAIN s = 1..Len(s)
  BY <1>1
<1>9. Append(s, e) \in [1..(Len(s) + 1) -> S]
  BY <1>5, <1>6
<1>10. Counted(Append(s, e))
  BY <1>5, <1>7, <1>8, <1>9
<1> QED
  BY <1>5, <1>6, <1>8, <1>10

Put(s, i, e) == [s EXCEPT ![i] = e]
LEMMA Replacing ==
  ASSUME NEW s, Counted(s), NEW i \in DOMAIN s, NEW e
  PROVE  LET t == Put(s, i, e) IN
         /\ Counted(t) /\ Len(t) = Len(s) /\ DOMAIN t = DOMAIN s /\ t[i] = e
         /\ \A j \in DOMAIN s : j # i => t[j] = s[j]
<1> DEFINE t == Put(s, i, e)
<1> DEFINE S == {s[j] : j \in 1..Len(s)} \cup {e}
<1>1. s \in [1..Len(s) -> S] /\ Len(s) \in Nat /\ DOMAIN s = 1..Len(s)
  BY DEF Counted
<1>2. /\ t \in [1..Len(s) -> S] /\ t[i] = e
      /\ \A j \in DOMAIN s : j # i => t[j] = s[j]
  BY <1>1 DEF Put
<1>3. t \in Seq(S) /\ DOMAIN t = 1..Len(s)
  BY <1>1, <1>2, SeqDef
<1> HIDE DEF S, t
<1>4. Len(t) \in Nat /\ DOMAIN t = 1..Len(t)
  BY <1>3, LenProperties
<1>5. Len(t) = Len(s)
  BY <1>1, <1>3, <1>4
<1>6. Counted(t) /\ DOMAIN t = DOMAIN s
  BY <1>1, <1>2, <1>3, <1>5 DEF Counted
<1> QED
  BY <1>2, <1>5, <1>6 DEF t

-----------------------------------------------------------------------------
(* Steps of one process.                                                     *)

\* What a step of p leaves to the others.
Alone(p) ==
  /\ UNCHANGED <<profile, contract>>
  /\ DOMAIN pc' = Procs /\ DOMAIN cmd' = Procs
  /\ \A q \in Procs \ {p} : pc'[q] = pc[q] /\ cmd'[q] = cmd[q]

\* The run that p is at is replaced, or none is.
Touches(p) ==
  \/ runs' = runs
  \/ /\ pc[p] \in Running
     /\ \E r : DOMAIN r = DOMAIN Reserved(None) /\ runs' = [runs EXCEPT ![cmd[p].run] = r]

LEMMA Touching ==
  ASSUME TypeInv, NEW p \in Procs, Touches(p)
  PROVE  /\ Counted(runs') /\ DOMAIN runs' = DOMAIN runs /\ Len(runs') = Len(runs)
         /\ \A i \in DOMAIN runs' : DOMAIN runs'[i] = DOMAIN Reserved(None)
         /\ \A i \in DOMAIN runs :
              (pc[p] \in Running /\ i = cmd[p].run) \/ runs'[i] = runs[i]
<1>1. CASE runs' = runs
  BY <1>1 DEF TypeInv
<1>2. CASE pc[p] \in Running
           /\ \E r : DOMAIN r = DOMAIN Reserved(None) /\ runs' = [runs EXCEPT ![cmd[p].run] = r]
  <2>1. PICK r : DOMAIN r = DOMAIN Reserved(None) /\ runs' = [runs EXCEPT ![cmd[p].run] = r]
    BY <1>2
  <2>2. cmd[p].run \in DOMAIN runs /\ Counted(runs)
    BY <1>2 DEF TypeInv, CommandFits
  <2>3. runs' = Put(runs, cmd[p].run, r)
    BY <2>1 DEF Put
  <2>4. /\ Counted(runs') /\ DOMAIN runs' = DOMAIN runs /\ Len(runs') = Len(runs)
        /\ runs'[cmd[p].run] = r
        /\ \A i \in DOMAIN runs : i # cmd[p].run => runs'[i] = runs[i]
    BY <2>2, <2>3, Replacing
  <2> QED
    BY <1>2, <2>1, <2>4 DEF TypeInv
<1> QED
  BY <1>1, <1>2 DEF Touches

LEMMA Proceeding ==
  ASSUME TypeInv, SeparateInv, NEW p \in Procs, Alone(p), Touches(p),
         UNCHANGED <<lock, broken>>, Holding(p),
         pc'[p] \in Phases \ {"idle"}, DOMAIN cmd'[p] = DOMAIN NoCommand,
         cmd'[p].task = cmd[p].task,
         pc'[p] = "listed" => cmd'[p].run \in 1..(Len(runs) + 1),
         pc'[p] \in Running => pc[p] \in Running /\ cmd'[p].run = cmd[p].run
  PROVE  TypeInv' /\ SeparateInv' /\ Moves(p)
<1>1. /\ Counted(runs') /\ DOMAIN runs' = DOMAIN runs /\ Len(runs') = Len(runs)
      /\ \A i \in DOMAIN runs' : DOMAIN runs'[i] = DOMAIN Reserved(None)
      /\ \A i \in DOMAIN runs :
           (pc[p] \in Running /\ i = cmd[p].run) \/ runs'[i] = runs[i]
  BY Touching
<1>2. Moves(p)
  BY <1>1 DEF Moves, Alone
<1>3. ASSUME NEW q \in Procs PROVE (pc[q] \in Phases /\ CommandFits(q))'
  BY <1>1 DEF TypeInv, CommandFits, Alone, Holding
<1>4. TypeInv'
  BY <1>1, <1>3 DEF TypeInv, Alone, contract
<1>5. SeparateInv'
  BY DEF SeparateInv, Alone, Holding, Running
<1> QED
  BY <1>2, <1>4, <1>5

\* What a process does in its run, and the other things it does.
AtWork(p) ==
  \/ Approve(p) \/ AskQueue(p) \/ CopyTask(p) \/ Isolate(p) \/ WritePlan(p) \/ RunAgent(p)
  \/ Observe(p) \/ Verify(p) \/ Discard(p) \/ Record(p) \/ Throw(p)
Acts(p) ==
  \/ \E t \in Tasks, o \in Options : Lock(p, t, o)
  \/ AtWork(p) \/ MakeDir(p) \/ Release(p) \/ Crash(p)
World ==
  \E t \in Tasks : LockUnwritten(t) \/ BreakRunLock(t) \/ EditTask(t) \/ ChangeApproval(t)
                   \/ ChangeQueue(t)

LEMMA Rewriting ==
  ASSUME TypeInv, NEW p \in Procs, pc[p] \in Running, NEW r,
         DOMAIN r = DOMAIN runs[cmd[p].run],
         runs' = [runs EXCEPT ![cmd[p].run] = r]
  PROVE  Touches(p)
  BY DEF TypeInv, CommandFits, Touches

LEMMA AtWorkStep ==
  ASSUME TypeInv, SeparateInv, NEW p \in Procs, AtWork(p)
  PROVE  TypeInv' /\ SeparateInv' /\ Moves(p)
<1> USE DEF Leave, Goto, Only, disk, local, history
<1>0. /\ DOMAIN pc = Procs /\ DOMAIN cmd = Procs /\ CommandFits(p)
      /\ DOMAIN cmd[p] = DOMAIN NoCommand
  BY DEF TypeInv, CommandFits
<1> DEFINE Kept ==
      /\ UNCHANGED <<profile, contract, lock, broken>>
      /\ Alone(p) /\ Holding(p)
      /\ pc'[p] \in Phases \ {"idle"} /\ DOMAIN cmd'[p] = DOMAIN NoCommand
      /\ cmd'[p].task = cmd[p].task
      /\ pc'[p] = "listed" => cmd'[p].run \in 1..(Len(runs) + 1)
      /\ pc'[p] \in Running => pc[p] \in Running /\ cmd'[p].run = cmd[p].run
<1> USE <1>0
<1>1. CASE Approve(p)
  <2>1. Kept /\ Touches(p)
    BY <1>1 DEF Approve, Alone, Holding, Phases, Early, Running, NoCommand, Touches
  <2> QED
    BY <2>1, Proceeding
<1>2. CASE AskQueue(p)
  <2>1. Len(runs) + 1 \in 1..(Len(runs) + 1)
    BY DEF TypeInv, Counted
  <2>2. Kept /\ Touches(p)
    BY <1>2, <2>1 DEF AskQueue, Alone, Holding, Phases, Early, Running, NoCommand, Touches
  <2> QED
    BY <2>2, Proceeding
<1>3. CASE CopyTask(p)
  <2>1. Kept /\ pc[p] \in Running
    BY <1>3 DEF CopyTask, Alone, Holding, Phases, Early, Running, NoCommand
  <2>2. Touches(p)
    BY <1>3, <2>1, Rewriting DEF CopyTask, Changing
  <2> QED
    BY <2>1, <2>2, Proceeding
<1>4. CASE Isolate(p)
  <2>1. Kept /\ pc[p] \in Running
    BY <1>4 DEF Isolate, Alone, Holding, Phases, Early, Running, NoCommand
  <2>2. PICK added : runs' = [runs EXCEPT ![cmd[p].run].isolated = added]
    BY <1>4 DEF Isolate
  <2>3. runs' = [runs EXCEPT ![cmd[p].run] = [runs[cmd[p].run] EXCEPT !.isolated = added]]
    BY <2>2
  <2>4. Touches(p)
    BY <2>1, <2>3, Rewriting
  <2> QED
    BY <2>1, <2>4, Proceeding
<1>5. CASE WritePlan(p)
  <2>1. Kept /\ pc[p] \in Running
    BY <1>5 DEF WritePlan, Alone, Holding, Phases, Early, Running, NoCommand
  <2>2. Touches(p)
    BY <1>5, <2>1, Rewriting DEF WritePlan, Changing
  <2> QED
    BY <2>1, <2>2, Proceeding
<1>6. CASE RunAgent(p)
  <2>1. Kept /\ pc[p] \in Running
    BY <1>6 DEF RunAgent, Alone, Holding, Phases, Early, Running, NoCommand
  <2>2. Touches(p)
    BY <1>6, <2>1, Rewriting DEF RunAgent, Changing
  <2> QED
    BY <2>1, <2>2, Proceeding
<1>7. CASE Observe(p)
  <2>1. Kept /\ pc[p] \in Running
    BY <1>7 DEF Observe, Alone, Holding, Phases, Early, Running, NoCommand
  <2>2. PICK diff \in {"ok", "failed", "cut"}, status \in {"ok", "failed", "cut"},
             listing \in {"ok", "failed"} :
          Changing(cmd[p].run,
                   HarnessObservation(cmd[p].run, cmd[p].before, Contract(p),
                     GitDiff(Observed(cmd[p].run), diff, listing),
                     PathPolicy(Observed(cmd[p].run), status, NestedIn(cmd[p].run), Contract(p))))
    BY <1>7 DEF Observe
  <2>3. Touches(p)
    BY <2>1, <2>2, Rewriting DEF HarnessObservation, Changing
  <2> QED
    BY <2>1, <2>3, Proceeding
<1>8. CASE Verify(p)
  <2>1. Kept /\ pc[p] \in Running
    BY <1>8 DEF Verify, Alone, Holding, Phases, Early, Running, NoCommand
  <2>2. \E attempts, gate, gaps :
          runs' = [runs EXCEPT ![cmd[p].run] =
                     [runs[cmd[p].run] EXCEPT !.attempts = attempts, !.gate = gate, !.gaps = gaps]]
    BY <1>8 DEF Verify, Changing
  <2>3. Touches(p)
    BY <2>1, <2>2, Rewriting
  <2> QED
    BY <2>1, <2>3, Proceeding
<1>9. CASE Discard(p)
  <2>1. Kept /\ pc[p] \in Running
    BY <1>9 DEF Discard, Alone, Holding, Phases, Early, Running, NoCommand
  <2>2. \E gaps : runs' = [runs EXCEPT ![cmd[p].run].gaps = gaps]
    BY <1>9 DEF Discard
  <2>3. PICK gaps : runs' = [runs EXCEPT ![cmd[p].run] = [runs[cmd[p].run] EXCEPT !.gaps = gaps]]
    BY <2>2
  <2>4. Touches(p)
    BY <2>1, <2>3, Rewriting
  <2> QED
    BY <2>1, <2>4, Proceeding
<1>10. CASE Record(p)
  <2>1. Kept /\ pc[p] \in Running
    BY <1>10 DEF Record, Alone, Holding, Phases, Early, Running, NoCommand
  <2>2. \/ runs' = runs
        \/ runs' = [runs EXCEPT ![cmd[p].run] = [runs[cmd[p].run] EXCEPT !.stage = "finished"]]
    BY <1>10 DEF Record
  <2>3. Touches(p)
    BY <2>1, <2>2, Rewriting DEF Touches
  <2> QED
    BY <2>1, <2>3, Proceeding
<1>11. CASE Throw(p)
  <2>1. Kept /\ Touches(p)
    BY <1>11 DEF Throw, Alone, Holding, Phases, Early, Running, NoCommand, Touches
  <2> QED
    BY <2>1, Proceeding
<1> QED
  BY <1>1, <1>2, <1>3, <1>4, <1>5, <1>6, <1>7, <1>8, <1>9, <1>10, <1>11 DEF AtWork

LEMMA MakeDirStep ==
  ASSUME PipelineAssumption, TypeInv, SeparateInv, NEW p \in Procs, MakeDir(p)
  PROVE  TypeInv' /\ SeparateInv' /\ Moves(p)
<1> DEFINE number == cmd[p].run
<1> USE DEF Leave, Goto, Only, disk, local, history
<1>0. /\ DOMAIN pc = Procs /\ DOMAIN cmd = Procs /\ CommandFits(p)
      /\ DOMAIN cmd[p] = DOMAIN NoCommand /\ Counted(runs)
      /\ number \in 1..(Len(runs) + 1) /\ pc[p] = "listed"
      /\ DOMAIN runs = 1..Len(runs) /\ Len(runs) \in Nat
  BY DEF TypeInv, CommandFits, MakeDir, Counted
<1>1. CASE number \in DOMAIN runs
  <2>1. number + 1 \in 1..(Len(runs) + 1)
    BY <1>0, <1>1
  <2>2. /\ UNCHANGED <<profile, contract, lock, broken>>
        /\ Alone(p) /\ Holding(p) /\ Touches(p)
        /\ pc'[p] \in Phases \ {"idle"} /\ DOMAIN cmd'[p] = DOMAIN NoCommand
        /\ cmd'[p].task = cmd[p].task
        /\ pc'[p] = "listed" => cmd'[p].run \in 1..(Len(runs) + 1)
        /\ pc'[p] \in Running => pc[p] \in Running /\ cmd'[p].run = cmd[p].run
    BY <1>0, <1>1, <2>1
    DEF MakeDir, Alone, Holding, Phases, Early, Running, NoCommand, Touches
  <2> QED
    BY <2>2, Proceeding
<1>2. CASE number \notin DOMAIN runs
  <2>1. number = Len(runs) + 1
    BY <1>0, <1>2
  <2>2. /\ runs' = Append(runs, Reserved(cmd[p].task)) /\ cmd' = cmd
        /\ pc'[p] = "reserved" /\ Alone(p)
        /\ UNCHANGED <<profile, contract, lock, broken>>
    BY <1>0, <1>2 DEF MakeDir, Alone
  <2>3. /\ Counted(runs') /\ Len(runs') = Len(runs) + 1
        /\ DOMAIN runs = 1..Len(runs) /\ DOMAIN runs' = 1..(Len(runs) + 1)
        /\ \A i \in 1..Len(runs) : runs'[i] = runs[i]
        /\ runs'[Len(runs) + 1] = Reserved(cmd[p].task)
    BY <1>0, <2>2, Adding
  <2>4. DOMAIN Reserved(cmd[p].task) = DOMAIN Reserved(None)
    BY DEF Reserved
  <2>5. \A i \in DOMAIN runs' : DOMAIN runs'[i] = DOMAIN Reserved(None)
    <3> TAKE i \in DOMAIN runs'
    <3>1. i \in DOMAIN runs \/ i = Len(runs) + 1
      BY <1>0, <2>3
    <3> QED
      BY <2>3, <2>4, <3>1 DEF TypeInv
  <2>6. DOMAIN runs \subseteq DOMAIN runs'
    BY <1>0, <2>3
  <2>7. Moves(p)
    BY <2>2, <2>3, <2>6 DEF Moves, Alone
  <2>8. number \in DOMAIN runs' /\ 1..(Len(runs) + 1) \subseteq 1..(Len(runs') + 1)
    BY <1>0, <2>1, <2>3
  <2>9. ASSUME NEW q \in Procs PROVE (pc[q] \in Phases /\ CommandFits(q))'
    BY <1>0, <2>2, <2>3, <2>6, <2>8
    DEF TypeInv, CommandFits, Alone, Holding, Phases, Running
  <2>10. TypeInv'
    BY <2>2, <2>3, <2>5, <2>9 DEF TypeInv, Alone, contract
  <2>11. \A q \in Procs : q # p /\ pc'[q] \in Running => cmd'[q].run # number
    BY <1>2, <2>2 DEF Alone, TypeInv, CommandFits
  <2>12. SeparateInv'
    BY <1>0, <2>2, <2>11 DEF SeparateInv, Alone, Holding
  <2> QED
    BY <2>7, <2>10, <2>12
<1> QED
  BY <1>1, <1>2

\* A process becomes idle, or takes a lock.
LEMMA LockStep ==
  ASSUME PipelineAssumption, TypeInv, SeparateInv, NEW p \in Procs, NEW t \in Tasks,
         NEW o, Lock(p, t, o)
  PROVE  TypeInv' /\ SeparateInv' /\ Moves(p)
<1>1. /\ UNCHANGED <<profile, contract, runs, broken>>
      /\ pc[p] = "idle" /\ pc'[p] = "loaded" /\ Alone(p)
      /\ cmd'[p].task = t /\ DOMAIN cmd'[p] = DOMAIN NoCommand
      /\ lock[t] = None /\ lock' = [lock EXCEPT ![t] = p]
  BY DEF Lock, Only, Goto, disk, history, TypeInv, Alone, NoCommand
<1>2. Moves(p)
  BY <1>1 DEF Moves, Alone
<1>3. ASSUME NEW q \in Procs PROVE (pc[q] \in Phases /\ CommandFits(q))'
  BY <1>1 DEF TypeInv, CommandFits, Alone, Holding, Phases, Early, Running
<1>4. TypeInv'
  BY <1>1, <1>3 DEF TypeInv, Alone, contract
<1>5. \A q \in Procs : Holding(q) /\ cmd[q].task = t => t \in broken
  BY <1>1, PipelineAssumption DEF SeparateInv, Holding, TypeInv, CommandFits
<1>6. ASSUME NEW q \in Procs, Holding(q)', cmd'[q].task \notin broken'
      PROVE  lock'[cmd'[q].task] = q
  <2>1. CASE q = p
    BY <1>1, <2>1 DEF TypeInv
  <2>2. CASE q # p
    <3>1. pc'[q] = pc[q] /\ cmd'[q] = cmd[q] /\ Holding(q) /\ cmd[q].task \notin broken
      BY <1>1, <1>6, <2>2 DEF Alone, Holding
    <3>2. lock[cmd[q].task] = q /\ cmd[q].task \in Tasks /\ cmd[q].task # t
      BY <1>5, <3>1 DEF SeparateInv, TypeInv, CommandFits
    <3> QED
      BY <1>1, <3>1, <3>2 DEF TypeInv
  <2> QED
    BY <2>1, <2>2
<1>7. SeparateInv'
  BY <1>1, <1>6 DEF SeparateInv, Alone, Running
<1> QED
  BY <1>2, <1>4, <1>7

LEMMA EndStep ==
  ASSUME TypeInv, SeparateInv, NEW p \in Procs, Release(p) \/ Crash(p)
  PROVE  TypeInv' /\ SeparateInv' /\ Moves(p)
<1>1. /\ UNCHANGED <<profile, contract, runs, broken>>
      /\ Holding(p) /\ pc'[p] = "idle" /\ Alone(p) /\ cmd'[p] = NoCommand
      /\ lock' = lock \/ lock' = [lock EXCEPT ![cmd[p].task] = None]
  BY DEF Release, Crash, Only, Goto, disk, history, TypeInv, Alone, Holding
<1>2. Moves(p)
  BY <1>1 DEF Moves, Alone
<1>3. ASSUME NEW q \in Procs PROVE (pc[q] \in Phases /\ CommandFits(q))'
  BY <1>1 DEF TypeInv, CommandFits, Alone, Holding, Phases, Early, Running
<1>4. TypeInv'
  BY <1>1, <1>3 DEF TypeInv, Alone, contract
<1>5. ASSUME NEW q \in Procs, Holding(q)', cmd'[q].task \notin broken'
      PROVE  lock'[cmd'[q].task] = q
  <2>1. q # p /\ pc'[q] = pc[q] /\ cmd'[q] = cmd[q] /\ Holding(q) /\ cmd[q].task \notin broken
    BY <1>1, <1>5 DEF Alone, Holding
  <2>2. lock[cmd[q].task] = q
    BY <2>1 DEF SeparateInv
  <2>3. cmd[q].task = cmd[p].task => lock[cmd[q].task] = p
    BY <1>1, <2>1 DEF SeparateInv
  <2>4. cmd[q].task # cmd[p].task /\ cmd[q].task \in DOMAIN lock
    BY <2>1, <2>2, <2>3 DEF TypeInv, CommandFits
  <2> QED
    BY <1>1, <2>1, <2>2, <2>4
<1>6. SeparateInv'
  BY <1>1, <1>5 DEF SeparateInv, Alone, Running
<1> QED
  BY <1>2, <1>4, <1>6

\* What happens meanwhile leaves the runs and the phases alone; a task file that is
\* edited marks the runs that are being planned.
LEMMA WorldStep ==
  ASSUME PipelineAssumption, TypeInv, SeparateInv, World
  PROVE  /\ TypeInv' /\ SeparateInv' /\ UNCHANGED <<profile, disk, pc>>
         /\ \A p \in Procs : /\ \A f \in DOMAIN NoCommand \ {"moved"} : cmd'[p][f] = cmd[p][f]
                             /\ cmd[p].moved => cmd'[p].moved
<1> DEFINE Same == \A p \in Procs : /\ DOMAIN cmd'[p] = DOMAIN cmd[p]
                                    /\ \A f \in DOMAIN NoCommand \ {"moved"} : cmd'[p][f] = cmd[p][f]
                                    /\ cmd[p].moved => cmd'[p].moved
<1>1. PICK t \in Tasks : LockUnwritten(t) \/ BreakRunLock(t) \/ EditTask(t)
                         \/ ChangeApproval(t) \/ ChangeQueue(t)
  BY DEF World
<1>2. UNCHANGED <<profile, disk, pc>>
  BY <1>1 DEF LockUnwritten, BreakRunLock, EditTask, ChangeApproval, ChangeQueue, local
<1>3. DOMAIN cmd' = Procs /\ Same
  <2>1. CASE cmd' = cmd
    BY <2>1 DEF TypeInv
  <2>2. CASE EditTask(t)
    <3>1. DOMAIN cmd' = Procs
      BY <2>2 DEF EditTask
    <3>2. ASSUME NEW p \in Procs
          PROVE  cmd'[p] = cmd[p] \/ cmd'[p] = [cmd[p] EXCEPT !.moved = TRUE]
      BY <2>2, <3>2 DEF EditTask
    <3>3. \A p \in Procs : DOMAIN cmd[p] = DOMAIN NoCommand
      BY DEF TypeInv, CommandFits
    <3> QED
      BY <3>1, <3>2, <3>3 DEF NoCommand
  <2> QED
    BY <1>1, <2>1, <2>2 DEF LockUnwritten, BreakRunLock, ChangeApproval, ChangeQueue, local
<1>4. /\ DOMAIN file' = Tasks /\ DOMAIN approved' = Tasks /\ DOMAIN queue' = Tasks
      /\ DOMAIN lock' = Tasks
  BY <1>1 DEF TypeInv, LockUnwritten, BreakRunLock, EditTask, ChangeApproval, ChangeQueue, contract
<1>5. \A p \in Procs : /\ cmd'[p].task = cmd[p].task /\ cmd'[p].run = cmd[p].run
                       /\ DOMAIN cmd'[p] = DOMAIN cmd[p]
  BY <1>3 DEF NoCommand
<1>6. TypeInv'
  BY <1>2, <1>3, <1>4, <1>5 DEF TypeInv, CommandFits, Holding, disk
<1>7. SeparateInv'
  <2>1. CASE UNCHANGED <<lock, broken>>
    BY <1>2, <1>5, <2>1 DEF SeparateInv, Holding
  <2>2. CASE LockUnwritten(t)
    <3>1. \A p \in Procs : Holding(p) /\ cmd[p].task = t => t \in broken
      BY <2>2, PipelineAssumption DEF SeparateInv, LockUnwritten
    <3>2. /\ broken' = broken
          /\ \A u \in Tasks : u # t => lock'[u] = lock[u]
      BY <2>2 DEF LockUnwritten
    <3>3. \A p \in Procs : Holding(p)' /\ cmd'[p].task \notin broken' => lock'[cmd'[p].task] = p
      BY <1>2, <1>5, <3>1, <3>2 DEF SeparateInv, Holding, TypeInv, CommandFits
    <3> QED
      BY <1>2, <1>5, <3>3 DEF SeparateInv
  <2>3. CASE BreakRunLock(t)
    <3>1. \A p \in Procs : Holding(p) /\ cmd[p].task = t => t \in broken'
      BY <2>3 DEF BreakRunLock
    <3>2. /\ broken \subseteq broken'
          /\ \A u \in Tasks : u # t => lock'[u] = lock[u]
      BY <2>3 DEF BreakRunLock
    <3>3. \A p \in Procs : Holding(p)' /\ cmd'[p].task \notin broken' => lock'[cmd'[p].task] = p
      BY <1>2, <1>5, <3>1, <3>2 DEF SeparateInv, Holding, TypeInv, CommandFits
    <3> QED
      BY <1>2, <1>5, <3>3 DEF SeparateInv
  <2> QED
    BY <1>1, <2>1, <2>2, <2>3 DEF EditTask, ChangeApproval, ChangeQueue
<1> QED
  BY <1>2, <1>3, <1>6, <1>7

-----------------------------------------------------------------------------
LEMMA NextIs == Next <=> World \/ \E p \in Procs : Acts(p)
  BY DEF Next, World, Acts, AtWork

LEMMA ActsStep ==
  ASSUME PipelineAssumption, TypeInv, SeparateInv, NEW p \in Procs, Acts(p)
  PROVE  TypeInv' /\ SeparateInv' /\ Moves(p)
  BY AtWorkStep, MakeDirStep, LockStep, EndStep DEF Acts

LEMMA InitSeparate ==
  ASSUME Init PROVE TypeInv /\ SeparateInv
<1>1. Counted(runs)
  BY EmptySeq DEF Init, Counted
<1> QED
  BY <1>1 DEF Init, TypeInv, SeparateInv, CommandFits, NoCommand, Holding, Phases, Running, Early

LEMMA TypeSeparateStep ==
  ASSUME PipelineAssumption, TypeInv, SeparateInv, [Next]_vars
  PROVE  TypeInv' /\ SeparateInv'
<1>1. CASE Next
  BY <1>1, NextIs, ActsStep, WorldStep
<1>2. CASE UNCHANGED vars
  BY <1>2 DEF vars, TypeInv, SeparateInv, CommandFits, Holding, contract, disk, local, history
<1> QED
  BY <1>1, <1>2

LEMMA Separation == Spec => [](TypeInv /\ SeparateInv)
<1> USE PipelineAssumption
<1>1. Init => TypeInv /\ SeparateInv
  BY InitSeparate
<1>2. TypeInv /\ SeparateInv /\ [Next]_vars => (TypeInv /\ SeparateInv)'
  BY TypeSeparateStep
<1> QED
  BY <1>1, <1>2, PTL DEF Spec

\* Live runs have directories of their own, and two of one task are alive together only
\* after the lock of a live one was broken (reserveRunDir, acquireRunLock, breakRunLock).
THEOREM RunsSeparate == Spec => []RunsAreSeparate
<1>1. TypeInv /\ SeparateInv => RunsAreSeparate
  BY DEF TypeInv, SeparateInv, RunsAreSeparate
<1> QED
  BY <1>1, Separation, PTL

-----------------------------------------------------------------------------
(* What a step changes in the run that the process is at.                    *)

Keeps(i, fields) ==
  \A f \in DOMAIN Reserved(None) \ fields : runs'[i][f] = runs[i][f]

LEMMA Setting ==
  ASSUME TypeInv, NEW p \in Procs, pc[p] \in Running, NEW fields, NEW r,
         runs' = [runs EXCEPT ![cmd[p].run] = r],
         \A f \in DOMAIN Reserved(None) \ fields : r[f] = runs[cmd[p].run][f]
  PROVE  runs'[cmd[p].run] = r /\ Keeps(cmd[p].run, fields)
  BY DEF TypeInv, CommandFits, Keeps

LEMMA FieldsKept ==
  ASSUME TypeInv, NEW p \in Procs, pc[p] \in Running
  PROVE  LET i == cmd[p].run IN
         /\ CopyTask(p) => Keeps(i, {"snapshot"}) /\ runs'[i].snapshot = file[cmd[p].task]
         /\ WritePlan(p) => /\ Keeps(i, {"stage", "executed", "revision", "moved", "told"})
                            /\ runs'[i].stage = "planned" /\ runs'[i].executed = cmd[p].loaded
                            /\ runs'[i].revision = cmd[p].revision
                            /\ runs'[i].moved = cmd[p].moved
         /\ RunAgent(p) => Keeps(i, {"status", "edits", "nested"})
         /\ Observe(p) => Keeps(i, {"patch", "delta", "violation", "gaps"})
         /\ Verify(p) => Keeps(i, {"attempts", "gate", "gaps"})
         /\ Discard(p) => Keeps(i, {"gaps"})
         /\ Record(p) => Keeps(i, {"stage"})
<1> DEFINE i == cmd[p].run
<1>0. /\ i \in DOMAIN runs /\ DOMAIN runs[i] = DOMAIN Reserved(None)
      /\ \A r : [runs EXCEPT ![i] = r][i] = r
  BY DEF TypeInv, CommandFits
<1> HIDE DEF i
<1>1. ASSUME CopyTask(p)
      PROVE  Keeps(i, {"snapshot"}) /\ runs'[i].snapshot = file[cmd[p].task]
  BY <1>0, <1>1 DEF CopyTask, Changing, Keeps, Reserved, i
<1>2. ASSUME WritePlan(p)
      PROVE  /\ Keeps(i, {"stage", "executed", "revision", "moved", "told"})
             /\ runs'[i].stage = "planned" /\ runs'[i].executed = cmd[p].loaded
             /\ runs'[i].revision = cmd[p].revision /\ runs'[i].moved = cmd[p].moved
  BY <1>0, <1>2 DEF WritePlan, Changing, Keeps, Reserved, i
<1>3. ASSUME RunAgent(p) PROVE Keeps(i, {"status", "edits", "nested"})
  <2>1. PICK status, edits, nested :
          runs' = [runs EXCEPT ![i] =
                     [runs[i] EXCEPT !.status = status, !.edits = edits, !.nested = nested]]
    BY <1>3 DEF RunAgent, Changing, i
  <2> QED
    BY <1>0, <2>1 DEF Keeps, Reserved
<1>4. ASSUME Observe(p) PROVE Keeps(i, {"patch", "delta", "violation", "gaps"})
  <2>1. PICK before, c, found, policy :
          Changing(i, HarnessObservation(i, before, c, found, policy))
    BY <1>4 DEF Observe, i
  <2> QED
    BY <1>0, <2>1 DEF HarnessObservation, Changing, Keeps, Reserved
<1>5. ASSUME Verify(p) PROVE Keeps(i, {"attempts", "gate", "gaps"})
  <2>1. PICK attempts, gate, gaps :
          runs' = [runs EXCEPT ![i] =
                     [runs[i] EXCEPT !.attempts = attempts, !.gate = gate, !.gaps = gaps]]
    BY <1>5 DEF Verify, Changing, i
  <2> QED
    BY <1>0, <2>1 DEF Keeps, Reserved
<1>6. ASSUME Discard(p) PROVE Keeps(i, {"gaps"})
  <2>1. PICK gaps : runs' = [runs EXCEPT ![i].gaps = gaps]
    BY <1>6 DEF Discard, i
  <2> QED
    BY <1>0, <2>1 DEF Keeps, Reserved
<1>7. ASSUME Record(p) PROVE Keeps(i, {"stage"})
  BY <1>0, <1>7 DEF Record, Keeps, Reserved, i
<1> QED
  BY <1>1, <1>2, <1>3, <1>4, <1>5, <1>6, <1>7 DEF i

\* The run of another process, and a run that nobody is at, stay.
LEMMA Others ==
  ASSUME TypeInv, SeparateInv, NEW p \in Procs, Moves(p)
  PROVE  /\ \A q \in Procs \ {p} :
              /\ pc'[q] = pc[q] /\ cmd'[q] = cmd[q]
              /\ pc[q] \in Running =>
                   cmd[q].run \in DOMAIN runs /\ runs'[cmd[q].run] = runs[cmd[q].run]
         /\ \A i \in DOMAIN runs :
              i \in DOMAIN runs' /\ ((pc[p] \in Running /\ i = cmd[p].run) \/ runs'[i] = runs[i])
  BY DEF TypeInv, CommandFits, SeparateInv, Moves

-----------------------------------------------------------------------------
(* Layer 2.                                                                  *)

\* The decisions about a contract read the profile alone.
LEMMA SameProfile ==
  ASSUME UNCHANGED profile, NEW c
  PROVE  /\ ResolveRoleAndMode(c)' <=> ResolveRoleAndMode(c)
         /\ GatesResolve(c)' <=> GatesResolve(c)
         /\ \A b : RequirementMet(c, b)' <=> RequirementMet(c, b)
         /\ \A attempts : Outcome(attempts, c)' = Outcome(attempts, c)
  BY DEF ResolveRoleAndMode, RoleId, Ceiling, GatesResolve, Sources, RequirementMet,
         Capabilities, EffectiveMode, Outcome, MergedGates

LEMMA PlanProceeding ==
  ASSUME TypeInv, SeparateInv, PlanInv, NEW p \in Procs, Moves(p), UNCHANGED contract,
         Follows(p)', PlanFits(p)', TreeFits(p)',
         \A i \in DOMAIN runs' : i \in DOMAIN runs => trees' \cap {i} \subseteq trees
                                                      \/ (pc[p] \in Running /\ i = cmd[p].run),
         \A i \in DOMAIN runs : pc[p] \in Running /\ i = cmd[p].run => RunFits(i)',
         \A i \in DOMAIN runs' \ DOMAIN runs : RunFits(i)',
         trees' \subseteq DOMAIN runs', profile.requireIsolation => workspace' = {}
  PROVE  PlanInv'
<1>1. /\ \A q \in Procs \ {p} :
           /\ pc'[q] = pc[q] /\ cmd'[q] = cmd[q]
           /\ pc[q] \in Running =>
                /\ cmd[q].run \in DOMAIN runs /\ runs'[cmd[q].run] = runs[cmd[q].run]
                /\ cmd[q].run \in DOMAIN runs'
                /\ ~(pc[p] \in Running /\ cmd[q].run = cmd[p].run)
      /\ \A i \in DOMAIN runs :
           i \in DOMAIN runs' /\ ((pc[p] \in Running /\ i = cmd[p].run) \/ runs'[i] = runs[i])
  BY Others DEF SeparateInv
<1>2. UNCHANGED profile
  BY DEF Moves
<1>3. ASSUME NEW q \in Procs \ {p} PROVE (Follows(q) /\ PlanFits(q) /\ TreeFits(q))'
  <2>1. pc'[q] = pc[q] /\ cmd'[q] = cmd[q] /\ UNCHANGED <<file, queue, profile>>
    BY <1>1, <1>2 DEF contract
  <2>2. Contract(q)' = Contract(q)
    BY <2>1 DEF Contract
  <2>3. Follows(q)'
    BY <1>2, <2>1, <2>2, SameProfile DEF PlanInv, Follows
  <2>4. PlanFits(q)'
    BY <1>1, <1>2, <2>1, <2>2, SameProfile DEF PlanInv, PlanFits
  <2>5. TreeFits(q)'
    BY <1>1, <2>1 DEF PlanInv, TreeFits
  <2> QED
    BY <2>3, <2>4, <2>5
<1>4. ASSUME NEW i \in DOMAIN runs' PROVE RunFits(i)'
  <2>1. CASE i \in DOMAIN runs /\ ~(pc[p] \in Running /\ i = cmd[p].run)
    <3>1. runs'[i] = runs[i] /\ (i \in trees' => i \in trees) /\ UNCHANGED <<file, queue, profile>>
      BY <1>1, <1>2, <2>1 DEF contract
    <3> QED
      BY <1>2, <2>1, <3>1, SameProfile DEF PlanInv, RunFits
  <2> QED
    BY <2>1
<1>5. profile' \in Profiles /\ (profile'.requireIsolation => workspace' = {})
  BY <1>2 DEF PlanInv
<1> QED
  BY <1>3, <1>4, <1>5 DEF PlanInv

SameCommand(p) ==
  \A f \in {"run", "task", "revision", "loaded", "moved"} : cmd'[p][f] = cmd[p][f]

LEMMA FollowsOn ==
  ASSUME PlanInv, NEW p \in Procs, pc[p] \in Running, UNCHANGED <<profile, contract>>,
         SameCommand(p),
         pc'[p] = "leaving" \/ (/\ pc'[p] \in Running \ {"reserved"}
                                /\ pc'[p] \in Before => pc[p] \in Before)
  PROVE  Follows(p)' /\ Contract(p)' = Contract(p)
<1>1. /\ cmd'[p].task = cmd[p].task /\ cmd'[p].revision = cmd[p].revision
      /\ cmd'[p].loaded = cmd[p].loaded /\ cmd'[p].moved = cmd[p].moved
      /\ UNCHANGED <<file, queue, profile>>
  BY DEF SameCommand, contract
<1>2. Contract(p)' = Contract(p)
  BY <1>1 DEF Contract
<1>3. ResolveRoleAndMode(Contract(p))'
  BY <1>1, <1>2, SameProfile DEF PlanInv, Follows
<1> QED
  BY <1>1, <1>2, <1>3 DEF PlanInv, Follows, Running, Before

\* A step that leaves the plan of a run as it is.
LEMMA PlanKept ==
  ASSUME TypeInv, SeparateInv, PlanInv, NEW p \in Procs, pc[p] \in Running, Moves(p),
         UNCHANGED <<profile, contract>>, SameCommand(p), DOMAIN runs' = DOMAIN runs,
         NEW F, F \subseteq {"snapshot", "isolated", "status", "edits", "nested", "patch", "delta",
                   "violation", "gaps", "attempts", "gate"},
         Keeps(cmd[p].run, F),
         "snapshot" \in F => pc[p] = "reserved",
         "isolated" \in F => pc[p] = "copied",
         Follows(p)', PlanFits(p)', TreeFits(p)',
         trees' \subseteq trees \cup {cmd[p].run},
         profile.requireIsolation => workspace' = {}
  PROVE  PlanInv'
<1> DEFINE i == cmd[p].run
<1>1. /\ runs'[i].task = runs[i].task /\ runs'[i].stage = runs[i].stage
      /\ runs'[i].moved = runs[i].moved /\ runs'[i].executed = runs[i].executed
      /\ runs'[i].revision = runs[i].revision
      /\ "snapshot" \notin F => runs'[i].snapshot = runs[i].snapshot
  BY DEF Keeps, Reserved
<1>2. i \in DOMAIN runs
  BY DEF TypeInv, CommandFits
<1>3. RunFits(i)
  BY <1>2 DEF PlanInv
<1>4. runs[i].stage \in {"reserved", "planned"} /\ (pc[p] = "reserved" => runs[i].stage = "reserved")
  BY DEF PlanInv, PlanFits, Before
<1> HIDE DEF i
<1>5. ASSUME NEW j, j = i PROVE RunFits(j)'
  BY <1>1, <1>3, <1>4, <1>5, SameProfile DEF RunFits, contract
<1>6. trees' \subseteq DOMAIN runs'
  BY <1>2 DEF PlanInv, i
<1> QED
  BY <1>5, <1>6, PlanProceeding DEF i

LEMMA PlanLeaving ==
  ASSUME TypeInv, SeparateInv, PlanInv, NEW p \in Procs, Moves(p),
         UNCHANGED <<contract, runs, workspace>>, pc'[p] \notin Running,
         Follows(p)', trees' \subseteq trees
  PROVE  PlanInv'
<1>1. PlanFits(p)' /\ TreeFits(p)'
  BY DEF PlanFits, TreeFits
<1>2. ASSUME NEW i \in DOMAIN runs PROVE RunFits(i)'
  BY SameProfile DEF RunFits, contract, PlanInv, Moves
<1> QED
  BY <1>1, <1>2, PlanProceeding DEF PlanInv

LEMMA PlanEarly ==
  ASSUME TypeInv, SeparateInv, PlanInv, NEW p \in Procs, Moves(p),
         Approve(p) \/ AskQueue(p) \/ Throw(p)
  PROVE  PlanInv'
<1> USE DEF Goto, Only, Leave, disk, local, history
<1>0. DOMAIN pc = Procs /\ DOMAIN cmd = Procs /\ DOMAIN cmd[p] = DOMAIN NoCommand
  BY DEF TypeInv, CommandFits
<1>1. CASE Approve(p)
  <2>1. UNCHANGED <<profile, contract, disk>>
    BY <1>1 DEF Approve
  <2>2. pc'[p] \notin {"listed"} \cup Running /\ Follows(p)'
    BY <1>0, <1>1, <2>1
    DEF Approve, PlanInv, Follows, Running, Before, NoCommand, contract
  <2> QED
    BY <2>1, <2>2, PlanLeaving
<1>2. CASE AskQueue(p)
  <2>1. UNCHANGED <<profile, contract, disk>> /\ pc[p] = "approved"
    BY <1>2 DEF AskQueue
  <2>2. CASE pc'[p] = "leaving"
    <3>1. pc'[p] \notin {"listed"} \cup Running /\ Follows(p)'
      BY <2>2 DEF Follows, Running, Before
    <3> QED
      BY <2>1, <3>1, PlanLeaving
  <2>3. CASE pc'[p] # "leaving"
    <3>1. /\ pc'[p] = "listed" /\ cmd' = [cmd EXCEPT ![p] = [cmd[p] EXCEPT !.run = Len(runs) + 1]]
          /\ QueueAllows(cmd[p].task, cmd[p].revision) /\ ResolveRoleAndMode(Contract(p))
      BY <1>0, <1>2, <2>3 DEF AskQueue
    <3>2. /\ cmd'[p].task = cmd[p].task /\ cmd'[p].revision = cmd[p].revision
          /\ cmd'[p].loaded = cmd[p].loaded /\ cmd'[p].moved = cmd[p].moved
      BY <1>0, <3>1 DEF NoCommand
    <3>3. Contract(p)' = Contract(p)
      BY <3>2 DEF Contract
    <3>4. ResolveRoleAndMode(Contract(p))'
      BY <2>1, <3>1, <3>3, SameProfile
    <3>5. \E item \in queue'[cmd'[p].task] : item.revision = cmd'[p].revision
      BY <2>1, <3>1, <3>2 DEF QueueAllows, contract
    <3>6. Follows(p)' /\ pc'[p] \notin Running
      BY <2>1, <3>1, <3>2, <3>4, <3>5 DEF PlanInv, Follows, contract, Running, Before
    <3> QED
      BY <2>1, <3>6, PlanLeaving
  <2> QED
    BY <2>2, <2>3
<1>3. CASE Throw(p)
  <2>1. UNCHANGED <<profile, contract, disk>>
    BY <1>3 DEF Throw
  <2>2. pc'[p] \notin {"listed"} \cup Running /\ Follows(p)'
    BY <1>0, <1>3 DEF Throw, Follows, Running, Before
  <2> QED
    BY <2>1, <2>2, PlanLeaving
<1> QED
  BY <1>1, <1>2, <1>3

LEMMA PlanMakeDir ==
  ASSUME TypeInv, SeparateInv, PlanInv, NEW p \in Procs, Moves(p), MakeDir(p)
  PROVE  PlanInv'
<1> USE DEF Goto, Only, Leave
<1>0. /\ DOMAIN pc = Procs /\ DOMAIN cmd = Procs /\ DOMAIN cmd[p] = DOMAIN NoCommand
      /\ cmd[p].run \in 1..(Len(runs) + 1) /\ Counted(runs) /\ cmd[p].task \in Tasks
  BY DEF TypeInv, CommandFits, MakeDir, Holding
<1>1. UNCHANGED <<profile, contract, trees, workspace>> /\ pc[p] = "listed"
  BY DEF MakeDir
<1>2. /\ cmd'[p].task = cmd[p].task /\ cmd'[p].revision = cmd[p].revision
      /\ cmd'[p].loaded = cmd[p].loaded /\ cmd'[p].moved = cmd[p].moved
  BY <1>0 DEF MakeDir, NoCommand
<1>3. Contract(p)' = Contract(p)
  BY <1>2 DEF Contract
<1>4. pc'[p] \in {"leaving", "listed", "reserved"}
  BY <1>0 DEF MakeDir
<1>5. Follows(p)'
  <2>1. ResolveRoleAndMode(Contract(p))'
    BY <1>1, <1>3, SameProfile DEF PlanInv, Follows
  <2> QED
    BY <1>1, <1>2, <1>4, <2>1 DEF PlanInv, Follows, contract, Running, Before
<1>6. CASE cmd[p].run \in DOMAIN runs
  <2>1. runs' = runs /\ pc'[p] \notin Running
    BY <1>0, <1>1, <1>6 DEF MakeDir, Running
  <2> QED
    BY <1>1, <1>5, <2>1, PlanLeaving
<1>7. CASE cmd[p].run \notin DOMAIN runs
  <2>1. runs' = Append(runs, Reserved(cmd[p].task)) /\ cmd' = cmd /\ pc'[p] = "reserved"
    BY <1>0, <1>7 DEF MakeDir
  <2>2. /\ DOMAIN runs = 1..Len(runs) /\ DOMAIN runs' = 1..(Len(runs) + 1)
        /\ runs'[Len(runs) + 1] = Reserved(cmd[p].task) /\ Len(runs) \in Nat
    BY <1>0, <2>1, Adding DEF Counted
  <2>3. cmd[p].run = Len(runs) + 1 /\ runs'[cmd'[p].run] = Reserved(cmd[p].task)
    BY <1>0, <1>7, <2>1, <2>2
  <2>4. cmd[p].run \notin trees'
    BY <1>1, <1>7 DEF PlanInv
  <2>5. PlanFits(p)' /\ TreeFits(p)'
    BY <1>0, <2>1, <2>3, <2>4 DEF PlanFits, TreeFits, Reserved, Running, Before, After
  <2>6. \A i \in DOMAIN runs' \ DOMAIN runs : RunFits(i)'
    <3> TAKE i \in DOMAIN runs' \ DOMAIN runs
    <3>1. i = Len(runs) + 1
      BY <2>2
    <3> QED
      BY <1>0, <1>1, <2>2, <3>1 DEF RunFits, Reserved
  <2>7. trees' \subseteq DOMAIN runs'
    BY <1>1, <2>2 DEF PlanInv
  <2>8. profile.requireIsolation => workspace' = {}
    BY <1>1 DEF PlanInv
  <2>9. pc[p] \notin Running
    BY <1>1 DEF Running
  <2> QED
    BY <1>1, <1>5, <2>5, <2>6, <2>7, <2>8, <2>9, PlanProceeding
<1> QED
  BY <1>6, <1>7

LEMMA PlanBounds ==
  ASSUME TypeInv, PlanInv, NEW t \in Tasks, NEW o, NEW p \in Procs, SeparateInv, Moves(p),
         Lock(p, t, o) \/ Release(p) \/ Crash(p)
  PROVE  PlanInv'
<1> USE DEF Goto, Only
<1>1. /\ UNCHANGED <<profile, contract, runs, workspace>> /\ trees' \subseteq trees
      /\ pc'[p] \in {"idle", "loaded"}
      /\ pc'[p] = "loaded" => cmd'[p].loaded = file[cmd'[p].task]
  <2>0. DOMAIN pc = Procs /\ DOMAIN cmd = Procs
    BY DEF TypeInv
  <2>1. CASE Lock(p, t, o)
    BY <2>0, <2>1 DEF Lock, disk, NoCommand
  <2>2. CASE Release(p)
    BY <2>0, <2>2 DEF Release, RemoveTree
  <2>3. CASE Crash(p)
    BY <2>0, <2>3 DEF Crash, disk
  <2> QED
    BY <2>1, <2>2, <2>3
<1>2. Follows(p)' /\ pc'[p] \notin Running
  BY <1>1 DEF Follows, Running, Before, contract
<1> QED
  BY <1>1, <1>2, PlanLeaving

\* The modes are ordered, and whoever may run commands may edit.
LEMMA ModesAreRanked ==
  /\ \A m \in HarnessModes : ModeRank(m) \in 1..4
  /\ ModeRank("COMMAND_EXEC") = 4 /\ ModeRank("WORKSPACE_EDIT") = 3
<1>1. /\ DOMAIN Modes = 1..4 /\ Modes[1] = "DRY_RUN" /\ Modes[2] = "SUGGEST_ONLY"
      /\ Modes[3] = "WORKSPACE_EDIT" /\ Modes[4] = "COMMAND_EXEC"
  BY DEF Modes
<1>2. ASSUME NEW m \in HarnessModes
      PROVE  ModeRank(m) \in 1..4 /\ Modes[ModeRank(m)] = m
  BY <1>1, <1>2 DEF HarnessModes, Elements, ModeRank
<1>3. \A i \in 1..4 : i = 1 \/ i = 2 \/ i = 3 \/ i = 4
  OBVIOUS
<1>4. "COMMAND_EXEC" \in HarnessModes /\ "WORKSPACE_EDIT" \in HarnessModes
  BY <1>1 DEF HarnessModes, Elements
<1> QED
  BY <1>1, <1>2, <1>3, <1>4

LEMMA CommandsMayEdit ==
  ASSUME PipelineAssumption, profile \in Profiles, NEW c, ResolveRoleAndMode(c),
         Capabilities(c).commandExecution
  PROVE  Capabilities(c).fileEdit
<1>1. \A id \in DOMAIN CoreRoles : CoreRoles[id].maxMode \in HarnessModes
  BY DEF CoreRoles, Role, HarnessModes, Elements, Modes
<1>2. RoleOf(RoleId(c), profile.custom).maxMode \in HarnessModes
  BY <1>1 DEF ResolveRoleAndMode, Resolvable, RoleOf, MayNarrow
<1>3. Ceiling(c) \in HarnessModes
  BY <1>2, PipelineAssumption DEF Ceiling, MeetMode
<1>4. EffectiveMode(c) \in HarnessModes
  BY <1>3 DEF EffectiveMode, ModeUnder, ResolveRoleAndMode, Narrows
<1>5. ModeRank(EffectiveMode(c)) \in Nat
  BY <1>4, ModesAreRanked
<1> QED
  BY <1>5, ModesAreRanked DEF Capabilities

LEMMA PlanWork ==
  ASSUME PipelineAssumption, TypeInv, SeparateInv, PlanInv, NEW p \in Procs, Moves(p),
         \/ CopyTask(p) \/ Isolate(p) \/ RunAgent(p) \/ Observe(p) \/ Verify(p) \/ Discard(p)
  PROVE  PlanInv'
<1> DEFINE i == cmd[p].run
<1> USE DEF Goto, Only, local, history
<1>0. /\ DOMAIN pc = Procs /\ DOMAIN cmd = Procs /\ DOMAIN cmd[p] = DOMAIN NoCommand
      /\ pc[p] \in Running => i \in DOMAIN runs
      /\ pc[p] \in Running => DOMAIN runs[i] = DOMAIN Reserved(None)
      /\ pc[p] \in Running => PlanFits(p) /\ RunFits(i)
  BY DEF TypeInv, CommandFits, PlanInv
<1>1. CASE CopyTask(p)
  <2>1. /\ pc[p] = "reserved" /\ pc[p] \in Running /\ pc'[p] \in {"copied", "leaving"}
        /\ pc'[p] = "copied" => GatesResolve(Contract(p))
        /\ UNCHANGED <<profile, contract, trees, workspace, cmd>> /\ DOMAIN runs' = DOMAIN runs
    BY <1>0, <1>1 DEF CopyTask, Changing, Running
  <2>2. Keeps(i, {"snapshot"}) /\ runs'[i].snapshot = file[cmd[p].task]
    BY <1>1, <2>1, FieldsKept
  <2>3. /\ runs'[i].task = runs[i].task /\ runs'[i].stage = runs[i].stage
        /\ runs'[i].edits = runs[i].edits
    BY <2>2 DEF Keeps, Reserved
  <2>4. Follows(p)' /\ Contract(p)' = Contract(p) /\ SameCommand(p)
    BY <2>1, FollowsOn DEF SameCommand, Running, Before
  <2>5. ~cmd[p].moved => runs'[i].snapshot = cmd[p].revision
    BY <2>1, <2>2 DEF PlanInv, Follows, Before
  <2>6. PlanFits(p)'
    BY <1>0, <2>1, <2>3, <2>4, <2>5, SameProfile DEF PlanFits, Running, Before, After
  <2>7. TreeFits(p)'
    BY <2>1 DEF PlanInv, TreeFits
  <2> QED
    BY <2>1, <2>2, <2>4, <2>6, <2>7, PlanKept DEF PlanInv
<1>2. CASE Isolate(p)
  <2>1. PICK added : /\ runs' = [runs EXCEPT ![cmd[p].run].isolated = added]
                     /\ trees' = IF added THEN trees \cup {i} ELSE trees
                     /\ cmd' = [cmd EXCEPT ![p] = [cmd[p] EXCEPT !.tree = added]]
                     /\ pc' = [pc EXCEPT ![p] = IF RequirementMet(Contract(p), added)
                                                  THEN "isolated" ELSE "leaving"]
    BY <1>2 DEF Isolate
  <2>2. /\ pc[p] = "copied" /\ pc[p] \in Running /\ pc'[p] \in {"isolated", "leaving"}
        /\ UNCHANGED <<profile, contract, workspace>> /\ DOMAIN runs' = DOMAIN runs
    BY <1>0, <1>2, <2>1 DEF Isolate, Running
  <2>3. runs'[i] = [runs[i] EXCEPT !.isolated = added]
    BY <1>0, <2>1, <2>2
  <2>4. Keeps(i, {"isolated"}) /\ runs'[i].isolated = added
    BY <1>0, <2>2, <2>3 DEF Keeps, Reserved
  <2>5. /\ runs'[i].task = runs[i].task /\ runs'[i].stage = runs[i].stage
        /\ runs'[i].edits = runs[i].edits /\ runs'[i].snapshot = runs[i].snapshot
    BY <2>4 DEF Keeps, Reserved
  <2>6. SameCommand(p) /\ cmd'[p].tree = added
    BY <1>0, <2>1 DEF SameCommand, NoCommand
  <2>7. Follows(p)' /\ Contract(p)' = Contract(p)
    BY <2>2, <2>6, FollowsOn DEF Running, Before
  <2>8. /\ cmd'[p].run = i /\ cmd'[p].task = cmd[p].task /\ cmd'[p].moved = cmd[p].moved
        /\ cmd'[p].revision = cmd[p].revision
    BY <2>6 DEF SameCommand
  <2>9. pc'[p] = "isolated" => RequirementMet(Contract(p), added)
    BY <1>0, <2>1
  <2>10. PlanFits(p)'
    BY <1>0, <2>2, <2>4, <2>5, <2>7, <2>8, <2>9, SameProfile
    DEF PlanFits, Running, Before, After
  <2>11. i \notin trees
    BY <2>2 DEF PlanInv, TreeFits
  <2>12. TreeFits(p)'
    BY <2>1, <2>2, <2>6, <2>8, <2>11 DEF TreeFits, Running
  <2>13. trees' \subseteq trees \cup {cmd[p].run}
    BY <2>1
  <2> QED
    BY <2>2, <2>4, <2>6, <2>7, <2>10, <2>12, <2>13, PlanKept DEF PlanInv
<1>3. CASE RunAgent(p)
  <2>1. /\ pc[p] = "planned" /\ pc[p] \in Running /\ pc'[p] = "ran"
        /\ UNCHANGED <<profile, contract, trees, cmd>> /\ DOMAIN runs' = DOMAIN runs
    BY <1>0, <1>3 DEF RunAgent, Changing, Running
  <2>2. Keeps(i, {"status", "edits", "nested"})
    BY <1>3, <2>1, FieldsKept
  <2>3. /\ runs'[i].task = runs[i].task /\ runs'[i].stage = runs[i].stage
        /\ runs'[i].executed = runs[i].executed /\ runs'[i].isolated = runs[i].isolated
    BY <2>2 DEF Keeps, Reserved
  <2>4. Follows(p)' /\ Contract(p)' = Contract(p) /\ SameCommand(p)
    BY <2>1, FollowsOn DEF SameCommand, Running, Before
  <2>a. PlanFits(p)'
    BY <1>0, <2>1, <2>3, <2>4, SameProfile DEF PlanFits, Running, Before, After
  <2>b. TreeFits(p)'
    BY <1>0, <2>1, <2>3, <2>4 DEF TreeFits, PlanInv, Running, Before
  <2>5. PlanFits(p)' /\ TreeFits(p)'
    BY <2>a, <2>b
  <2>6. profile.requireIsolation => workspace' = {}
    <3>1. ASSUME profile.requireIsolation, ~runs[i].isolated
          PROVE  \A w \in Outcomes(Contract(p)) : w.edits = {}
      <4>1. RequirementMet(Contract(p), FALSE)
        BY <1>0, <2>1, <3>1 DEF PlanFits, RequirementMet
      <4>2. ~Capabilities(Contract(p)).fileEdit
        BY <3>1, <4>1 DEF RequirementMet
      <4>3. ResolveRoleAndMode(Contract(p)) /\ profile \in Profiles
        BY <2>1 DEF PlanInv, Follows
      <4>4. ~Capabilities(Contract(p)).commandExecution
        BY <4>2, <4>3, CommandsMayEdit
      <4> QED
        BY <4>4 DEF Outcomes
    <3>2. PICK w \in Outcomes(Contract(p)) :
            workspace' = IF runs[i].isolated THEN workspace
                         ELSE workspace \cup {[path |-> e.path, how |-> e.how, run |-> i] : e \in w.edits}
      BY <1>3 DEF RunAgent
    <3> QED
      BY <3>1, <3>2 DEF PlanInv
  <2> QED
    BY <2>1, <2>2, <2>4, <2>5, <2>6, PlanKept
<1>4. CASE Observe(p)
  <2>1. /\ pc[p] = "ran" /\ pc[p] \in Running /\ pc'[p] = "observed"
        /\ UNCHANGED <<profile, contract, trees, workspace, cmd>> /\ DOMAIN runs' = DOMAIN runs
    BY <1>0, <1>4 DEF Observe, Changing, Running
  <2>2. Keeps(i, {"patch", "delta", "violation", "gaps"})
    BY <1>4, <2>1, FieldsKept
  <2>3. /\ runs'[i].task = runs[i].task /\ runs'[i].stage = runs[i].stage
        /\ runs'[i].executed = runs[i].executed /\ runs'[i].isolated = runs[i].isolated
    BY <2>2 DEF Keeps, Reserved
  <2>4. Follows(p)' /\ Contract(p)' = Contract(p) /\ SameCommand(p)
    BY <2>1, FollowsOn DEF SameCommand, Running, Before
  <2>a. PlanFits(p)'
    BY <1>0, <2>1, <2>3, <2>4, SameProfile DEF PlanFits, Running, Before, After
  <2>b. TreeFits(p)'
    BY <1>0, <2>1, <2>3, <2>4 DEF TreeFits, PlanInv, Running, Before
  <2>5. PlanFits(p)' /\ TreeFits(p)'
    BY <2>a, <2>b
  <2> QED
    BY <2>1, <2>2, <2>4, <2>5, PlanKept DEF PlanInv
<1>5. CASE Verify(p)
  <2>1. /\ pc[p] = "observed" /\ pc[p] \in Running /\ pc'[p] = "verified"
        /\ UNCHANGED <<profile, contract, trees, workspace, cmd>> /\ DOMAIN runs' = DOMAIN runs
    BY <1>0, <1>5 DEF Verify, Changing, Running
  <2>2. Keeps(i, {"attempts", "gate", "gaps"})
    BY <1>5, <2>1, FieldsKept
  <2>3. /\ runs'[i].task = runs[i].task /\ runs'[i].stage = runs[i].stage
        /\ runs'[i].executed = runs[i].executed /\ runs'[i].isolated = runs[i].isolated
    BY <2>2 DEF Keeps, Reserved
  <2>4. Follows(p)' /\ Contract(p)' = Contract(p) /\ SameCommand(p)
    BY <2>1, FollowsOn DEF SameCommand, Running, Before
  <2>a. PlanFits(p)'
    BY <1>0, <2>1, <2>3, <2>4, SameProfile DEF PlanFits, Running, Before, After
  <2>b. TreeFits(p)'
    BY <1>0, <2>1, <2>3, <2>4 DEF TreeFits, PlanInv, Running, Before
  <2>5. PlanFits(p)' /\ TreeFits(p)'
    BY <2>a, <2>b
  <2> QED
    BY <2>1, <2>2, <2>4, <2>5, PlanKept DEF PlanInv
<1>6. CASE Discard(p)
  <2>1. PICK removed \in IF cmd[p].tree THEN BOOLEAN ELSE {TRUE} :
          /\ trees' = IF cmd[p].tree /\ removed THEN trees \ {i} ELSE trees
          /\ runs' = [runs EXCEPT ![cmd[p].run].gaps =
                        IF removed THEN @ ELSE @ \cup {"ISOLATION_DISCARD_FAILED"}]
    BY <1>6 DEF Discard, RemoveTree
  <2>2. /\ pc[p] = "verified" /\ pc[p] \in Running /\ pc'[p] = "discarded"
        /\ cmd' = [cmd EXCEPT ![p] = [cmd[p] EXCEPT !.tree = FALSE]]
        /\ UNCHANGED <<profile, contract, workspace>> /\ DOMAIN runs' = DOMAIN runs
    BY <1>0, <1>6, <2>1 DEF Discard, Running
  <2>3. Keeps(i, {"gaps"})
    BY <1>6, <2>2, FieldsKept
  <2>4. /\ runs'[i].task = runs[i].task /\ runs'[i].stage = runs[i].stage
        /\ runs'[i].executed = runs[i].executed /\ runs'[i].isolated = runs[i].isolated
    BY <2>3 DEF Keeps, Reserved
  <2>5. SameCommand(p)
    BY <1>0, <2>2 DEF SameCommand, NoCommand
  <2>6. Follows(p)' /\ Contract(p)' = Contract(p)
    BY <2>2, <2>5, FollowsOn DEF Running, Before
  <2>7. /\ cmd'[p].run = i /\ cmd'[p].task = cmd[p].task /\ cmd'[p].loaded = cmd[p].loaded
    BY <2>5 DEF SameCommand
  <2>8. PlanFits(p)'
    BY <1>0, <2>2, <2>4, <2>6, <2>7, SameProfile DEF PlanFits, Running, Before, After
  <2>9. TreeFits(p)'
    <3>1. ASSUME i \in trees' PROVE ~removed
      BY <2>1, <2>2, <3>1 DEF PlanInv, TreeFits
    <3>2. ASSUME ~removed PROVE "ISOLATION_DISCARD_FAILED" \in runs'[i].gaps
      BY <1>0, <2>1, <2>2, <3>2 DEF Reserved
    <3> QED
      BY <2>2, <2>7, <3>1, <3>2 DEF TreeFits
  <2>10. trees' \subseteq trees \cup {cmd[p].run}
    BY <2>1
  <2> QED
    BY <2>2, <2>3, <2>5, <2>6, <2>8, <2>9, <2>10, PlanKept DEF PlanInv
<1> QED
  BY <1>1, <1>2, <1>3, <1>4, <1>5, <1>6

LEMMA PlanWritten ==
  ASSUME TypeInv, SeparateInv, PlanInv, NEW p \in Procs, Moves(p), WritePlan(p) \/ Record(p)
  PROVE  PlanInv'
<1> DEFINE i == cmd[p].run
<1> USE DEF Goto, Only, local, history
<1>0. /\ DOMAIN pc = Procs /\ DOMAIN cmd = Procs /\ DOMAIN cmd[p] = DOMAIN NoCommand
      /\ pc[p] \in Running => i \in DOMAIN runs
      /\ pc[p] \in Running => DOMAIN runs[i] = DOMAIN Reserved(None)
      /\ pc[p] \in Running => PlanFits(p) /\ RunFits(i)
  BY DEF TypeInv, CommandFits, PlanInv
<1>1. CASE WritePlan(p)
  <2>1. /\ pc[p] = "isolated" /\ pc[p] \in Running /\ pc'[p] \in {"planned", "leaving"}
        /\ UNCHANGED <<profile, contract, trees, workspace>> /\ DOMAIN runs' = DOMAIN runs
    BY <1>0, <1>1 DEF WritePlan, Changing, Running
  <2>2. SameCommand(p) /\ cmd'[p].tree = cmd[p].tree
    BY <1>0, <1>1 DEF WritePlan, SameCommand, NoCommand
  <2>3. /\ Keeps(i, {"stage", "executed", "revision", "moved", "told"})
        /\ runs'[i].stage = "planned" /\ runs'[i].executed = cmd[p].loaded
        /\ runs'[i].revision = cmd[p].revision /\ runs'[i].moved = cmd[p].moved
    BY <1>1, <2>1, FieldsKept
  <2>4. /\ runs'[i].task = runs[i].task /\ runs'[i].snapshot = runs[i].snapshot
        /\ runs'[i].edits = runs[i].edits /\ runs'[i].isolated = runs[i].isolated
    BY <2>3 DEF Keeps, Reserved
  <2>5. Follows(p)' /\ Contract(p)' = Contract(p)
    BY <2>1, <2>2, FollowsOn DEF Running, Before
  <2>6. /\ cmd'[p].run = i /\ cmd'[p].task = cmd[p].task /\ cmd'[p].loaded = cmd[p].loaded
    BY <2>2 DEF SameCommand
  <2>a. PlanFits(p)'
    BY <1>0, <2>1, <2>2, <2>3, <2>4, <2>5, <2>6, SameProfile
    DEF PlanFits, Running, Before, After
  <2>b. TreeFits(p)'
    BY <1>0, <2>1, <2>2, <2>3, <2>4, <2>5, <2>6 DEF TreeFits, PlanInv, Running, Before
  <2>7. PlanFits(p)' /\ TreeFits(p)'
    BY <2>a, <2>b
  <2>8. /\ ~cmd[p].moved => cmd[p].loaded = cmd[p].revision /\ runs[i].snapshot = cmd[p].revision
        /\ \E item \in queue[cmd[p].task] : item.revision = cmd[p].revision
        /\ runs[i].task = cmd[p].task /\ runs[i].task \in Tasks /\ GatesResolve(Contract(p))
    BY <1>0, <2>1 DEF PlanFits, PlanInv, Follows, RunFits, Before
  <2>9. GatesResolve(Contents[cmd[p].loaded])'
    <3>1. cmd'[p].loaded = cmd[p].loaded /\ GatesResolve(Contents[cmd[p].loaded])
      BY <2>6, <2>8 DEF Contract
    <3> QED
      BY <2>1, <3>1, SameProfile
  <2>10. ASSUME NEW j, j = i PROVE RunFits(j)'
    <3>1. /\ runs'[j].task = cmd[p].task /\ runs'[j].task \in Tasks /\ runs'[j].stage = "planned"
          /\ ~runs'[j].moved => /\ runs'[j].executed = runs'[j].revision
                                /\ runs'[j].snapshot = runs'[j].revision
      BY <2>3, <2>4, <2>8, <2>10
    <3>2. \E item \in queue'[runs'[j].task] : item.revision = runs'[j].revision
      BY <2>1, <2>3, <2>8, <2>10, <3>1 DEF contract
    <3>3. GatesResolve(Contents[runs'[j].executed])
      BY <2>3, <2>8, <2>10 DEF Contract
    <3>4. GatesResolve(Contents[runs[j].executed])'
      BY <2>1, <3>3, SameProfile
    <3> QED
      BY <3>1, <3>2, <3>4 DEF RunFits
  <2>11. trees' \subseteq DOMAIN runs' /\ (profile.requireIsolation => workspace' = {})
    BY <2>1 DEF PlanInv
  <2> QED
    BY <2>1, <2>5, <2>7, <2>10, <2>11, PlanProceeding
<1>2. CASE Record(p)
  <2>1. /\ pc[p] = "discarded" /\ pc[p] \in Running /\ pc'[p] = "leaving"
        /\ UNCHANGED <<profile, contract, trees, workspace, cmd>> /\ DOMAIN runs' = DOMAIN runs
    BY <1>0, <1>2 DEF Record, Running
  <2>2. Keeps(i, {"stage"}) /\ runs'[i].stage \in {runs[i].stage, "finished"}
    BY <1>0, <1>2, <2>1, FieldsKept DEF Record, Reserved
  <2>3. /\ runs'[i].task = runs[i].task /\ runs'[i].snapshot = runs[i].snapshot
        /\ runs'[i].executed = runs[i].executed /\ runs'[i].revision = runs[i].revision
        /\ runs'[i].moved = runs[i].moved /\ runs'[i].gaps = runs[i].gaps
    BY <2>2 DEF Keeps, Reserved
  <2>4. Follows(p)'
    BY <2>1, FollowsOn DEF SameCommand
  <2>5. PlanFits(p)' /\ TreeFits(p)'
    BY <2>1 DEF PlanFits, TreeFits, Running
  <2>6. /\ runs[i].stage = "planned"
        /\ i \in trees => "ISOLATION_DISCARD_FAILED" \in runs[i].gaps
    BY <1>0, <2>1 DEF PlanFits, PlanInv, TreeFits, Before
  <2>7. ASSUME NEW j, j = i PROVE RunFits(j)'
    BY <1>0, <2>1, <2>2, <2>3, <2>6, <2>7, SameProfile DEF RunFits, contract
  <2>8. trees' \subseteq DOMAIN runs' /\ (profile.requireIsolation => workspace' = {})
    BY <2>1 DEF PlanInv
  <2> QED
    BY <2>1, <2>4, <2>5, <2>7, <2>8, PlanProceeding
<1> QED
  BY <1>1, <1>2

LEMMA PlanWorld ==
  ASSUME PipelineAssumption, TypeInv, SeparateInv, PlanInv, World
  PROVE  PlanInv'
<1>1. /\ UNCHANGED <<profile, runs, trees, workspace, pc>>
      /\ \A p \in Procs : /\ \A f \in DOMAIN NoCommand \ {"moved"} : cmd'[p][f] = cmd[p][f]
                          /\ cmd[p].moved => cmd'[p].moved
  BY WorldStep DEF disk
<1>2. PICK t \in Tasks : LockUnwritten(t) \/ BreakRunLock(t) \/ EditTask(t)
                         \/ ChangeApproval(t) \/ ChangeQueue(t)
  BY DEF World
<1>3. \A p \in Procs :
        /\ cmd'[p].task = cmd[p].task /\ cmd'[p].run = cmd[p].run /\ cmd'[p].tree = cmd[p].tree
        /\ cmd'[p].loaded = cmd[p].loaded /\ cmd'[p].revision = cmd[p].revision
        /\ Contract(p)' = Contract(p)
  BY <1>1 DEF NoCommand, Contract
<1>4. ASSUME NEW u \in Tasks, NEW v, \E item \in queue[u] : item.revision = v
      PROVE  \E item \in queue'[u] : item.revision = v
  <2>1. CASE ChangeQueue(t)
    <3>1. PICK item \in queue[u] : item.revision = v
      BY <1>4
    <3>2. CASE \E w : queue' = [queue EXCEPT ![t] = @ \cup {[state |-> "WAITING", revision |-> w]}]
      BY <3>1, <3>2 DEF TypeInv
    <3>3. CASE \E i \in queue[t], s \in {"WAITING", "HELD"} :
                 queue' = [queue EXCEPT ![t] = (@ \ {i}) \cup {[i EXCEPT !.state = s]}]
      <4>1. PICK i \in queue[t], s \in {"WAITING", "HELD"} :
              queue' = [queue EXCEPT ![t] = (@ \ {i}) \cup {[i EXCEPT !.state = s]}]
        BY <3>3
      <4>2. [i EXCEPT !.state = s].revision = i.revision
        OBVIOUS
      <4> QED
        BY <3>1, <4>1, <4>2 DEF TypeInv
    <3>4. CASE queue' = queue
      BY <3>1, <3>4
    <3> QED
      BY <2>1, <3>2, <3>3, <3>4 DEF ChangeQueue
  <2> QED
    BY <1>2, <1>4, <2>1 DEF LockUnwritten, BreakRunLock, EditTask, ChangeApproval, contract
<1>5. ASSUME NEW p \in Procs PROVE Follows(p)'
  <2>1. Holding(p) => cmd[p].task \in Tasks
    BY DEF TypeInv, CommandFits
  <2>2. pc[p] \in {"listed"} \cup Running =>
          /\ \E item \in queue'[cmd[p].task] : item.revision = cmd[p].revision
          /\ ResolveRoleAndMode(Contract(p))'
    <3>1. pc[p] \in {"listed"} \cup Running =>
            /\ cmd[p].task \in Tasks
            /\ \E item \in queue[cmd[p].task] : item.revision = cmd[p].revision
            /\ ResolveRoleAndMode(Contract(p))
      BY <2>1 DEF PlanInv, Follows, Holding, Running
    <3>2. ResolveRoleAndMode(Contract(p))' <=> ResolveRoleAndMode(Contract(p))
      BY <1>1, <1>3, SameProfile
    <3> QED
      BY <1>4, <3>1, <3>2
  <2>3. ASSUME ~cmd'[p].moved, pc[p] \in Early \cup {"reserved"}
        PROVE  file'[cmd[p].task] = file[cmd[p].task]
    <3>1. CASE EditTask(t)
      <4>1. PICK v : file' = [file EXCEPT ![t] = v]
        BY <3>1 DEF EditTask
      <4>2. CASE cmd[p].task = t
        <5>1. cmd'[p] = [cmd[p] EXCEPT !.moved = TRUE]
          BY <2>3, <3>1, <4>2 DEF EditTask, Planning
        <5>2. cmd'[p].moved = TRUE
          BY <5>1 DEF TypeInv, CommandFits, NoCommand
        <5> QED
          BY <2>3, <5>2
      <4>3. CASE cmd[p].task # t
        <5>1. cmd[p].task \in DOMAIN file
          BY <2>1, <2>3 DEF Holding, Early, TypeInv
        <5> QED
          BY <4>1, <4>3, <5>1
      <4> QED
        BY <4>2, <4>3
    <3> QED
      BY <1>2, <3>1 DEF LockUnwritten, BreakRunLock, ChangeApproval, ChangeQueue, contract
  <2>4. ASSUME ~cmd'[p].moved
        PROVE  /\ pc[p] \in {"loaded", "approved", "listed", "reserved"} =>
                    file'[cmd[p].task] = cmd[p].loaded
               /\ pc[p] \in {"approved", "listed"} \cup Before => cmd[p].loaded = cmd[p].revision
    BY <1>1, <2>3, <2>4 DEF PlanInv, Follows, Early
  <2> QED
    BY <1>1, <1>3, <2>2, <2>4 DEF Follows
<1>6. ASSUME NEW p \in Procs PROVE PlanFits(p)' /\ TreeFits(p)'
  <2>1. PlanFits(p)'
    BY <1>1, <1>3, SameProfile DEF PlanInv, PlanFits
  <2>2. TreeFits(p)'
    BY <1>1, <1>3 DEF PlanInv, TreeFits
  <2> QED
    BY <2>1, <2>2
<1>7. ASSUME NEW i \in DOMAIN runs PROVE RunFits(i)'
  <2>1. \A v : GatesResolve(Contents[v]) => GatesResolve(Contents[v])'
    BY <1>1, SameProfile
  <2> QED
    BY <1>1, <1>4, <2>1, SameProfile DEF PlanInv, RunFits
<1> QED
  BY <1>1, <1>5, <1>6, <1>7 DEF PlanInv

LEMMA PlanInit == ASSUME Init PROVE PlanInv
  BY EmptySeq DEF Init, PlanInv, Follows, PlanFits, TreeFits, NoCommand, Running, Before

LEMMA PlanStep ==
  ASSUME PipelineAssumption, TypeInv, SeparateInv, PlanInv, [Next]_vars
  PROVE  PlanInv'
<1>1. ASSUME NEW p \in Procs, Acts(p) PROVE PlanInv'
  <2>1. Moves(p)
    BY <1>1, ActsStep
  <2>2. CASE AtWork(p)
    BY <2>1, <2>2, PlanEarly, PlanWork, PlanWritten DEF AtWork
  <2>3. CASE \E t \in Tasks, o \in Options : Lock(p, t, o)
    BY <2>1, <2>3, PlanBounds
  <2>4. CASE Release(p) \/ Crash(p)
    <3>1. cmd[p].task \in Tasks
      BY <2>4 DEF TypeInv, CommandFits, Release, Crash, Holding
    <3> QED
      BY <2>1, <2>4, <3>1, PlanBounds
  <2> QED
    BY <1>1, <2>1, <2>2, <2>3, <2>4, PlanMakeDir DEF Acts
<1>2. CASE UNCHANGED vars
  <2>1. /\ UNCHANGED <<profile, file, queue, runs, trees, workspace, pc, cmd>>
        /\ \A p \in Procs : Contract(p)' = Contract(p)
    BY <1>2 DEF vars, contract, disk, local, Contract
  <2>2. ASSUME NEW p \in Procs PROVE Follows(p)' /\ PlanFits(p)' /\ TreeFits(p)'
    <3>1. Follows(p)'
      BY <2>1, SameProfile DEF PlanInv, Follows
    <3>2. PlanFits(p)'
      BY <2>1, SameProfile DEF PlanInv, PlanFits
    <3>3. TreeFits(p)'
      BY <2>1 DEF PlanInv, TreeFits
    <3> QED
      BY <3>1, <3>2, <3>3
  <2>3. ASSUME NEW i \in DOMAIN runs PROVE RunFits(i)'
    BY <2>1, SameProfile DEF PlanInv, RunFits
  <2> QED
    BY <2>1, <2>2, <2>3 DEF PlanInv
<1> QED
  BY <1>1, <1>2, PlanWorld, NextIs

LEMMA Plans == Spec => [](TypeInv /\ SeparateInv /\ PlanInv)
<1> USE PipelineAssumption
<1>1. Init => TypeInv /\ SeparateInv /\ PlanInv
  BY InitSeparate, PlanInit
<1>2. (TypeInv /\ SeparateInv /\ PlanInv) /\ [Next]_vars => (TypeInv /\ SeparateInv /\ PlanInv)'
  BY TypeSeparateStep, PlanStep
<1> QED
  BY <1>1, <1>2, PTL DEF Spec

\* A planned run has the contract that was approved and an objective holds, unless the
\* task file was edited while executeRun read it (executeRun, blockedQueueReason).
THEOREM ApprovedContracts == Spec => []ApprovedContractRuns
<1>1. PlanInv => ApprovedContractRuns
  BY DEF PlanInv, RunFits, ApprovedContractRuns
<1> QED
  BY <1>1, Plans, PTL

\* Where isolation is required nothing reaches the workspace, and a tree that stayed is
\* in the summary (checkIsolationRequirement, prepareIsolation, the finally of runTask).
THEOREM Isolation == Spec => []IsolationHolds
<1>1. PlanInv => IsolationHolds
  BY DEF PlanInv, RunFits, IsolationHolds, ListRuns
<1> QED
  BY <1>1, Plans, PTL

-----------------------------------------------------------------------------
(* Layer 3: what the harness sees of the edits.                              *)

\* More paths and more links that leave find no fewer violations.
LEMMA MoreIsFound ==
  ASSUME NEW changed, NEW q \in changed, NEW allowed, NEW denied, NEW sensitive, NEW escapes,
         NEW links, links \subseteq escapes
  PROVE  PathViolations({q}, allowed, denied, sensitive, links)
           \subseteq PathViolations(changed, allowed, denied, sensitive, escapes)
  BY DEF PathViolations

LEMMA PatchIsHonest ==
  ASSUME NEW seen, NEW e \in seen, e.how \in Hows, NEW diff \in {"ok", "failed", "cut"},
         NEW listing \in {"ok", "failed"}
  PROVE  LET found == GitDiff(seen, diff, listing) IN
         /\ \/ e.how \in {"staged", "hidden"} \/ e \in found.patch
            \/ found.gaps \cap {"GIT_DIFF_FAILED", NotCaptured, Cut} # {}
         /\ found.gaps \subseteq Gaps
<1>1. CASE diff # "ok" \/ listing # "ok"
  BY <1>1 DEF GitDiff, NotCaptured, Gaps, Cut
<1>2. CASE diff = "ok" /\ listing = "ok"
  <2>1. GitDiff(seen, diff, listing) =
          [patch |-> Having(seen, {"modified"}) \cup Carried(Untracked(seen)),
           gaps  |-> IF Untracked(seen) = Carried(Untracked(seen)) THEN {} ELSE {NotCaptured}]
    BY <1>2 DEF GitDiff
  <2>2. CASE e.how = "large"
    <3>1. e \in Untracked(seen) /\ e \notin Carried(Untracked(seen))
      BY <2>2 DEF Untracked, Carried, Having
    <3> QED
      BY <2>1, <3>1 DEF NotCaptured, Gaps
  <2>3. CASE e.how # "large"
    <3>1. \/ e.how \in {"staged", "hidden"}
          \/ e \in Having(seen, {"modified"}) \cup Carried(Untracked(seen))
      BY <2>3 DEF Hows, Untracked, Carried, Having
    <3> QED
      BY <2>1, <3>1 DEF NotCaptured, Gaps
  <2> QED
    BY <2>2, <2>3
<1> QED
  BY <1>1, <1>2

\* A policy that says of an edit that it violates nothing has seen it, or says so.
Judges(policy, e, c) ==
  \/ e.how = "hidden" \/ policy.violation
  \/ PathViolations({e.path}, c.include, c.exclude, CaseSensitive,
                    IF e.how = "link" THEN {e.path} ELSE {}) = {}
  \/ policy.gaps \cap {"GIT_CHANGED_FILES_FAILED", "NESTED_REPO_NOT_TRAVERSED", Cut} # {}

LEMMA PolicyIsHonest ==
  ASSUME NEW seen, NEW e \in seen, e.how \in Hows, NEW status \in {"ok", "failed", "cut"},
         NEW nested, NEW c
  PROVE  LET policy == PathPolicy(seen, status, nested, c) IN
         /\ \/ e.how = "hidden" \/ policy.violation
            \/ PathViolations({e.path}, c.include, c.exclude, CaseSensitive,
                              IF e.how = "link" THEN {e.path} ELSE {}) = {}
            \/ policy.gaps \cap {"GIT_CHANGED_FILES_FAILED", "NESTED_REPO_NOT_TRAVERSED", Cut} # {}
         /\ policy.gaps \subseteq Gaps /\ policy.violation \in BOOLEAN
<1> DEFINE escapes == PathsOf(Having(seen, {"link"}))
           links == IF e.how = "link" THEN {e.path} ELSE {}
<1>1. CASE status # "ok" \/ nested
  BY <1>1 DEF PathPolicy, Gaps, Cut
<1>2. CASE status = "ok" /\ ~nested
  <2>1. PathPolicy(seen, status, nested, c) =
          [violation |-> PathViolations(ChangedFiles(seen), c.include, c.exclude,
                                        CaseSensitive, escapes) # {},
           gaps |-> {}]
    BY <1>2 DEF PathPolicy
  <2> DEFINE policy == PathPolicy(seen, status, nested, c)
             found == PathViolations(ChangedFiles(seen), c.include, c.exclude,
                                     CaseSensitive, escapes)
  <2>a. policy.violation = (found # {}) /\ policy.gaps = {}
    BY <2>1
  <2>b. policy.violation \in BOOLEAN /\ (policy.violation <=> found # {})
    BY <2>a
  <2> HIDE DEF policy, found
  <2>2. CASE e.how # "hidden"
    <3>1. e.path \in ChangedFiles(seen) /\ links \subseteq escapes
      BY <2>2 DEF ChangedFiles, PathsOf, Having
    <3>2. PathViolations({e.path}, c.include, c.exclude, CaseSensitive, links)
            \subseteq found
      BY <3>1, MoreIsFound DEF found
    <3> QED
      BY <2>a, <2>b, <3>2 DEF policy
  <2> QED
    BY <2>a, <2>b, <2>2 DEF policy
<1> QED
  BY <1>1, <1>2

LEMMA PolicyJudges ==
  ASSUME NEW seen, NEW e \in seen, e.how \in Hows, NEW status \in {"ok", "failed", "cut"},
         NEW nested, NEW c
  PROVE  Judges(PathPolicy(seen, status, nested, c), e, c)
  BY PolicyIsHonest DEF Judges

\* What the observation of a run leaves in its directory.
ObservedWell(i, r, c) ==
  /\ r.edits = runs[i].edits /\ r.isolated = runs[i].isolated
  /\ Unobserved \in r.gaps /\ r.gaps \subseteq Gaps /\ r.violation \in BOOLEAN
  /\ Honest(r, c)

LEMMA ObservationIsHonest ==
  ASSUME NEW i, DOMAIN runs[i] = DOMAIN Reserved(None), NEW before, NEW c,
         NEW diff \in {"ok", "failed", "cut"}, NEW status \in {"ok", "failed", "cut"},
         NEW listing \in {"ok", "failed"},
         runs[i].edits \subseteq Observed(i),
         \A e \in runs[i].edits : e.run = i /\ e.how \in Hows,
         \A e \in before : e.run # i
  PROVE  ObservedWell(i, HarnessObservation(i, before, c, GitDiff(Observed(i), diff, listing),
                                            PathPolicy(Observed(i), status, NestedIn(i), c)), c)
<1> DEFINE seen == Observed(i)
           found == GitDiff(seen, diff, listing)
           policy == PathPolicy(seen, status, NestedIn(i), c)
           r == HarnessObservation(i, before, c, found, policy)
<1>1. /\ r.edits = runs[i].edits /\ r.isolated = runs[i].isolated
      /\ r.patch = found.patch /\ r.delta = Delta(before, Snapshot(i, c))
      /\ r.violation = policy.violation
      /\ r.gaps = found.gaps \cup policy.gaps \cup ScopeGaps(c) \cup {Unobserved} \cup
                  (IF runs[i].status = "DRY_RUN" THEN {"DRY_RUN_NOT_EXECUTED"} ELSE {})
  BY DEF HarnessObservation, Reserved
<1> HIDE DEF r
<1>2. found.gaps \subseteq Gaps
  BY DEF GitDiff, NotCaptured, Gaps, Cut
<1>3. policy.gaps \subseteq Gaps /\ policy.violation \in BOOLEAN
  BY DEF PathPolicy, Gaps, Cut
<1>4. Unobserved \in r.gaps /\ r.gaps \subseteq Gaps
  BY <1>1, <1>2, <1>3 DEF ScopeGaps, Gaps
<1>5. ASSUME NEW e \in r.edits
      PROVE  /\ \/ e.how \in {"staged", "hidden"} \/ e \in r.patch
                \/ r.gaps \cap {"GIT_DIFF_FAILED", NotCaptured, Cut} # {}
             /\ MatchesAny(e.path, c.include, TRUE) => e.path \in r.delta
             /\ \/ e.how = "hidden" \/ r.violation
                \/ PathViolations({e.path}, c.include, c.exclude, CaseSensitive,
                                  IF e.how = "link" THEN {e.path} ELSE {}) = {}
                \/ r.gaps \cap {"GIT_CHANGED_FILES_FAILED", "NESTED_REPO_NOT_TRAVERSED", Cut} # {}
  <2>1. e \in seen /\ e.how \in Hows /\ e.run = i
    BY <1>1, <1>5
  <2>2. \/ e.how \in {"staged", "hidden"} \/ e \in r.patch
        \/ r.gaps \cap {"GIT_DIFF_FAILED", NotCaptured, Cut} # {}
    BY <1>1, <2>1, PatchIsHonest
  <2>3. MatchesAny(e.path, c.include, TRUE) => e.path \in r.delta
    BY <1>1, <2>1 DEF Delta, PathsOf, Snapshot
  <2>4. \/ e.how = "hidden" \/ r.violation
        \/ PathViolations({e.path}, c.include, c.exclude, CaseSensitive,
                          IF e.how = "link" THEN {e.path} ELSE {}) = {}
        \/ r.gaps \cap {"GIT_CHANGED_FILES_FAILED", "NESTED_REPO_NOT_TRAVERSED", Cut} # {}
    <3>1. policy.gaps \subseteq r.gaps /\ r.violation = policy.violation
      BY <1>1
    <3>2. Judges(policy, e, c)
      <4>1. e \in seen /\ e.how \in Hows
        BY <2>1
      <4> HIDE DEF seen
      <4>2. \A n : Judges(PathPolicy(seen, status, n, c), e, c)
        BY <4>1, PolicyJudges
      <4> QED
        BY <4>2
    <3> HIDE DEF policy, found
    <3>3. CASE policy.violation
      BY <3>1, <3>3
    <3>4. CASE ~policy.violation
      BY <3>1, <3>2, <3>4 DEF Judges
    <3> QED
      BY <3>3, <3>4
  <2> QED
    BY <2>2, <2>3, <2>4
<1>6. Honest(r, c)
  BY <1>5 DEF Honest
<1>7. ObservedWell(i, r, c)
  BY <1>1, <1>3, <1>4, <1>6 DEF ObservedWell
<1> HIDE DEF seen, found, policy
<1> QED
  BY <1>7 DEF r, seen, found, policy

LEMMA SameRun ==
  ASSUME UNCHANGED profile, NEW i, runs'[i] = runs[i], RunHonest(i)
  PROVE  RunHonest(i)'
<1>1. \A c : Honest(runs[i], c)' <=> Honest(runs[i], c)
  BY DEF Honest
<1>2. \A c : Judged(runs[i], c)' <=> Judged(runs[i], c)
  BY SameProfile DEF Judged
<1> QED
  BY <1>1, <1>2 DEF RunHonest

LEMMA EvidenceProceeding ==
  ASSUME TypeInv, SeparateInv, EvidenceInv, NEW p \in Procs, Moves(p),
         pc[p] \in Running => cmd[p].run \in DOMAIN runs,
         \A e \in workspace' : e \in workspace \/ (pc[p] \in Running /\ e.run = cmd[p].run),
         workspace \subseteq workspace',
         EvidenceFits(p)',
         \A i \in DOMAIN runs : pc[p] \in Running /\ i = cmd[p].run => RunHonest(i)',
         \A i \in DOMAIN runs' \ DOMAIN runs : RunHonest(i)'
  PROVE  EvidenceInv'
<1>1. /\ \A q \in Procs \ {p} :
           /\ pc'[q] = pc[q] /\ cmd'[q] = cmd[q]
           /\ pc[q] \in Running =>
                /\ runs'[cmd[q].run] = runs[cmd[q].run]
                /\ ~(pc[p] \in Running /\ cmd[q].run = cmd[p].run)
      /\ \A i \in DOMAIN runs :
           i \in DOMAIN runs' /\ ((pc[p] \in Running /\ i = cmd[p].run) \/ runs'[i] = runs[i])
  BY Others DEF SeparateInv
<1>2. UNCHANGED profile
  BY DEF Moves
<1>3. ASSUME NEW q \in Procs \ {p} PROVE EvidenceFits(q)'
  <2>1. pc'[q] = pc[q] /\ cmd'[q] = cmd[q] /\ EvidenceFits(q)
    BY <1>1 DEF EvidenceInv
  <2>2. CASE pc[q] \notin Running
    BY <2>1, <2>2 DEF EvidenceFits, Running, Before
  <2>3. CASE pc[q] \in Running
    <3>1. /\ runs'[cmd[q].run] = runs[cmd[q].run] /\ Contract(q)' = Contract(q)
          /\ \A e \in workspace' : e \in workspace \/ e.run # cmd[q].run
      BY <1>1, <2>1, <2>3 DEF Contract
    <3>2. \A a : Outcome(a, Contract(q))' = Outcome(a, Contract(q))
      BY <1>2, <3>1, SameProfile
    <3> DEFINE r == runs[cmd[q].run]  k == Contract(q)
    <3>0. r' = r /\ k' = k
      BY <2>1, <3>1
    <3>3. Honest(r, k)' <=> Honest(r, k)
      <4> HIDE DEF r, k
      <4> QED BY <3>0 DEF Honest
    <3>4. Judged(r, k)' <=> Judged(r, k)
      <4>1. \A a : Outcome(a, k)' = Outcome(a, k)
        BY <3>0, <3>2
      <4> HIDE DEF r, k
      <4> QED BY <3>0, <4>1 DEF Judged
    <3>5. /\ pc'[q] = pc[q] /\ cmd'[q] = cmd[q] /\ runs'[cmd'[q].run] = r /\ Contract(q)' = k
          /\ \A e \in workspace' : e \in workspace \/ e.run # cmd[q].run
          /\ workspace \subseteq workspace'
      BY <2>1, <3>1
    <3> HIDE DEF r, k
    <3> QED
      BY <2>1, <3>3, <3>4, <3>5 DEF EvidenceFits, r, k
  <2> QED
    BY <2>2, <2>3
<1>4. ASSUME NEW i \in DOMAIN runs' PROVE RunHonest(i)'
  <2>1. CASE i \in DOMAIN runs /\ ~(pc[p] \in Running /\ i = cmd[p].run)
    BY <1>1, <1>2, <2>1, SameRun DEF EvidenceInv
  <2> QED
    BY <2>1
<1>5. \A e \in workspace' : e.run \in DOMAIN runs'
  BY <1>1 DEF EvidenceInv
<1> QED
  BY <1>3, <1>4, <1>5 DEF EvidenceInv

\* A step that shows nothing new.
LEMMA EvidenceLeaving ==
  ASSUME TypeInv, SeparateInv, EvidenceInv, NEW p \in Procs, Moves(p),
         UNCHANGED <<runs, workspace>>, pc'[p] \notin Running
  PROVE  EvidenceInv'
<1>1. EvidenceFits(p)'
  BY DEF EvidenceFits, Running, Before
<1>2. \A i \in DOMAIN runs : RunHonest(i)'
  BY SameRun DEF EvidenceInv, Moves
<1>3. pc[p] \in Running => cmd[p].run \in DOMAIN runs
  BY DEF TypeInv, CommandFits
<1> QED
  BY <1>1, <1>2, <1>3, EvidenceProceeding

\* A step before the agent.
LEMMA EvidenceBefore ==
  ASSUME PipelineAssumption, TypeInv, SeparateInv, PlanInv, EvidenceInv, NEW p \in Procs,
         Moves(p), CopyTask(p) \/ Isolate(p) \/ WritePlan(p)
  PROVE  EvidenceInv'
<1> DEFINE i == cmd[p].run
<1> USE DEF Goto, Only, local, history
<1>0. /\ DOMAIN pc = Procs /\ DOMAIN cmd = Procs /\ DOMAIN cmd[p] = DOMAIN NoCommand
      /\ pc[p] \in Before /\ pc[p] \in Running /\ i \in DOMAIN runs
      /\ DOMAIN runs[i] = DOMAIN Reserved(None)
      /\ PlanFits(p) /\ RunHonest(i) /\ EvidenceFits(p)
  BY DEF TypeInv, CommandFits, PlanInv, EvidenceInv, CopyTask, Isolate, WritePlan, Running, Before
<1>1. /\ UNCHANGED workspace /\ pc'[p] \in {"copied", "isolated", "planned", "leaving"}
      /\ cmd'[p].run = i
      /\ ~WritePlan(p) => pc'[p] # "planned"
  <2>1. CASE CopyTask(p)
    BY <1>0, <2>1 DEF CopyTask, WritePlan
  <2>2. CASE Isolate(p)
    BY <1>0, <2>2 DEF Isolate, NoCommand
  <2>3. CASE WritePlan(p)
    BY <1>0, <2>3 DEF WritePlan, NoCommand
  <2> QED
    BY <2>1, <2>2, <2>3
<1>2. /\ runs'[i].edits = {} /\ runs[i].edits = {}
      /\ runs'[i].gate = runs[i].gate /\ runs'[i].violation = runs[i].violation
      /\ runs'[i].gaps = runs[i].gaps /\ runs'[i].stage \in {"reserved", "planned"}
      /\ runs'[i].isolated \in BOOLEAN
  <2>1. runs[i].edits = {} /\ runs[i].stage = "reserved" /\ runs[i].isolated \in BOOLEAN
    BY <1>0 DEF PlanFits, After, RunHonest
  <2>2. CASE CopyTask(p)
    <3>1. Keeps(i, {"snapshot"})
      BY <1>0, <2>2, FieldsKept
    <3> QED
      BY <2>1, <3>1 DEF Keeps, Reserved
  <2>3. CASE Isolate(p)
    <3>1. PICK added \in BOOLEAN : runs' = [runs EXCEPT ![cmd[p].run].isolated = added]
      BY <2>3 DEF Isolate
    <3>2. runs'[i] = [runs[i] EXCEPT !.isolated = added]
      BY <1>0, <3>1
    <3> QED
      BY <1>0, <2>1, <3>2 DEF Reserved
  <2>4. CASE WritePlan(p)
    <3>1. /\ Keeps(i, {"stage", "executed", "revision", "moved", "told"})
          /\ runs'[i].stage = "planned"
      BY <1>0, <2>4, FieldsKept
    <3> QED
      BY <2>1, <3>1 DEF Keeps, Reserved
  <2> QED
    BY <2>2, <2>3, <2>4
<1>3. pc'[p] = "planned" => \A e \in cmd'[p].before : e.run # i
  <2>1. ASSUME WritePlan(p) PROVE cmd'[p].before = Snapshot(i, Contract(p))
    BY <1>0, <2>1 DEF WritePlan, NoCommand
  <2>2. \A e \in Snapshot(i, Contract(p)) : e \in runs[i].edits \/ e \in workspace
    BY DEF Snapshot, Observed
  <2> QED
    BY <1>0, <1>1, <1>2, <2>1, <2>2 DEF EvidenceFits
<1>4. EvidenceFits(p)'
  BY <1>0, <1>1, <1>3 DEF EvidenceFits, Before
<1>5. ASSUME NEW j, j = i PROVE RunHonest(j)'
  BY <1>0, <1>2, <1>5 DEF RunHonest
<1>6. \A j \in DOMAIN runs' \ DOMAIN runs : RunHonest(j)'
  <2>1. DOMAIN runs' = DOMAIN runs
    BY DEF CopyTask, Isolate, WritePlan, Changing
  <2> QED
    BY <2>1
<1> QED
  BY <1>0, <1>1, <1>4, <1>5, <1>6, EvidenceProceeding

LEMMA EvidenceMakeDir ==
  ASSUME TypeInv, SeparateInv, EvidenceInv, NEW p \in Procs, Moves(p), MakeDir(p)
  PROVE  EvidenceInv'
<1> USE DEF Goto, Only, Leave
<1>0. /\ DOMAIN pc = Procs /\ DOMAIN cmd = Procs /\ pc[p] = "listed"
      /\ cmd[p].run \in 1..(Len(runs) + 1) /\ Counted(runs) /\ UNCHANGED workspace
  BY DEF TypeInv, CommandFits, MakeDir
<1>1. CASE cmd[p].run \in DOMAIN runs
  <2>1. runs' = runs /\ pc'[p] \notin Running
    BY <1>0, <1>1 DEF MakeDir, Running
  <2> QED
    BY <1>0, <2>1, EvidenceLeaving
<1>2. CASE cmd[p].run \notin DOMAIN runs
  <2>1. runs' = Append(runs, Reserved(cmd[p].task)) /\ cmd' = cmd /\ pc'[p] = "reserved"
    BY <1>0, <1>2 DEF MakeDir
  <2>2. /\ DOMAIN runs = 1..Len(runs) /\ DOMAIN runs' = 1..(Len(runs) + 1)
        /\ runs'[Len(runs) + 1] = Reserved(cmd[p].task) /\ Len(runs) \in Nat
    BY <1>0, <2>1, Adding DEF Counted
  <2>3. \A e \in workspace : e.run # cmd[p].run
    BY <1>2 DEF EvidenceInv
  <2>4. EvidenceFits(p)'
    BY <1>0, <2>1, <2>3 DEF EvidenceFits
  <2>5. \A i \in DOMAIN runs' \ DOMAIN runs : RunHonest(i)'
    <3> TAKE i \in DOMAIN runs' \ DOMAIN runs
    <3>1. i = Len(runs) + 1
      BY <2>2
    <3>2. /\ runs'[i].gate = FALSE /\ runs'[i].violation = FALSE /\ runs'[i].isolated = FALSE
          /\ runs'[i].gaps = {} /\ runs'[i].edits = {} /\ runs'[i].stage = "reserved"
      BY <2>2, <3>1 DEF Reserved
    <3> QED
      BY <3>2 DEF RunHonest
  <2>6. pc[p] \notin Running
    BY <1>0 DEF Running
  <2> QED
    BY <1>0, <2>4, <2>5, <2>6, EvidenceProceeding
<1> QED
  BY <1>1, <1>2

LEMMA EvidenceInit == ASSUME Init PROVE EvidenceInv
  BY EmptySeq DEF Init, EvidenceInv, EvidenceFits, Before

\* More reasons leave evidence honest.
LEMMA HonestMore ==
  ASSUME NEW r, NEW c, NEW s, Honest(r, c), s.edits = r.edits, s.patch = r.patch,
         s.delta = r.delta, s.violation = r.violation, r.violation \in BOOLEAN,
         r.gaps \subseteq s.gaps
  PROVE  Honest(s, c)
  BY DEF Honest

LEMMA EvidenceAgent ==
  ASSUME PipelineAssumption, TypeInv, SeparateInv, PlanInv, EvidenceInv, NEW p \in Procs,
         Moves(p), RunAgent(p)
  PROVE  EvidenceInv'
<1> DEFINE i == cmd[p].run
<1> USE DEF Goto, Only
<1>0. /\ DOMAIN pc = Procs /\ DOMAIN cmd = Procs
      /\ pc[p] = "planned" /\ pc[p] \in Running /\ i \in DOMAIN runs
      /\ DOMAIN runs[i] = DOMAIN Reserved(None) /\ runs[i].stage = "planned"
      /\ RunHonest(i) /\ EvidenceFits(p) /\ cmd' = cmd /\ pc'[p] = "ran"
      /\ DOMAIN runs' = DOMAIN runs
  BY DEF TypeInv, CommandFits, PlanInv, PlanFits, EvidenceInv, RunAgent, Changing, Running, Before
<1>1. Keeps(i, {"status", "edits", "nested"})
  BY <1>0, FieldsKept
<1>2. /\ runs'[i].gate = runs[i].gate /\ runs'[i].violation = runs[i].violation
      /\ runs'[i].gaps = runs[i].gaps /\ runs'[i].stage = "planned"
      /\ runs'[i].isolated = runs[i].isolated
  BY <1>0, <1>1 DEF Keeps, Reserved
<1> DEFINE Made(w) == {[path |-> e.path, how |-> e.how, run |-> i] : e \in w.edits}
<1>3. PICK w \in Outcomes(Contract(p)) :
        /\ Changing(i, [runs[i] EXCEPT !.status = w.status, !.edits = Made(w), !.nested = w.nested])
        /\ workspace' = IF runs[i].isolated THEN workspace ELSE workspace \cup Made(w)
  BY DEF RunAgent
<1>4. runs'[i].edits = Made(w)
  BY <1>0, <1>3 DEF Changing, Reserved
<1>5. \A e \in w.edits : e.how \in Hows
  BY PipelineAssumption DEF Outcomes
<1>6. \A e \in Made(w) : e.run = i /\ e.how \in Hows
  BY <1>5
<1> HIDE DEF Made
<1>7. \A e \in workspace' : e \in workspace \/ e.run = i
  BY <1>3, <1>6
<1>8. EvidenceFits(p)'
  BY <1>0, <1>2, <1>3, <1>4 DEF EvidenceFits, Before
<1>9. ASSUME NEW j, j = i PROVE RunHonest(j)'
  BY <1>0, <1>2, <1>4, <1>6, <1>9 DEF RunHonest
<1>10. workspace \subseteq workspace'
  BY <1>3
<1> QED
  BY <1>0, <1>7, <1>8, <1>9, <1>10, EvidenceProceeding

LEMMA EvidenceObserve ==
  ASSUME TypeInv, SeparateInv, PlanInv, EvidenceInv, NEW p \in Procs, Moves(p), Observe(p)
  PROVE  EvidenceInv'
<1> DEFINE i == cmd[p].run
<1> USE DEF Goto, Only
<1>0. /\ DOMAIN pc = Procs /\ DOMAIN cmd = Procs
      /\ pc[p] = "ran" /\ pc[p] \in Running /\ i \in DOMAIN runs
      /\ DOMAIN runs[i] = DOMAIN Reserved(None) /\ runs[i].stage = "planned"
      /\ RunHonest(i) /\ EvidenceFits(p) /\ cmd' = cmd /\ pc'[p] = "observed"
      /\ DOMAIN runs' = DOMAIN runs /\ UNCHANGED <<profile, workspace>>
  BY DEF TypeInv, CommandFits, PlanInv, PlanFits, EvidenceInv, Observe, Changing, Running, Before
<1>1. Keeps(i, {"patch", "delta", "violation", "gaps"})
  BY <1>0, FieldsKept
<1>2. /\ runs'[i].gate = runs[i].gate /\ runs'[i].stage = "planned"
      /\ runs'[i].isolated = runs[i].isolated /\ runs'[i].edits = runs[i].edits
  BY <1>0, <1>1 DEF Keeps, Reserved
<1>3. PICK diff \in {"ok", "failed", "cut"}, status \in {"ok", "failed", "cut"},
           listing \in {"ok", "failed"} :
        Changing(i, HarnessObservation(i, cmd[p].before, Contract(p),
                      GitDiff(Observed(i), diff, listing),
                      PathPolicy(Observed(i), status, NestedIn(i), Contract(p))))
  BY DEF Observe
<1>4. /\ runs[i].edits \subseteq Observed(i)
      /\ \A e \in runs[i].edits : e.run = i /\ e.how \in Hows
      /\ \A e \in cmd[p].before : e.run # i
  BY <1>0 DEF EvidenceFits, RunHonest, Observed
<1>5. runs'[i] = HarnessObservation(i, cmd[p].before, Contract(p),
                   GitDiff(Observed(i), diff, listing),
                   PathPolicy(Observed(i), status, NestedIn(i), Contract(p)))
  BY <1>0, <1>3 DEF Changing
<1>a. ObservedWell(i, runs'[i], Contract(p))
  BY <1>0, <1>4, <1>5, ObservationIsHonest
<1>6. /\ Unobserved \in runs'[i].gaps /\ runs'[i].gaps \subseteq Gaps
      /\ runs'[i].violation \in BOOLEAN /\ Honest(runs'[i], Contract(p))
  BY <1>a DEF ObservedWell
<1>7. Contract(p)' = Contract(p)
  BY <1>0 DEF Contract
<1>8. EvidenceFits(p)'
  BY <1>0, <1>6, <1>7 DEF EvidenceFits, Before
<1>9. ASSUME NEW j, j = i PROVE RunHonest(j)'
  BY <1>0, <1>2, <1>6, <1>9 DEF RunHonest
<1> QED
  BY <1>0, <1>8, <1>9, EvidenceProceeding

LEMMA EvidenceAfter ==
  ASSUME TypeInv, SeparateInv, PlanInv, EvidenceInv, NEW p \in Procs, Moves(p),
         Verify(p) \/ Discard(p)
  PROVE  EvidenceInv'
<1> DEFINE i == cmd[p].run
<1> USE DEF Goto, Only
<1>0. /\ DOMAIN pc = Procs /\ DOMAIN cmd = Procs /\ DOMAIN cmd[p] = DOMAIN NoCommand
      /\ pc[p] \in {"observed", "verified"} /\ pc[p] \in Running /\ i \in DOMAIN runs
      /\ DOMAIN runs[i] = DOMAIN Reserved(None) /\ runs[i].stage = "planned"
      /\ RunHonest(i) /\ EvidenceFits(p) /\ DOMAIN runs' = DOMAIN runs
      /\ UNCHANGED <<profile, workspace>>
  BY DEF TypeInv, CommandFits, PlanInv, PlanFits, EvidenceInv, Verify, Discard, Changing,
         Running, Before
<1>1. Keeps(i, {"attempts", "gate", "gaps"})
  BY <1>0, FieldsKept DEF Keeps
<1>2. /\ runs'[i].violation = runs[i].violation /\ runs'[i].stage = "planned"
      /\ runs'[i].isolated = runs[i].isolated /\ runs'[i].edits = runs[i].edits
      /\ runs'[i].patch = runs[i].patch /\ runs'[i].delta = runs[i].delta
  BY <1>0, <1>1 DEF Keeps, Reserved
<1>3. /\ Unobserved \in runs[i].gaps /\ runs[i].gaps \subseteq Gaps
      /\ Honest(runs[i], Contract(p)) /\ runs[i].violation \in BOOLEAN
  BY <1>0 DEF EvidenceFits, RunHonest
<1>4. /\ cmd'[p].run = i /\ cmd'[p].loaded = cmd[p].loaded /\ pc'[p] \in {"verified", "discarded"}
  <2>1. CASE Verify(p)
    <3>1. cmd' = cmd /\ pc' = [pc EXCEPT ![p] = "verified"]
      BY <2>1 DEF Verify
    <3> QED
      BY <1>0, <3>1
  <2>2. CASE Discard(p)
    BY <1>0, <2>2 DEF Discard, NoCommand
  <2> QED
    BY <2>1, <2>2
<1>5. Contract(p)' = Contract(p)
  BY <1>4 DEF Contract
<1>6. runs[i].gaps \subseteq runs'[i].gaps /\ runs'[i].gaps \subseteq Gaps
      /\ runs'[i].gate \in BOOLEAN /\ Judged(runs'[i], Contract(p))
  <2>1. CASE Verify(p)
    <3>0. PICK cut \in BOOLEAN :
            \E results \in [DOMAIN Contract(p).commands -> {"PASS", "FAIL"}] : \E attempts :
              /\ DOMAIN attempts = DOMAIN Contract(p).commands
              /\ attempts = [k \in DOMAIN attempts |-> attempts[k]]
              /\ \A k \in DOMAIN attempts : attempts[k] \in {results[k], "BLOCKED"}
              /\ Changing(i, [runs[i] EXCEPT
                   !.attempts = attempts,
                   !.gate = Outcome(attempts, Contract(p)).satisfied,
                   !.gaps = @ \cup VerificationGaps(attempts, cut)])
      BY <2>1 DEF Verify
    <3>1. PICK results, attempts :
            /\ results \in [DOMAIN Contract(p).commands -> {"PASS", "FAIL"}]
            /\ DOMAIN attempts = DOMAIN Contract(p).commands
            /\ attempts = [k \in DOMAIN attempts |-> attempts[k]]
            /\ \A k \in DOMAIN attempts : attempts[k] \in {results[k], "BLOCKED"}
            /\ Changing(i, [runs[i] EXCEPT
                 !.attempts = attempts,
                 !.gate = Outcome(attempts, Contract(p)).satisfied,
                 !.gaps = @ \cup VerificationGaps(attempts, cut)])
      BY <3>0
    <3>2. /\ runs'[i].attempts = attempts
          /\ runs'[i].gate = Outcome(attempts, Contract(p)).satisfied
          /\ runs'[i].gaps = runs[i].gaps \cup VerificationGaps(attempts, cut)
      BY <1>0, <3>1 DEF Changing, Reserved
    <3>3. VerificationGaps(attempts, cut) \subseteq Gaps
      BY DEF VerificationGaps, Gaps
    <3>4. Outcome(attempts, Contract(p)).satisfied \in BOOLEAN
      BY DEF Outcome, VerificationOutcome
    <3>5. \A k \in DOMAIN attempts : attempts[k] \in {"PASS", "FAIL", "BLOCKED"}
      BY <3>1
    <3> QED
      BY <1>3, <3>1, <3>2, <3>3, <3>4, <3>5 DEF Judged
  <2>2. CASE Discard(p)
    <3>1. Keeps(i, {"gaps"}) /\ Judged(runs[i], Contract(p)) /\ runs[i].gate \in BOOLEAN
      BY <1>0, <2>2, FieldsKept DEF EvidenceFits, Discard, RunHonest
    <3>2. runs'[i].attempts = runs[i].attempts /\ runs'[i].gate = runs[i].gate
      BY <3>1 DEF Keeps, Reserved
    <3>3. PICK removed : runs' = [runs EXCEPT ![cmd[p].run].gaps =
                     IF removed THEN @ ELSE @ \cup {"ISOLATION_DISCARD_FAILED"}]
      BY <2>2 DEF Discard
    <3>4. runs'[i].gaps \in {runs[i].gaps, runs[i].gaps \cup {"ISOLATION_DISCARD_FAILED"}}
      BY <1>0, <3>3 DEF Reserved
    <3> QED
      BY <1>3, <3>1, <3>2, <3>4 DEF Judged, Gaps
  <2> QED
    BY <2>1, <2>2
<1>7. Honest(runs'[i], Contract(p)) /\ Unobserved \in runs'[i].gaps
  BY <1>2, <1>3, <1>6, HonestMore
<1>8. Judged(runs[i], Contract(p))' <=> Judged(runs'[i], Contract(p))
  <2>1. \A a : Outcome(a, Contract(p))' = Outcome(a, Contract(p))
    BY <1>0, <1>5, SameProfile
  <2> QED
    BY <1>4, <2>1 DEF Judged
<1>9. EvidenceFits(p)'
  BY <1>0, <1>4, <1>5, <1>6, <1>7, <1>8 DEF EvidenceFits, Before
<1>10. ASSUME NEW j, j = i PROVE RunHonest(j)'
  BY <1>0, <1>2, <1>6, <1>10 DEF RunHonest
<1> QED
  BY <1>0, <1>9, <1>10, EvidenceProceeding

LEMMA EvidenceRecord ==
  ASSUME TypeInv, SeparateInv, PlanInv, EvidenceInv, NEW p \in Procs, Moves(p), Record(p)
  PROVE  EvidenceInv'
<1> DEFINE i == cmd[p].run
<1> USE DEF Goto, Only
<1>0. /\ DOMAIN pc = Procs /\ DOMAIN cmd = Procs
      /\ pc[p] = "discarded" /\ pc[p] \in Running /\ i \in DOMAIN runs
      /\ DOMAIN runs[i] = DOMAIN Reserved(None) /\ runs[i].executed = cmd[p].loaded
      /\ RunHonest(i) /\ EvidenceFits(p) /\ pc'[p] = "leaving"
      /\ DOMAIN runs' = DOMAIN runs /\ UNCHANGED <<profile, workspace>>
  BY DEF TypeInv, CommandFits, PlanInv, PlanFits, EvidenceInv, Record, Running, Before, After
<1>1. Keeps(i, {"stage"})
  BY <1>0, FieldsKept
<1>2. /\ Unobserved \in runs[i].gaps /\ Honest(runs[i], Contents[runs[i].executed])
      /\ Judged(runs[i], Contents[runs[i].executed])
  BY <1>0 DEF EvidenceFits, Contract
<1>3. /\ runs'[i].gate = runs[i].gate /\ runs'[i].violation = runs[i].violation
      /\ runs'[i].isolated = runs[i].isolated /\ runs'[i].gaps = runs[i].gaps
      /\ runs'[i].edits = runs[i].edits /\ runs'[i].executed = runs[i].executed
      /\ runs'[i].patch = runs[i].patch /\ runs'[i].delta = runs[i].delta
      /\ runs'[i].attempts = runs[i].attempts
  BY <1>1 DEF Keeps, Reserved
<1>4. Honest(runs'[i], Contents[runs[i].executed]) /\ Judged(runs'[i], Contents[runs[i].executed])
  <2>1. runs[i].violation \in BOOLEAN
    BY <1>0 DEF RunHonest
  <2>2. Honest(runs'[i], Contents[runs[i].executed])
    BY <1>2, <1>3, <2>1, HonestMore
  <2>3. Judged(runs'[i], Contents[runs[i].executed])
    BY <1>2, <1>3 DEF Judged
  <2> QED
    BY <2>2, <2>3
<1>5. ASSUME NEW j, j = i PROVE RunHonest(j)'
  <2>1. Judged(runs[j], Contents[runs[j].executed])'
    <3>1. \A a : Outcome(a, Contents[runs[j].executed])' = Outcome(a, Contents[runs[j].executed])
      BY <1>0, <1>3, <1>5, SameProfile
    <3> QED
      BY <1>3, <1>4, <1>5, <3>1 DEF Judged
  <2>2. Honest(runs[j], Contents[runs[j].executed])'
    BY <1>3, <1>4, <1>5 DEF Honest
  <2> QED
    BY <1>0, <1>2, <1>3, <1>5, <2>1, <2>2 DEF RunHonest
<1>6. EvidenceFits(p)'
  BY <1>0 DEF EvidenceFits, Before
<1> QED
  BY <1>0, <1>5, <1>6, EvidenceProceeding

LEMMA EvidenceStep ==
  ASSUME PipelineAssumption, TypeInv, SeparateInv, PlanInv, EvidenceInv, [Next]_vars
  PROVE  EvidenceInv'
<1>1. ASSUME NEW p \in Procs, Acts(p) PROVE EvidenceInv'
  <2>1. Moves(p) /\ DOMAIN pc = Procs
    BY <1>1, ActsStep DEF TypeInv
  <2>2. CASE Approve(p) \/ AskQueue(p) \/ Throw(p)
    <3>1. UNCHANGED <<runs, workspace>> /\ pc'[p] \notin Running
      BY <2>1, <2>2 DEF Approve, AskQueue, Throw, Leave, Goto, Running, disk
    <3> QED
      BY <2>1, <3>1, EvidenceLeaving
  <2>3. CASE Release(p) \/ Crash(p) \/ \E t \in Tasks, o \in Options : Lock(p, t, o)
    <3>1. UNCHANGED <<runs, workspace>> /\ pc'[p] \notin Running
      BY <2>1, <2>3 DEF Release, Crash, Lock, Goto, Running, disk
    <3> QED
      BY <2>1, <3>1, EvidenceLeaving
  <2> QED
    BY <1>1, <2>1, <2>2, <2>3, EvidenceBefore, EvidenceMakeDir, EvidenceAgent, EvidenceObserve,
       EvidenceAfter, EvidenceRecord
    DEF Acts, AtWork
<1>2. CASE World \/ UNCHANGED vars
  <2>1. /\ UNCHANGED <<profile, runs, workspace, pc>>
        /\ \A p \in Procs : /\ cmd'[p].run = cmd[p].run /\ cmd'[p].before = cmd[p].before
                            /\ cmd'[p].loaded = cmd[p].loaded
    BY <1>2, WorldStep DEF vars, disk, local, NoCommand
  <2>2. ASSUME NEW p \in Procs PROVE EvidenceFits(p)'
    <3>1. Contract(p)' = Contract(p)
      BY <2>1 DEF Contract
    <3>2. \A a : Outcome(a, Contract(p))' = Outcome(a, Contract(p))
      BY <2>1, <3>1, SameProfile
    <3>3. Judged(runs[cmd[p].run], Contract(p))' <=> Judged(runs[cmd[p].run], Contract(p))
      BY <2>1, <3>2 DEF Judged
    <3>4. Honest(runs[cmd[p].run], Contract(p))' <=> Honest(runs[cmd[p].run], Contract(p))
      BY <2>1, <3>1 DEF Honest
    <3> QED
      BY <2>1, <3>3, <3>4 DEF EvidenceInv, EvidenceFits
  <2>3. ASSUME NEW i \in DOMAIN runs PROVE RunHonest(i)'
    BY <2>1, SameRun DEF EvidenceInv
  <2> QED
    BY <2>1, <2>2, <2>3 DEF EvidenceInv
<1> QED
  BY <1>1, <1>2, NextIs

LEMMA Evidences == Spec => [](TypeInv /\ SeparateInv /\ PlanInv /\ EvidenceInv)
<1> USE PipelineAssumption
<1>1. Init => TypeInv /\ SeparateInv /\ PlanInv /\ EvidenceInv
  BY InitSeparate, PlanInit, EvidenceInit
<1>2. (TypeInv /\ SeparateInv /\ PlanInv /\ EvidenceInv) /\ [Next]_vars
        => (TypeInv /\ SeparateInv /\ PlanInv /\ EvidenceInv)'
  BY TypeSeparateStep, PlanStep, EvidenceStep
<1> QED
  BY <1>1, <1>2, PTL DEF Spec

\* Every edit is in the evidence of its run, or the summary names a reason why it may be
\* missing (captureGitDiff, captureGitChangedFiles, computeDelta).
THEOREM HonestEvidence == Spec => []EvidenceIsHonest
<1>1. EvidenceInv => EvidenceIsHonest
  BY DEF EvidenceInv, RunHonest, Honest, EvidenceIsHonest, ListRuns
<1> QED
  BY <1>1, Evidences, PTL

\* Whatever the profile and the contract state, the Core gates hold: verification is
\* required, and a result is reviewed by a person.
LEMMA CoreGatesHold ==
  ASSUME PipelineAssumption, NEW c, GatesResolve(c)
  PROVE  /\ MergedGates(c).verification.required = TRUE
         /\ MergedGates(c).resultReview.actors = {"HUMAN"}
         /\ MergedGates(c).resultReview.explicit \in BOOLEAN
<1> DEFINE gates == Stated(Sources(c), "resultReview")
           verifying == Stated(Sources(c), "verification")
           requiring == {g \in gates : g.required = Yes}
<1>1. CoreRequiredGates \in Sources(c)
  BY PipelineAssumption DEF Sources
<1>2. /\ CoreRequiredGates.resultReview \in gates
      /\ CoreRequiredGates.verification \in verifying
  BY <1>1, PipelineAssumption DEF Stated, CoreRequiredGates
<1>3. /\ CoreRequiredGates.resultReview = [required |-> Yes, actors |-> {"HUMAN"}, explicit |-> No]
      /\ CoreRequiredGates.verification.required = Yes
  BY DEF CoreRequiredGates, Decision, Evidence
<1> HIDE DEF gates, verifying
<1>4. MergeEvidence(verifying).required = TRUE
  BY <1>2, <1>3 DEF MergeEvidence
<1>5. CoreRequiredGates.resultReview \in requiring
  BY <1>2, <1>3
<1>6. Common(requiring) \subseteq {"HUMAN"}
  BY <1>3, <1>5 DEF Common
<1>7. /\ MergeDecision(gates).required = TRUE
      /\ MergeDecision(gates).actors = Common(requiring)
      /\ MergeDecision(gates).explicit \in BOOLEAN
  BY <1>5 DEF MergeDecision
<1>8. MergeDecision(gates).actors # {}
  BY <1>7 DEF GatesResolve, Unresolved, gates
<1>9. MergeDecision(gates).actors = {"HUMAN"}
  BY <1>6, <1>7, <1>8
<1>10. /\ MergedGates(c).resultReview = MergeDecision(gates)
       /\ MergedGates(c).verification = MergeEvidence(verifying)
  BY <1>7 DEF MergedGates, MergeRequiredGates, Escalated, gates, verifying
<1> QED
  BY <1>4, <1>7, <1>9, <1>10

\* A gate that had to be earned.
LEMMA OutcomeIsEarned ==
  ASSUME NEW attempts, attempts = [k \in DOMAIN attempts |-> attempts[k]],
         \A k \in DOMAIN attempts : attempts[k] \in {"PASS", "FAIL", "BLOCKED"}
  PROVE  LET outcome == VerificationOutcome(attempts, TRUE) IN
         /\ Asserted(outcome, attempts)
         /\ outcome.satisfied => attempts # <<>> /\ \A k \in DOMAIN attempts : attempts[k] = "PASS"
<1> DEFINE executed == {i \in DOMAIN attempts : attempts[i] # "BLOCKED"}
           failed == \E i \in executed : attempts[i] = "FAIL"
           outcome == VerificationOutcome(attempts, TRUE)
<1>1. DOMAIN attempts = {} => attempts = <<>>
  <2>1. DOMAIN <<>> = {}
    OBVIOUS
  <2>2. <<>> = [k \in {} |-> attempts[k]]
    OBVIOUS
  <2> QED
    BY <2>1, <2>2
<1>2. attempts = <<>> => DOMAIN attempts = {}
  OBVIOUS
<1>3. CASE attempts = <<>> \/ executed # DOMAIN attempts
  <2>1. outcome.satisfied = FALSE /\ outcome.check # "PASS"
    BY <1>2, <1>3 DEF VerificationOutcome
  <2> QED
    BY <2>1 DEF Asserted
<1>4. CASE attempts # <<>> /\ executed = DOMAIN attempts
  <2>1. outcome = [check |-> IF failed THEN "FAIL" ELSE "PASS", satisfied |-> ~failed,
                   reason |-> IF failed THEN "FAILED" ELSE "PASS"]
    BY <1>4 DEF VerificationOutcome
  <2>2. Executed(attempts) # {}
    BY <1>1, <1>4 DEF Executed
  <2> HIDE DEF outcome
  <2>3. CASE failed
    <3>1. outcome.check = "FAIL" /\ outcome.satisfied = FALSE
      BY <2>1, <2>3
    <3> QED
      BY <3>1 DEF Asserted, outcome
  <2>4. CASE ~failed
    <3>1. outcome.check = "PASS" /\ outcome.satisfied = TRUE
      BY <2>1, <2>4
    <3>2. \A k \in DOMAIN attempts : attempts[k] = "PASS"
      BY <1>4, <2>4
    <3> QED
      BY <1>4, <2>2, <3>1, <3>2 DEF Asserted, outcome
  <2> QED
    BY <2>3, <2>4
<1> QED
  BY <1>3, <1>4

\* The verification gate is earned by commands that all ran and passed, the assertions on
\* the evidence never throw, and the summary is one that a review can be about.
THEOREM EarnedGate == Spec => []GateIsEarned
<1> USE PipelineAssumption
<1>1. PlanInv /\ EvidenceInv => GateIsEarned
  <2> SUFFICES ASSUME PlanInv, EvidenceInv PROVE GateIsEarned
    OBVIOUS
  <2>1. ASSUME NEW r, NEW c, Judged(r, c), GatesResolve(c)
        PROVE  /\ Asserted(Outcome(r.attempts, c), r.attempts)
               /\ r.gate => /\ r.attempts # <<>>
                            /\ \A k \in DOMAIN r.attempts : r.attempts[k] = "PASS"
    BY <2>1, CoreGatesHold, OutcomeIsEarned DEF Judged, Outcome
  <2>2. ASSUME NEW p \in Procs, pc[p] = "discarded"
        PROVE  LET done == runs[cmd[p].run].attempts IN
               Asserted(Outcome(done, Contract(p)), done)
    <3>1. Judged(runs[cmd[p].run], Contract(p)) /\ GatesResolve(Contract(p))
      BY <2>2 DEF PlanInv, PlanFits, EvidenceInv, EvidenceFits, Running
    <3> QED
      BY <2>1, <3>1
  <2>3. ASSUME NEW i \in ListRuns
        PROVE  /\ runs[i].gate => /\ runs[i].attempts # <<>>
                                  /\ \A k \in DOMAIN runs[i].attempts : runs[i].attempts[k] = "PASS"
               /\ Trace(i) \in TraceSet
    <3> DEFINE c == Contents[runs[i].executed]
               review == MergedGates(c).resultReview
    <3>1. /\ Judged(runs[i], c) /\ GatesResolve(c) /\ Unobserved \in runs[i].gaps
          /\ {runs[i].gate, runs[i].violation, runs[i].isolated} \subseteq BOOLEAN
          /\ runs[i].gaps \subseteq Gaps
      BY <2>3 DEF ListRuns, PlanInv, RunFits, EvidenceInv, RunHonest
    <3>2. review.actors = {"HUMAN"} /\ review.explicit \in BOOLEAN
      BY <3>1, CoreGatesHold
    <3> HIDE DEF review, c
    <3>3. /\ (runs[i].status = "SUCCEEDED") \in BOOLEAN /\ (ComputedRisk(c) = "LOW") \in BOOLEAN
          /\ AutoAdvance(c) \in BOOLEAN
      BY DEF AutoAdvance
    <3>4. Trace(i) =
            [done |-> runs[i].status = "SUCCEEDED", gate |-> runs[i].gate,
             violation |-> runs[i].violation, low |-> ComputedRisk(c) = "LOW",
             gaps |-> runs[i].gaps, isolated |-> runs[i].isolated, allowed |-> review.actors,
             auto |-> AutoAdvance(c), explicit |-> review.explicit]
      BY DEF Trace, review, c
    <3>5. Trace(i) \in TraceSet
      BY <3>1, <3>2, <3>3, <3>4 DEF TraceSet
    <3> QED
      BY <2>1, <3>1, <3>5
  <2> QED
    BY <2>2, <2>3 DEF GateIsEarned
<1> QED
  BY <1>1, Evidences, PTL

-----------------------------------------------------------------------------
(* What more sources, narrower lists and more rules can change: gates are   *)
(* merged, modes met and capabilities narrowed, and none of them grants.     *)

LEMMA StatedGrows ==
  ASSUME NEW S, NEW T, S \subseteq T, NEW key
  PROVE  Stated(S, key) \subseteq Stated(T, key)
  BY DEF Stated

LEMMA DecisionTightens ==
  ASSUME NEW G, NEW H, G \subseteq H
  PROVE  /\ MergeDecision(G).required = (\E g \in G : g.required = Yes)
         /\ MergeDecision(G).required => /\ MergeDecision(H).required
                                         /\ MergeDecision(H).actors \subseteq MergeDecision(G).actors
                                         /\ MergeDecision(G).explicit => MergeDecision(H).explicit
         /\ MergeDecision(G).explicit => MergeDecision(G).required
<1> DEFINE req(X) == {g \in X : g.required = Yes}
<1>1. ASSUME NEW X
      PROVE  /\ MergeDecision(X).required = (req(X) # {})
             /\ MergeDecision(X).actors = IF req(X) = {} THEN {} ELSE Common(req(X))
             /\ MergeDecision(X).explicit = (req(X) # {} /\ \E g \in X : g.explicit = Yes)
  BY Zenon DEF MergeDecision
<1>2. req(G) \subseteq req(H) /\ Common(req(H)) \subseteq Common(req(G))
  BY DEF Common
<1>3. (req(G) # {}) <=> \E g \in G : g.required = Yes
  OBVIOUS
<1> HIDE DEF req
<1> QED
  BY <1>1, <1>2, <1>3

LEMMA EvidenceTightens ==
  ASSUME NEW G, NEW H, G \subseteq H
  PROVE  /\ MergeEvidence(G).required => MergeEvidence(H).required
         /\ MergeEvidence(G).explicit => MergeEvidence(H).explicit
         /\ MergeEvidence(H).waivable /\ G # {} =>
              MergeEvidence(G).waivable /\ MergeEvidence(H).actors \subseteq MergeEvidence(G).actors
<1> DEFINE waivable(X) == X # {} /\ \A g \in X : g.waivable
<1>1. ASSUME NEW X
      PROVE  /\ MergeEvidence(X).required = (\E g \in X : g.required = Yes)
             /\ MergeEvidence(X).waivable = waivable(X)
             /\ MergeEvidence(X).actors = IF waivable(X) THEN Common(X) ELSE {}
             /\ MergeEvidence(X).explicit = (\E g \in X : g.explicit = Yes)
  BY DEF MergeEvidence
<1>2. Common(H) \subseteq Common(G)
  BY DEF Common
<1>3. waivable(H) /\ G # {} => waivable(G)
  OBVIOUS
<1>4. (\E g \in G : g.required = Yes) => (\E g \in H : g.required = Yes)
  OBVIOUS
<1>5. (\E g \in G : g.explicit = Yes) => (\E g \in H : g.explicit = Yes)
  OBVIOUS
<1> HIDE DEF waivable
<1>6. MergeEvidence(G).required => MergeEvidence(H).required
  BY <1>1, <1>4, Zenon
<1>7. MergeEvidence(G).explicit => MergeEvidence(H).explicit
  BY <1>1, <1>5, Zenon
<1>8. MergeEvidence(H).waivable /\ G # {} =>
        MergeEvidence(G).waivable /\ MergeEvidence(H).actors \subseteq MergeEvidence(G).actors
  <2> SUFFICES ASSUME MergeEvidence(H).waivable, G # {}
               PROVE  MergeEvidence(G).waivable /\ MergeEvidence(H).actors \subseteq MergeEvidence(G).actors
    OBVIOUS
  <2>1. waivable(H) /\ waivable(G)
    BY <1>1, <1>3, Zenon
  <2>2. MergeEvidence(G).waivable
    BY <1>1, <2>1, Zenon
  <2>3. MergeEvidence(H).actors = Common(H) /\ MergeEvidence(G).actors = Common(G)
    BY <1>1, <2>1
  <2> QED
    BY <1>2, <2>2, <2>3
<1> QED
  BY <1>6, <1>7, <1>8

LEMMA EscalationKeeps ==
  ASSUME NEW gate, NEW risk, gate.required
  PROVE  Escalated(gate, risk) = gate
  BY DEF Escalated

\* "Merging is per dimension and only ever narrows": a source that is added to a merge
\* takes away no gate, no actor's exclusion and no explicit act, and gives back no waiver
\* that another source withheld.  The review needs a source that asks for it by itself:
\* where only the risk does, a source that names the reviewers names them first.
THEOREM GatesOnlyTighten ==
  ASSUME NEW S, NEW T, S \subseteq T, NEW risk
  PROVE  LET was == MergeRequiredGates(S, risk)
             now == MergeRequiredGates(T, risk) IN
         /\ was.runApproval.required =>
              /\ now.runApproval.required
              /\ now.runApproval.actors \subseteq was.runApproval.actors
              /\ was.runApproval.explicit => now.runApproval.explicit
         /\ (\E g \in Stated(S, "resultReview") : g.required = Yes) =>
              /\ was.resultReview.required /\ now.resultReview.required
              /\ now.resultReview.actors \subseteq was.resultReview.actors
              /\ was.resultReview.explicit => now.resultReview.explicit
         /\ was.verification.required => now.verification.required
         /\ was.verification.explicit => now.verification.explicit
         /\ now.verification.waivable /\ Stated(S, "verification") # {} =>
              /\ was.verification.waivable
              /\ now.verification.actors \subseteq was.verification.actors
<1> DEFINE run(X) == Stated(X, "runApproval")
           review(X) == Stated(X, "resultReview")
           verify(X) == Stated(X, "verification")
<1>1. run(S) \subseteq run(T) /\ review(S) \subseteq review(T) /\ verify(S) \subseteq verify(T)
  BY StatedGrows
<1>2. ASSUME NEW X
      PROVE  /\ MergeRequiredGates(X, risk).runApproval = MergeDecision(run(X))
             /\ MergeRequiredGates(X, risk).resultReview = Escalated(MergeDecision(review(X)), risk)
             /\ MergeRequiredGates(X, risk).verification = MergeEvidence(verify(X))
  BY DEF MergeRequiredGates
<1>3. (\E g \in review(S) : g.required = Yes) =>
        /\ MergeDecision(review(S)).required /\ MergeDecision(review(T)).required
        /\ Escalated(MergeDecision(review(S)), risk) = MergeDecision(review(S))
        /\ Escalated(MergeDecision(review(T)), risk) = MergeDecision(review(T))
  BY <1>1, DecisionTightens, EscalationKeeps
<1> HIDE DEF run, review, verify
<1>4. /\ MergeDecision(run(S)).required =>
           /\ MergeDecision(run(T)).required
           /\ MergeDecision(run(T)).actors \subseteq MergeDecision(run(S)).actors
           /\ MergeDecision(run(S)).explicit => MergeDecision(run(T)).explicit
      /\ MergeDecision(review(S)).required =>
           /\ MergeDecision(review(T)).actors \subseteq MergeDecision(review(S)).actors
           /\ MergeDecision(review(S)).explicit => MergeDecision(review(T)).explicit
  BY <1>1, DecisionTightens
<1>5. /\ MergeEvidence(verify(S)).required => MergeEvidence(verify(T)).required
      /\ MergeEvidence(verify(S)).explicit => MergeEvidence(verify(T)).explicit
      /\ MergeEvidence(verify(T)).waivable /\ verify(S) # {} =>
           /\ MergeEvidence(verify(S)).waivable
           /\ MergeEvidence(verify(T)).actors \subseteq MergeEvidence(verify(S)).actors
  BY <1>1, EvidenceTightens
<1> QED
  BY <1>2, <1>3, <1>4, <1>5 DEF review, verify

-----------------------------------------------------------------------------
(* What narrows permits no more                                             *)

LEMMA SuggestionsRank == ModeRank("SUGGEST_ONLY") = 2
<1>1. DOMAIN Modes = 1..4 /\ Modes[1] = "DRY_RUN" /\ Modes[2] = "SUGGEST_ONLY"
      /\ Modes[3] = "WORKSPACE_EDIT" /\ Modes[4] = "COMMAND_EXEC"
  BY DEF Modes
<1>2. \A i \in 1..4 : i = 1 \/ i = 2 \/ i = 3 \/ i = 4
  OBVIOUS
<1>3. \A i \in DOMAIN Modes : Modes[i] = "SUGGEST_ONLY" <=> i = 2
  <2>1. ASSUME NEW i \in DOMAIN Modes PROVE Modes[i] = "SUGGEST_ONLY" <=> i = 2
    <3>1. i = 1 \/ i = 2 \/ i = 3 \/ i = 4
      BY <1>1, <1>2
    <3> QED
      BY <1>1, <3>1
  <2> QED
    BY <2>1
<1> QED
  BY <1>1, <1>3 DEF ModeRank

\* What the code promises of the mode a run gets ("upper bounds, never grants"): it is
\* within the mode of the project, of the role, and, for a custom role, of the Core role
\* that it narrows; so no declaration of a task or of a profile lets an agent of a
\* reviewing role edit files or run commands.
THEOREM ModeOnlyNarrows ==
  ASSUME PipelineAssumption, profile \in Profiles, NEW c, ResolveRoleAndMode(c)
  PROVE  LET id   == RoleId(c)
             core == IF id \in DOMAIN profile.custom THEN profile.custom[id].base ELSE id IN
         /\ core \in DOMAIN CoreRoles
         /\ EffectiveMode(c) \in HarnessModes
         /\ ModeRank(EffectiveMode(c)) <= ModeRank(profile.mode)
         /\ ModeRank(EffectiveMode(c)) <= ModeRank(RoleOf(id, profile.custom).maxMode)
         /\ ModeRank(EffectiveMode(c)) <= ModeRank(CoreRoles[core].maxMode)
         /\ CoreRoles[core].maxMode = "SUGGEST_ONLY" =>
              ~Capabilities(c).fileEdit /\ ~Capabilities(c).commandExecution
<1> DEFINE id   == RoleId(c)
           core == IF id \in DOMAIN profile.custom THEN profile.custom[id].base ELSE id
           role == RoleOf(id, profile.custom)
<1>1. profile.mode \in HarnessModes
  BY PipelineAssumption
<1>2. \A m \in HarnessModes : ModeRank(m) \in 1..4
  BY ModesAreRanked
<1>3. \A k \in DOMAIN CoreRoles : CoreRoles[k].maxMode \in HarnessModes
  BY DEF CoreRoles, Role, HarnessModes, Elements, Modes
<1>4. core \in DOMAIN CoreRoles /\ role.maxMode \in HarnessModes
      /\ ModeRank(role.maxMode) <= ModeRank(CoreRoles[core].maxMode)
  <2>1. CASE id \in DOMAIN profile.custom
    BY <2>1 DEF ResolveRoleAndMode, MayNarrow, RoleOf
  <2>2. CASE id \notin DOMAIN profile.custom
    <3>1. id \in DOMAIN CoreRoles /\ role = CoreRoles[id] /\ core = id
      BY <2>2 DEF ResolveRoleAndMode, Resolvable, RoleOf
    <3>2. role.maxMode \in HarnessModes
      BY <1>3, <3>1
    <3> QED
      BY <1>2, <3>1, <3>2
  <2> QED
    BY <2>1, <2>2
<1> HIDE DEF core, role, id
<1>5. Ceiling(c) = MeetMode(role.maxMode, profile.mode)
  BY DEF Ceiling, role, id
<1>6. Ceiling(c) \in HarnessModes /\ ModeRank(Ceiling(c)) <= ModeRank(role.maxMode)
      /\ ModeRank(Ceiling(c)) <= ModeRank(profile.mode)
  BY <1>1, <1>2, <1>4, <1>5 DEF MeetMode
<1>7. EffectiveMode(c) \in HarnessModes /\ ModeRank(EffectiveMode(c)) <= ModeRank(Ceiling(c))
  BY <1>2, <1>6 DEF EffectiveMode, ModeUnder, ResolveRoleAndMode, Narrows
<1>8. /\ ModeRank(EffectiveMode(c)) \in Nat /\ ModeRank(Ceiling(c)) \in Nat
      /\ ModeRank(role.maxMode) \in Nat /\ ModeRank(profile.mode) \in Nat
      /\ ModeRank(CoreRoles[core].maxMode) \in Nat
  BY <1>1, <1>2, <1>3, <1>4, <1>6, <1>7
<1>9. /\ ModeRank(EffectiveMode(c)) <= ModeRank(profile.mode)
      /\ ModeRank(EffectiveMode(c)) <= ModeRank(role.maxMode)
      /\ ModeRank(EffectiveMode(c)) <= ModeRank(CoreRoles[core].maxMode)
  BY <1>4, <1>6, <1>7, <1>8
<1>10. CoreRoles[core].maxMode = "SUGGEST_ONLY" =>
         ~Capabilities(c).fileEdit /\ ~Capabilities(c).commandExecution
  <2> SUFFICES ASSUME CoreRoles[core].maxMode = "SUGGEST_ONLY"
               PROVE  ~Capabilities(c).fileEdit /\ ~Capabilities(c).commandExecution
    OBVIOUS
  <2>1. ModeRank(EffectiveMode(c)) <= 2 /\ ModeRank("WORKSPACE_EDIT") = 3
        /\ ModeRank("COMMAND_EXEC") = 4
    <3>1. ModeRank(CoreRoles[core].maxMode) = 2
      BY SuggestionsRank
    <3> QED
      BY <1>8, <1>9, <3>1, ModesAreRanked
  <2>2. /\ ~(ModeRank(EffectiveMode(c)) >= ModeRank("WORKSPACE_EDIT"))
        /\ ~(ModeRank(EffectiveMode(c)) >= ModeRank("COMMAND_EXEC"))
    BY <1>8, <2>1
  <2>3. /\ Capabilities(c).fileEdit = (ModeRank(EffectiveMode(c)) >= ModeRank("WORKSPACE_EDIT"))
        /\ Capabilities(c).commandExecution =
             (ModeRank(EffectiveMode(c)) >= ModeRank("COMMAND_EXEC"))
    BY DEF Capabilities
  <2> QED
    BY <2>2, <2>3, Zenon
<1> QED
  BY <1>4, <1>7, <1>9, <1>10 DEF core, role, id

\* "An adapter may narrow what it was given and never widen it": what a request that adds
\* nothing (findCapabilityExpansions) permits, a command or a set of changed paths, the
\* policy permits too.  It needs what the comparison leaves out: a request does not empty
\* a list of allowed paths or commands, since an empty one allows everything, and it
\* carries the destructive commands of the policy.
THEOREM NarrowerPermitsLess ==
  ASSUME NEW req, NEW eff, ~Expands(req, eff),
         req.commands.destructive = eff.commands.destructive,
         eff.commands.allowed # {} => req.commands.allowed # {},
         eff.allowedPaths # {} => req.allowedPaths # {}
  PROVE  /\ \A argv : Preflight(argv, req.commandExecution, req.commands) =>
                        Preflight(argv, eff.commandExecution, eff.commands)
         /\ \A changed, cs, escapes :
              PathViolations(changed, req.allowedPaths, req.deniedPaths, cs, escapes) = {} =>
                PathViolations(changed, eff.allowedPaths, eff.deniedPaths, cs, escapes) = {}
<1>1. /\ req.allowedPaths \subseteq eff.allowedPaths
      /\ req.commands.allowed \subseteq eff.commands.allowed
      /\ eff.deniedPaths \subseteq req.deniedPaths
      /\ eff.commands.denied \subseteq req.commands.denied
  BY DEF Expands
<1>2. req.commandExecution => eff.commandExecution
  BY Zenon DEF Expands
<1>3. ASSUME NEW argv, Preflight(argv, req.commandExecution, req.commands)
      PROVE  Preflight(argv, eff.commandExecution, eff.commands)
  <2>1. argv # <<>> /\ eff.commandExecution /\ Lower(argv[1]) \notin Shells
    BY <1>2, <1>3, Zenon DEF Preflight
  <2>2. \A e \in eff.commands.denied : ~MatchesCommand(argv, e, FALSE)
    BY <1>1, <1>3, Zenon DEF Preflight
  <2>3. eff.commands.allowed # {} => \E e \in eff.commands.allowed : MatchesCommand(argv, e, TRUE)
    BY <1>1, <1>3, Zenon DEF Preflight
  <2>4. \A e \in eff.commands.destructive : ~MatchesCommand(argv, e, FALSE)
    BY <1>3, Zenon DEF Preflight
  <2> QED
    BY <2>1, <2>2, <2>3, <2>4, Zenon DEF Preflight
<1>4. ASSUME NEW changed, NEW cs, NEW escapes,
             PathViolations(changed, req.allowedPaths, req.deniedPaths, cs, escapes) = {}
      PROVE  PathViolations(changed, eff.allowedPaths, eff.deniedPaths, cs, escapes) = {}
  <2> DEFINE denied(q, c) == MatchesAny(q, c.deniedPaths, cs)
             allowed(q, c) == c.allowedPaths = {} \/ MatchesAny(q, c.allowedPaths, cs)
  <2>1. ASSUME NEW c
        PROVE  PathViolations(changed, c.allowedPaths, c.deniedPaths, cs, escapes) = {} <=>
                 /\ escapes = {}
                 /\ \A q \in changed : ~Outside(q) /\ ~denied(q, c) /\ allowed(q, c)
    <3> HIDE DEF denied, allowed
    <3>1. PathViolations(changed, c.allowedPaths, c.deniedPaths, cs, escapes) =
            {<<"SYMLINK_TARGET_ESCAPES_WORKSPACE", p>> : p \in escapes} \cup
            {<<"PATH_NOT_WORKSPACE_RELATIVE", p>> : p \in {q \in changed : Outside(q)}} \cup
            {<<"PATH_MATCHES_DENIED_PATHS", p>> :
               p \in {q \in changed : ~Outside(q) /\ denied(q, c)}} \cup
            {<<"PATH_OUTSIDE_ALLOWED_PATHS", p>> :
               p \in {q \in changed : ~Outside(q) /\ ~denied(q, c) /\ ~allowed(q, c)}}
      BY DEF PathViolations, denied, allowed
    <3>2. PathViolations(changed, c.allowedPaths, c.deniedPaths, cs, escapes) = {} <=>
            /\ escapes = {}
            /\ {q \in changed : Outside(q)} = {}
            /\ {q \in changed : ~Outside(q) /\ denied(q, c)} = {}
            /\ {q \in changed : ~Outside(q) /\ ~denied(q, c) /\ ~allowed(q, c)} = {}
      BY <3>1, Zenon
    <3> QED
      BY <3>2, Zenon
  <2>2. /\ escapes = {}
        /\ \A q \in changed : ~Outside(q) /\ ~denied(q, req) /\ allowed(q, req)
    BY <1>4, <2>1, Zenon
  <2>3. \A q : denied(q, eff) => denied(q, req)
    BY <1>1, Zenon DEF MatchesAny
  <2>4. \A q : allowed(q, req) => allowed(q, eff)
    BY <1>1, Zenon DEF MatchesAny
  <2> HIDE DEF denied, allowed
  <2>5. \A q \in changed : ~Outside(q) /\ ~denied(q, eff) /\ allowed(q, eff)
    BY <2>2, <2>3, <2>4, Zenon
  <2> QED
    BY <2>1, <2>2, <2>5, Zenon
<1> QED
  BY <1>3, <1>4

\* "A partially executed plan cannot show that verification passed"
\* (deriveVerificationOutcome): where verification is required, it is satisfied exactly by
\* planned commands that were all run and all passed.  Whether or not it is required, a
\* check is reported as passed in no other case, and a plan that ran to its end with a
\* failure does not satisfy it.
THEOREM OnlyPassSatisfies ==
  ASSUME NEW attempts, attempts = [k \in DOMAIN attempts |-> attempts[k]],
         \A k \in DOMAIN attempts : attempts[k] \in {"PASS", "FAIL", "BLOCKED"},
         NEW required \in BOOLEAN
  PROVE  LET outcome == VerificationOutcome(attempts, required)
             passed  == attempts # <<>> /\ \A k \in DOMAIN attempts : attempts[k] = "PASS" IN
         /\ outcome.check = "PASS" <=> passed
         /\ required => (outcome.satisfied <=> passed)
         /\ outcome.satisfied /\ (\A k \in DOMAIN attempts : attempts[k] # "BLOCKED") =>
              \A k \in DOMAIN attempts : attempts[k] = "PASS"
<1> DEFINE executed == {i \in DOMAIN attempts : attempts[i] # "BLOCKED"}
           failed == \E i \in executed : attempts[i] = "FAIL"
           outcome == VerificationOutcome(attempts, required)
           passed == attempts # <<>> /\ \A k \in DOMAIN attempts : attempts[k] = "PASS"
<1>1. attempts = <<>> => executed = {}
  OBVIOUS
<1>2. CASE attempts = <<>>
  <2>1. outcome = [check |-> "NONE", satisfied |-> ~required,
                   reason |-> IF required THEN "MISSING" ELSE "NOT_REQUIRED"]
    BY <1>1, <1>2 DEF VerificationOutcome
  <2> HIDE DEF outcome
  <2>2. outcome.check = "NONE" /\ outcome.satisfied = ~required
    BY <2>1
  <2>3. ~passed
    BY <1>2
  <2> HIDE DEF passed
  <2>4. required => ~outcome.satisfied
    BY <2>2, Zenon
  <2>5. outcome.check # "PASS"
    BY <2>2
  <2>6. \A k \in DOMAIN attempts : attempts[k] = "PASS"
    BY <1>2
  <2> QED
    BY <2>3, <2>4, <2>5, <2>6 DEF outcome, passed
<1>3. CASE attempts # <<>> /\ executed # DOMAIN attempts
  <2>1. outcome = [check |-> "SKIP", satisfied |-> ~required,
                   reason |-> IF required THEN "BLOCKED" ELSE "NOT_REQUIRED"]
    BY <1>3 DEF VerificationOutcome
  <2> HIDE DEF outcome
  <2>2. outcome.check = "SKIP" /\ outcome.satisfied = ~required
    BY <2>1
  <2>3. \E k \in DOMAIN attempts : attempts[k] = "BLOCKED"
    BY <1>3
  <2>4. ~passed
    BY <2>3
  <2> HIDE DEF passed
  <2>5. required => ~outcome.satisfied
    BY <2>2, Zenon
  <2>6. outcome.check # "PASS"
    BY <2>2
  <2> QED
    BY <2>3, <2>4, <2>5, <2>6 DEF outcome, passed
<1>4. CASE attempts # <<>> /\ executed = DOMAIN attempts
  <2>1. outcome = [check |-> IF failed THEN "FAIL" ELSE "PASS", satisfied |-> ~failed,
                   reason |-> IF failed THEN "FAILED" ELSE "PASS"]
    BY <1>4 DEF VerificationOutcome
  <2>2. failed <=> ~passed
    BY <1>4
  <2> HIDE DEF outcome, failed, passed
  <2>3. outcome.check = "PASS" <=> ~failed
    BY <2>1
  <2>4. outcome.satisfied = ~failed
    BY <2>1
  <2>5. outcome.satisfied <=> ~failed
    BY <2>4, Zenon
  <2>6. ~failed => \A k \in DOMAIN attempts : attempts[k] = "PASS"
    BY <2>2 DEF passed
  <2> QED
    BY <2>2, <2>3, <2>5, <2>6 DEF outcome, passed
<1> QED
  BY <1>2, <1>3, <1>4

Severity(level) == CHOOSE i \in DOMAIN RiskLevels : RiskLevels[i] = level

LEMMA SeveritiesAreRanked ==
  /\ Severity("LOW") = 1 /\ Severity("MEDIUM") = 2 /\ Severity("HIGH") = 3
  /\ \A i \in {1, 2, 3} : Severity(RiskLevels[i]) = i /\ RiskLevels[i] # "UNKNOWN"
<1>1. /\ DOMAIN RiskLevels = 1..3 /\ RiskLevels[1] = "LOW" /\ RiskLevels[2] = "MEDIUM"
      /\ RiskLevels[3] = "HIGH"
  BY DEF RiskLevels
<1>2. \A i \in 1..3 : i = 1 \/ i = 2 \/ i = 3
  OBVIOUS
<1>3. ASSUME NEW i \in DOMAIN RiskLevels
      PROVE  /\ RiskLevels[i] = "LOW" <=> i = 1
             /\ RiskLevels[i] = "MEDIUM" <=> i = 2
             /\ RiskLevels[i] = "HIGH" <=> i = 3
  <2>1. i = 1 \/ i = 2 \/ i = 3
    BY <1>1, <1>2
  <2> QED
    BY <1>1, <2>1
<1>4. Severity("LOW") = 1
  BY <1>1, <1>3 DEF Severity
<1>5. Severity("MEDIUM") = 2
  BY <1>1, <1>3 DEF Severity
<1>6. Severity("HIGH") = 3
  BY <1>1, <1>3 DEF Severity
<1> QED
  BY <1>1, <1>4, <1>5, <1>6

\* The severities of the rules that match.
Severities(rules, subject) == {Severity(r.level) : r \in {q \in rules : Matched(q, subject)}}
Undecided(rules, subject) ==
  \/ rules = {}
  \/ \E r \in rules : \E i \in DOMAIN r.allOf :
       Reached(r, i, subject) /\ Unevaluable(r.allOf[i], subject)

\* The level is the highest of them.
LEMMA RiskIsTheHighest ==
  ASSUME NEW rules, NEW subject, \A r \in rules : r.level \in {"LOW", "MEDIUM", "HIGH"}
  PROVE  LET risk == EvaluateRisk(rules, subject) IN
         IF Undecided(rules, subject) THEN risk = "UNKNOWN"
         ELSE /\ risk # "UNKNOWN" /\ Severity(risk) \in {1, 2, 3}
              /\ \A n \in Severities(rules, subject) : n <= Severity(risk)
              /\ \/ Severity(risk) \in Severities(rules, subject)
                 \/ Severities(rules, subject) = {} /\ Severity(risk) = 1
<1> DEFINE levels == Severities(rules, subject)
           risk == EvaluateRisk(rules, subject)
           highest == CHOOSE n \in levels : \A k \in levels : k <= n
<1>1. risk = IF Undecided(rules, subject) THEN "UNKNOWN"
             ELSE IF levels = {} THEN "LOW" ELSE RiskLevels[highest]
  BY DEF EvaluateRisk, Severities, Severity, Undecided
<1>2. levels \subseteq {1, 2, 3}
  BY SeveritiesAreRanked DEF Severities
<1> HIDE DEF levels, risk
<1>3. ASSUME levels # {} PROVE \E n \in levels : \A k \in levels : k <= n
  <2>1. CASE 3 \in levels
    BY <1>2, <2>1
  <2>2. CASE 3 \notin levels /\ 2 \in levels
    BY <1>2, <2>2
  <2>3. CASE 3 \notin levels /\ 2 \notin levels
    <3>1. levels = {1}
      BY <1>2, <1>3, <2>3
    <3> QED
      BY <3>1
  <2> QED
    BY <2>1, <2>2, <2>3
<1>4. levels # {} => highest \in levels /\ \A k \in levels : k <= highest
  BY <1>3
<1> HIDE DEF highest
<1>5. CASE Undecided(rules, subject)
  BY <1>1, <1>5 DEF risk
<1>6. CASE ~Undecided(rules, subject) /\ levels = {}
  <2>1. risk = "LOW" /\ Severity(risk) = 1
    BY <1>1, <1>6, SeveritiesAreRanked
  <2> QED
    BY <1>6, <2>1 DEF risk, levels
<1>7. CASE ~Undecided(rules, subject) /\ levels # {}
  <2>1. risk = RiskLevels[highest] /\ highest \in {1, 2, 3}
    BY <1>1, <1>2, <1>4, <1>7
  <2>2. risk # "UNKNOWN" /\ Severity(risk) = highest
    BY <2>1, SeveritiesAreRanked
  <2> QED
    BY <1>4, <1>7, <2>1, <2>2 DEF risk, levels
<1> QED
  BY <1>5, <1>6, <1>7

\* "There is no NOT because negation is a way to lower risk on a failed match": where the
\* rules determine a level, taking some of them away determines one that is no higher, a
\* rule that matches is never undercut, and without any rule nothing is determined.
THEOREM RiskOnlyRises ==
  ASSUME NEW rules, NEW more, rules \subseteq more, NEW subject,
         \A r \in more : r.level \in {"LOW", "MEDIUM", "HIGH"},
         EvaluateRisk(more, subject) # "UNKNOWN"
  PROVE  /\ EvaluateRisk(rules, subject) = "UNKNOWN" <=> rules = {}
         /\ rules # {} => Severity(EvaluateRisk(rules, subject)) <=
                          Severity(EvaluateRisk(more, subject))
         /\ \A r \in more : Matched(r, subject) =>
              Severity(r.level) <= Severity(EvaluateRisk(more, subject))
<1> DEFINE some == EvaluateRisk(rules, subject)
           all == EvaluateRisk(more, subject)
<1>0. \A r \in rules : r.level \in {"LOW", "MEDIUM", "HIGH"}
  OBVIOUS
<1>1. Severities(rules, subject) \subseteq Severities(more, subject)
  BY DEF Severities
<1>2. ~Undecided(more, subject)
  BY RiskIsTheHighest
<1>3. Undecided(rules, subject) <=> rules = {}
  BY <1>2 DEF Undecided
<1>4. /\ Severity(all) \in {1, 2, 3}
      /\ \A n \in Severities(more, subject) : n <= Severity(all)
  BY <1>2, RiskIsTheHighest
<1>5. CASE rules = {}
  <2>1. some = "UNKNOWN"
    BY <1>0, <1>3, <1>5, RiskIsTheHighest
  <2> QED
    BY <1>4, <1>5, <2>1 DEF Severities
<1>6. CASE rules # {}
  <2>1. /\ some # "UNKNOWN"
        /\ \/ Severity(some) \in Severities(rules, subject)
           \/ Severity(some) = 1
    BY <1>0, <1>3, <1>6, RiskIsTheHighest
  <2> HIDE DEF some, all
  <2>2. Severity(some) <= Severity(all)
    BY <1>1, <1>4, <2>1
  <2> QED
    BY <1>4, <1>6, <2>1, <2>2 DEF Severities, some, all
<1> QED
  BY <1>5, <1>6

=============================================================================
