-------------------------- MODULE ObjectiveLedger --------------------------
(***************************************************************************)
(* The ledger of one Objective (src/src/ledger.ts): its commands run by    *)
(* several processes through the mutation engine over the workspace lock,  *)
(* on the revisions of one task, whose own ledger grows meanwhile.         *)
(*                                                                         *)
(* A step ends at an await.  Each command reads the ledger in M2, again in *)
(* M3, again for the number of its event, and after the append replays it  *)
(* for the snapshot.  objective rebuild writes the snapshot without the    *)
(* lock.  Processes die, writes fail and an operator breaks locks.         *)
(***************************************************************************)
EXTENDS ObjectiveReplay, FiniteSets

CONSTANTS
  Procs,         \* processes that run commands
  MaxRev,        \* bound: revisions of the task
  Orders,        \* what reorder commands may name, sequences of revisions
  Runs, Bundles, \* finished runs, and the evidence bundles of their reviews
  Locals,        \* local reviews there are to import
  MaxEvents,     \* bound on the events in the ledger when a lock is taken
  MaxFaults      \* bound: crashes, failed writes and broken live locks

Revs == 1..MaxRev
Ids == Runs \X Nat
Decisions ==
  [id : Ids \cup {None}, bundle : Bundles \cup {None},
   verdict : {"ACCEPTED", "REJECTED", None}, proved : BOOLEAN,
   actor : {"HUMAN", "SYSTEM_POLICY", None}, allowed : SUBSET {"HUMAN", "SYSTEM_POLICY"},
   overturns : Ids \cup {None}]

\* A review that may be imported was refused to no one its gate does not allow
\* (reviewRun); item 0 is one that does not say which revision it is about.
ASSUME ObjectiveAssumption ==
  /\ None \notin Procs
  /\ MaxRev \in Nat \ {0} /\ MaxEvents \in Nat /\ MaxFaults \in Nat
  /\ Orders \subseteq Seq(Nat)
  /\ Locals \subseteq [item : 0..MaxRev, ready : BOOLEAN, decision : Decisions]
  /\ \A l \in Locals : l.decision.id \in Ids /\ (l.ready => Effective(l.decision))

VARIABLES
  log,       \* ledger.jsonl, the events that can be read
  readable,  \* FALSE once a line of it was cut short
  size,      \* the writes to it, whole or not: its content hash
  view,      \* what a replay of it gives, kept so as not to be derived again
  snapshot,  \* objective.json: the size it was derived from, 0 for none
  known,     \* the task ledger: revisions 1..known were created (1 at the start),
  links,     \* and r + 1 is recorded as the successor of these r
  lock, pc, cmd,
  overlap,   \* history: the lock of a live holder has been broken
  raced,     \* history: a rebuild without the lock overwrote a newer snapshot
  faults

ledger == <<log, readable, size, view>>
task == <<known, links>>
local == <<pc, cmd>>
history == <<overlap, raced, faults>>
vars == <<ledger, snapshot, task, lock, local, history>>

\* A command: what it does, to which item, and what it read before the lock (attach:
\* whether the revision exists and which ones it succeeds), for its append (seq)
\* and for its rebuild (sees).
NoCommand == [op |-> "REBUILD", item |-> 0, order |-> <<>>, decision |-> NoDecision,
              exists |-> FALSE, succeeds |-> {}, seq |-> 0, sees |-> 0]

Critical == {"precheck", "idempotency", "read", "write", "replay", "save",
             "postcheck", "release"}
Phases == {"idle", "lock", "rebuild"} \cup Critical

EventSet ==
  [type : {"CREATED", "ATTACHED", "REORDERED", "REVIEWED"} \cup DOMAIN Target,
   seq : Nat, item : 0..MaxRev, order : Orders \cup {<<>>}, decision : Decisions]
CommandSet ==
  [op : {"REBUILD", "CREATED", "ATTACHED", "REORDERED", "REVIEWED", "CORRECT"} \cup DOMAIN Target,
   item : 0..MaxRev, order : Orders \cup {<<>>}, decision : Decisions,
   exists : BOOLEAN, succeeds : SUBSET Revs, seq : Nat, sees : Nat]

TypeOK ==
  /\ log \in Seq(EventSet)
  /\ readable \in BOOLEAN
  /\ size \in Nat /\ snapshot \in Nat
  /\ known \in Revs /\ links \subseteq 1..(known - 1)
  /\ lock \in Procs \cup {None}
  /\ pc \in [Procs -> Phases]
  /\ cmd \in [Procs -> CommandSet]
  /\ overlap \in BOOLEAN /\ raced \in BOOLEAN /\ faults \in Nat

-----------------------------------------------------------------------------
(* Reading the ledger.                                                     *)

IsComplete == view.complete
Replayed == view.queue

Events(type) == {i \in DOMAIN log : log[i].type = type}
Attached(rev) == \E i \in Events("ATTACHED") : log[i].item = rev
Imported(id) == {i \in Events("REVIEWED") : log[i].decision.id = id}

\* The revisions r succeeds by recorded succession (supersededChain, from the
\* other end).
Succeeds(r) == {from \in Revs : from < r /\ from..(r - 1) \subseteq links}

-----------------------------------------------------------------------------
Init ==
  /\ log = <<>> /\ readable = TRUE /\ size = 0
  /\ view = ReplayObjective(<<>>, TRUE)
  /\ snapshot = 0
  /\ known = 1 /\ links = {}
  /\ lock = None
  /\ pc = [p \in Procs |-> "idle"]
  /\ cmd = [p \in Procs |-> NoCommand]
  /\ overlap = FALSE /\ raced = FALSE /\ faults = 0

Goto(p, phase) == pc' = [pc EXCEPT ![p] = phase]
Exit(p, phase) == Goto(p, phase) /\ cmd' = [cmd EXCEPT ![p] = NoCommand]
Live(p) == pc[p] \in Critical
Room == Len(log) + Cardinality({p \in Procs : Live(p)}) < MaxEvents

\* attachTask reads the task ledger before the lock is taken.
BeginAttach(p) ==
  /\ pc[p] = "idle"
  /\ \E r \in Revs :
       cmd' = [cmd EXCEPT ![p] = [NoCommand EXCEPT !.op = "ATTACHED", !.item = r,
                                                   !.exists = r <= known,
                                                   !.succeeds = Succeeds(r)]]
  /\ Goto(p, "lock")
  /\ UNCHANGED <<ledger, snapshot, task, lock, history>>

\* Of the other commands only the arguments exist before the lock.
Correction(d) == [d EXCEPT !.id = <<d.id[1], d.id[2] + 1>>, !.overturns = d.id,
                           !.verdict = "REJECTED"]
Commands ==
  LET With(op, item) == [NoCommand EXCEPT !.op = op, !.item = item] IN
  {With("CREATED", 0)}
    \cup {With(op, r) : op \in DOMAIN Target, r \in Revs}
    \cup {[With("REORDERED", 0) EXCEPT !.order = o] : o \in Orders}
    \cup {[With("REVIEWED", l.item) EXCEPT !.decision = l.decision] : l \in Locals}
    \cup {[With("CORRECT", 0) EXCEPT !.decision = log[i].decision] : i \in Events("REVIEWED")}

Acquire(p) ==
  /\ lock = None
  /\ Room
  /\ \/ pc[p] = "lock" /\ UNCHANGED cmd
     \/ pc[p] = "idle" /\ \E c \in Commands : cmd' = [cmd EXCEPT ![p] = c]
  /\ lock' = p
  /\ Goto(p, "precheck")
  /\ UNCHANGED <<ledger, snapshot, task, history>>

NotAcquired(p) ==
  /\ pc[p] = "lock"
  /\ Exit(p, "idle")
  /\ UNCHANGED <<ledger, snapshot, task, lock, history>>

(* M2.  What each command asks of the ledger before it goes on.             *)

Mutant_AnyRevision(p) == Attached(cmd[p].item) \/ cmd[p].exists
MayAttach(p) ==
  LET r == cmd[p].item
      others == {i \in Events("ATTACHED") : log[i].item # r}
  IN  \/ Attached(r)
      \/ /\ cmd[p].exists
         /\ \A i \in others :
              log[i].item \in cmd[p].succeeds \/ \E j \in others : j < i

MayImport(p) ==
  LET d == cmd[p].decision IN
  /\ \E l \in Locals : l.item = cmd[p].item /\ l.decision = d /\ l.ready
  /\ d.bundle # None
  /\ Attached(cmd[p].item)
  /\ \A i \in Imported(d.id) : log[i].decision.bundle = d.bundle

MayCorrect(p) == Imported(cmd[p].decision.id) # {}

Permitted(p) ==
  /\ readable
  /\ cmd[p].op # "CREATED" => Events("CREATED") # {}
  /\ cmd[p].op = "ATTACHED" => MayAttach(p)
  /\ cmd[p].op = "REVIEWED" => MayImport(p)
  /\ cmd[p].op = "CORRECT" => MayCorrect(p)

Precheck(p) ==
  /\ pc[p] = "precheck"
  /\ IF Permitted(p) THEN Goto(p, "idempotency") /\ UNCHANGED cmd ELSE Exit(p, "release")
  /\ UNCHANGED <<ledger, snapshot, task, lock, history>>

(* M3.  Queue commands are judged by a replay; one that does not apply, or  *)
(* has been applied, ends here.                                            *)

Mutant_NotAsked(p) == IsComplete
StillToTransition(p) ==
  LET o == Ordered(log)
      x == EntryOf(o, Replayed, cmd[p].item)
  IN  /\ IsComplete
      /\ x # 0
      /\ Target[cmd[p].op] \in QueueTransitions[Replayed.stored[x]]

StillToReorder(p) ==
  LET o == Ordered(log)
      future == ItemsOf(o, Future(o, Replayed))
      want == cmd[p].order
  IN  /\ IsComplete
      /\ \A i \in DOMAIN want : \E j \in DOMAIN future : future[j] = want[i]
      /\ ~(Len(want) <= Len(future) /\ SubSeq(future, 1, Len(want)) = want)

StillToCreate == Events("CREATED") = {}
StillToAttach(p) == ~Attached(cmd[p].item)
StillToImport(p) ==
  LET d == cmd[p].decision IN \A i \in Imported(d.id) : log[i].decision.bundle # d.bundle
StillToCorrect(p) ==
  \A i \in Events("REVIEWED") : log[i].decision.overturns # cmd[p].decision.id

StillToDo(p) ==
  CASE cmd[p].op = "CREATED"   -> StillToCreate
    [] cmd[p].op = "ATTACHED"  -> StillToAttach(p)
    [] cmd[p].op = "REORDERED" -> StillToReorder(p)
    [] cmd[p].op = "REVIEWED"  -> StillToImport(p)
    [] cmd[p].op = "CORRECT"   -> StillToCorrect(p)
    [] OTHER                   -> StillToTransition(p)

Idempotency(p) ==
  /\ pc[p] = "idempotency"
  /\ IF StillToDo(p) THEN Goto(p, "read") /\ UNCHANGED cmd ELSE Exit(p, "release")
  /\ UNCHANGED <<ledger, snapshot, task, lock, history>>

(* M4.  The number of the event is that of one more read.                   *)

NextSeq(p) == Len(log) + 1

ReadSeq(p) ==
  /\ pc[p] = "read"
  /\ cmd' = [cmd EXCEPT ![p].seq = NextSeq(p)]
  /\ Goto(p, "write")
  /\ UNCHANGED <<ledger, snapshot, task, lock, history>>

Entry(p) ==
  LET c == cmd[p] IN
  [type |-> IF c.op = "CORRECT" THEN "REVIEWED" ELSE c.op,
   seq |-> c.seq,
   item |-> IF c.op = "CORRECT"
              THEN log[CHOOSE i \in Imported(c.decision.id) : TRUE].item ELSE c.item,
   order |-> c.order,
   decision |-> IF c.op = "CORRECT" THEN Correction(c.decision) ELSE c.decision]

\* A line after one that was cut short is part of it.
Write(p) ==
  /\ pc[p] = "write"
  /\ log' = IF readable THEN Append(log, Entry(p)) ELSE log
  /\ view' = ReplayObjective(log', readable)
  /\ size' = size + 1
  /\ Goto(p, "replay")
  /\ UNCHANGED <<readable, snapshot, task, lock, cmd, history>>

(* M5 replays the ledger and writes what it found; so does objective        *)
(* rebuild, without the lock.                                              *)

Replay(p) ==
  /\ \/ pc[p] = "replay" /\ Goto(p, "save")
     \/ pc[p] = "idle" /\ Goto(p, "rebuild")
  /\ cmd' = [cmd EXCEPT ![p].sees = size]
  /\ UNCHANGED <<ledger, snapshot, task, lock, history>>

Mutant_SavesOnce(p) == IF snapshot = 0 THEN cmd[p].sees ELSE snapshot
Derived(p) == cmd[p].sees
RebuildSnapshot(p) ==
  /\ pc[p] \in {"save", "rebuild"}
  /\ snapshot' = Derived(p)
  /\ raced' = (raced \/ (pc[p] = "rebuild" /\ cmd[p].sees < snapshot))
  /\ IF pc[p] = "save" THEN Goto(p, "postcheck") /\ UNCHANGED cmd ELSE Exit(p, "idle")
  /\ UNCHANGED <<ledger, task, lock, overlap, faults>>

\* M6: what it finds wrong is reported and the event stays.  M7 removes the
\* lock file, whoever created it.
Postcheck(p) ==
  /\ pc[p] = "postcheck"
  /\ Exit(p, "release")
  /\ UNCHANGED <<ledger, snapshot, task, lock, history>>

Release(p) ==
  /\ pc[p] = "release"
  /\ lock' = None
  /\ Exit(p, "idle")
  /\ UNCHANGED <<ledger, snapshot, task, history>>

\* detectDrift: objective.json is not what a replay gives.
Drift == snapshot # size

-----------------------------------------------------------------------------
(* The world around a command.                                             *)

\* Another revision of the task is approved, under the same lock; the succession
\* from the one before is recorded with it, unless that approval stopped half-way.
NewRevision ==
  /\ lock = None
  /\ known < MaxRev
  /\ known' = known + 1
  /\ links' \in {links, links \cup {known}}
  /\ UNCHANGED <<ledger, snapshot, lock, local, history>>

\* A write that was not completed leaves nothing, half a line or half a snapshot.
Interrupted(p) ==
  \/ UNCHANGED <<ledger, snapshot>>
  \/ /\ pc[p] = "write"
     /\ readable' = FALSE
     /\ view' = ReplayObjective(log, FALSE)
     /\ size' = size + 1
     /\ UNCHANGED <<log, snapshot>>
  \/ /\ pc[p] \in {"save", "rebuild"}
     /\ snapshot' = 0
     /\ UNCHANGED ledger

\* The file system refuses a read or a write.
Fail(p) ==
  /\ pc[p] \in {"precheck", "idempotency", "read", "write", "replay", "save", "postcheck"}
  /\ faults < MaxFaults
  /\ faults' = faults + 1
  /\ Interrupted(p)
  /\ Exit(p, "release")
  /\ UNCHANGED <<task, lock, overlap, raced>>

\* The process dies; a lock it holds stays.
Crash(p) ==
  /\ pc[p] # "idle"
  /\ faults < MaxFaults
  /\ faults' = faults + 1
  /\ Interrupted(p)
  /\ Exit(p, "idle")
  /\ UNCHANGED <<task, lock, overlap, raced>>

\* codefleet lock break: a person removes the file.
BreakLock ==
  /\ lock # None
  /\ Live(lock) => faults < MaxFaults
  /\ lock' = None
  /\ overlap' = (overlap \/ Live(lock))
  /\ faults' = IF Live(lock) THEN faults + 1 ELSE faults
  /\ UNCHANGED <<ledger, snapshot, task, local, raced>>

Next ==
  \/ \E p \in Procs :
       \/ BeginAttach(p) \/ Acquire(p) \/ NotAcquired(p)
       \/ Precheck(p) \/ Idempotency(p) \/ ReadSeq(p) \/ Write(p)
       \/ Replay(p) \/ RebuildSnapshot(p) \/ Postcheck(p) \/ Release(p)
       \/ Fail(p) \/ Crash(p)
  \/ NewRevision \/ BreakLock

Spec == Init /\ [][Next]_vars

-----------------------------------------------------------------------------
(* Safety.                                                                 *)

\* What M2 and M3 ask before an append is what replay asks of the event for ever
\* after: no command that was let through leaves an event replay cannot apply,
\* for as long as one command is in the engine at a time and no line was cut
\* short (importLocalReview: "Refusing here keeps it out of an append-only
\* ledger").
ReplayIsClean ==
  readable /\ ~overlap /\ log # <<>> => IsComplete /\ ~view.findings

\* A revision that joined the queue after another was approved as successor, along
\* recorded succession, of the one that was attached first (attachTask), although
\* the task ledger was read before the lock was taken.
AttachedSucceedFirst ==
  ~overlap => \A i, j \in Events("ATTACHED") :
    (i < j /\ \A k \in Events("ATTACHED") : i <= k)
      => log[i].item \in Succeeds(log[j].item)

\* objective.json is what replay gives whenever nothing is running, unless
\* something failed or a rebuild without the lock overwrote a newer one.
DriftIsExplained ==
  (\A p \in Procs : pc[p] = "idle") /\ faults = 0 /\ ~raced => ~Drift

\* The queue is the one that was promised.
ItemState(r) ==
  IF IsComplete /\ Attached(r)
    THEN LET x == EntryOf(Ordered(log), Replayed, r) IN Replayed.stored[x]
    ELSE "ABSENT"
Promised == INSTANCE ItemQueue
  WITH Items <- Revs, state <- [r \in Revs |-> ItemState(r)],
       lost <- overlap \/ ~readable
QueueAsPromised == Promised!Spec

=============================================================================
