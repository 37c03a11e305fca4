----------------------------- MODULE TaskLedger -----------------------------
(***************************************************************************)
(* The mutation engine (src/src/mutation.ts) and the ledger of one task    *)
(* (task-ledger.ts, task-events.ts, task-revision.ts): approvals and       *)
(* invalidations by several processes over one workspace lock, while the   *)
(* task file and the profile are edited, processes die, writes fail and an *)
(* operator breaks locks, also a lock whose holder is still at work.       *)
(*                                                                         *)
(* A step ends at an await.  One approval is up to four durable writes     *)
(* (revision created, contract stored, approved, predecessor superseded),  *)
(* and an event is appended under the sequence number of an earlier read.  *)
(*                                                                         *)
(* A person may edit the task file and the profile at any time and any     *)
(* number of times, so neither is a variable: every read of them yields    *)
(* some content, independently of the other reads.                         *)
(***************************************************************************)
EXTENDS Naturals, Sequences, FiniteSets

CONSTANTS
  Procs,         \* processes that run commands
  Contents,      \* contents of the task file; a hash is the content it names
  Guards,        \* guardrail projections of the profile
  None,
  MaxEvents,     \* bound on the events in the ledger when a lock is taken (Room)
  MaxFaults      \* bound: crashes, failed writes and broken live locks

ASSUME LedgerAssumption ==
  /\ None \notin Procs \cup Contents \cup Guards
  /\ MaxEvents \in Nat
  /\ MaxFaults \in Nat

VARIABLES
  events,    \* task-ledger.jsonl
  readable,  \* FALSE once a line of it was cut short
  stored,    \* revisions/NNNN.json: the set of contracts
  lock,      \* locks/workspace.lock: the process that created it, or None
  pc,        \* [Procs -> the phase a command is in]
  cmd,       \* [Procs -> what the command holds]
  overlap,   \* history: the lock of a live holder has been broken
  torn,      \* history: revisions whose approval stopped between its writes
  confirmed, \* history: revisions reported as approved without a failure
  faults

ledger == <<events, readable, stored>>
local == <<pc, cmd>>
history == <<overlap, torn, confirmed, faults>>
vars == <<ledger, lock, local, history>>

Types == {"CREATED", "APPROVED", "INVALIDATED", "SUPERSEDED"}
Hashes == Contents \cup {None}
Event == [type : Types, rev : Nat \ {0}, hash : Hashes, guard : Guards \cup {None},
          seq : Nat]
\* A file that was cut short has None for all but its number.
Contract == [rev : Nat, hash : Hashes, guard : Guards \cup {None}, source : Hashes]
\* "stage" is the event to be appended next, "prior" the hash of the latest
\* revision as replay saw it.
Command == [kind : {"approve", "invalidate"}, hash : Hashes,
            guard : Guards \cup {None}, rev : Nat, prior : Hashes,
            stage : Types, seq : Nat]
NoCommand == [kind |-> "invalidate", hash |-> None, guard |-> None, rev |-> 0,
              prior |-> None, stage |-> "INVALIDATED", seq |-> 0]

Critical == {"precheck", "idempotency", "claim", "read", "write", "contract",
             "postcheck", "release"}
Phases == {"idle", "lock"} \cup Critical

TypeOK ==
  /\ events \in Seq(Event)
  /\ readable \in BOOLEAN
  /\ stored \subseteq Contract
  /\ lock \in Procs \cup {None}
  /\ pc \in [Procs -> Phases]
  /\ cmd \in [Procs -> Command]
  /\ overlap \in BOOLEAN
  /\ torn \subseteq Nat
  /\ confirmed \subseteq Nat
  /\ faults \in Nat

-----------------------------------------------------------------------------
(* Replay: events in the order of their seq, in file order where two have  *)
(* the same (replayApproval sorts a copy, and the sort is stable).         *)

Of(type) == {i \in DOMAIN events : events[i].type = type}
Before(i, j) == \/ events[i].seq < events[j].seq
                \/ (events[i].seq = events[j].seq /\ i < j)
LastOf(type) == {i \in Of(type) : \A j \in Of(type) \ {i} : Before(j, i)}

\* latestRevision and latestRevisionHash, as a set of one pair.
Latest ==
  IF Of("CREATED") = {} THEN {[rev |-> 0, hash |-> None]}
    ELSE {[rev |-> events[i].rev, hash |-> events[i].hash] : i \in LastOf("CREATED")}

\* The approval in force, as a set of at most one event: only the latest can
\* be, and withdrawing it does not bring an older one back.
Withdrawn(i) ==
  \E j \in Of("INVALIDATED") \cup Of("SUPERSEDED") :
    Before(i, j) /\ events[j].rev = events[i].rev
Effective == {events[i] : i \in {k \in LastOf("APPROVED") : ~Withdrawn(k)}}

Covers(h, g) == \E e \in Effective : e.hash = h /\ e.guard = g

Mutant_Overwrites(rev) == FALSE
Taken(rev) == \E c \in stored : c.rev = rev

Mutant_HashNotRecomputed(rev, h) == \E c \in stored : c.rev = rev /\ c.hash = h
\* readTaskRevision: the file is there and its bytes hash to what it names.
Recoverable(rev, h) ==
  \E c \in stored : c.rev = rev /\ c.hash = h /\ c.source = c.hash

\* readTaskEvents throws when a line is not valid JSON.
CanRead == readable

-----------------------------------------------------------------------------
Init ==
  /\ events = <<>>
  /\ readable = TRUE
  /\ stored = {}
  /\ lock = None
  /\ pc = [p \in Procs |-> "idle"]
  /\ cmd = [p \in Procs |-> NoCommand]
  /\ overlap = FALSE
  /\ torn = {}
  /\ confirmed = {}
  /\ faults = 0

Goto(p, phase) == pc' = [pc EXCEPT ![p] = phase]
\* To M7 or out of the engine, with nothing held.
Exit(p, phase) == Goto(p, phase) /\ cmd' = [cmd EXCEPT ![p] = NoCommand]
Approving(p) == cmd[p].kind = "approve"
Live(p) == pc[p] \in Critical
\* Room for the three events each command inside the engine may append.
Room == Len(events) + 3 * Cardinality({p \in Procs : Live(p)}) < MaxEvents

(* Before the lock: approveTask hashes the file and the guardrails.        *)

BeginApprove(p) ==
  /\ pc[p] = "idle"
  /\ \E h \in Contents, g \in Guards :
       cmd' = [cmd EXCEPT ![p] = [NoCommand EXCEPT !.kind = "approve", !.hash = h,
                                                   !.guard = g, !.stage = "CREATED"]]
  /\ Goto(p, "lock")
  /\ UNCHANGED <<ledger, lock, history>>

BeginInvalidate(p) ==
  /\ pc[p] = "idle"
  /\ Goto(p, "lock")
  /\ UNCHANGED <<ledger, lock, cmd, history>>

(* M1: exclusive create, or an error at once: MutationLockHeldError when    *)
(* the file exists, the error of the file system otherwise.                *)

Acquire(p) ==
  /\ pc[p] = "lock"
  /\ lock = None
  /\ Room
  /\ lock' = p
  /\ Goto(p, "precheck")
  /\ UNCHANGED <<ledger, cmd, history>>

NotAcquired(p) ==
  /\ pc[p] = "lock"
  /\ Exit(p, "idle")
  /\ UNCHANGED <<ledger, lock, history>>

(* M2.  The approval in force is compared with the hashes taken before the *)
(* lock.  contractFeasibility() refuses as it likes: it reads the file and *)
(* the profile once more.                                                  *)

Mutant_CarriedForward(p) == TRUE
MayApprove(p) == Effective = {} \/ Covers(cmd[p].hash, cmd[p].guard)

Precheck(p) ==
  /\ pc[p] = "precheck"
  /\ \/ /\ CanRead
        /\ IF Approving(p) THEN MayApprove(p) ELSE Of("APPROVED") # {}
        /\ Goto(p, "idempotency")
        /\ UNCHANGED cmd
     \/ /\ CanRead /\ ~Approving(p) => Of("APPROVED") = {}
        /\ Exit(p, "release")
  /\ UNCHANGED <<ledger, lock, history>>

(* M3.                                                                     *)

AlreadyApplied(p) ==
  IF Approving(p) THEN Covers(cmd[p].hash, cmd[p].guard) ELSE Effective = {}

Idempotency(p) ==
  /\ pc[p] = "idempotency"
  /\ IF CanRead /\ ~AlreadyApplied(p) THEN Goto(p, "claim") /\ UNCHANGED cmd
                                      ELSE Exit(p, "release")
  /\ UNCHANGED <<ledger, lock, history>>

(* M4.  The latest revision is read once; each event is then appended under *)
(* a sequence number of its own read.                                       *)

Claim(p) ==
  /\ pc[p] = "claim"
  /\ CanRead
  /\ IF Approving(p)
       THEN \E last \in Latest :
              cmd' = [cmd EXCEPT ![p].rev = last.rev + 1, ![p].prior = last.hash]
       ELSE \* the last approval in file order
            \E i \in Of("APPROVED") :
              /\ \A j \in Of("APPROVED") : j <= i
              /\ cmd' = [cmd EXCEPT ![p].rev = events[i].rev, ![p].prior = events[i].hash]
  /\ Goto(p, "read")
  /\ UNCHANGED <<ledger, lock, history>>

Mutant_SeqReadOnce(p) == IF cmd[p].seq = 0 THEN Len(events) + 1 ELSE cmd[p].seq
NextSeq(p) == Len(events) + 1

ReadSeq(p) ==
  /\ pc[p] = "read"
  /\ CanRead
  /\ cmd' = [cmd EXCEPT ![p].seq = NextSeq(p)]
  /\ Goto(p, "write")
  /\ UNCHANGED <<ledger, lock, history>>

\* SUPERSEDED names the predecessor; its successor is always rev + 1.
Entry(p) ==
  LET c == cmd[p] IN
  [type  |-> c.stage,
   rev   |-> IF c.stage = "SUPERSEDED" THEN c.rev - 1 ELSE c.rev,
   hash  |-> IF c.stage \in {"CREATED", "APPROVED"} THEN c.hash ELSE c.prior,
   guard |-> IF c.stage = "APPROVED" THEN c.guard ELSE None,
   seq   |-> c.seq]

Mutant_SecondDoesNot(p) == cmd[p].rev > 2
HasPredecessor(p) == cmd[p].rev > 1

Write(p) ==
  /\ pc[p] = "write"
  /\ events' = Append(events, Entry(p))
  /\ \/ /\ cmd[p].stage = "CREATED"
        /\ cmd' = [cmd EXCEPT ![p].stage = "APPROVED"]
        /\ Goto(p, "contract")
     \/ /\ cmd[p].stage = "APPROVED"
        /\ HasPredecessor(p)
        /\ cmd' = [cmd EXCEPT ![p].stage = "SUPERSEDED"]
        /\ Goto(p, "read")
     \/ /\ \/ cmd[p].stage \in {"SUPERSEDED", "INVALIDATED"}
           \/ cmd[p].stage = "APPROVED" /\ ~HasPredecessor(p)
        /\ Goto(p, "postcheck")
        /\ UNCHANGED cmd
  /\ UNCHANGED <<readable, stored, lock, history>>

\* writeTaskRevision: the bytes are read from the task file once more; the file
\* of the revision is created exclusively.
StoreContract(p) ==
  /\ pc[p] = "contract"
  /\ ~Taken(cmd[p].rev)
  /\ \E source \in Contents :
       stored' = stored \cup {[rev |-> cmd[p].rev, hash |-> cmd[p].hash,
                               guard |-> cmd[p].guard, source |-> source]}
  /\ Goto(p, "read")
  /\ UNCHANGED <<events, readable, lock, cmd, history>>

Unfinished(p) ==
  IF /\ pc[p] \in {"contract", "read", "write"}
     /\ cmd[p].stage \in {"APPROVED", "SUPERSEDED"}
    THEN {cmd[p].rev} ELSE {}

Mutant_ExistingFileWillDo(p) ==
  /\ pc[p] = "contract"
  /\ Taken(cmd[p].rev)
  /\ Goto(p, "read")
  /\ UNCHANGED <<ledger, lock, cmd, history>>
\* M4 fails because the revision's file exists already, ...
ContractExists(p) ==
  /\ pc[p] = "contract"
  /\ Taken(cmd[p].rev)
  /\ torn' = torn \cup Unfinished(p)
  /\ Exit(p, "release")
  /\ UNCHANGED <<ledger, lock, overlap, confirmed, faults>>

\* ... because the ledger cannot be read, ...
Unreadable(p) ==
  /\ pc[p] \in {"claim", "read"}
  /\ ~CanRead
  /\ torn' = torn \cup Unfinished(p)
  /\ Exit(p, "release")
  /\ UNCHANGED <<ledger, lock, overlap, confirmed, faults>>

\* A write that was not completed leaves nothing, half a line or half a file.
Interrupted(p) ==
  \/ UNCHANGED ledger
  \/ /\ pc[p] = "write"
     /\ readable' = FALSE
     /\ UNCHANGED <<events, stored>>
  \/ /\ pc[p] = "contract"
     /\ ~Taken(cmd[p].rev)
     /\ stored' = stored \cup {[rev |-> cmd[p].rev, hash |-> None, guard |-> None,
                               source |-> None]}
     /\ UNCHANGED <<events, readable>>

\* ... or because the file system refuses a read or a write.
Fail(p) ==
  /\ pc[p] \in {"precheck", "idempotency", "claim", "read", "write", "contract"}
  /\ faults < MaxFaults
  /\ faults' = faults + 1
  /\ torn' = torn \cup Unfinished(p)
  /\ Interrupted(p)
  /\ Exit(p, "release")
  /\ UNCHANGED <<lock, overlap, confirmed>>

(* M6.  What it finds wrong is reported; the events stay.                   *)

Postcheck(p) ==
  /\ pc[p] = "postcheck"
  /\ \/ /\ CanRead
        /\ Approving(p)
        /\ \E e \in Effective, profile \in Guards :
             e.hash = cmd[p].hash /\ e.guard = profile /\ Recoverable(e.rev, e.hash)
        /\ confirmed' = confirmed \cup {cmd[p].rev}
     \/ UNCHANGED confirmed
  /\ Exit(p, "release")
  /\ UNCHANGED <<ledger, lock, overlap, torn, faults>>

(* M7 removes the lock file, whoever created it.                            *)

Release(p) ==
  /\ pc[p] = "release"
  /\ lock' = None
  /\ Exit(p, "idle")
  /\ UNCHANGED <<ledger, history>>

-----------------------------------------------------------------------------
(* The world around a command.                                              *)

\* The process dies, or it created the lock and could not write or remove it;
\* the lock stays.
Crash(p) ==
  /\ pc[p] # "idle"
  /\ faults < MaxFaults
  /\ faults' = faults + 1
  /\ torn' = torn \cup Unfinished(p)
  /\ Interrupted(p)
  /\ Exit(p, "idle")
  /\ UNCHANGED <<lock, overlap, confirmed>>

\* codefleet lock break: a person removes the file.
BreakLock ==
  /\ lock # None
  /\ Live(lock) => faults < MaxFaults
  /\ lock' = None
  /\ overlap' = (overlap \/ Live(lock))
  /\ faults' = IF Live(lock) THEN faults + 1 ELSE faults
  /\ UNCHANGED <<ledger, local, torn, confirmed>>

Next ==
  \/ \E p \in Procs :
       \/ BeginApprove(p) \/ BeginInvalidate(p) \/ Acquire(p) \/ NotAcquired(p)
       \/ Precheck(p) \/ Idempotency(p)
       \/ Claim(p) \/ ReadSeq(p) \/ Write(p) \/ StoreContract(p)
       \/ ContractExists(p) \/ Unreadable(p) \/ Fail(p)
       \/ Postcheck(p) \/ Release(p)
       \/ Crash(p)
  \/ BreakLock

Spec == Init /\ [][Next]_vars

-----------------------------------------------------------------------------
(* Safety.                                                                 *)

Approvals == {events[i] : i \in Of("APPROVED")}

\* An approval names a revision whose contract was stored before it, for the
\* same hash and guardrails (approveTask: "The contract is fixed before the
\* approval names it").  No lock is needed for it: also two commands that claim
\* the same revision number are told apart by the exclusive create.
ApprovalNamesStoredContract ==
  \A e \in Approvals :
    \E c \in stored : c.rev = e.rev /\ c.hash = e.hash /\ c.guard = e.guard

\* A revision is approved once, whatever happens to the lock: an approval that
\* is withdrawn is followed by one of a new revision (approveTask, replayApproval).
RevisionApprovedOnce ==
  \A i, j \in Of("APPROVED") : events[i].rev = events[j].rev => i = j

\* Two commands are never inside the mutation engine together unless an
\* operator removed the lock of a live one (runMutation, acquireLock).
OneHolder ==
  ~overlap => \A p \in Procs : Live(p) => lock = p

\* Then the sequence numbers are 1, 2, 3, ... in file order, also after failed
\* writes and crashes (appendTaskEvent), so replay sees the order of the file.
SeqContiguous ==
  ~overlap => \A i \in DOMAIN events : events[i].seq = i

\* A revision reported as approved has the contract it was approved for, byte
\* by byte, although the task file may have been edited between the hash and
\* the copy (writeTaskRevision, the postcheck of approveTask).
ConfirmedContractKept ==
  ~overlap => \A r \in confirmed :
    \E e \in Approvals, c \in stored :
      e.rev = r /\ c.rev = r /\ c.hash = e.hash /\ c.source = e.hash

\* supersededChain: the revisions that succeed "from" by recorded succession.
Successor(r) ==
  {r + 1 : i \in {k \in Of("SUPERSEDED") : events[k].rev = r}}
Chain(from) ==
  {r \in 1..Len(events) : from < r /\ \A m \in from..(r - 1) : Successor(m) # {}}

BeingApproved(r) == \E p \in Procs : Live(p) /\ Approving(p) /\ cmd[p].rev = r

\* Between two approved revisions the succession is recorded, so that a relation
\* can move (approveTask: "Succession, recorded rather than inferred"), unless
\* an approval in between stopped half-way.
SuccessionRecorded ==
  ~overlap => \A d, e \in Approvals :
    /\ d.rev < e.rev
    /\ \A r \in d.rev..e.rev : r \notin torn /\ ~BeingApproved(r)
    => e.rev \in Chain(d.rev)

\* An approval never passes from one target to another: in between there is a
\* state in which nothing is approved, made by an explicit invalidation
\* (approveTask's precheck: "not silently carried forward").
NeverCarriedForward ==
  [][~overlap' /\ Effective # {} /\ Effective' # {} => Effective' = Effective]_vars

\* A ledger that cannot be read is not written to (TaskLedgerUnreadableError).
UnreadableIsLeftAlone ==
  [][~overlap' /\ ~readable => events' = events]_vars

=============================================================================
