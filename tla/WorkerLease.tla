----------------------------- MODULE WorkerLease -----------------------------
(***************************************************************************)
(* The worker lease of one run row in src/alpha/store.mjs: claim, heartbeat,*)
(* save, release and control over a wall clock that advances and may also   *)
(* be set back, by workers whose processes crash and whose pid may later    *)
(* name an unrelated process.                                               *)
(*                                                                          *)
(* heartbeat() and save() read the wall clock and only then wait for        *)
(* SQLite's write lock, so the reading is a step of its own here: the clock *)
(* may move, and another process may write, between the reading and the     *)
(* statement that uses it.  claim() reads it inside its transaction.        *)
(***************************************************************************)
EXTENDS Integers

CONSTANTS
  Workers,       \* executions of a run (calls of execute)
  Processes,     \* operating-system processes that host them
  Host,          \* Host[w]: the process worker w runs in
  Lease,         \* the lease term (30000 ms)
  MaxTime,       \* bound: the clock stays in 0..MaxTime, and no lease is granted
                 \*   or renewed so late that it would outlast MaxTime
  MaxRollbacks,  \* bound: how often the clock is set back
  MaxGrants,     \* bound: number of claims
  MaxVersion     \* bound: number of committed saves

ASSUME LeaseAssumption ==
  /\ Lease \in Nat \ {0}
  /\ MaxTime \in Nat
  /\ MaxRollbacks \in Nat
  /\ MaxGrants \in Nat
  /\ MaxVersion \in Nat
  /\ Host \in [Workers -> Processes]

NoGrant == 0
NoPid == "none"
ASSUME PidAssumption == NoPid \notin Processes

\* The run states control() and claim() tell apart.  "READY" stands for every
\* state a worker passes through or stops in that neither of them mentions.
Delivery == {"DELIVERING", "RECONCILING"}
RunState == {"READY", "COMPLETED", "CANCELLED"} \cup Delivery
Controls == {"run", "pause", "cancel"}

VARIABLES
  clock,      \* Date.now()
  rollbacks,  \* how often it was set back
  proc,       \* [Processes -> up | down | reused]
  owner,      \* column owner: the grant (a fresh UUID per claim), or NoGrant
  leaseUntil, \* column leaseUntil
  pid,        \* column pid
  control,    \* column control
  state,      \* body.state
  issued,     \* number of UUIDs handed out; a grant is its index
  version,    \* number of bodies saved by workers
  writer,     \* the grant that saved the last one
  grant,      \* [Workers -> the owner token execute() holds, NoGrant when idle]
  step,       \* [Workers -> where the worker is inside a store call]
  seen,       \* [Workers -> the clock reading the pending statement will use]
  lost        \* the workers with leaseLost set: a heartbeat has returned false

row == <<owner, leaseUntil, pid>>
body == <<control, state>>
history == <<issued, version, writer>>
local == <<grant, step, seen, lost>>
world == <<clock, rollbacks, proc>>
vars == <<world, row, body, history, local>>

Steps == {"idle", "working", "beating", "observing", "saving"}

TypeOK ==
  /\ clock \in 0..MaxTime
  /\ rollbacks \in 0..MaxRollbacks
  /\ proc \in [Processes -> {"up", "down", "reused"}]
  /\ owner \in Nat
  /\ leaseUntil \in Nat
  /\ pid \in Processes \cup {NoPid}
  /\ owner = NoGrant <=> pid = NoPid
  /\ owner = NoGrant => leaseUntil = 0
  /\ control \in Controls
  /\ state \in RunState
  /\ issued \in Nat
  /\ version \in Nat
  /\ writer \in Nat
  /\ grant \in [Workers -> Nat]
  /\ step \in [Workers -> Steps]
  /\ seen \in [Workers -> Nat]
  /\ lost \subseteq Workers

Init ==
  /\ clock = 0
  /\ rollbacks = 0
  /\ proc = [p \in Processes |-> "up"]
  /\ owner = NoGrant
  /\ leaseUntil = 0
  /\ pid = NoPid
  /\ control = "run"
  /\ state = "READY"
  /\ issued = 0
  /\ version = 0
  /\ writer = NoGrant
  /\ grant = [w \in Workers |-> NoGrant]
  /\ step = [w \in Workers |-> "idle"]
  /\ seen = [w \in Workers |-> 0]
  /\ lost = {}

-----------------------------------------------------------------------------
(* The operator: Store.control                                              *)

Cancelled == control = "cancel" \/ state = "CANCELLED"

\* control('run') always throws, and so does any request but cancel on a
\* cancelled run.  The body is rewritten without looking at the owner.
Control(c) ==
  /\ c \in {"pause", "cancel"}
  /\ Cancelled => c = "cancel"
  /\ control' = c
  /\ state' = IF c = "cancel" /\ state # "COMPLETED"
                THEN IF state \in Delivery THEN "RECONCILING" ELSE "CANCELLED"
                ELSE state
  /\ UNCHANGED <<world, row, history, local>>

-----------------------------------------------------------------------------
(* The worker: Store.claim, heartbeat, save, release                        *)

\* process.kill(pid, 0): true for any process that now has this pid.
Alive(p) == p # NoPid /\ proc[p] # "down"

\* What claim() refuses on account of the present owner.
Mutant_ClaimableIgnoresExpiry == owner # NoGrant => ~Alive(pid)

Claimable ==
  owner # NoGrant =>
    /\ clock + Lease >= leaseUntil
    /\ ~ (Alive(pid) /\ leaseUntil > clock)

Resumable == Cancelled => state \in Delivery

\* Resume lifts a pause; a cancelled run keeps its control (read-only resume).
ClaimedControl(resume) == IF resume /\ ~Cancelled THEN "run" ELSE control

Claim(w, resume) ==
  /\ step[w] = "idle"
  /\ proc[Host[w]] = "up"
  /\ issued < MaxGrants /\ clock + Lease <= MaxTime
  /\ Claimable
  /\ resume => Resumable
  /\ control' = ClaimedControl(resume)
  /\ issued' = issued + 1
  /\ owner' = issued'
  /\ leaseUntil' = clock + Lease
  /\ pid' = Host[w]
  /\ grant' = [grant EXCEPT ![w] = issued']
  /\ step' = [step EXCEPT ![w] = "working"]
  /\ lost' = lost \ {w}
  /\ UNCHANGED <<world, state, version, writer, seen>>

\* The lease seen by a statement that compares it with the reading `now`.
InTerm(now) == now < leaseUntil /\ leaseUntil <= now + Lease

\* setInterval(heartbeat, 5000): first the clock, ...
ReadClock(w, next) ==
  /\ step[w] = "working"
  /\ step' = [step EXCEPT ![w] = next]
  /\ seen' = [seen EXCEPT ![w] = clock]
  /\ UNCHANGED <<world, row, body, history, grant, lost>>

BeatRead(w) == clock + Lease <= MaxTime /\ ReadClock(w, "beating")

Mutant_LateRenewal(now) == now + Lease
Renewed(now) == IF InTerm(now) THEN now + Lease ELSE 0

\* ... then the UPDATE, which renews the lease or writes 0 for good.
BeatWrite(w) ==
  /\ step[w] = "beating"
  /\ step' = [step EXCEPT ![w] = "working"]
  /\ \/ /\ owner = grant[w]
        /\ leaseUntil' = Renewed(seen[w])
        /\ lost' = IF InTerm(seen[w]) THEN lost ELSE lost \cup {w}
     \/ /\ owner # grant[w]
        /\ lost' = lost \cup {w}
        /\ UNCHANGED leaseUntil
  /\ seen' = [seen EXCEPT ![w] = 0]
  /\ UNCHANGED <<world, owner, pid, body, history, grant>>

\* save(): `observed` is read, an expired lease is invalidated by a statement
\* that commits by itself, and a transaction then writes the body.
SaveRead(w) == ReadClock(w, "observing")

SaveInvalidate(w) ==
  /\ step[w] = "observing"
  /\ step' = [step EXCEPT ![w] = "saving"]
  /\ leaseUntil' = IF owner = grant[w] /\ ~InTerm(seen[w]) THEN 0 ELSE leaseUntil
  /\ seen' = [seen EXCEPT ![w] = 0]
  /\ UNCHANGED <<world, owner, pid, body, history, grant, lost>>

SaveCommit(w, s) ==
  /\ step[w] = "saving"
  /\ owner = grant[w]
  /\ InTerm(clock)
  /\ version < MaxVersion
  /\ state' = s
  /\ version' = version + 1
  /\ writer' = grant[w]
  /\ step' = [step EXCEPT ![w] = "working"]
  /\ UNCHANGED <<world, row, control, issued, grant, seen, lost>>

\* 'Worker lease lost; result cannot be committed': the transaction is rolled
\* back and the worker goes on to its catch block, where it may save again.
SaveRefused(w) ==
  /\ step[w] = "saving"
  /\ ~ (owner = grant[w] /\ InTerm(clock))
  /\ step' = [step EXCEPT ![w] = "working"]
  /\ UNCHANGED <<world, row, body, history, grant, seen, lost>>

ClearedRow == owner' = NoGrant /\ leaseUntil' = 0 /\ pid' = NoPid

\* The finally block of execute().
Release(w) ==
  /\ step[w] = "working"
  /\ IF owner = grant[w] THEN ClearedRow ELSE UNCHANGED row
  /\ step' = [step EXCEPT ![w] = "idle"]
  /\ grant' = [grant EXCEPT ![w] = NoGrant]
  /\ lost' = lost \ {w}
  /\ UNCHANGED <<world, body, history, seen>>

-----------------------------------------------------------------------------
(* The machine the workers run on                                           *)

Tick ==
  /\ clock < MaxTime
  /\ clock' = clock + 1
  /\ UNCHANGED <<rollbacks, proc, row, body, history, local>>

ClockSetBack(t) ==
  /\ t < clock
  /\ rollbacks < MaxRollbacks
  /\ clock' = t
  /\ rollbacks' = rollbacks + 1
  /\ UNCHANGED <<proc, row, body, history, local>>

\* Everything a process had in memory goes; its row stays as it is.
Crash(p) ==
  /\ proc[p] = "up"
  /\ proc' = [proc EXCEPT ![p] = "down"]
  /\ grant' = [w \in Workers |-> IF Host[w] = p THEN NoGrant ELSE grant[w]]
  /\ step' = [w \in Workers |-> IF Host[w] = p THEN "idle" ELSE step[w]]
  /\ seen' = [w \in Workers |-> IF Host[w] = p THEN 0 ELSE seen[w]]
  /\ lost' = {w \in lost : Host[w] # p}
  /\ UNCHANGED <<clock, rollbacks, row, body, history>>

\* The system gives a free pid to another program, or to a new worker process.
PidTaken(p, by) ==
  /\ proc[p] = "down"
  /\ proc' = [proc EXCEPT ![p] = by]
  /\ UNCHANGED <<clock, rollbacks, row, body, history, local>>

WorkerStep(w) ==
  \/ BeatRead(w)
  \/ BeatWrite(w)
  \/ SaveRead(w)
  \/ SaveInvalidate(w)
  \/ \E s \in RunState : SaveCommit(w, s)
  \/ SaveRefused(w)
  \/ Release(w)

Next ==
  \/ \E c \in Controls : Control(c)
  \/ \E w \in Workers, resume \in BOOLEAN : Claim(w, resume)
  \/ \E w \in Workers : WorkerStep(w)
  \/ Tick
  \/ \E t \in 0..MaxTime : ClockSetBack(t)
  \/ \E p \in Processes : Crash(p)
  \/ \E p \in Processes, by \in {"up", "reused"} : PidTaken(p, by)

\* Time goes on.  Nothing else is assumed: claims, pauses and cancellations are
\* an operator's decisions and a worker may stop anywhere.
Spec == Init /\ [][Next]_vars /\ WF_vars(Tick)

-----------------------------------------------------------------------------
(* Properties                                                               *)

\* A worker whose grant is no longer the latest never owns the row again, even
\* when the clock is set back or its pid is reused (claim, heartbeat, release).
FencedOff ==
  \A w \in Workers : grant[w] # NoGrant /\ grant[w] < issued => owner # grant[w]

\* Once a heartbeat has told a worker that its lease is lost, no save of that
\* worker commits, whatever the clock does afterwards: "A late renewal cannot
\* resurrect an expired lease" (heartbeat persists the invalidation).
LostWorkerNeverCommits ==
  [][version' # version => \A w \in lost : grant[w] # writer']_vars

\* Cancellation survives every later request, claim, resume and save: the
\* control column never leaves "cancel" (control and the resume rule of claim).
CancelIsFinal == [][control = "cancel" => control' = "cancel"]_vars

\* The lease in force, in the terms of the abstract store: the row's owner, as
\* long as nobody has written 0 into its lease.
Holder == IF leaseUntil = 0 THEN NoGrant ELSE owner

Fence == INSTANCE FencedStore WITH holder <- Holder

\* The clocked lease implements the clockless fence: one grant in force, only
\* it commits, and a grant that was seen to be lost never returns.
ImplementsFence == Fence!Spec

\* A row whose worker died, or stopped without releasing it, does not block the
\* run for ever: sooner or later claim() accepts a new worker, although the pid
\* may be reused and the clock set back (finitely often) in between.
Unattended == owner # NoGrant /\ \A w \in Workers : grant[w] # owner
AbandonedRunBecomesClaimable == Unattended ~> Claimable
==============================================================================
