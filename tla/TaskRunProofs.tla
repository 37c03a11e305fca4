---------------------------- MODULE TaskRunProofs ----------------------------
(***************************************************************************)
(* Proofs about TaskRun for every set of workers and proposals, every       *)
(* attempt budget and every value of the bounds.                            *)
(*                                                                          *)
(* The inductive invariant is layered.  Local says of each worker alone how *)
(* its record fits its program counter; Tokens says which worker is the     *)
(* row's owner; the later layers relate the workers to the row, to the      *)
(* provider and to GitHub, each assuming the layers before it.              *)
(***************************************************************************)
EXTENDS TaskRun, TLAPS

USE DEF NoGrant, None, Foreign

-----------------------------------------------------------------------------
(* Layer 1: types, and how a record fits the place its worker is at         *)

Booked(r) ==
  /\ r.attempts <= MaxAttempts
  /\ r.unknown + r.known = r.attempts
  /\ r.pending => r.proposal # None

Good(r) == r.baseline = "failing" /\ Proven(r)

InLoop == {"loop", "reserving", "calling", "awaiting", "fixing", "verifying", "retrying"}
Sending == {"declaring", "intent", "lookup", "lookupBranch", "checkBranch",
            "postBranch", "checkPr", "postPr", "completing"}

Working == {"starting", "recovering", "preparing", "toBaseline", "baseline",
            "stopping"} \cup InLoop

Fits(l, r) ==
  /\ Booked(r)
  /\ l \in Working => r.state \notin Delivery
  /\ r.state \in Delivery => Good(r)
  /\ l = "reconcile" => r.state \in Delivery
  /\ l = "recording" => r.state \notin {"GENERATING", "COMPLETED"}
  /\ l = "starting" /\ r.state = "GENERATING" => r.costPending
  /\ l = "recovering" => r.costPending
  /\ l = "reserving" => r.attempts < MaxAttempts
  /\ l \in {"calling", "awaiting"} => r.unknown > 0
  /\ l = "fixing" => r.proposal # None
  /\ l = "verifying" => r.candidate # None
  /\ l \in InLoop => r.baseline = "failing"
  /\ l \in Sending => Good(r)

BodyFits(b) ==
  /\ Booked(b)
  /\ b.state = "GENERATING" => b.costPending
  /\ b.state \in Delivery \cup {"COMPLETED"} => Good(b)

Local ==
  /\ pc \in [Workers -> Labels]
  /\ run \in [Workers -> Body]
  /\ \A w \in Workers : Fits(pc[w], run[w])

Globals ==
  /\ mode \in Modes
  /\ control \in {"run", "pause", "cancel"}
  /\ owner \in Nat /\ issued \in Nat /\ saveErrors \in Nat
  /\ leaseLive \in BOOLEAN
  /\ token \in [Workers -> Nat]
  /\ leaseLost \subseteq Workers
  /\ reconciling \subseteq Workers
  /\ readOnly \subseteq reconciling
  /\ sawBranch \in [Workers -> Contents \cup {None, Foreign}]
  /\ sawPr \in [Workers -> Contents \cup {None, Foreign}]
  /\ branch \in Contents \cup {None, Foreign}
  /\ pr \in Contents \cup {None, Foreign}
  /\ calls \in [AttemptNumbers -> Nat] /\ priced \in Nat
  /\ intents \subseteq Contents
  /\ late \in [Workers -> Nat]

TypeInv == Globals /\ body \in Body /\ BodyFits(body) /\ Local

LEMMA NewRunFits ==
  /\ NewRun \in Body
  /\ BodyFits(NewRun)
  /\ \A l \in {"idle", "claimed"} : Fits(l, NewRun)
  BY TaskRunAssumption
  DEF NewRun, Body, Evidence, NoEvidence, RunState, Delivery, BodyFits, Fits, Booked,
      Good, Working, InLoop, Sending

\* Changing the state alone.
LEMMA ErrorState ==
  ASSUME NEW state
  PROVE  /\ StateAfterError(state) \in RunState \ {"GENERATING", "COMPLETED"}
         /\ StateAfterError(state) \in Delivery => state \in Delivery
<1>1. CASE state \in Delivery
  BY <1>1 DEF StateAfterError, RunState, Delivery
<1>2. CASE state \notin Delivery
  <2>1. StateAfterError(state) \in {"CANCELLED", "PAUSED", "WAITING_HUMAN"}
    BY <1>2 DEF StateAfterError
  <2> QED BY <2>1 DEF RunState, Delivery
<1> QED BY <1>1, <1>2

LEMMA StateUpdate ==
  ASSUME NEW r \in Body, NEW s \in RunState
  PROVE  LET b == [r EXCEPT !.state = s] IN
         /\ b \in Body
         /\ b.state = s
         /\ Booked(b) <=> Booked(r)
         /\ Good(b) <=> Good(r)
         /\ b.attempts = r.attempts /\ b.unknown = r.unknown /\ b.known = r.known
         /\ b.costPending = r.costPending /\ b.baseline = r.baseline
         /\ b.proposal = r.proposal /\ b.candidate = r.candidate
         /\ b.accepted = r.accepted
  BY DEF Body, Booked, Good, Proven

LEMMA ThinkLocal ==
  ASSUME Local, NEW w \in Workers, NEW b \in Body, NEW l \in Labels,
         Fits(l, b), Think(w, b, l)
  PROVE  Local'
  BY DEF Local, Think, Goto

LEMMA SaveLocal ==
  ASSUME Local, body \in Body, BodyFits(body), NEW w \in Workers, NEW b \in Body,
         NEW next \in Labels, NEW onError \in Labels,
         Fits(next, b), Fits(onError, b), BodyFits(b), Save(w, b, next, onError)
  PROVE  Local' /\ body' \in Body /\ BodyFits(body)'
  BY DEF Local, Save, Goto

LEMMA GotoLocal ==
  ASSUME Local, NEW w \in Workers, NEW l \in Labels, Fits(l, run[w]), Goto(w, l),
         UNCHANGED run
  PROVE  Local'
  BY DEF Local, Goto

LEMMA ForgetLocal ==
  ASSUME Local, NEW w \in Workers, Forget(w)
  PROVE  Local'
  BY NewRunFits DEF Local, Forget, Goto, Labels, Awaits

\* What the pure operators on a record preserve.
LEMMA ReservedUpdate ==
  ASSUME NEW r \in Body, Booked(r), r.attempts < MaxAttempts
  PROVE  /\ Reserved(r) \in Body /\ Booked(Reserved(r))
         /\ Reserved(r).unknown > 0 /\ Reserved(r).costPending
         /\ Reserved(r).state = "GENERATING"
         /\ Reserved(r).attempts = r.attempts + 1
         /\ Reserved(r).known = r.known
         /\ Reserved(r).baseline = r.baseline
  <1>1. PICK a \in Nat, u \in Nat : a = r.attempts + 1 /\ u = r.unknown + 1
    BY DEF Body
  <1>2. Reserved(r) = [r EXCEPT !.state = "GENERATING", !.attempts = a,
                                !.unknown = u, !.costPending = TRUE]
    BY <1>1 DEF Reserved
  <1>3. Reserved(r) \in Body
    BY <1>2 DEF Body, RunState
  <1>4. /\ Reserved(r).unknown = u /\ Reserved(r).attempts = a
        /\ Reserved(r).costPending /\ Reserved(r).state = "GENERATING"
        /\ Reserved(r).known = r.known /\ Reserved(r).baseline = r.baseline
        /\ Reserved(r).pending = r.pending /\ Reserved(r).proposal = r.proposal
    BY <1>2 DEF Body
  <1>5. r.attempts \in Nat /\ r.unknown \in Nat /\ r.known \in Nat
    BY DEF Body
  <1> QED
    BY <1>1, <1>3, <1>4, <1>5, TaskRunAssumption DEF Booked

LEMMA SettledUpdate ==
  ASSUME NEW r \in Body, Booked(r), r.unknown > 0, NEW cost \in BOOLEAN
  PROVE  /\ Settled(r, cost) \in Body /\ Booked(Settled(r, cost))
         /\ Settled(r, cost).state = r.state
         /\ Settled(r, cost).attempts = r.attempts
         /\ Settled(r, cost).known = IF cost THEN r.known + 1 ELSE r.known
         /\ Settled(r, cost).baseline = r.baseline
         /\ Good(Settled(r, cost)) <=> Good(r)
  <1>1. CASE cost
    <2>1. r.attempts \in Nat /\ r.unknown \in Nat /\ r.known \in Nat
      BY DEF Body
    <2>2. PICK u \in Nat, k \in Nat : u = r.unknown - 1 /\ k = r.known + 1
      BY <2>1
    <2>3. Settled(r, cost) = [r EXCEPT !.unknown = u, !.known = k, !.costPending = FALSE]
      BY <1>1, <2>2 DEF Settled
    <2>4. Settled(r, cost) \in Body
      BY <2>3 DEF Body
    <2> DEFINE b == Settled(r, cost)
    <2>5. /\ b.unknown = u /\ b.known = k /\ b.attempts = r.attempts
          /\ b.state = r.state /\ b.baseline = r.baseline /\ b.pending = r.pending
          /\ b.proposal = r.proposal /\ b.accepted = r.accepted
          /\ b.candidate = r.candidate /\ b.evidence = r.evidence
      BY <2>3 DEF Body
    <2>6. b \in Body
      BY <2>4
    <2> HIDE DEF b
    <2>7. Booked(b)
      BY <2>1, <2>2, <2>5 DEF Booked
    <2>8. Good(b) <=> Good(r)
      BY <2>5 DEF Good, Proven
    <2> QED
      BY <1>1, <2>2, <2>5, <2>6, <2>7, <2>8 DEF b
  <1>2. CASE ~cost
    BY <1>2 DEF Body, Booked, Good, Proven, Settled
  <1> QED
    BY <1>1, <1>2

LEMMA JudgedUpdate ==
  ASSUME NEW r \in Body, Booked(r), r.candidate # None, NEW outcome \in Outcome
  PROVE  /\ Judged(r, outcome) \in Body /\ Booked(Judged(r, outcome))
         /\ Judged(r, outcome).state = r.state
         /\ Judged(r, outcome).attempts = r.attempts
         /\ Judged(r, outcome).known = r.known
         /\ Judged(r, outcome).baseline = r.baseline
         /\ outcome = "ACCEPT" /\ r.baseline = "failing" => Good(Judged(r, outcome))
  <1> DEFINE e == [of |-> r.candidate, outcome |-> outcome]
  <1>1. e \in Evidence
    BY DEF Body, Evidence
  <1>2. CASE outcome = "ACCEPT"
    <2> DEFINE x == [r EXCEPT !.evidence = e]
               y == [x EXCEPT !.accepted = r.candidate]
    <2>1. Judged(r, outcome) = y
      BY <1>2 DEF Judged
    <2>2. /\ x \in Body /\ x.evidence = e /\ x.state = r.state /\ x.candidate = r.candidate
          /\ x.attempts = r.attempts /\ x.known = r.known /\ x.unknown = r.unknown
          /\ x.baseline = r.baseline /\ x.pending = r.pending /\ x.proposal = r.proposal
      BY <1>1 DEF Body
    <2> HIDE DEF x
    <2>3. y \in Body
      BY <2>2 DEF Body
    <2>4. /\ y.evidence = e /\ y.state = r.state /\ y.candidate = r.candidate
          /\ y.attempts = r.attempts /\ y.known = r.known /\ y.unknown = r.unknown
          /\ y.baseline = r.baseline /\ y.pending = r.pending /\ y.proposal = r.proposal
          /\ y.accepted = r.candidate
      BY <2>2 DEF Body
    <2> HIDE DEF y
    <2>5. Booked(y)
      BY <2>4 DEF Booked
    <2>6. r.baseline = "failing" => Good(y)
      BY <1>2, <2>4 DEF Good, Proven
    <2> QED
      BY <2>1, <2>3, <2>4, <2>5, <2>6
  <1>3. CASE outcome = "RETRY"
    <2>1. Judged(r, outcome) = [r EXCEPT !.evidence = e, !.pending = FALSE]
      BY <1>3 DEF Judged, Body
    <2> QED
      BY <1>1, <1>3, <2>1 DEF Body, Booked
  <1>4. CASE outcome = "ESCALATE"
    <2>1. Judged(r, outcome) = [r EXCEPT !.evidence = e]
      BY <1>4 DEF Judged, Body
    <2> QED
      BY <1>1, <1>4, <2>1 DEF Body, Booked
  <1> QED
    BY <1>2, <1>3, <1>4 DEF Outcome

\* What a history counter does.
LEMMA CountUp ==
  ASSUME NEW S, NEW f \in [S -> Nat], NEW x
  PROVE  [f EXCEPT ![x] = f[x] + 1] \in [S -> Nat]
  <1>1. CASE x \in S
    BY <1>1
  <1>2. CASE x \notin S
    <2>1. [f EXCEPT ![x] = f[x] + 1] = f
      BY <1>2
    <2> QED
      BY <2>1
  <1> QED
    BY <1>1, <1>2

\* A worker that goes on, stops or fails with its record as it is.
LEMMA CheckedLocal ==
  ASSUME Local, NEW w \in Workers, NEW ok, NEW l \in Labels, Checked(w, ok, l),
         ok => Fits(l, run[w])
  PROVE  Local'
  <1>1. Fits("failed", run[w]) /\ run[w] \in Body
    BY DEF Local, Fits, Working, InLoop, Sending
  <1>2. CASE ok
    BY <1>1, <1>2, ThinkLocal DEF Checked
  <1>3. CASE ~ok
    BY <1>1, <1>3, ThinkLocal DEF Checked, Labels, Awaits
  <1> QED
    BY <1>2, <1>3

\* A save that changes the state alone.
LEMMA SaveStateLocal ==
  ASSUME Local, body \in Body, BodyFits(body), NEW w \in Workers, NEW s \in RunState,
         NEW l \in Labels \ {"reconcile", "recording"}, SaveState(w, s, l), l \notin InLoop \/ run[w].baseline = "failing",
         l \notin {"starting", "recovering", "reserving", "calling", "awaiting", "fixing",
                   "verifying"},
         s # "GENERATING", l \in Working => s \notin Delivery,
         s \in Delivery \cup {"COMPLETED"} \/ l \in Sending => Good(run[w])
  PROVE  Local' /\ body' \in Body /\ BodyFits(body)'
  <1> DEFINE b == [run[w] EXCEPT !.state = s]
  <1>1. /\ b \in Body /\ b.state = s /\ Booked(b) /\ b.baseline = run[w].baseline
        /\ Good(b) <=> Good(run[w])
    BY StateUpdate DEF Local, Fits
  <1>2. Save(w, b, l, "failed")
    BY DEF SaveState
  <1> HIDE DEF b
  <1>3. Fits(l, b) /\ Fits("failed", b) /\ BodyFits(b)
    BY <1>1 DEF Fits, BodyFits, Working, InLoop, Sending
  <1> QED
    BY <1>1, <1>2, <1>3, SaveLocal DEF Labels, Awaits

LEMMA InitType == Init => TypeInv
<1> SUFFICES ASSUME Init PROVE TypeInv
  OBVIOUS
<1>1. body \in Body /\ BodyFits(body)
  BY NewRunFits DEF Init
<1>2. Local
  BY NewRunFits DEF Init, Local, Labels
<1>3. Globals
  BY TaskRunAssumption DEF Init, Globals
<1> QED
  BY <1>1, <1>2, <1>3 DEF TypeInv

LEMMA NextType == TypeInv /\ [Next]_vars => TypeInv'
<1> USE TaskRunAssumption
<1> SUFFICES ASSUME TypeInv, [Next]_vars PROVE TypeInv'
  OBVIOUS
<1>T. /\ Globals /\ body \in Body /\ BodyFits(body) /\ Local
      /\ \A w \in Workers : /\ pc[w] \in Labels /\ run[w] \in Body
                            /\ Fits(pc[w], run[w]) /\ Booked(run[w])
  BY DEF TypeInv, Local, Fits
<1> USE DEF TypeInv
<1>1. ASSUME NEW c \in {"pause", "cancel"}, Control(c)
      PROVE  TypeInv'
  <2>1. StateAfterCancel(body.state) \in RunState
    BY <1>T DEF StateAfterCancel, Body, RunState, Delivery
  <2>2. body' \in Body /\ BodyFits(body)'
    BY <1>1, <1>T, <2>1, StateUpdate
    DEF Control, BodyFits, StateAfterCancel, Delivery
  <2> QED
    BY <1>1, <1>T, <2>2 DEF Control, Globals, Local, worker, remote, ghosts
<1>2. ASSUME NEW w \in Workers, NEW resume \in BOOLEAN, Claim(w, resume)
      PROVE  TypeInv'
  <2>1. Local'
    BY <1>2, <1>T, GotoLocal DEF Claim, Fits, Working, InLoop, Sending, Labels
  <2> QED
    BY <1>2, <1>T, <2>1 DEF Claim, Globals, remote
<1>3. ASSUME NEW w \in Workers, NEW timeUp \in BOOLEAN, Load(w, timeUp)
      PROVE  TypeInv'
  <2>1. Local'
    BY <1>3, <1>T DEF Load, Local, Goto, Fits, BodyFits, Working, InLoop, Sending, Labels, Awaits
  <2> QED
    BY <1>3, <1>T, <2>1 DEF Load, LoadsReadOnly, Globals, store, remote, ghosts
<1>4. ASSUME NEW w \in Workers, Start(w)
      PROVE  TypeInv'
  <2>1. Local'
    BY <1>4, <1>T, ThinkLocal
    DEF Start, Checked, Fits, Working, InLoop, Sending, Labels, Awaits
  <2> QED
    BY <1>4, <1>T, <2>1 DEF Start, Checked, Think, Globals, store, remote, ghosts
<1>5. ASSUME NEW w \in Workers, RecoverProvider(w)
      PROVE  TypeInv'
  <2> DEFINE b == [run[w] EXCEPT !.state = "READY", !.costPending = FALSE,
                                 !.unknown = run[w].unknown]
  <2>1. Save(w, b, "preparing", "failed") /\ UNCHANGED ghosts
    BY <1>5, <1>T DEF RecoverProvider, Fits
  <2>2. b \in Body /\ Booked(b) /\ b.state = "READY"
    BY <1>T DEF Body, Booked, RunState
  <2> HIDE DEF b
  <2>3. Fits("preparing", b) /\ Fits("failed", b) /\ BodyFits(b)
    BY <2>2 DEF Fits, BodyFits, Working, InLoop, Sending, Delivery
  <2>4. Local' /\ body' \in Body /\ BodyFits(body)'
    BY <1>T, <2>1, <2>2, <2>3, SaveLocal DEF Labels, Awaits
  <2> QED
    BY <1>T, <2>1, <2>4 DEF Save, Globals, unsaved, remote, ghosts
<1>6. ASSUME NEW w \in Workers, Prepare(w)
      PROVE  TypeInv'
  <2>1. Local'
    BY <1>6, <1>T, CheckedLocal DEF Prepare, Fits, Working, InLoop, Sending, Labels, Awaits
  <2> QED
    BY <1>6, <1>T, <2>1 DEF Prepare, Checked, Think, Globals, store, remote, ghosts
<1>7. ASSUME NEW w \in Workers,
             EnterBaseline(w) \/ Retry(w) \/ Stop(w) \/ Complete(w) \/ Declare(w)
      PROVE  TypeInv'
  <2>1. PICK s \in RunState, l \in Labels \ {"reconcile", "recording"} :
           /\ SaveState(w, s, l)
           /\ l \notin InLoop \/ run[w].baseline = "failing"
           /\ l \notin {"starting", "recovering", "reserving", "calling", "awaiting",
                        "fixing", "verifying"}
           /\ s # "GENERATING" /\ (l \in Working => s \notin Delivery)
           /\ s \in Delivery \cup {"COMPLETED"} \/ l \in Sending => Good(run[w])
    BY <1>7, <1>T
    DEF EnterBaseline, Retry, Stop, Complete, Declare, Fits, Working, InLoop, Sending, Labels,
        Awaits, RunState, Delivery
  <2>2. Local' /\ body' \in Body /\ BodyFits(body)'
    BY <1>T, <2>1, SaveStateLocal
  <2>3. intents' \subseteq Contents
    BY <1>7, <1>T, <2>2
    DEF EnterBaseline, Retry, Stop, Complete, Declare, NoteIntent, ghosts, Globals,
        BodyFits, Good, Proven, Body
  <2> QED
    BY <1>7, <1>T, <2>2, <2>3
    DEF EnterBaseline, Retry, Stop, Complete, Declare, SaveState, Save, Globals,
        unsaved, remote, ghosts
<1>8. ASSUME NEW w \in Workers, NEW result \in {"failing", "other"}, BaselineDone(w, result)
      PROVE  TypeInv'
  <2> DEFINE b == [run[w] EXCEPT !.baseline = result]
  <2>1. b \in Body /\ Booked(b) /\ b.baseline = result /\ b.state = run[w].state
    BY <1>T DEF Body, Booked
  <2>2. b.state \notin Delivery
    BY <1>8, <1>T, <2>1 DEF BaselineDone, Fits, Working
  <2>3. Think(w, b, IF result = "failing" THEN "loop" ELSE "stopping")
          \/ Think(w, run[w], "failed")
    BY <1>8 DEF BaselineDone
  <2> HIDE DEF b
  <2>4. Local'
    BY <1>T, <2>1, <2>2, <2>3, ThinkLocal
    DEF Fits, Working, InLoop, Sending, Labels, Awaits
  <2> QED
    BY <1>8, <1>T, <2>4 DEF BaselineDone, Think, Globals, store, remote, ghosts
<1>9. ASSUME NEW w \in Workers, Loop(w)
      PROVE  TypeInv'
  <2>1. run[w].pending => run[w].proposal # None
    BY <1>T DEF Booked
  <2>2. Local'
    BY <1>9, <1>T, <2>1, CheckedLocal
    DEF Loop, MayTry, Fits, Working, InLoop, Sending, Labels, Awaits
  <2> QED
    BY <1>9, <1>T, <2>2 DEF Loop, Checked, Think, Globals, store, remote, ghosts
<1>10. ASSUME NEW w \in Workers, Reserve(w)
      PROVE  TypeInv'
  <2> DEFINE b == Reserved(run[w])
  <2>1. /\ b \in Body /\ Booked(b) /\ b.unknown > 0 /\ b.costPending
        /\ b.state = "GENERATING" /\ b.baseline = "failing"
    BY <1>10, <1>T, ReservedUpdate DEF Reserve, Fits, InLoop
  <2>2. Save(w, b, "calling", "failed") /\ UNCHANGED ghosts
    BY <1>10 DEF Reserve
  <2> HIDE DEF b
  <2>3. Fits("calling", b) /\ Fits("failed", b) /\ BodyFits(b)
    BY <2>1 DEF Fits, BodyFits, Working, InLoop, Sending, Delivery
  <2>4. Local' /\ body' \in Body /\ BodyFits(body)'
    BY <1>T, <2>1, <2>2, <2>3, SaveLocal DEF Labels, Awaits
  <2> QED
    BY <1>T, <2>2, <2>4 DEF Save, Globals, unsaved, remote, ghosts
<1>11. ASSUME NEW w \in Workers, CallProvider(w)
      PROVE  TypeInv'
  <2>1. Local'
    BY <1>11, <1>T, ThinkLocal
    DEF CallProvider, Fits, Working, InLoop, Sending, Labels, Awaits
  <2>2. calls' \in [AttemptNumbers -> Nat]
    BY <1>11, <1>T, CountUp DEF CallProvider, Globals
  <2>3. late' \in [Workers -> Nat]
    BY <1>11, <1>T, CountUp DEF CallProvider, CountLate, Globals
  <2>4. UNCHANGED <<mode, store, token, leaseLost, reconciling, readOnly, sawBranch,
                    sawPr, remote, priced, intents>>
    BY <1>11 DEF CallProvider, Think
  <2> QED
    BY <1>T, <2>1, <2>2, <2>3, <2>4 DEF Globals, store, remote
<1>12. ASSUME NEW w \in Workers, NEW p \in Contents, NEW cost \in BOOLEAN,
              Respond(w, p, cost)
      PROVE  TypeInv'
  <2> DEFINE r == Settled(run[w], cost)
             b == [r EXCEPT !.digest = p, !.proposal = p, !.pending = TRUE]
  <2>1. pc[w] = "awaiting" /\ run[w].unknown > 0 /\ run[w].state \notin Delivery
        /\ run[w].baseline = "failing"
    BY <1>12, <1>T DEF Respond, Fits, Working, InLoop
  <2>2. r \in Body /\ Booked(r) /\ r.state \notin Delivery /\ r.baseline = "failing"
    BY <1>T, <2>1, SettledUpdate
  <2>3. Think(w, r, "failed") \/ Think(w, r, "stopping") \/ Think(w, b, "fixing")
    BY <1>12 DEF Respond
  <2>4. UNCHANGED <<mode, store, token, leaseLost, reconciling, readOnly, sawBranch,
                    sawPr, remote, calls, intents, late>>
        /\ priced' \in Nat
    BY <1>12, <1>T, <2>3 DEF Respond, Think, Price, Globals
  <2> HIDE DEF r
  <2>5. /\ b \in Body /\ Booked(b) /\ b.state \notin Delivery
        /\ b.baseline = "failing" /\ b.proposal # None
    BY <2>2, TaskRunAssumption DEF Body, Booked
  <2> HIDE DEF b
  <2>6. Fits("failed", r) /\ Fits("stopping", r) /\ Fits("fixing", b)
    BY <2>2, <2>5 DEF Fits, Working, InLoop, Sending
  <2>7. Local'
    BY <1>T, <2>2, <2>3, <2>5, <2>6, ThinkLocal DEF Labels, Awaits
  <2> QED
    BY <1>T, <2>4, <2>7 DEF Globals, store, remote
<1>13. ASSUME NEW w \in Workers, NEW cost \in BOOLEAN, Reject(w, cost)
      PROVE  TypeInv'
  <2>1. /\ Settled(run[w], cost) \in Body /\ Booked(Settled(run[w], cost))
        /\ Settled(run[w], cost).state \notin Delivery
    BY <1>13, <1>T, SettledUpdate DEF Reject, Fits, Working, InLoop
  <2>2. Fits("failed", Settled(run[w], cost))
    BY <2>1 DEF Fits, Working, InLoop, Sending
  <2>3. Local'
    BY <1>13, <1>T, <2>1, <2>2, ThinkLocal DEF Reject, Labels, Awaits
  <2> QED
    BY <1>13, <1>T, <2>3 DEF Reject, Price, Think, Globals, store, remote
<1>14. ASSUME NEW w \in Workers, Fix(w)
      PROVE  TypeInv'
  <2> DEFINE b == [run[w] EXCEPT !.candidate = run[w].proposal, !.state = "VERIFYING"]
  <2>1. run[w].proposal # None /\ run[w].baseline = "failing"
    BY <1>14, <1>T DEF Fix, Fits, InLoop
  <2>2. /\ b \in Body /\ Booked(b) /\ b.state = "VERIFYING"
        /\ b.baseline = "failing" /\ b.candidate # None
    <3> DEFINE c == [run[w] EXCEPT !.candidate = run[w].proposal]
    <3>1. run[w] \in Body /\ Booked(run[w])
      BY <1>T
    <3>2. c \in Body
      BY <3>1 DEF Body
    <3>3. c.baseline = "failing" /\ c.candidate # None /\ Booked(c)
      BY <2>1, <3>1 DEF Body, Booked
    <3>4. b = [c EXCEPT !.state = "VERIFYING"]
      OBVIOUS
    <3> HIDE DEF c, b
    <3>5. b \in Body
      BY <3>2, <3>4 DEF Body, RunState
    <3>6. /\ b.state = "VERIFYING" /\ b.baseline = c.baseline /\ b.candidate = c.candidate
          /\ b.attempts = c.attempts /\ b.unknown = c.unknown /\ b.known = c.known
          /\ b.pending = c.pending /\ b.proposal = c.proposal
      BY <3>2, <3>4 DEF Body
    <3> QED
      BY <3>3, <3>5, <3>6 DEF Booked
  <2>3. Save(w, b, "verifying", "failed") /\ UNCHANGED ghosts
    BY <1>14 DEF Fix
  <2> HIDE DEF b
  <2>4. Fits("verifying", b) /\ Fits("failed", b) /\ BodyFits(b)
    BY <2>2 DEF Fits, BodyFits, Working, InLoop, Sending, Delivery
  <2>5. Local' /\ body' \in Body /\ BodyFits(body)'
    BY <1>T, <2>2, <2>3, <2>4, SaveLocal DEF Labels, Awaits
  <2> QED
    BY <1>T, <2>3, <2>5 DEF Save, Globals, unsaved, remote, ghosts
<1>15. ASSUME NEW w \in Workers, NEW outcome \in Outcome, Verified(w, outcome)
      PROVE  TypeInv'
  <2> DEFINE b == Judged(run[w], outcome)
  <2>1. pc[w] = "verifying" /\ run[w].candidate # None /\ run[w].baseline = "failing"
        /\ run[w].state \notin Delivery
    BY <1>15, <1>T DEF Verified, Fits, Working, InLoop
  <2>2. /\ b \in Body /\ Booked(b) /\ b.state \notin Delivery
        /\ b.baseline = "failing" /\ (outcome = "ACCEPT" => Good(b))
    BY <1>T, <2>1, JudgedUpdate
  <2>3. \/ Think(w, run[w], "failed")
        \/ outcome = "ESCALATE" /\ Think(w, b, "stopping")
        \/ outcome = "RETRY" /\ Think(w, b, "retrying")
        \/ outcome = "ACCEPT" /\ (Think(w, b, "completing") \/ Think(w, b, "declaring"))
    BY <1>15 DEF Verified, Outcome
  <2>4. UNCHANGED <<mode, store, token, leaseLost, reconciling, readOnly, sawBranch,
                    sawPr, remote, ghosts>>
    BY <1>15, <2>3 DEF Verified, Think
  <2> HIDE DEF b
  <2>5. /\ Fits("failed", run[w]) /\ Fits("stopping", b) /\ Fits("retrying", b)
        /\ outcome = "ACCEPT" => Fits("completing", b) /\ Fits("declaring", b)
    BY <1>T, <2>2 DEF Fits, Working, InLoop, Sending
  <2>6. Local'
    BY <1>T, <2>2, <2>3, <2>5, ThinkLocal DEF Labels, Awaits
  <2> QED
    BY <1>T, <2>4, <2>6 DEF Globals, store, remote, ghosts
<1>16. ASSUME NEW w \in Workers,
              Intent(w) \/ CheckBranch(w) \/ CheckPr(w) \/ Fail(w) \/ Reconcile(w)
      PROVE  TypeInv'
  <2>1. run[w].state \in Delivery => Good(run[w])
    BY <1>T DEF Fits
  <2>2. PICK l \in Labels, ok \in BOOLEAN : Checked(w, ok, l) /\ (ok => Fits(l, run[w]))
    <3>1. CASE Intent(w) \/ CheckBranch(w) \/ CheckPr(w)
      BY <1>T, <3>1
      DEF Intent, CheckBranch, CheckPr, Guard, MayWrite, Fits, Working, InLoop, Sending,
          Labels, Awaits
    <3>2. CASE Fail(w)
      BY <3>2 DEF Fail, Labels, Awaits
    <3>3. CASE Reconcile(w)
      <4>1. Good(run[w])
        BY <1>T, <2>1, <3>3 DEF Reconcile, Fits
      <4>2. Checked(w, MayLookUp(w) /\ Proven(run[w]), "lookup")
        BY <3>3 DEF Reconcile
      <4>3. Fits("lookup", run[w])
        BY <1>T, <4>1 DEF Fits, Working, InLoop, Sending
      <4> QED
        BY <4>2, <4>3 DEF Labels, Awaits
    <3> QED
      BY <1>16, <3>1, <3>2, <3>3
  <2>3. Local'
    BY <1>T, <2>2, CheckedLocal
  <2> QED
    BY <1>T, <2>2, <2>3 DEF Checked, Think, Globals, store, remote, ghosts
<1>17. ASSUME NEW w \in Workers, NEW answered \in BOOLEAN,
              LookUp(w) \/ LookUpBranch(w) \/ PostBranch(w, answered) \/ PostPr(w, answered)
      PROVE  TypeInv'
  <2>1. Good(run[w]) /\ run[w].accepted \in Contents
    BY <1>17, <1>T
    DEF LookUp, LookUpBranch, PostBranch, PostPr, Fits, Sending, Good, Proven, Body
  <2>2. PICK l \in Sending \cup {"failed"} : Goto(w, l)
    BY <1>17 DEF LookUp, LookUpBranch, PostBranch, PostPr, Sending
  <2>3. UNCHANGED run /\ l \in Labels
    BY <1>17 DEF LookUp, LookUpBranch, PostBranch, PostPr, Sending, Labels, Awaits
  <2>4. Fits(l, run[w])
    BY <1>T, <2>1 DEF Fits, Working, InLoop, Sending
  <2>5. Local'
    BY <1>T, <2>2, <2>3, <2>4, GotoLocal
  <2>6. UNCHANGED <<mode, store, token, leaseLost, reconciling, readOnly, calls, priced,
                    intents>>
    BY <1>17 DEF LookUp, LookUpBranch, PostBranch, PostPr, ghosts
  <2>7. /\ branch' \in Contents \cup {None, Foreign}
        /\ pr' \in Contents \cup {None, Foreign}
        /\ sawBranch' \in [Workers -> Contents \cup {None, Foreign}]
        /\ sawPr' \in [Workers -> Contents \cup {None, Foreign}]
        /\ late' \in [Workers -> Nat]
    BY <1>17, <1>T, <2>1
    DEF LookUp, LookUpBranch, PostBranch, PostPr, CountLate, Globals, remote, ghosts
  <2> QED
    BY <1>T, <2>5, <2>6, <2>7 DEF Globals, store
<1>18. ASSUME NEW w \in Workers, Catch(w)
      PROVE  TypeInv'
  <2> DEFINE s == StateAfterError(run[w].state)
             b == [run[w] EXCEPT !.state = s]
  <2>1. /\ s \in RunState \ {"GENERATING", "COMPLETED"}
        /\ s \in Delivery => run[w].state \in Delivery
    BY ErrorState
  <2>2. CASE w \in leaseLost
    <3>1. Checked(w, TRUE, "done")
      BY <1>18, <2>2 DEF Catch
    <3>2. "done" \in Labels /\ Fits("done", run[w])
      BY <1>18, <1>T DEF Catch, Fits, Working, InLoop, Sending, Labels
    <3>3. Local'
      BY <1>T, <3>1, <3>2, CheckedLocal
    <3>4. /\ UNCHANGED <<mode, store, remote, ghosts>>
          /\ UNCHANGED <<token, leaseLost, reconciling, readOnly, sawBranch, sawPr>>
      BY <3>1 DEF Checked, Think
    <3> QED
      BY <1>T, <3>3, <3>4 DEF Globals, store, remote, ghosts
  <2>3. CASE w \notin leaseLost
    <3>1. Think(w, b, "recording") /\ UNCHANGED ghosts
      BY <1>18, <1>T, <2>3 DEF Catch, Body
    <3> HIDE DEF s
    <3>2. b \in Body /\ Booked(b) /\ b.state = s /\ (Good(b) <=> Good(run[w]))
      BY <1>T, <2>1, StateUpdate
    <3> HIDE DEF b
    <3>3. Fits("recording", b)
      BY <1>T, <2>1, <3>2 DEF Fits, Working, InLoop, Sending
    <3>4. Local'
      BY <1>T, <3>1, <3>2, <3>3, ThinkLocal DEF Labels
    <3> QED
      BY <1>T, <3>1, <3>4 DEF Think, Globals, store, remote, ghosts
  <2> QED
    BY <2>2, <2>3
<1>19. ASSUME NEW w \in Workers, Record(w)
      PROVE  TypeInv'
  <2>1. Fits("recording", run[w]) /\ Save(w, run[w], "done", "done")
    BY <1>19, <1>T DEF Record
  <2>2. Fits("done", run[w]) /\ BodyFits(run[w])
    BY <2>1 DEF Fits, BodyFits, Working, InLoop, Sending
  <2>3. Local' /\ body' \in Body /\ BodyFits(body)'
    BY <1>T, <2>1, <2>2, SaveLocal DEF Labels
  <2>4. intents' \subseteq Contents
    BY <1>19, <1>T, <2>3 DEF Record, NoteIntent, Globals, BodyFits, Good, Proven, Body
  <2> QED
    BY <1>19, <1>T, <2>3, <2>4 DEF Record, Save, Globals, unsaved, remote, ghosts
<1>20. ASSUME NEW w \in Workers, Release(w) \/ Crash(w)
      PROVE  TypeInv'
  <2>1. Local'
    BY <1>20, <1>T, ForgetLocal DEF Release, Crash
  <2>2. /\ owner' \in Nat /\ leaseLive' \in BOOLEAN
        /\ UNCHANGED <<mode, body, control, issued, saveErrors, branch, pr, ghosts>>
    <3>1. CASE Release(w)
      <4>1. UNCHANGED <<mode, body, control, issued, saveErrors, remote, ghosts>>
        BY <3>1 DEF Release
      <4>2. (owner' = 0 /\ leaseLive' = FALSE) \/ UNCHANGED <<owner, leaseLive>>
        BY <3>1 DEF Release
      <4>3. owner' \in Nat
        BY <1>T, <4>2 DEF Globals
      <4>4. leaseLive' \in BOOLEAN
        BY <1>T, <4>2, Zenon DEF Globals
      <4> QED
        BY <4>1, <4>3, <4>4 DEF remote, ghosts
    <3>2. CASE Crash(w)
      BY <1>T, <3>2 DEF Crash, Globals, store, remote
    <3> QED
      BY <1>20, <3>1, <3>2
  <2>3. /\ token' \in [Workers -> Nat]
        /\ leaseLost' \subseteq Workers /\ reconciling' \subseteq Workers
        /\ readOnly' \subseteq reconciling'
        /\ sawBranch' \in [Workers -> Contents \cup {None, Foreign}]
        /\ sawPr' \in [Workers -> Contents \cup {None, Foreign}]
    BY <1>20, <1>T DEF Release, Crash, Forget, Globals
  <2> QED
    BY <1>T, <2>1, <2>2, <2>3 DEF Globals, ghosts
<1>21. ASSUME NEW w \in Workers, HeartbeatFails(w)
      PROVE  TypeInv'
  BY <1>21, <1>T DEF HeartbeatFails, Globals, Local, store, remote, ghosts
<1>22. CASE LeaseExpires \/ BranchDeleted \/ UNCHANGED vars
  BY <1>22, <1>T
  DEF LeaseExpires, BranchDeleted, vars, Globals, Local, store, worker, remote, ghosts
<1> QED
  BY <1>1, <1>2, <1>3, <1>4, <1>5, <1>6, <1>7, <1>8, <1>9, <1>10, <1>11, <1>12, <1>13,
     <1>14, <1>15, <1>16, <1>17, <1>18, <1>19, <1>20, <1>21, <1>22
  DEF Next, WorkerStep, Proceed

\* The record of every worker and the row have their types in every reachable
\* state, and fit the place the worker has reached.
THEOREM TypeCorrect == Safety => [](TypeOK /\ TypeInv)
<1>1. Init => TypeInv
  BY InitType
<1>2. TypeInv /\ [Next]_vars => TypeInv'
  BY NextType
<1>3. TypeInv => TypeOK
  BY DEF TypeInv, Globals, Local, TypeOK
<1> QED
  BY <1>1, <1>2, <1>3, PTL DEF Safety

\* Only a candidate with ACCEPT evidence of its own is delivered or completed,
\* whichever of the workers, takeovers and cancellations wrote the row.
THEOREM OnlyAcceptedIsDelivered == Safety => []AcceptedOnly
<1>1. TypeInv => AcceptedOnly
  BY DEF TypeInv, BodyFits, Good, AcceptedOnly
<1> QED
  BY <1>1, TypeCorrect, PTL

-----------------------------------------------------------------------------
(* What the steps of an execution have in common                            *)

\* A step of worker w between its load and its release: it writes the row only
\* under its fence, and then the row is its record.
Step(w) ==
  /\ pc[w] \notin {"idle", "claimed", "done"}
  /\ pc'[w] \notin {"idle", "claimed"}
  /\ \A v \in Workers \ {w} : pc'[v] = pc[v] /\ run'[v] = run[v]
  /\ UNCHANGED <<owner, issued, token, leaseLive>>
  /\ \/ body' = body
     \/ /\ Fenced(w)
        /\ body' = run'[w]
        /\ body'.state = "COMPLETED" => pc'[w] = "done"

\* One that neither reserves an attempt, nor calls the provider, nor prices it.
Quiet(w) ==
  /\ Step(w)
  /\ pc'[w] # "calling"
  /\ run'[w].attempts = run[w].attempts
  /\ run'[w].known = run[w].known
  /\ UNCHANGED <<calls, priced>>

LEMMA ThinkStep ==
  ASSUME TypeInv, NEW w \in Workers, NEW b \in Body, NEW l \in Labels \ {"idle", "claimed"},
         Think(w, b, l), pc[w] \notin {"idle", "claimed", "done"}
  PROVE  /\ Step(w) /\ pc'[w] = l /\ run'[w] = b
         /\ body' = body
  BY DEF TypeInv, Local, Think, Goto, Step, store

LEMMA SaveStep ==
  ASSUME TypeInv, NEW w \in Workers, NEW b \in Body,
         NEW next \in Labels \ {"idle", "claimed"},
         NEW onError \in Labels \ {"idle", "claimed"},
         Save(w, b, next, onError), pc[w] \notin {"idle", "claimed", "done"},
         b.state = "COMPLETED" => next = "done"
  PROVE  /\ Step(w) /\ pc'[w] \in {next, onError} /\ run'[w] = b
         /\ body' # body => Fenced(w) /\ pc'[w] = next
         /\ pc'[w] = next /\ next # onError => body' = b /\ Fenced(w)
  BY DEF TypeInv, Local, Save, Goto, Step, unsaved

LEMMA CheckedStep ==
  ASSUME TypeInv, NEW w \in Workers, NEW ok, NEW l \in Labels \ {"idle", "claimed", "calling"},
         Checked(w, ok, l), pc[w] \notin {"idle", "claimed", "done"}
  PROVE  Quiet(w)
  <1>1. run[w] \in Body
    BY DEF TypeInv, Local
  <1>2. UNCHANGED <<calls, priced>>
    BY DEF Checked, ghosts
  <1>3. CASE ok
    BY <1>1, <1>2, <1>3, ThinkStep DEF Checked, Quiet
  <1>4. CASE ~ok
    BY <1>1, <1>2, <1>4, ThinkStep DEF Checked, Quiet, Labels
  <1> QED
    BY <1>3, <1>4

LEMMA SaveStateStep ==
  ASSUME TypeInv, NEW w \in Workers, NEW s \in RunState,
         NEW l \in Labels \ {"idle", "claimed", "calling"}, SaveState(w, s, l),
         s = "COMPLETED" => l = "done", pc[w] \notin {"idle", "claimed", "done"},
         UNCHANGED <<calls, priced>>
  PROVE  Quiet(w)
  <1> DEFINE b == [run[w] EXCEPT !.state = s]
  <1>1. /\ b \in Body /\ b.state = s /\ b.attempts = run[w].attempts
        /\ b.known = run[w].known
    BY StateUpdate DEF TypeInv, Local
  <1>2. Save(w, b, l, "failed")
    BY DEF SaveState
  <1> HIDE DEF b
  <1>3. "failed" \in Labels \ {"idle", "claimed"} /\ l \in Labels \ {"idle", "claimed"}
    BY DEF Labels
  <1>4. Step(w) /\ pc'[w] \in {l, "failed"} /\ run'[w] = b
    BY <1>1, <1>2, <1>3, SaveStep
  <1> QED
    BY <1>1, <1>4 DEF Quiet

\* The steps of an execution other than those of the provider, its entry and its
\* end are all quiet.
LEMMA QuietSteps ==
  ASSUME TypeInv, NEW w \in Workers, WorkerStep(w)
  PROVE  \/ Quiet(w)
         \/ \E timeUp \in BOOLEAN : Load(w, timeUp)
         \/ Reserve(w) \/ CallProvider(w) \/ Release(w)
         \/ \E p \in Contents, cost \in BOOLEAN : Respond(w, p, cost)
         \/ \E cost \in BOOLEAN : Reject(w, cost)
<1> USE DEF Labels, Awaits
<1>T. /\ run[w] \in Body /\ Fits(pc[w], run[w]) /\ pc[w] \in Labels
      /\ run[w].attempts \in Nat /\ run[w].known \in Nat
  BY DEF TypeInv, Local, Body
<1>1. CASE Start(w) \/ Prepare(w) \/ Intent(w) \/ Reconcile(w) \/ CheckBranch(w)
             \/ CheckPr(w) \/ Fail(w) \/ Loop(w)
  BY <1>1, CheckedStep
  DEF Start, Prepare, Intent, Reconcile, CheckBranch, CheckPr, Fail, Loop
<1>2. CASE EnterBaseline(w) \/ Retry(w) \/ Stop(w) \/ Complete(w) \/ Declare(w)
  <2>1. UNCHANGED <<calls, priced>>
    BY <1>2 DEF EnterBaseline, Retry, Stop, Complete, Declare, ghosts
  <2> QED
    BY <1>2, <2>1, SaveStateStep
    DEF EnterBaseline, Retry, Stop, Complete, Declare, RunState, Delivery
<1>3. CASE RecoverProvider(w)
  <2> DEFINE b == [run[w] EXCEPT !.state = "READY", !.costPending = FALSE,
                                 !.unknown = run[w].unknown]
  <2>1. Save(w, b, "preparing", "failed") /\ UNCHANGED ghosts
    BY <1>3, <1>T DEF RecoverProvider, Fits
  <2>2. /\ b \in Body /\ b.state = "READY" /\ b.attempts = run[w].attempts
        /\ b.known = run[w].known
    BY <1>T DEF Body, RunState
  <2> HIDE DEF b
  <2> QED
    BY <1>3, <2>1, <2>2, SaveStep DEF RecoverProvider, Quiet, ghosts
<1>4. CASE \E result \in {"failing", "other"} : BaselineDone(w, result)
  <2>1. PICK result \in {"failing", "other"} : BaselineDone(w, result)
    BY <1>4
  <2> DEFINE b == [run[w] EXCEPT !.baseline = result]
  <2>2. b \in Body /\ b.attempts = run[w].attempts /\ b.known = run[w].known
    BY <1>T DEF Body
  <2>3. PICK l \in {"loop", "stopping", "failed"}, r \in {b, run[w]} : Think(w, r, l)
    BY <2>1 DEF BaselineDone
  <2> HIDE DEF b
  <2> QED
    BY <1>T, <2>1, <2>2, <2>3, ThinkStep DEF BaselineDone, Quiet, ghosts
<1>5. CASE Fix(w)
  <2> DEFINE b == [run[w] EXCEPT !.candidate = run[w].proposal, !.state = "VERIFYING"]
  <2>1. Save(w, b, "verifying", "failed") /\ UNCHANGED ghosts
    BY <1>5 DEF Fix
  <2>2. /\ b \in Body /\ b.state = "VERIFYING" /\ b.attempts = run[w].attempts
        /\ b.known = run[w].known
    BY <1>T DEF Body, RunState
  <2> HIDE DEF b
  <2> QED
    BY <1>5, <2>1, <2>2, SaveStep DEF Fix, Quiet, ghosts
<1>6. CASE \E outcome \in Outcome : Verified(w, outcome)
  <2>1. PICK outcome \in Outcome : Verified(w, outcome)
    BY <1>6
  <2> DEFINE b == Judged(run[w], outcome)
  <2>2. b \in Body /\ b.attempts = run[w].attempts /\ b.known = run[w].known
    BY <1>T, <2>1, JudgedUpdate DEF Verified, Fits
  <2>3. PICK l \in {"stopping", "retrying", "completing", "declaring", "failed"},
             r \in {b, run[w]} : Think(w, r, l)
    BY <2>1 DEF Verified, Outcome
  <2> HIDE DEF b
  <2> QED
    BY <1>T, <2>1, <2>2, <2>3, ThinkStep DEF Verified, Quiet, ghosts
<1>7. CASE LookUp(w) \/ LookUpBranch(w)
             \/ \E answered \in BOOLEAN : PostBranch(w, answered) \/ PostPr(w, answered)
  <2>1. PICK l \in Sending \cup {"failed"} : Goto(w, l)
    BY <1>7 DEF LookUp, LookUpBranch, PostBranch, PostPr, Sending
  <2>2. UNCHANGED <<body, owner, issued, token, leaseLive, run, calls, priced>>
    BY <1>7 DEF LookUp, LookUpBranch, PostBranch, PostPr, store, ghosts
  <2>3. pc[w] \notin {"idle", "claimed", "done"}
    BY <1>7 DEF LookUp, LookUpBranch, PostBranch, PostPr
  <2> QED
    BY <2>1, <2>2, <2>3 DEF TypeInv, Local, Goto, Sending, Quiet, Step
<1>8. CASE Catch(w)
  <2> DEFINE s == StateAfterError(run[w].state)
             b == [run[w] EXCEPT !.state = s]
  <2>1. CASE w \in leaseLost
    BY <1>8, <1>T, <2>1, CheckedStep, ThinkStep DEF Catch, Checked, Quiet, ghosts
  <2>2. CASE w \notin leaseLost
    <3>1. Think(w, b, "recording") /\ UNCHANGED ghosts
      BY <1>8, <1>T, <2>2 DEF Catch, Body
    <3>2. s \in RunState
      BY DEF StateAfterError, RunState, Delivery
    <3> HIDE DEF s
    <3>3. b \in Body /\ b.attempts = run[w].attempts /\ b.known = run[w].known
      BY <1>T, <3>2, StateUpdate
    <3> HIDE DEF b
    <3> QED
      BY <1>8, <3>1, <3>3, ThinkStep DEF Catch, Quiet, ghosts
  <2> QED
    BY <2>1, <2>2
<1>9. CASE Record(w)
  <2>1. run[w].state # "COMPLETED"
    BY <1>9, <1>T DEF Record, Fits
  <2> QED
    BY <1>9, <1>T, <2>1, SaveStep DEF Record, Quiet
<1> QED
  BY <1>1, <1>2, <1>3, <1>4, <1>5, <1>6, <1>7, <1>8, <1>9 DEF WorkerStep, Proceed

LEMMA ReserveStep ==
  ASSUME TypeInv, NEW w \in Workers, Reserve(w)
  PROVE  /\ Step(w)
         /\ run'[w].attempts = run[w].attempts + 1 /\ run'[w].attempts <= MaxAttempts
         /\ run'[w].known = run[w].known
         /\ pc[w] = "reserving"
         /\ pc'[w] = "calling" => body' = run'[w] /\ Fenced(w)
         /\ UNCHANGED <<calls, priced>>
  <1> DEFINE b == Reserved(run[w])
  <1>1. run[w] \in Body /\ Booked(run[w]) /\ run[w].attempts < MaxAttempts
    BY DEF TypeInv, Local, Fits, Reserve
  <1>2. /\ b \in Body /\ Booked(b) /\ b.state = "GENERATING"
        /\ b.attempts = run[w].attempts + 1 /\ b.known = run[w].known
    BY <1>1, ReservedUpdate
  <1>3. Save(w, b, "calling", "failed") /\ UNCHANGED ghosts /\ pc[w] = "reserving"
    BY DEF Reserve
  <1> HIDE DEF b
  <1> QED
    BY <1>2, <1>3, SaveStep DEF Labels, Awaits, ghosts, Booked

LEMMA CallStep ==
  ASSUME TypeInv, NEW w \in Workers, CallProvider(w)
  PROVE  /\ Step(w) /\ UNCHANGED <<body, run, priced>>
         /\ pc[w] = "calling" /\ pc'[w] # "calling"
         /\ calls' = [calls EXCEPT ![run[w].attempts] = calls[run[w].attempts] + 1]
  <1>1. Think(w, run[w], "awaiting") /\ run[w] \in Body
    BY DEF CallProvider, TypeInv, Local
  <1>2. run' = run
    BY <1>1 DEF Think, TypeInv, Local
  <1> QED
    BY <1>1, <1>2, ThinkStep DEF CallProvider, Labels, Awaits

LEMMA AnswerStep ==
  ASSUME TypeInv, NEW w \in Workers,
         \/ \E p \in Contents, cost \in BOOLEAN : Respond(w, p, cost)
         \/ \E cost \in BOOLEAN : Reject(w, cost)
  PROVE  /\ Step(w) /\ UNCHANGED <<body, calls>>
         /\ pc'[w] # "calling"
         /\ run'[w].attempts = run[w].attempts
         /\ \/ priced' = priced /\ run'[w].known = run[w].known
            \/ priced' = priced + 1 /\ run'[w].known = run[w].known + 1
  <1>1. PICK cost \in BOOLEAN :
          Reject(w, cost) \/ \E p \in Contents : Respond(w, p, cost)
    OBVIOUS
  <1> DEFINE r == Settled(run[w], cost)
  <1>2. run[w] \in Body /\ Booked(run[w]) /\ run[w].unknown > 0 /\ pc[w] = "awaiting"
    BY <1>1 DEF TypeInv, Local, Fits, Reject, Respond
  <1>3. /\ r \in Body /\ r.attempts = run[w].attempts
        /\ r.known = IF cost THEN run[w].known + 1 ELSE run[w].known
    BY <1>2, SettledUpdate
  <1>4. Price(cost)
    BY <1>1 DEF Reject, Respond
  <1>5. \E l \in {"failed", "stopping", "fixing"} :
          \/ Think(w, r, l)
          \/ \E p \in Contents :
               Think(w, [r EXCEPT !.digest = p, !.proposal = p, !.pending = TRUE], l)
    BY <1>1 DEF Reject, Respond
  <1> HIDE DEF r
  <1>6. \E l \in {"failed", "stopping", "fixing"}, b \in Body :
          Think(w, b, l) /\ b.attempts = r.attempts /\ b.known = r.known
    <2>1. CASE \E l \in {"failed", "stopping", "fixing"} : Think(w, r, l)
      BY <1>3, <2>1
    <2>2. ASSUME NEW l \in {"failed", "stopping", "fixing"}, NEW p \in Contents,
                 Think(w, [r EXCEPT !.digest = p, !.proposal = p, !.pending = TRUE], l)
          PROVE  \E m \in {"failed", "stopping", "fixing"}, b \in Body :
                   Think(w, b, m) /\ b.attempts = r.attempts /\ b.known = r.known
      <3> DEFINE b == [r EXCEPT !.digest = p, !.proposal = p, !.pending = TRUE]
      <3>1. b \in Body /\ b.attempts = r.attempts /\ b.known = r.known
        BY <1>3 DEF Body
      <3>2. Think(w, b, l)
        BY <2>2
      <3> HIDE DEF b
      <3> QED
        BY <3>1, <3>2
    <2> QED
      BY <1>5, <2>1, <2>2
  <1>7. PICK l \in {"failed", "stopping", "fixing"}, b \in Body :
          Think(w, b, l) /\ b.attempts = r.attempts /\ b.known = r.known
    BY <1>6
  <1>8. Step(w) /\ pc'[w] = l /\ run'[w] = b /\ body' = body
    BY <1>7, <1>2, ThinkStep DEF Labels, Awaits
  <1> QED
    BY <1>3, <1>4, <1>7, <1>8 DEF Price

LEMMA LoadStep ==
  ASSUME TypeInv, NEW w \in Workers, NEW timeUp \in BOOLEAN, Load(w, timeUp)
  PROVE  /\ pc[w] = "claimed" /\ pc'[w] \notin {"idle", "claimed", "calling"}
         /\ \A v \in Workers \ {w} : pc'[v] = pc[v] /\ run'[v] = run[v]
         /\ run'[w] = body
         /\ body.state = "COMPLETED" => pc'[w] = "done"
         /\ UNCHANGED <<body, owner, leaseLive, issued, token, calls, priced>>
  BY DEF Load, Goto, TypeInv, Local, store, ghosts

LEMMA EndStep ==
  ASSUME TypeInv, NEW w \in Workers, Release(w) \/ Crash(w)
  PROVE  /\ pc'[w] = "idle" /\ run'[w] = NewRun /\ token'[w] = NoGrant
         /\ \A v \in Workers \ {w} :
              pc'[v] = pc[v] /\ run'[v] = run[v] /\ token'[v] = token[v]
         /\ \/ UNCHANGED <<owner, leaseLive>>
            \/ owner = token[w] /\ owner' = NoGrant /\ leaseLive' = FALSE
         /\ UNCHANGED <<body, issued, calls, priced>>
  <1>1. Forget(w) /\ pc \in [Workers -> Labels] /\ run \in [Workers -> Body]
        /\ token \in [Workers -> Nat]
    BY DEF Release, Crash, TypeInv, Local, Globals
  <1>2. /\ pc'[w] = "idle" /\ run'[w] = NewRun /\ token'[w] = NoGrant
        /\ \A v \in Workers \ {w} :
             pc'[v] = pc[v] /\ run'[v] = run[v] /\ token'[v] = token[v]
    BY <1>1 DEF Forget, Goto
  <1> QED
    BY <1>2 DEF Release, Crash, store, ghosts

LEMMA ClaimStep ==
  ASSUME TypeInv, NEW w \in Workers, NEW resume \in BOOLEAN, Claim(w, resume)
  PROVE  /\ pc[w] = "idle" /\ pc'[w] = "claimed"
         /\ \A v \in Workers \ {w} : pc'[v] = pc[v] /\ token'[v] = token[v]
         /\ issued' = issued + 1 /\ owner' = issued' /\ token'[w] = issued'
         /\ leaseLive'
         /\ UNCHANGED <<body, run, calls, priced>>
  BY DEF Claim, Goto, TypeInv, Local, Globals

\* Every step is of one of these kinds.
LEMMA Kinds ==
  ASSUME TypeInv, [Next]_vars
  PROVE  \/ \E w \in Workers :
              \/ Quiet(w) \/ Reserve(w) \/ CallProvider(w) \/ Release(w) \/ Crash(w)
              \/ HeartbeatFails(w)
              \/ \E timeUp \in BOOLEAN : Load(w, timeUp)
              \/ \E resume \in BOOLEAN : Claim(w, resume)
              \/ \E p \in Contents, cost \in BOOLEAN : Respond(w, p, cost)
              \/ \E cost \in BOOLEAN : Reject(w, cost)
         \/ \E c \in {"pause", "cancel"} : Control(c)
         \/ LeaseExpires \/ BranchDeleted \/ UNCHANGED vars
  BY QuietSteps, Zenon DEF Next

\* A step no execution takes leaves their records and their tokens alone.
LEMMA OutsideStep ==
  ASSUME TypeInv,
         \/ \E c \in {"pause", "cancel"} : Control(c)
         \/ \E w \in Workers : HeartbeatFails(w)
         \/ LeaseExpires \/ BranchDeleted \/ UNCHANGED vars
  PROVE  /\ UNCHANGED <<pc, run, token, owner, issued, calls, priced>>
         /\ body'.attempts = body.attempts /\ body'.known = body.known
         /\ body'.state = "COMPLETED" <=> body.state = "COMPLETED"
         /\ body.state = "COMPLETED" => body' = body
         /\ leaseLive' => leaseLive
  <1>1. CASE \E c \in {"pause", "cancel"} : Control(c)
    <2>1. PICK c \in {"pause", "cancel"} : Control(c)
      BY <1>1
    <2>2. /\ StateAfterCancel(body.state) \in RunState
          /\ StateAfterCancel(body.state) = "COMPLETED" <=> body.state = "COMPLETED"
      BY DEF StateAfterCancel, Body, RunState, Delivery, TypeInv
    <2>3. body' = body \/ body' = [body EXCEPT !.state = StateAfterCancel(body.state)]
      BY <2>1 DEF Control, TypeInv, Body
    <2>4. /\ body'.attempts = body.attempts /\ body'.known = body.known
          /\ body'.state = "COMPLETED" <=> body.state = "COMPLETED"
      BY <2>2, <2>3 DEF TypeInv, Body
    <2>5. body.state = "COMPLETED" => body' = body
      BY <2>3 DEF StateAfterCancel, TypeInv, Body
    <2> QED
      BY <2>1, <2>4, <2>5 DEF Control, worker, ghosts
  <1>2. CASE \E w \in Workers : HeartbeatFails(w)
    BY <1>2 DEF HeartbeatFails, store, ghosts
  <1>3. CASE LeaseExpires \/ BranchDeleted \/ UNCHANGED vars
    BY <1>3 DEF LeaseExpires, BranchDeleted, vars, store, worker, ghosts
  <1> QED
    BY <1>1, <1>2, <1>3

-----------------------------------------------------------------------------
(* Layer 2: the owner of the row is ahead of it, and a completed row is final *)

Tokens ==
  /\ owner \in {NoGrant, issued}
  /\ leaseLive => owner # NoGrant
  /\ \A w \in Workers : token[w] <= issued /\ (pc[w] = "idle" <=> token[w] = NoGrant)
  /\ \A v, w \in Workers : v # w /\ token[v] # NoGrant => token[v] # token[w]

Current(w) == token[w] # NoGrant /\ owner = token[w]

\* A stale worker may be far behind the row; the owner never is.
Ahead ==
  \A w \in Workers : Current(w) /\ pc[w] # "claimed" => run[w].attempts >= body.attempts

Finished ==
  body.state = "COMPLETED" => \A w \in Workers : Current(w) => pc[w] \in {"claimed", "done"}

OwnerInv == Tokens /\ Ahead /\ Finished

LEMMA FencedIsCurrent ==
  ASSUME Tokens, NEW w \in Workers, Fenced(w)
  PROVE  Current(w)
  BY DEF Tokens, Fenced, Current

LEMMA InitOwner == Init => OwnerInv
  BY DEF Init, OwnerInv, Tokens, Ahead, Finished, Current, NewRun

\* What a step of an execution does to this layer depends only on its attempts.
LEMMA StepOwner ==
  ASSUME TypeInv, TypeInv', OwnerInv, NEW w \in Workers, Step(w),
         run'[w].attempts >= run[w].attempts
  PROVE  OwnerInv' /\ body'.attempts >= body.attempts
         /\ (body.state = "COMPLETED" => body' = body)
<1>1. /\ body.attempts \in Nat /\ body'.attempts \in Nat
      /\ \A v \in Workers : run[v].attempts \in Nat /\ run'[v].attempts \in Nat
  BY DEF TypeInv, Local, Body
<1>2. Tokens'
  BY DEF OwnerInv, Tokens, Step
<1>3. Current(w) => run[w].attempts >= body.attempts
  BY DEF OwnerInv, Ahead, Step
<1>4. body' # body => /\ Current(w) /\ body' = run'[w]
                      /\ body'.state = "COMPLETED" => pc'[w] = "done"
  BY FencedIsCurrent DEF OwnerInv, Step
<1>5. \A v \in Workers : Current(v)' <=> Current(v)
  BY DEF Step, Current
<1>6. \A v \in Workers : Current(w) /\ Current(v) => v = w
  BY DEF OwnerInv, Tokens, Current
<1>7. body'.attempts >= body.attempts
  BY <1>1, <1>3, <1>4
<1>8. Ahead'
  <2> SUFFICES ASSUME NEW v \in Workers, Current(v)', pc'[v] # "claimed"
               PROVE  run'[v].attempts >= body'.attempts
    BY DEF Ahead
  <2>1. CASE v = w
    BY <1>1, <1>3, <1>4, <1>5, <2>1
  <2>2. CASE v # w
    <3>1. body' = body
      BY <1>4, <1>5, <1>6, <2>2
    <3>2. pc'[v] = pc[v] /\ run'[v] = run[v]
      BY <2>2 DEF Step
    <3> QED
      BY <1>5, <3>1, <3>2 DEF OwnerInv, Ahead
  <2> QED
    BY <2>1, <2>2
<1>9. body.state = "COMPLETED" => ~Current(w)
  BY DEF OwnerInv, Finished, Step
<1>10. Finished'
  <2> SUFFICES ASSUME body'.state = "COMPLETED", NEW v \in Workers, Current(v)'
               PROVE  pc'[v] \in {"claimed", "done"}
    BY DEF Finished
  <2>1. CASE body' # body
    BY <1>4, <1>5, <1>6, <2>1
  <2>2. CASE body' = body
    <3>1. v # w /\ pc[v] \in {"claimed", "done"}
      BY <1>5, <1>9, <2>2 DEF OwnerInv, Finished
    <3> QED
      BY <3>1 DEF Step
  <2> QED
    BY <2>1, <2>2
<1> QED
  BY <1>2, <1>4, <1>7, <1>8, <1>9, <1>10 DEF OwnerInv

LEMMA NextOwner ==
  ASSUME TypeInv, TypeInv', OwnerInv, [Next]_vars
  PROVE  OwnerInv' /\ body'.attempts >= body.attempts
         /\ (body.state = "COMPLETED" => body' = body)
<1>T. /\ body.attempts \in Nat
      /\ issued \in Nat /\ token \in [Workers -> Nat]
      /\ \A w \in Workers : run[w].attempts \in Nat
  BY DEF TypeInv, Globals, Local, Body
<1>1. ASSUME NEW w \in Workers,
             \/ Quiet(w) \/ Reserve(w) \/ CallProvider(w)
             \/ \E p \in Contents, cost \in BOOLEAN : Respond(w, p, cost)
             \/ \E cost \in BOOLEAN : Reject(w, cost)
      PROVE  OwnerInv' /\ body'.attempts >= body.attempts
             /\ (body.state = "COMPLETED" => body' = body)
  <2>1. Step(w) /\ run'[w].attempts >= run[w].attempts
    <3>1. CASE Quiet(w)
      BY <1>T, <3>1 DEF Quiet
    <3>2. CASE Reserve(w)
      BY <1>T, <3>2, ReserveStep
    <3>3. CASE CallProvider(w)
      BY <1>T, <3>3, CallStep
    <3>4. CASE \/ \E p \in Contents, cost \in BOOLEAN : Respond(w, p, cost)
               \/ \E cost \in BOOLEAN : Reject(w, cost)
      BY <1>T, <3>4, AnswerStep
    <3> QED
      BY <1>1, <3>1, <3>2, <3>3, <3>4
  <2> QED
    BY <2>1, StepOwner
<1>2. ASSUME NEW w \in Workers, NEW timeUp \in BOOLEAN, Load(w, timeUp)
      PROVE  OwnerInv' /\ body' = body
  <2>1. /\ pc[w] = "claimed" /\ pc'[w] \notin {"idle", "claimed"}
        /\ \A v \in Workers \ {w} : pc'[v] = pc[v] /\ run'[v] = run[v]
        /\ run'[w] = body
        /\ body.state = "COMPLETED" => pc'[w] = "done"
        /\ UNCHANGED <<body, owner, leaseLive, issued, token>>
    BY <1>2, LoadStep
  <2>2. Tokens'
    BY <2>1 DEF OwnerInv, Tokens
  <2>3. \A v \in Workers : Current(v)' <=> Current(v)
    BY <2>1 DEF Current
  <2>4. Ahead'
    BY <1>T, <2>1, <2>3 DEF OwnerInv, Ahead
  <2>5. Finished'
    BY <2>1, <2>3 DEF OwnerInv, Finished
  <2> QED
    BY <2>1, <2>2, <2>4, <2>5 DEF OwnerInv
<1>3. ASSUME NEW w \in Workers, NEW resume \in BOOLEAN, Claim(w, resume)
      PROVE  OwnerInv' /\ body' = body
  <2>1. /\ pc[w] = "idle" /\ pc'[w] = "claimed"
        /\ \A v \in Workers \ {w} : pc'[v] = pc[v] /\ token'[v] = token[v]
        /\ issued' = issued + 1 /\ owner' = issued' /\ token'[w] = issued'
        /\ UNCHANGED <<body, run>>
    BY <1>3, ClaimStep
  <2>2. \A v \in Workers : token[v] <= issued /\ token[v] \in Nat
    BY <1>T DEF OwnerInv, Tokens
  <2>3. \A v \in Workers : Current(v)' <=> v = w
    BY <1>T, <2>1, <2>2 DEF Current
  <2>4. Tokens'
    BY <1>T, <2>1, <2>2 DEF OwnerInv, Tokens
  <2> QED
    BY <2>1, <2>3, <2>4 DEF OwnerInv, Ahead, Finished
<1>4. ASSUME NEW w \in Workers, Release(w) \/ Crash(w)
      PROVE  OwnerInv' /\ body' = body
  <2>1. /\ pc'[w] = "idle" /\ run'[w] = NewRun /\ token'[w] = NoGrant
        /\ \A v \in Workers \ {w} :
             pc'[v] = pc[v] /\ run'[v] = run[v] /\ token'[v] = token[v]
        /\ \/ UNCHANGED <<owner, leaseLive>>
           \/ owner = token[w] /\ owner' = NoGrant /\ leaseLive' = FALSE
        /\ UNCHANGED <<body, issued>>
    BY <1>4, EndStep
  <2>2. Tokens'
    BY <1>T, <2>1 DEF OwnerInv, Tokens
  <2>3. \A v \in Workers : Current(v)' => v # w /\ Current(v)
    BY <2>1 DEF Current
  <2> QED
    BY <2>1, <2>2, <2>3 DEF OwnerInv, Ahead, Finished
<1>5. ASSUME \/ \E c \in {"pause", "cancel"} : Control(c)
             \/ \E w \in Workers : HeartbeatFails(w)
             \/ LeaseExpires \/ BranchDeleted \/ UNCHANGED vars
      PROVE  OwnerInv' /\ body'.attempts = body.attempts
             /\ (body.state = "COMPLETED" => body' = body)
  <2>1. /\ UNCHANGED <<pc, run, token, owner, issued>>
        /\ body'.attempts = body.attempts
        /\ body'.state = "COMPLETED" <=> body.state = "COMPLETED"
        /\ body.state = "COMPLETED" => body' = body
        /\ leaseLive' => leaseLive
    BY <1>5, OutsideStep
  <2>2. Tokens'
    BY <2>1 DEF OwnerInv, Tokens
  <2>3. \A v \in Workers : Current(v)' <=> Current(v)
    BY <2>1 DEF Current
  <2> QED
    BY <2>1, <2>2, <2>3 DEF OwnerInv, Ahead, Finished
<1> QED
  BY <1>T, <1>1, <1>2, <1>3, <1>4, <1>5, Kinds

LEMMA AlwaysOwner == Safety => [](TypeInv /\ OwnerInv)
<1>1. TypeInv /\ TypeInv' /\ OwnerInv /\ [Next]_vars => OwnerInv'
  BY NextOwner
<1> QED
  BY <1>1, InitOwner, TypeCorrect, PTL DEF Safety

\* A completed run is final: no stale worker, retry or cancellation rewrites it,
\* however many executions of it are still going on.
THEOREM CompletionIsFinal == Safety => CompletedIsFinal
<1>1. TypeInv /\ TypeInv' /\ OwnerInv /\ [Next]_vars
        => [body.state = "COMPLETED" => body' = body]_vars
  BY NextOwner
<1> QED
  BY <1>1, AlwaysOwner, PTL DEF Safety, CompletedIsFinal

-----------------------------------------------------------------------------
(* Layer 3: the provider's budget and what it cost                          *)

Calling ==
  /\ \A w \in Workers : pc[w] = "calling" =>
       /\ run[w].attempts \in 1..MaxAttempts
       /\ run[w].attempts <= body.attempts
       /\ calls[run[w].attempts] = 0
  /\ \A v, w \in Workers : v # w /\ pc[v] = "calling" /\ pc[w] = "calling"
       => run[v].attempts # run[w].attempts

Called == \A n \in AttemptNumbers : calls[n] <= 1 /\ (calls[n] > 0 => n <= body.attempts)

Priced == body.known <= priced /\ \A w \in Workers : run[w].known <= priced

ProviderInv == Calling /\ Called /\ Priced

LEMMA InitProvider == Init => ProviderInv
  BY DEF Init, ProviderInv, Calling, Called, Priced, NewRun

\* A step that begins no call and answers none: the row's attempts only grow.
LEMMA KeepsProvider ==
  ASSUME TypeInv, TypeInv', ProviderInv, UNCHANGED <<calls, priced>>,
         body'.attempts >= body.attempts, body'.known <= priced,
         \A w \in Workers : pc'[w] = "calling" => pc[w] = "calling" /\ run'[w] = run[w],
         \A w \in Workers : run'[w].known <= priced
  PROVE  ProviderInv'
<1>1. /\ body.attempts \in Nat /\ body'.attempts \in Nat
      /\ \A w \in Workers : run[w].attempts \in Nat
  BY DEF TypeInv, Local, Body
<1>2. Calling'
  BY <1>1 DEF ProviderInv, Calling
<1>3. Called'
  BY <1>1 DEF ProviderInv, Called, AttemptNumbers
<1> QED
  BY <1>2, <1>3 DEF ProviderInv, Priced

LEMMA NextProvider ==
  ASSUME TypeInv, TypeInv', OwnerInv, ProviderInv, [Next]_vars
  PROVE  ProviderInv'
<1> USE TaskRunAssumption
<1>T. /\ body.attempts \in Nat /\ body'.attempts \in Nat
      /\ body.known \in Nat /\ body'.known \in Nat
      /\ \A w \in Workers : /\ run[w].attempts \in Nat /\ run'[w].attempts \in Nat
                            /\ run[w].known \in Nat /\ run'[w].known \in Nat
      /\ calls \in [AttemptNumbers -> Nat] /\ priced \in Nat /\ priced' \in Nat
  BY DEF TypeInv, Globals, Local, Body
<1>M. body'.attempts >= body.attempts
  BY NextOwner
<1>P. body.known <= priced /\ \A v \in Workers : run[v].known <= priced
  BY DEF ProviderInv, Priced
<1>1. ASSUME NEW w \in Workers, Quiet(w)
      PROVE  ProviderInv'
  <2>1. /\ pc'[w] # "calling" /\ run'[w].known = run[w].known
        /\ \A v \in Workers \ {w} : pc'[v] = pc[v] /\ run'[v] = run[v]
        /\ body' = body \/ body' = run'[w]
        /\ UNCHANGED <<calls, priced>>
    BY <1>1 DEF Quiet, Step
  <2>2. body'.known <= priced /\ \A v \in Workers : run'[v].known <= priced
    BY <1>P, <2>1
  <2> QED
    BY <1>M, <2>1, <2>2, KeepsProvider
<1>2. ASSUME NEW w \in Workers, Reserve(w)
      PROVE  ProviderInv'
  <2>1. /\ Step(w)
        /\ run'[w].attempts = run[w].attempts + 1 /\ run'[w].attempts <= MaxAttempts
        /\ run'[w].known = run[w].known /\ pc[w] = "reserving"
        /\ pc'[w] = "calling" => body' = run'[w] /\ Fenced(w)
        /\ UNCHANGED <<calls, priced>>
    BY <1>2, ReserveStep
  <2>2. body' = body \/ body' = run'[w]
    BY <2>1 DEF Step
  <2>3. body'.known <= priced /\ \A v \in Workers : run'[v].known <= priced
    BY <1>P, <2>1, <2>2 DEF Step
  <2>4. CASE pc'[w] # "calling"
    BY <1>M, <2>1, <2>3, <2>4, KeepsProvider DEF Step
  <2>5. CASE pc'[w] = "calling"
    <3>1. run[w].attempts >= body.attempts
      BY <2>1, <2>5, FencedIsCurrent DEF OwnerInv, Ahead
    <3> DEFINE n == run'[w].attempts
    <3>2. n \in 1..MaxAttempts /\ n > body.attempts /\ n = body'.attempts
      BY <1>T, <2>1, <2>5, <3>1
    <3>3. calls[n] = 0
      <4>1. body.attempts \in Nat /\ calls[n] \in Nat /\ n \in AttemptNumbers
        BY <1>T, <3>2 DEF AttemptNumbers
      <4>2. calls[n] > 0 => n <= body.attempts
        BY <1>P, <4>1 DEF ProviderInv, Called
      <4> HIDE DEF n
      <4> QED
        BY <1>T, <3>2, <4>1, <4>2
    <3>4. \A v \in Workers \ {w} : pc'[v] = pc[v] /\ run'[v] = run[v]
      BY <2>1 DEF Step
    <3>5. \A v \in Workers \ {w} : pc'[v] = "calling" =>
            /\ run'[v].attempts \in 1..MaxAttempts /\ calls[run'[v].attempts] = 0
            /\ run'[v].attempts <= body.attempts
      BY <3>4 DEF ProviderInv, Calling
    <3> HIDE DEF n
    <3>6. \A v \in Workers : pc'[v] = "calling" =>
            /\ run'[v].attempts \in 1..MaxAttempts
            /\ run'[v].attempts <= body'.attempts
            /\ calls[run'[v].attempts] = 0
      <4> SUFFICES ASSUME NEW v \in Workers, pc'[v] = "calling"
                   PROVE  /\ run'[v].attempts \in 1..MaxAttempts
                          /\ run'[v].attempts <= body'.attempts
                          /\ calls[run'[v].attempts] = 0
        OBVIOUS
      <4>1. CASE v = w
        BY <3>2, <3>3, <4>1 DEF n
      <4>2. CASE v # w
        BY <1>T, <1>M, <3>5, <4>2
      <4> QED
        BY <4>1, <4>2
    <3>7. \A u, v \in Workers : u # v /\ pc'[u] = "calling" /\ pc'[v] = "calling"
            => run'[u].attempts # run'[v].attempts
      <4> SUFFICES ASSUME NEW u \in Workers, NEW v \in Workers, u # v,
                          pc'[u] = "calling", pc'[v] = "calling"
                   PROVE  run'[u].attempts # run'[v].attempts
        OBVIOUS
      <4>1. CASE u = w \/ v = w
        BY <1>T, <3>2, <3>5, <4>1 DEF n
      <4>2. CASE u # w /\ v # w
        BY <3>4, <4>2 DEF ProviderInv, Calling
      <4> QED
        BY <4>1, <4>2
    <3>8. Calling'
      BY <2>1, <3>6, <3>7 DEF Calling
    <3>9. Called'
      BY <1>T, <1>M, <2>1 DEF ProviderInv, Called, AttemptNumbers
    <3> QED
      BY <2>1, <2>3, <3>8, <3>9 DEF ProviderInv, Priced
  <2> QED
    BY <2>4, <2>5
<1>3. ASSUME NEW w \in Workers, CallProvider(w)
      PROVE  ProviderInv'
  <2>1. /\ Step(w) /\ UNCHANGED <<body, run, priced>>
        /\ pc[w] = "calling" /\ pc'[w] # "calling"
        /\ calls' = [calls EXCEPT ![run[w].attempts] = calls[run[w].attempts] + 1]
    BY <1>3, CallStep
  <2> DEFINE n == run[w].attempts
  <2>2. n \in AttemptNumbers /\ n <= body.attempts /\ calls[n] = 0
    BY <1>T, <2>1 DEF ProviderInv, Calling, AttemptNumbers
  <2> HIDE DEF n
  <2>3. calls'[n] = 1 /\ \A m \in AttemptNumbers : m # n => calls'[m] = calls[m]
    BY <1>T, <2>1, <2>2 DEF n
  <2>4. Called'
    BY <2>1, <2>2, <2>3 DEF ProviderInv, Called
  <2>5. \A v \in Workers : pc'[v] = "calling" =>
          /\ v # w /\ pc[v] = "calling" /\ run[v].attempts # n
          /\ run[v].attempts \in AttemptNumbers
    BY <1>T, <2>1 DEF ProviderInv, Calling, Step, AttemptNumbers, n
  <2>6. Calling'
    BY <2>1, <2>3, <2>5 DEF ProviderInv, Calling
  <2> QED
    BY <1>P, <2>1, <2>4, <2>6 DEF ProviderInv, Priced
<1>4. ASSUME NEW w \in Workers,
             \/ \E p \in Contents, cost \in BOOLEAN : Respond(w, p, cost)
             \/ \E cost \in BOOLEAN : Reject(w, cost)
      PROVE  ProviderInv'
  <2>1. /\ Step(w) /\ UNCHANGED <<body, calls>>
        /\ pc'[w] # "calling"
        /\ \/ priced' = priced /\ run'[w].known = run[w].known
           \/ priced' = priced + 1 /\ run'[w].known = run[w].known + 1
    BY <1>4, AnswerStep
  <2>2. \A v \in Workers \ {w} : pc'[v] = pc[v] /\ run'[v] = run[v]
    BY <2>1 DEF Step
  <2>3. Calling' /\ Called'
    BY <2>1, <2>2 DEF ProviderInv, Calling, Called
  <2>4. Priced'
    BY <1>T, <1>P, <2>1, <2>2 DEF Priced
  <2> QED
    BY <2>3, <2>4 DEF ProviderInv
<1>5. ASSUME NEW w \in Workers, NEW timeUp \in BOOLEAN, Load(w, timeUp)
      PROVE  ProviderInv'
  BY <1>5, <1>M, <1>P, LoadStep, KeepsProvider
<1>6. ASSUME NEW w \in Workers, NEW resume \in BOOLEAN, Claim(w, resume)
      PROVE  ProviderInv'
  BY <1>6, <1>M, <1>P, ClaimStep, KeepsProvider
<1>7. ASSUME NEW w \in Workers, Release(w) \/ Crash(w)
      PROVE  ProviderInv'
  <2>0. run'[w] = NewRun /\ NewRun.known = 0
    BY <1>7, EndStep DEF NewRun
  <2>1. run'[w].known <= priced
    BY <1>T, <2>0
  <2> QED
    BY <1>7, <1>M, <1>P, <2>1, EndStep, KeepsProvider
<1>8. ASSUME \/ \E c \in {"pause", "cancel"} : Control(c)
             \/ \E w \in Workers : HeartbeatFails(w)
             \/ LeaseExpires \/ BranchDeleted \/ UNCHANGED vars
      PROVE  ProviderInv'
  BY <1>8, <1>M, <1>P, OutsideStep, KeepsProvider
<1> QED
  BY <1>1, <1>2, <1>3, <1>4, <1>5, <1>6, <1>7, <1>8, Kinds

LEMMA AlwaysProvider == Safety => [](TypeInv /\ OwnerInv /\ ProviderInv)
<1>1. TypeInv /\ TypeInv' /\ OwnerInv /\ ProviderInv /\ [Next]_vars => ProviderInv'
  BY NextProvider
<1> QED
  BY <1>1, InitProvider, AlwaysOwner, PTL DEF Safety

\* The provider is invoked at most once under each attempt number, only under
\* numbers the row had recorded before, and never beyond the contract, for any
\* number of workers that crash, hang and replace each other.
THEOREM BudgetHolds == Safety => []BudgetRespected
<1>1. TypeInv /\ ProviderInv => BudgetRespected
  BY DEF TypeInv, BodyFits, Booked, ProviderInv, Called, BudgetRespected
<1> QED
  BY <1>1, AlwaysProvider, PTL

\* No attempt is free: each one in the row is either counted unknown or priced by
\* an answer that really came.
THEOREM CostIsAccounted == Safety => []CostAccounted
<1>1. TypeInv /\ ProviderInv => CostAccounted
  BY DEF TypeInv, BodyFits, Booked, ProviderInv, Priced, CostAccounted
<1> QED
  BY <1>1, AlwaysProvider, PTL

-----------------------------------------------------------------------------
(* Layer 4: what a worker does after the guard would refuse it               *)

\* Places from which an effect is reached without another guard.
Cleared == {"reserving", "calling", "postBranch", "postPr"}

\* A guard that refuses a worker refuses it until its next claim, so what it had
\* been cleared for is the last effect it has.
LateFits(w) ==
  /\ late[w] <= 1
  /\ late[w] = 1 /\ pc[w] # "idle" => ~Guard(w) /\ pc[w] \notin Cleared

LateInv == \A w \in Workers : LateFits(w)

\* No step brings back the guard of a worker that is under way.
LEMMA GuardIsFinal ==
  ASSUME TypeInv, Tokens, [Next]_vars, NEW w \in Workers, pc[w] # "idle", pc'[w] # "idle",
         Guard(w)'
  PROVE  Guard(w)
<1>T. /\ issued \in Nat /\ token \in [Workers -> Nat] /\ owner \in Nat
      /\ token[w] <= issued /\ token[w] # NoGrant
      /\ pc \in [Workers -> Labels]
      /\ \A v \in Workers : pc[v] = "idle" <=> token[v] = NoGrant
  BY DEF TypeInv, Globals, Local, Tokens
<1>1. CASE \E v \in Workers, resume \in BOOLEAN : Claim(v, resume)
  <2>1. PICK v \in Workers, resume \in BOOLEAN : Claim(v, resume)
    BY <1>1
  <2>2. v # w /\ owner' = issued + 1 /\ token'[w] = token[w]
    BY <1>T, <2>1 DEF Claim
  <2>3. owner' = token'[w]
    BY DEF Guard
  <2>4. issued + 1 = token[w]
    BY <2>2, <2>3
  <2>5. token[w] \in Nat
    BY <1>T
  <2> QED
    BY <1>T, <2>4, <2>5
<1>2. CASE \E v \in Workers : Release(v) \/ Crash(v)
  <2>1. PICK v \in Workers : Release(v) \/ Crash(v)
    BY <1>2
  <2>2. v # w
    BY <1>T, <2>1 DEF Release, Crash, Forget, Goto
  <2>3. /\ token'[w] = token[w] /\ (owner' = owner \/ owner' = NoGrant)
        /\ control' = control /\ (w \in leaseLost' <=> w \in leaseLost)
    BY <1>T, <2>1, <2>2 DEF Release, Crash, Forget, store
  <2> QED
    BY <1>T, <2>3 DEF Guard
<1>3. CASE \E c \in {"pause", "cancel"} : Control(c)
  BY <1>3 DEF Control, Guard
<1>4. CASE LeaseExpires \/ BranchDeleted \/ UNCHANGED vars
             \/ \E v \in Workers : HeartbeatFails(v)
  BY <1>4 DEF LeaseExpires, BranchDeleted, HeartbeatFails, vars, store, worker, Guard
<1>5. ASSUME NEW v \in Workers, WorkerStep(v), ~Release(v)
      PROVE  Guard(w)
  <2>1. UNCHANGED <<owner, control, token, leaseLost>>
    <3>1. CASE \E timeUp \in BOOLEAN : Load(v, timeUp)
      BY <3>1 DEF Load, store
    <3>2. CASE \/ RecoverProvider(v) \/ EnterBaseline(v) \/ Reserve(v) \/ Fix(v) \/ Retry(v)
               \/ Stop(v) \/ Complete(v) \/ Declare(v) \/ Record(v)
      BY <3>2 DEF RecoverProvider, EnterBaseline, Reserve, Fix, Retry, Stop, Complete,
                  Declare, Record, SaveState, Save, unsaved
    <3>3. CASE \/ Start(v) \/ Prepare(v) \/ Loop(v) \/ CallProvider(v) \/ Intent(v)
               \/ Reconcile(v) \/ CheckBranch(v) \/ CheckPr(v) \/ Catch(v) \/ Fail(v)
      BY <3>3 DEF Start, Prepare, Loop, CallProvider, Intent, Reconcile, CheckBranch,
                  CheckPr, Catch, Fail, Checked, Think, store
    <3>4. CASE \/ \E result \in {"failing", "other"} : BaselineDone(v, result)
               \/ \E p \in Contents, cost \in BOOLEAN : Respond(v, p, cost)
               \/ \E cost \in BOOLEAN : Reject(v, cost)
               \/ \E outcome \in Outcome : Verified(v, outcome)
      BY <3>4 DEF BaselineDone, Respond, Reject, Verified, Think, store
    <3>5. CASE \/ LookUp(v) \/ LookUpBranch(v)
               \/ \E answered \in BOOLEAN : PostBranch(v, answered) \/ PostPr(v, answered)
      BY <3>5 DEF LookUp, LookUpBranch, PostBranch, PostPr, store
    <3> QED
      BY <1>5, <3>1, <3>2, <3>3, <3>4, <3>5, Zenon DEF WorkerStep, Proceed
  <2> QED
    BY <2>1 DEF Guard
<1> QED
  BY <1>1, <1>2, <1>3, <1>4, <1>5 DEF Next

\* Of the steps of an execution those three begin an effect, and into a place
\* where one is cleared leads a guard alone, or the way from one to the next.
LEMMA ClearedSteps ==
  ASSUME TypeInv, NEW w \in Workers, WorkerStep(w)
  PROVE  /\ \A v \in Workers \ {w} : pc'[v] = pc[v]
         /\ pc'[w] \in Cleared => Guard(w) \/ (pc[w] = "reserving" /\ pc'[w] = "calling")
         /\ \/ late' = late
            \/ pc[w] \in Cleared /\ pc'[w] \notin Cleared /\ CountLate(w)
<1> USE DEF Cleared
<1>T. pc \in [Workers -> Labels] /\ pc[w] \in Labels
  BY DEF TypeInv, Local
<1>1. CASE \E timeUp \in BOOLEAN : Load(w, timeUp)
  BY <1>1, <1>T DEF Load, Goto, ghosts
<1>2. CASE \/ RecoverProvider(w) \/ EnterBaseline(w) \/ Reserve(w) \/ Fix(w) \/ Retry(w)
           \/ Stop(w) \/ Complete(w) \/ Declare(w) \/ Record(w)
  BY <1>2, <1>T
  DEF RecoverProvider, EnterBaseline, Reserve, Fix, Retry, Stop, Complete, Declare, Record,
      SaveState, Save, Goto, ghosts
<1>3. CASE Start(w) \/ Prepare(w) \/ Loop(w) \/ Intent(w) \/ Reconcile(w) \/ CheckBranch(w)
             \/ CheckPr(w) \/ Fail(w)
  BY <1>3, <1>T
  DEF Start, Prepare, Loop, Intent, Reconcile, CheckBranch, CheckPr, MayWrite, Fail, Checked,
      Think, Goto, ghosts
<1>4. CASE \/ \E result \in {"failing", "other"} : BaselineDone(w, result)
           \/ \E p \in Contents, cost \in BOOLEAN : Respond(w, p, cost)
           \/ \E cost \in BOOLEAN : Reject(w, cost)
           \/ \E outcome \in Outcome : Verified(w, outcome)
           \/ Catch(w)
  BY <1>4, <1>T
  DEF BaselineDone, Respond, Reject, Verified, Catch, Checked, Think, Goto, Price, Outcome,
      ghosts
<1>5. CASE CallProvider(w)
  BY <1>5, <1>T DEF CallProvider, Think, Goto
<1>6. CASE LookUp(w) \/ LookUpBranch(w)
  BY <1>6, <1>T DEF LookUp, LookUpBranch, Goto, ghosts
<1>7. CASE \E answered \in BOOLEAN : PostBranch(w, answered) \/ PostPr(w, answered)
  BY <1>7, <1>T DEF PostBranch, PostPr, Goto
<1>8. CASE Release(w)
  BY <1>8, <1>T DEF Release, Forget, Goto, ghosts
<1> QED
  BY <1>1, <1>2, <1>3, <1>4, <1>5, <1>6, <1>7, <1>8 DEF WorkerStep, Proceed

\* A step of an execution is taken by a worker that has claimed the row.
LEMMA Begun ==
  ASSUME NEW w \in Workers, WorkerStep(w)
  PROVE  pc[w] # "idle"
  BY DEF WorkerStep, Proceed, Load, Start, RecoverProvider, Prepare, EnterBaseline,
         BaselineDone, Loop, Reserve, CallProvider, Respond, Reject, Fix, Verified, Retry,
         Stop, Complete, Declare, Intent, Reconcile, LookUp, LookUpBranch, CheckBranch,
         CheckPr, PostBranch, PostPr, Catch, Record, Release, Fail, Awaits

LEMMA InitLate == Init => LateInv
<1> SUFFICES ASSUME Init, NEW w \in Workers PROVE LateFits(w)
  BY DEF LateInv
<1>1. late[w] = 0 /\ pc[w] = "idle"
  BY DEF Init
<1> QED
  BY <1>1 DEF LateFits

LEMMA NextLate ==
  ASSUME TypeInv, TypeInv', OwnerInv, LateInv, [Next]_vars
  PROVE  LateInv'
<1> SUFFICES ASSUME NEW w \in Workers PROVE LateFits(w)'
  BY DEF LateInv
<1>T. /\ late \in [Workers -> Nat] /\ late[w] \in Nat /\ LateFits(w) /\ Tokens
      /\ pc \in [Workers -> Labels]
  BY DEF TypeInv, Globals, Local, LateInv, OwnerInv
<1>G. pc[w] # "idle" /\ pc'[w] # "idle" /\ Guard(w)' => Guard(w)
  BY <1>T, GuardIsFinal
<1>1. ASSUME NEW v \in Workers, WorkerStep(v)
      PROVE  LateFits(w)'
  <2>1. /\ \A u \in Workers \ {v} : pc'[u] = pc[u]
        /\ pc'[v] \in Cleared => Guard(v) \/ (pc[v] = "reserving" /\ pc'[v] = "calling")
        /\ \/ late' = late
           \/ pc[v] \in Cleared /\ pc'[v] \notin Cleared /\ CountLate(v)
    BY <1>1, ClearedSteps
  <2>2. pc[v] # "idle"
    BY <1>1, Begun
  <2>3. CASE late'[w] = late[w]
    BY <1>T, <1>G, <2>1, <2>2, <2>3 DEF LateFits, Cleared
  <2>4. CASE late'[w] # late[w]
    <3>1. /\ w = v /\ ~Guard(w) /\ late'[w] = late[w] + 1
          /\ pc[w] \in Cleared /\ pc'[w] \notin Cleared
      BY <1>T, <2>1, <2>4 DEF CountLate
    <3>2. late[w] = 0
      BY <1>T, <2>2, <3>1 DEF LateFits
    <3> QED
      BY <1>G, <2>2, <3>1, <3>2 DEF LateFits
  <2> QED
    BY <2>3, <2>4
<1>2. ASSUME NEW v \in Workers, NEW resume \in BOOLEAN, Claim(v, resume)
      PROVE  LateFits(w)'
  <2>1. CASE v = w
    BY <1>T, <1>2, <2>1 DEF Claim, LateFits
  <2>2. CASE v # w
    <3>1. late'[w] = late[w] /\ pc'[w] = pc[w]
      BY <1>T, <1>2, <2>2 DEF Claim, Goto
    <3> QED
      BY <1>T, <1>G, <3>1 DEF LateFits
  <2> QED
    BY <2>1, <2>2
<1>3. ASSUME NEW v \in Workers, Crash(v)
      PROVE  LateFits(w)'
  <2>1. late' = late /\ (pc'[w] = pc[w] \/ pc'[w] = "idle")
    BY <1>T, <1>3 DEF Crash, Forget, Goto, ghosts
  <2> QED
    BY <1>T, <1>G, <2>1 DEF LateFits
<1>4. CASE \/ \E c \in {"pause", "cancel"} : Control(c)
           \/ \E v \in Workers : HeartbeatFails(v)
           \/ LeaseExpires \/ BranchDeleted \/ UNCHANGED vars
  <2>1. late' = late /\ pc' = pc
    BY <1>4
    DEF Control, HeartbeatFails, LeaseExpires, BranchDeleted, vars, worker, ghosts
  <2> QED
    BY <1>T, <1>G, <2>1 DEF LateFits
<1> QED
  BY <1>1, <1>2, <1>3, <1>4 DEF Next

\* After a pause, a cancellation or a takeover a worker starts at most the one
\* effect that had already passed its guard, for any number of workers and claims.
THEOREM LateEffectsAreBounded == Safety => []OneLateEffect
<1>1. TypeInv /\ TypeInv' /\ OwnerInv /\ LateInv /\ [Next]_vars => LateInv'
  BY NextLate
<1>2. LateInv => OneLateEffect
  BY DEF LateInv, LateFits, OneLateEffect
<1> QED
  BY <1>1, <1>2, InitLate, AlwaysOwner, PTL DEF Safety

-----------------------------------------------------------------------------
(* Layer 5: GitHub                                                           *)

\* From the saved intent to the pull request; where a branch is known to stand.
Posting == {"intent", "reconcile", "lookup", "lookupBranch", "checkBranch", "postBranch",
            "checkPr", "postPr"}
Opening == {"checkPr", "postPr"}

\* While there is no pull request nobody deletes the branch, so the one a worker
\* has found or made is still the one its pull request will be about.
RemoteFits(w) ==
  /\ sawPr[w] # None => sawPr[w] = pr
  /\ pc[w] \in Posting => run[w].accepted \in intents
  /\ pc[w] \in Opening /\ pr = None => branch = run[w].accepted
  /\ pc[w] = "completing" /\ mode = "pr" => pr = run[w].accepted

RowFits ==
  /\ body.state \in Delivery => body.accepted \in intents
  /\ body.state = "COMPLETED" /\ mode = "pr" => pr = body.accepted

Sent ==
  /\ branch \in intents \cup {None, Foreign}
  /\ pr \in intents \cup {None}

RemoteInv == Sent /\ RowFits /\ \A w \in Workers : RemoteFits(w)

\* Intents are only added, a branch stays while there is no pull request, and a
\* pull request stays.
Grows ==
  /\ mode' = mode
  /\ intents \subseteq intents'
  /\ pr' = None /\ branch # None => branch' = branch
  /\ pr # None => pr' = pr

LEMMA AcceptedIsContent ==
  ASSUME TypeInv, NEW w \in Workers, pc[w] \in Opening \cup {"completing"}
  PROVE  run[w].accepted # None
  BY DEF TypeInv, Local, Fits, Sending, Opening, Good, Proven

LEMMA OthersFit ==
  ASSUME TypeInv, NEW w \in Workers, RemoteFits(w), Grows,
         pc'[w] = pc[w], run'[w] = run[w], sawPr'[w] = sawPr[w]
  PROVE  RemoteFits(w)'
  BY AcceptedIsContent DEF RemoteFits, Grows, Opening

LEMMA RowStays ==
  ASSUME TypeInv, RowFits, Grows, body' = body
  PROVE  RowFits'
  <1>1. body.state = "COMPLETED" => body.accepted # None
    BY DEF TypeInv, BodyFits, Good, Proven
  <1> QED
    BY <1>1 DEF RowFits, Grows

\* A step of w that leaves GitHub alone and leads to no place of a delivery.
Ashore(w) ==
  /\ UNCHANGED <<mode, remote, intents, sawPr>>
  /\ \A v \in Workers \ {w} : pc'[v] = pc[v] /\ run'[v] = run[v]
  /\ pc'[w] \notin Posting
  /\ pc'[w] = "completing" => mode = "local"
  /\ body' = body \/ body'.state \notin Delivery \cup {"COMPLETED"}

LEMMA LocalFits ==
  ASSUME TypeInv, RemoteInv, NEW w \in Workers, Ashore(w)
  PROVE  RemoteInv'
<1>1. Grows /\ Sent'
  BY DEF Ashore, Grows, RemoteInv, Sent, remote
<1>2. RowFits'
  BY <1>1, RowStays DEF Ashore, RemoteInv, RowFits
<1>3. \A v \in Workers \ {w} : RemoteFits(v)'
  BY <1>1, OthersFit DEF Ashore, RemoteInv
<1>4. RemoteFits(w)'
  BY DEF Ashore, RemoteInv, RemoteFits, remote, Opening, Posting
<1> QED
  BY <1>1, <1>2, <1>3, <1>4 DEF RemoteInv

LEMMA AshoreSteps ==
  ASSUME TypeInv, NEW w \in Workers, WorkerStep(w)
  PROVE  \/ Ashore(w)
         \/ \E timeUp \in BOOLEAN : Load(w, timeUp)
         \/ Intent(w) \/ Reconcile(w) \/ LookUp(w) \/ LookUpBranch(w)
         \/ CheckBranch(w) \/ CheckPr(w)
         \/ \E answered \in BOOLEAN : PostBranch(w, answered) \/ PostPr(w, answered)
         \/ Declare(w) \/ Record(w) \/ Complete(w) \/ Release(w)
<1> USE DEF Posting
<1>T. pc \in [Workers -> Labels] /\ run \in [Workers -> Body] /\ run[w] \in Body
  BY DEF TypeInv, Local
<1>2. ASSUME NEW b, NEW l \in Labels \ (Posting \cup {"completing"}), Save(w, b, l, "failed"),
             UNCHANGED intents, b.state \notin Delivery \cup {"COMPLETED"}
      PROVE  Ashore(w)
  BY <1>T, <1>2 DEF Save, Goto, Ashore, unsaved
<1>3. CASE RecoverProvider(w)
  <2> DEFINE b == [run[w] EXCEPT !.state = "READY", !.costPending = FALSE,
                                 !.unknown = IF run[w].costPending THEN run[w].unknown
                                             ELSE run[w].unknown + 1]
  <2>1. Save(w, b, "preparing", "failed") /\ UNCHANGED ghosts
    BY <1>3, <1>T DEF RecoverProvider, Body
  <2>2. b.state = "READY"
    BY <1>T DEF Body
  <2> HIDE DEF b
  <2> QED
    BY <1>2, <2>1, <2>2 DEF ghosts, Labels, Awaits, Delivery
<1>4. CASE Reserve(w)
  <2>1. Reserved(run[w]).state = "GENERATING"
    BY <1>T DEF Reserved, Body
  <2> QED
    BY <1>2, <1>4, <2>1 DEF Reserve, ghosts, Labels, Awaits, Delivery
<1>5. CASE Fix(w)
  <2> DEFINE b == [run[w] EXCEPT !.candidate = run[w].proposal, !.state = "VERIFYING"]
  <2>1. Save(w, b, "verifying", "failed") /\ UNCHANGED ghosts
    BY <1>5 DEF Fix
  <2>2. b.state = "VERIFYING"
    BY <1>T DEF Body
  <2> HIDE DEF b
  <2> QED
    BY <1>2, <2>1, <2>2 DEF ghosts, Labels, Awaits, Delivery
<1>6. CASE EnterBaseline(w) \/ Retry(w) \/ Stop(w)
  <2>1. PICK s \in {"BASELINE", "READY", "WAITING_HUMAN"}, l \in {"baseline", "loop", "done"} :
          Save(w, [run[w] EXCEPT !.state = s], l, "failed")
    BY <1>6 DEF EnterBaseline, Retry, Stop, SaveState
  <2>2. [run[w] EXCEPT !.state = s].state = s
    BY <1>T DEF Body
  <2> QED
    BY <1>2, <1>6, <2>1, <2>2
    DEF EnterBaseline, Retry, Stop, ghosts, Labels, Awaits, Delivery
<1>7. CASE \/ Start(w) \/ Prepare(w) \/ Loop(w) \/ CallProvider(w) \/ Catch(w) \/ Fail(w)
           \/ \E result \in {"failing", "other"} : BaselineDone(w, result)
           \/ \E p \in Contents, cost \in BOOLEAN : Respond(w, p, cost)
           \/ \E cost \in BOOLEAN : Reject(w, cost)
           \/ \E outcome \in Outcome : Verified(w, outcome)
  <2>1. UNCHANGED intents
    BY <1>7
    DEF Start, Prepare, Loop, CallProvider, Catch, Fail, BaselineDone, Respond, Reject,
        Verified, Checked, Price, ghosts
  <2>2. /\ pc'[w] \notin Posting /\ (pc'[w] = "completing" => mode = "local")
        /\ UNCHANGED <<mode, store, remote, sawPr>>
        /\ \A v \in Workers \ {w} : pc'[v] = pc[v] /\ run'[v] = run[v]
    <3>1. CASE Start(w) \/ Prepare(w) \/ Loop(w) \/ CallProvider(w) \/ Catch(w) \/ Fail(w)
      BY <1>T, <3>1
      DEF Start, Prepare, Loop, CallProvider, Catch, Fail, Checked, Think, Goto
    <3>2. CASE \/ \E result \in {"failing", "other"} : BaselineDone(w, result)
               \/ \E outcome \in Outcome : Verified(w, outcome)
      BY <1>T, <3>2 DEF BaselineDone, Verified, Outcome, Think, Goto
    <3>3. CASE \/ \E p \in Contents, cost \in BOOLEAN : Respond(w, p, cost)
               \/ \E cost \in BOOLEAN : Reject(w, cost)
      BY <1>T, <3>3 DEF Respond, Reject, Think, Goto
    <3> QED
      BY <1>7, <3>1, <3>2, <3>3
  <2> QED
    BY <2>1, <2>2 DEF Ashore, store
<1> QED
  BY <1>3, <1>4, <1>5, <1>6, <1>7, Zenon DEF WorkerStep, Proceed

\* A step of w within a delivery that saves nothing.
LEMMA PostingFits ==
  ASSUME TypeInv, RemoteInv, NEW w \in Workers,
         \/ \E timeUp \in BOOLEAN : Load(w, timeUp)
         \/ Intent(w) \/ Reconcile(w) \/ LookUp(w) \/ LookUpBranch(w)
         \/ CheckBranch(w) \/ CheckPr(w)
         \/ \E answered \in BOOLEAN : PostBranch(w, answered) \/ PostPr(w, answered)
  PROVE  RemoteInv'
<1> USE TaskRunAssumption DEF Posting, Opening
<1>T. /\ pc \in [Workers -> Labels] /\ run \in [Workers -> Body]
      /\ sawPr \in [Workers -> Contents \cup {None, Foreign}]
      /\ intents \subseteq Contents
      /\ Sent /\ RowFits /\ RemoteFits(w) /\ \A v \in Workers : RemoteFits(v)
      /\ Fits(pc[w], run[w])
  BY DEF TypeInv, Globals, Local, RemoteInv
<1>A. pc[w] \in Posting \ {"reconcile"} => run[w].accepted # None /\ run[w].accepted # Foreign
  BY <1>T DEF RemoteFits
<1>1. ASSUME UNCHANGED <<mode, body, intents>>, Grows, Sent', RemoteFits(w)',
             \A v \in Workers \ {w} :
               pc'[v] = pc[v] /\ run'[v] = run[v] /\ sawPr'[v] = sawPr[v]
      PROVE  RemoteInv'
  BY <1>T, <1>1, OthersFit, RowStays DEF RemoteInv
<1>2. ASSUME UNCHANGED <<mode, remote, intents>>
      PROVE  Grows /\ Sent'
  BY <1>T, <1>2 DEF Grows, Sent, remote
<1>3. CASE \E timeUp \in BOOLEAN : Load(w, timeUp)
  <2>1. /\ UNCHANGED <<mode, body, remote, intents, sawPr>>
        /\ \A v \in Workers \ {w} : pc'[v] = pc[v] /\ run'[v] = run[v]
        /\ run'[w] = body /\ pc'[w] \in {"done", "reconcile", "starting"}
        /\ pc'[w] = "reconcile" => body.state \in Delivery
    BY <1>3, <1>T DEF Load, Goto, store, ghosts
  <2>2. RemoteFits(w)'
    BY <1>T, <2>1 DEF RemoteFits, RowFits, remote
  <2> QED
    BY <1>1, <1>2, <2>1, <2>2
<1>4. CASE Intent(w) \/ Reconcile(w) \/ LookUp(w) \/ CheckBranch(w) \/ CheckPr(w)
  <2>1. /\ UNCHANGED <<mode, body, remote, intents>>
        /\ \A v \in Workers \ {w} :
             pc'[v] = pc[v] /\ run'[v] = run[v] /\ sawPr'[v] = sawPr[v]
        /\ run'[w] = run[w] /\ sawPr'[w] \in {sawPr[w], pr}
        /\ pc[w] \in Posting /\ pc'[w] \in Posting \cup {"failed"}
        /\ pc'[w] \in Opening => pc[w] \in Opening
    BY <1>4, <1>T
    DEF Intent, Reconcile, LookUp, CheckBranch, CheckPr, Checked, Think, Goto, store, ghosts
  <2>2. RemoteFits(w)'
    BY <1>T, <2>1 DEF RemoteFits, remote
  <2> QED
    BY <1>1, <1>2, <2>1, <2>2
<1>5. CASE LookUpBranch(w)
  <2>1. /\ UNCHANGED <<mode, body, remote, intents, run, sawPr>>
        /\ \A v \in Workers \ {w} : pc'[v] = pc[v]
        /\ pc[w] \in Posting
        /\ pc'[w] \in {"failed", "checkBranch", "checkPr", "completing"}
        /\ pc'[w] = "checkPr" => branch = run[w].accepted
        /\ pc'[w] = "completing" => sawPr[w] = run[w].accepted
    BY <1>5, <1>T, <1>A DEF LookUpBranch, Goto, store, ghosts
  <2>2. run[w].accepted # None
    BY <1>5, <1>A DEF LookUpBranch
  <2>3. RemoteFits(w)'
    BY <1>T, <2>1, <2>2 DEF RemoteFits, remote
  <2> QED
    BY <1>1, <1>2, <2>1, <2>3
<1>6. CASE \E answered \in BOOLEAN : PostBranch(w, answered)
  <2>1. /\ UNCHANGED <<mode, body, pr, intents, run, sawPr>>
        /\ \A v \in Workers \ {w} : pc'[v] = pc[v]
        /\ branch' = IF branch = None THEN run[w].accepted ELSE branch
        /\ pc'[w] \in {"failed", "checkPr"}
        /\ pc'[w] = "checkPr" => branch = None
        /\ pc[w] = "postBranch"
    BY <1>6, <1>T DEF PostBranch, Goto, store, ghosts
  <2>2. run[w].accepted \in intents
    BY <1>T, <2>1 DEF RemoteFits
  <2>3. Grows /\ Sent'
    BY <1>T, <2>1, <2>2 DEF Grows, Sent
  <2>4. RemoteFits(w)'
    BY <1>T, <2>1, <2>2 DEF RemoteFits
  <2> QED
    BY <1>1, <2>1, <2>3, <2>4
<1>7. CASE \E answered \in BOOLEAN : PostPr(w, answered)
  <2>1. /\ UNCHANGED <<mode, body, branch, intents, run, sawPr>>
        /\ \A v \in Workers \ {w} : pc'[v] = pc[v]
        /\ pr' = IF pr = None /\ branch # None THEN branch ELSE pr
        /\ pc'[w] \in {"failed", "completing"}
        /\ pc'[w] = "completing" => pr' # pr
        /\ pc[w] = "postPr"
    BY <1>7, <1>T DEF PostPr, Goto, store, ghosts
  <2>2. run[w].accepted \in intents /\ (pr = None => branch = run[w].accepted)
    BY <1>T, <2>1 DEF RemoteFits
  <2>3. Grows /\ Sent'
    BY <1>T, <2>1, <2>2 DEF Grows, Sent
  <2>4. RemoteFits(w)'
    BY <1>T, <2>1, <2>2 DEF RemoteFits
  <2> QED
    BY <1>1, <2>1, <2>3, <2>4
<1> QED
  BY <1>3, <1>4, <1>5, <1>6, <1>7

\* The saves of a delivery: what is committed in a delivery state is noted.
LEMMA SavingFits ==
  ASSUME TypeInv, RemoteInv, NEW w \in Workers, Declare(w) \/ Record(w) \/ Complete(w)
  PROVE  RemoteInv'
<1> USE DEF Posting, Opening
<1>T. /\ pc \in [Workers -> Labels] /\ run \in [Workers -> Body] /\ run[w] \in Body
      /\ RowFits /\ RemoteFits(w) /\ Fits(pc[w], run[w])
  BY DEF TypeInv, Local, RemoteInv
<1>1. PICK s \in RunState, l \in {"intent", "done"}, m \in {"failed", "done"} :
        /\ Save(w, [run[w] EXCEPT !.state = s], l, m)
        /\ l = "intent" => s = "DELIVERING" /\ NoteIntent
        /\ s = "COMPLETED" => pc[w] = "completing"
        /\ NoteIntent \/ (intents' = intents /\ s = "COMPLETED")
  <2>1. CASE Declare(w)
    BY <2>1 DEF Declare, SaveState, RunState, Delivery
  <2>2. CASE Complete(w)
    BY <2>2 DEF Complete, SaveState, RunState, ghosts
  <2>3. CASE Record(w)
    <3>1. run[w] = [run[w] EXCEPT !.state = run[w].state] /\ run[w].state \in RunState
      BY <1>T DEF Body
    <3>2. run[w].state # "COMPLETED"
      BY <1>T, <2>3 DEF Fits, Record
    <3> QED
      BY <2>3, <3>1, <3>2 DEF Record
  <2> QED
    BY <2>1, <2>2, <2>3
<1> DEFINE b == [run[w] EXCEPT !.state = s]
<1>2. b.state = s /\ b.accepted = run[w].accepted
  BY <1>T DEF Body
<1>3. Save(w, b, l, m)
  BY <1>1
<1> HIDE DEF b
<1>4. /\ UNCHANGED <<mode, remote, sawPr>>
      /\ \A v \in Workers \ {w} : pc'[v] = pc[v] /\ run'[v] = run[v]
      /\ run'[w] = b /\ pc'[w] \in {l, m}
      /\ body' = body \/ body' = b
      /\ pc'[w] = "intent" => body' = b
  BY <1>3, <1>T DEF Save, Goto, unsaved
<1>5. Grows /\ Sent'
  BY <1>1, <1>4 DEF Grows, Sent, NoteIntent, RemoteInv, remote
<1>6. body'.state \in Delivery => body'.accepted \in intents'
  BY <1>1, <1>2, <1>4, <1>T DEF NoteIntent, Delivery, RowFits
<1>7. RowFits'
  <2>1. CASE body' = body
    BY <1>5, <1>T, <2>1, RowStays
  <2>2. CASE body' = b
    BY <1>1, <1>2, <1>4, <1>6, <1>T, <2>2 DEF RowFits, RemoteFits, remote
  <2> QED
    BY <1>4, <2>1, <2>2
<1>8. RemoteFits(w)'
  BY <1>1, <1>2, <1>4, <1>6, <1>T DEF RemoteFits, Delivery, remote
<1>9. \A v \in Workers \ {w} : RemoteFits(v)'
  BY <1>4, <1>5, OthersFit DEF RemoteInv
<1> QED
  BY <1>5, <1>7, <1>8, <1>9 DEF RemoteInv

LEMMA InitRemote == Init => RemoteInv
  BY DEF Init, RemoteInv, Sent, RowFits, RemoteFits, Posting, Opening, NewRun, Delivery

LEMMA NextRemote ==
  ASSUME TypeInv, RemoteInv, [Next]_vars
  PROVE  RemoteInv'
<1>T. /\ pc \in [Workers -> Labels] /\ run \in [Workers -> Body] /\ body \in Body
      /\ sawPr \in [Workers -> Contents \cup {None, Foreign}]
      /\ Sent /\ RowFits /\ \A v \in Workers : RemoteFits(v)
  BY DEF TypeInv, Globals, Local, RemoteInv
<1>1. ASSUME NEW w \in Workers, WorkerStep(w), ~Release(w)
      PROVE  RemoteInv'
  BY <1>1, AshoreSteps, LocalFits, PostingFits, SavingFits
<1>2. ASSUME NEW w \in Workers, Release(w) \/ Crash(w)
      PROVE  RemoteInv'
  <2>1. /\ UNCHANGED <<mode, body, remote, intents>> /\ pc'[w] = "idle" /\ sawPr'[w] = None
        /\ \A v \in Workers \ {w} :
             pc'[v] = pc[v] /\ run'[v] = run[v] /\ sawPr'[v] = sawPr[v]
    BY <1>2, <1>T DEF Release, Crash, Forget, Goto, store, ghosts
  <2>2. Grows /\ Sent'
    BY <1>T, <2>1 DEF Grows, Sent, remote
  <2>3. RemoteFits(w)'
    BY <2>1 DEF RemoteFits, Posting, Opening
  <2> QED
    BY <1>T, <2>1, <2>2, <2>3, OthersFit, RowStays DEF RemoteInv
<1>3. ASSUME NEW w \in Workers, NEW resume \in BOOLEAN, Claim(w, resume)
      PROVE  RemoteInv'
  <2>1. /\ UNCHANGED <<mode, body, remote, intents, run, sawPr>> /\ pc'[w] = "claimed"
        /\ \A v \in Workers \ {w} : pc'[v] = pc[v]
    BY <1>3, <1>T DEF Claim, Goto
  <2>2. Grows /\ Sent'
    BY <1>T, <2>1 DEF Grows, Sent, remote
  <2>3. RemoteFits(w)'
    BY <1>T, <2>1 DEF RemoteFits, Posting, Opening, remote
  <2> QED
    BY <1>T, <2>1, <2>2, <2>3, OthersFit, RowStays DEF RemoteInv
<1>4. CASE \E c \in {"pause", "cancel"} : Control(c)
  <2>1. /\ UNCHANGED <<mode, pc, run, remote, intents, sawPr>>
        /\ body' \in {body, [body EXCEPT !.state = StateAfterCancel(body.state)]}
    BY <1>4, <1>T DEF Control, worker, ghosts, Body
  <2>2. /\ body'.state \in Delivery => body.state \in Delivery
        /\ body'.state = "COMPLETED" => body.state = "COMPLETED"
        /\ body'.accepted = body.accepted
    BY <1>T, <2>1 DEF StateAfterCancel, Body, Delivery
  <2>3. Grows /\ Sent'
    BY <1>T, <2>1 DEF Grows, Sent, remote
  <2>4. RowFits'
    BY <1>T, <2>1, <2>2 DEF RowFits, remote
  <2> QED
    BY <1>T, <2>1, <2>3, <2>4, OthersFit DEF RemoteInv
<1>5. CASE LeaseExpires \/ BranchDeleted \/ UNCHANGED vars
             \/ \E w \in Workers : HeartbeatFails(w)
  <2>1. /\ UNCHANGED <<mode, body, pc, run, pr, intents, sawPr>>
        /\ branch' = branch \/ (pr # None /\ branch' = None)
    BY <1>5
    DEF LeaseExpires, BranchDeleted, HeartbeatFails, vars, store, worker, remote, ghosts
  <2>2. Grows /\ Sent'
    BY <1>T, <2>1 DEF Grows, Sent
  <2> QED
    BY <1>T, <2>1, <2>2, OthersFit, RowStays DEF RemoteInv
<1> QED
  BY <1>1, <1>2, <1>3, <1>4, <1>5 DEF Next

\* What is on GitHub had its intent committed before, and a completed pull-request
\* run has the pull request of its accepted candidate, however many workers post,
\* lose answers and die, and whatever branch was there before.
THEOREM OnlyDeclaredIsSent == Safety => []RemoteFollowsIntent
<1>1. TypeInv /\ RemoteInv /\ [Next]_vars => RemoteInv'
  BY NextRemote
<1>2. RemoteInv => RemoteFollowsIntent
  BY DEF RemoteInv, Sent, RowFits, RemoteFollowsIntent
<1> QED
  BY <1>1, <1>2, InitRemote, TypeCorrect, PTL DEF Safety

-----------------------------------------------------------------------------
(* Layer 6: a recorded intent, as long as SQLite refuses no save             *)

\* Where the owner of a row with an intent may be, once it has loaded the row.
Delivering == Posting \cup {"completing", "failed", "recording"}

\* Its own record says so too until it is done, so that what its catch block
\* decides on is a delivery state.
Remembers(w) ==
  Fenced(w) /\ pc[w] \notin {"claimed", "done"} =>
    pc[w] \in Delivering /\ run[w].state \in Delivery

IntentInv ==
  saveErrors = 0 /\ body.state \in Delivery => \A w \in Workers : Remembers(w)

\* Two workers are never fenced in together.
LEMMA OneFenced ==
  ASSUME Tokens, NEW v \in Workers, NEW w \in Workers, Fenced(v), Fenced(w)
  PROVE  v = w
  BY DEF Tokens, Fenced

\* Only a load follows a claim, only a release follows the end.
LEMMA ClaimedLoads ==
  ASSUME NEW w \in Workers, WorkerStep(w), pc[w] = "claimed"
  PROVE  \E timeUp \in BOOLEAN : Load(w, timeUp)
  BY DEF WorkerStep, Proceed, Start, RecoverProvider, Prepare, EnterBaseline,
         BaselineDone, Loop, Reserve, CallProvider, Respond, Reject, Fix, Verified, Retry,
         Stop, Complete, Declare, Intent, Reconcile, LookUp, LookUpBranch, CheckBranch,
         CheckPr, PostBranch, PostPr, Catch, Record, Release, Fail, Awaits

LEMMA Unfinished ==
  ASSUME NEW w \in Workers, WorkerStep(w), ~Release(w)
  PROVE  pc[w] # "done"
  BY DEF WorkerStep, Proceed, Load, Start, RecoverProvider, Prepare, EnterBaseline,
         BaselineDone, Loop, Reserve, CallProvider, Respond, Reject, Fix, Verified, Retry,
         Stop, Complete, Declare, Intent, Reconcile, LookUp, LookUpBranch, CheckBranch,
         CheckPr, PostBranch, PostPr, Catch, Record, Fail, Awaits

\* Within a delivery a step keeps the state of the record, until the record is
\* saved; otherwise the intent itself is the only delivery state that is saved.
LEMMA DeliverySteps ==
  ASSUME TypeInv, NEW w \in Workers, WorkerStep(w), ~Release(w), pc[w] # "claimed",
         saveErrors' = 0
  PROVE  /\ saveErrors = 0
         /\ UNCHANGED <<owner, leaseLive, token>>
         /\ \A v \in Workers \ {w} : pc'[v] = pc[v] /\ run'[v] = run[v]
         /\ body' = body \/ (Fenced(w) /\ body' = run'[w])
         /\ pc[w] \in Delivering /\ run[w].state \in Delivery =>
              \/ /\ pc'[w] \in Delivering /\ run'[w].state \in Delivery
                 /\ body' # body => body'.state \in Delivery
              \/ /\ pc'[w] = "done"
                 /\ body' # body => body'.state \in Delivery \cup {"COMPLETED"}
              \/ ~Fenced(w) /\ body' = body
         /\ body' # body /\ body'.state \in Delivery =>
              \/ pc'[w] = "done"
              \/ pc'[w] \in Delivering /\ run'[w].state \in Delivery
<1> USE DEF Delivering, Posting
<1>T. /\ pc \in [Workers -> Labels] /\ run \in [Workers -> Body] /\ run[w] \in Body
      /\ saveErrors \in Nat
  BY DEF TypeInv, Globals, Local
<1>1. Step(w)
  BY QuietSteps, ReserveStep, CallStep, AnswerStep DEF Quiet, Load
<1>2. saveErrors = 0
  <2>1. CASE \/ RecoverProvider(w) \/ EnterBaseline(w) \/ Reserve(w) \/ Fix(w) \/ Retry(w)
             \/ Stop(w) \/ Complete(w) \/ Declare(w) \/ Record(w)
    <3>1. saveErrors' = saveErrors \/ saveErrors' = saveErrors + 1
      BY <2>1 DEF RecoverProvider, EnterBaseline, Reserve, Fix, Retry, Stop, Complete,
                  Declare, Record, SaveState, Save
    <3> QED
      BY <1>T, <3>1
  <2>2. CASE \/ Start(w) \/ Prepare(w) \/ Loop(w) \/ CallProvider(w) \/ Intent(w)
             \/ Reconcile(w) \/ CheckBranch(w) \/ CheckPr(w) \/ Catch(w) \/ Fail(w)
    BY <2>2 DEF Start, Prepare, Loop, CallProvider, Intent, Reconcile, CheckBranch,
                CheckPr, Catch, Fail, Checked, Think, store
  <2>3. CASE \/ \E result \in {"failing", "other"} : BaselineDone(w, result)
             \/ \E p \in Contents, cost \in BOOLEAN : Respond(w, p, cost)
             \/ \E cost \in BOOLEAN : Reject(w, cost)
             \/ \E outcome \in Outcome : Verified(w, outcome)
    BY <2>3 DEF BaselineDone, Respond, Reject, Verified, Think, store
  <2>4. CASE \/ LookUp(w) \/ LookUpBranch(w)
             \/ \E answered \in BOOLEAN : PostBranch(w, answered) \/ PostPr(w, answered)
             \/ \E timeUp \in BOOLEAN : Load(w, timeUp)
    BY <2>4 DEF LookUp, LookUpBranch, PostBranch, PostPr, Load, store
  <2> QED
    BY <2>1, <2>2, <2>3, <2>4, Zenon DEF WorkerStep, Proceed
<1>3. CASE \/ Intent(w) \/ Reconcile(w) \/ LookUp(w) \/ LookUpBranch(w) \/ CheckBranch(w)
           \/ CheckPr(w) \/ Fail(w)
           \/ \E answered \in BOOLEAN : PostBranch(w, answered) \/ PostPr(w, answered)
  <2>1. run'[w] = run[w] /\ body' = body /\ pc'[w] \in Posting \cup {"completing", "failed"}
    BY <1>3, <1>T
    DEF Intent, Reconcile, LookUp, LookUpBranch, CheckBranch, CheckPr, Fail, PostBranch,
        PostPr, Checked, Think, Goto, store
  <2> QED
    BY <1>1, <1>2, <2>1 DEF Step
<1>4. CASE Catch(w)
  <2>1. CASE w \in leaseLost
    <3>1. pc'[w] = "done" /\ body' = body
      BY <1>4, <1>T, <2>1 DEF Catch, Checked, Think, Goto, store
    <3> QED
      BY <1>1, <1>2, <3>1 DEF Step
  <2>2. CASE w \notin leaseLost
    <3>1. /\ run'[w] = [run[w] EXCEPT !.state = StateAfterError(run[w].state)]
          /\ body' = body /\ pc'[w] = "recording"
      BY <1>4, <1>T, <2>2 DEF Catch, Think, Goto, store, Body
    <3>2. run[w].state \in Delivery => run'[w].state \in Delivery
      BY <1>T, <3>1 DEF StateAfterError, Delivery, Body
    <3> QED
      BY <1>1, <1>2, <3>1, <3>2 DEF Step
  <2> QED
    BY <2>1, <2>2
<1>5. CASE Record(w)
  <2>1. pc'[w] = "done" /\ run'[w] = run[w] /\ (body' = body \/ body' = run[w])
    BY <1>5, <1>T DEF Record, Save, Goto
  <2> QED
    BY <1>1, <1>2, <2>1 DEF Step
<1>6. CASE Complete(w)
  <2> DEFINE b == [run[w] EXCEPT !.state = "COMPLETED"]
  <2>1. b.state = "COMPLETED"
    BY <1>T DEF Body
  <2>2. Save(w, b, "done", "failed")
    BY <1>6 DEF Complete, SaveState
  <2> HIDE DEF b
  <2>3. (body' = b /\ pc'[w] = "done") \/ (~Fenced(w) /\ body' = body)
    BY <1>T, <1>2, <2>2 DEF Save, Goto
  <2>4. run'[w] = b
    BY <1>T, <2>2 DEF Save
  <2>5. "COMPLETED" \notin Delivery
    BY DEF Delivery
  <2> QED
    BY <1>1, <1>2, <2>1, <2>3, <2>4, <2>5 DEF Step
<1>7. CASE Declare(w)
  <2> DEFINE b == [run[w] EXCEPT !.state = "DELIVERING"]
  <2>1. b.state \in Delivery
    BY <1>T DEF Body, Delivery
  <2>2. Save(w, b, "intent", "failed") /\ pc[w] = "declaring"
    BY <1>7 DEF Declare, SaveState
  <2> HIDE DEF b
  <2>3. pc'[w] \in {"intent", "failed"} /\ run'[w] = b
    BY <1>T, <2>2 DEF Save, Goto
  <2> QED
    BY <1>1, <1>2, <2>1, <2>2, <2>3 DEF Step
<1>8. CASE \/ Start(w) \/ RecoverProvider(w) \/ Prepare(w) \/ EnterBaseline(w) \/ Loop(w)
           \/ Reserve(w) \/ CallProvider(w) \/ Fix(w) \/ Retry(w) \/ Stop(w)
           \/ \E result \in {"failing", "other"} : BaselineDone(w, result)
           \/ \E p \in Contents, cost \in BOOLEAN : Respond(w, p, cost)
           \/ \E cost \in BOOLEAN : Reject(w, cost)
           \/ \E outcome \in Outcome : Verified(w, outcome)
  <2>1. pc[w] \notin Delivering
    BY <1>8 DEF Start, RecoverProvider, Prepare, EnterBaseline, Loop, Reserve, CallProvider,
                Fix, Retry, Stop, BaselineDone, Respond, Reject, Verified
  <2>2. Ashore(w)
    BY <1>8, <2>1, AshoreSteps
    DEF Load, Intent, Reconcile, LookUp, LookUpBranch, CheckBranch, CheckPr, PostBranch,
        PostPr, Declare, Record, Complete, Start, RecoverProvider, Prepare, EnterBaseline,
        Loop, Reserve, CallProvider, Fix, Retry, Stop, BaselineDone, Respond, Reject, Verified
  <2> QED
    BY <1>1, <1>2, <2>1, <2>2 DEF Step, Ashore
<1> QED
  BY <1>3, <1>4, <1>5, <1>6, <1>7, <1>8, Zenon DEF WorkerStep, Proceed, Load

LEMMA InitIntent == Init => IntentInv
<1>1. Init => body.state = "READY"
  BY DEF Init, NewRun
<1>2. "READY" \notin Delivery
  BY DEF Delivery
<1> QED
  BY <1>1, <1>2 DEF IntentInv

LEMMA NextIntent ==
  ASSUME TypeInv, Tokens, IntentInv, [Next]_vars, saveErrors' = 0
  PROVE  /\ body'.state \in Delivery => \A w \in Workers : Remembers(w)'
         /\ body.state \in Delivery => body'.state \in Delivery \cup {"COMPLETED"}
<1>T. /\ pc \in [Workers -> Labels] /\ run \in [Workers -> Body]
      /\ token \in [Workers -> Nat] /\ saveErrors \in Nat /\ body \in Body
  BY DEF TypeInv, Globals, Local
<1>I. saveErrors = 0 /\ body.state \in Delivery => \A w \in Workers : Remembers(w)
  BY DEF IntentInv
<1>1. ASSUME NEW w \in Workers, WorkerStep(w), ~Release(w), pc[w] # "claimed"
      PROVE  /\ body'.state \in Delivery => \A v \in Workers : Remembers(v)'
             /\ body.state \in Delivery => body'.state \in Delivery \cup {"COMPLETED"}
  <2>S. /\ saveErrors = 0
        /\ UNCHANGED <<owner, leaseLive, token>>
        /\ \A v \in Workers \ {w} : pc'[v] = pc[v] /\ run'[v] = run[v]
        /\ body' = body \/ (Fenced(w) /\ body' = run'[w])
        /\ pc[w] \in Delivering /\ run[w].state \in Delivery =>
             \/ /\ pc'[w] \in Delivering /\ run'[w].state \in Delivery
                /\ body' # body => body'.state \in Delivery
             \/ /\ pc'[w] = "done"
                /\ body' # body => body'.state \in Delivery \cup {"COMPLETED"}
             \/ ~Fenced(w) /\ body' = body
        /\ body' # body /\ body'.state \in Delivery =>
             \/ pc'[w] = "done"
             \/ pc'[w] \in Delivering /\ run'[w].state \in Delivery
    BY <1>1, DeliverySteps
  <2>F. \A v \in Workers : Fenced(v)' <=> Fenced(v)
    BY <2>S DEF Fenced
  <2>D. pc[w] # "done"
    BY <1>1, Unfinished
  <2>1. body.state \in Delivery => body'.state \in Delivery \cup {"COMPLETED"}
    BY <1>1, <1>I, <2>S, <2>D DEF Remembers
  <2>2. ASSUME body'.state \in Delivery, NEW v \in Workers
        PROVE  Remembers(v)'
    <3>1. CASE body' = body /\ v = w
      BY <1>1, <1>I, <2>2, <2>S, <2>F, <2>D, <3>1 DEF Remembers
    <3>2. CASE body' = body /\ v # w
      BY <1>I, <2>2, <2>S, <2>F, <3>2 DEF Remembers
    <3>3. CASE body' # body /\ v = w
      BY <2>2, <2>S, <3>3 DEF Remembers
    <3>4. CASE body' # body /\ v # w
      BY <2>S, <2>F, <3>4, OneFenced DEF Remembers
    <3> QED
      BY <3>1, <3>2, <3>3, <3>4
  <2> QED
    BY <2>1, <2>2
<1>2. ASSUME NEW w \in Workers, NEW timeUp \in BOOLEAN, Load(w, timeUp)
      PROVE  /\ body' = body /\ (body'.state \in Delivery => \A v \in Workers : Remembers(v)')
  <2>1. /\ UNCHANGED <<body, owner, leaseLive, token, saveErrors>>
        /\ \A v \in Workers \ {w} : pc'[v] = pc[v] /\ run'[v] = run[v]
        /\ run'[w] = body
        /\ body.state \in Delivery => pc'[w] = "reconcile"
    BY <1>2, <1>T DEF Load, Goto, store, Delivery
  <2>2. \A v \in Workers : Fenced(v)' <=> Fenced(v)
    BY <2>1 DEF Fenced
  <2> QED
    BY <1>I, <2>1, <2>2 DEF Remembers, Delivering, Posting
<1>3. ASSUME NEW w \in Workers, NEW resume \in BOOLEAN, Claim(w, resume)
      PROVE  /\ body' = body /\ (body'.state \in Delivery => \A v \in Workers : Remembers(v)')
  <2>1. /\ UNCHANGED <<body, run, saveErrors>> /\ pc'[w] = "claimed"
        /\ owner' = issued + 1
        /\ \A v \in Workers \ {w} : pc'[v] = pc[v] /\ token'[v] = token[v]
    BY <1>3, <1>T DEF Claim, Goto
  <2>2. \A v \in Workers \ {w} : ~Fenced(v)'
    <3> SUFFICES ASSUME NEW v \in Workers \ {w} PROVE ~Fenced(v)'
      OBVIOUS
    <3>1. token[v] <= issued /\ token[v] \in Nat /\ issued \in Nat
      BY <1>T DEF Tokens, TypeInv, Globals
    <3>2. owner' # token'[v]
      BY <2>1, <3>1
    <3> QED
      BY <3>2 DEF Fenced
  <2> QED
    BY <2>1, <2>2 DEF Remembers
<1>4. ASSUME NEW w \in Workers, Release(w) \/ Crash(w)
      PROVE  /\ body' = body /\ (body'.state \in Delivery => \A v \in Workers : Remembers(v)')
  <2>1. /\ body' = body /\ saveErrors' = saveErrors /\ token'[w] = NoGrant
        /\ \/ UNCHANGED <<owner, leaseLive>>
           \/ leaseLive' = FALSE
        /\ \A v \in Workers \ {w} :
             pc'[v] = pc[v] /\ run'[v] = run[v] /\ token'[v] = token[v]
    BY <1>4, <1>T DEF Release, Crash, Forget, Goto, store
  <2>2. ~Fenced(w)' /\ \A v \in Workers \ {w} : Fenced(v)' => Fenced(v)
    BY <2>1 DEF Fenced, Tokens
  <2> QED
    BY <1>I, <2>1, <2>2 DEF Remembers
<1>5. CASE \/ \E c \in {"pause", "cancel"} : Control(c)
           \/ \E w \in Workers : HeartbeatFails(w)
           \/ LeaseExpires \/ BranchDeleted \/ UNCHANGED vars
  <2>1. /\ UNCHANGED <<owner, token, pc, run, saveErrors>> /\ (leaseLive' => leaseLive)
        /\ body' \in {body, [body EXCEPT !.state = StateAfterCancel(body.state)]}
    <3>1. CASE \E c \in {"pause", "cancel"} : Control(c)
      BY <1>T, <3>1 DEF Control, worker, Body
    <3>2. CASE \E w \in Workers : HeartbeatFails(w)
      BY <3>2 DEF HeartbeatFails, store
    <3>3. CASE LeaseExpires \/ BranchDeleted \/ UNCHANGED vars
      BY <3>3 DEF LeaseExpires, BranchDeleted, vars, store, worker
    <3> QED
      BY <1>5, <3>1, <3>2, <3>3
  <2>2. body'.state \in Delivery <=> body.state \in Delivery
    BY <1>T, <2>1 DEF StateAfterCancel, Body, Delivery
  <2> QED
    BY <1>I, <2>1, <2>2 DEF Remembers, Fenced
<1> QED
  BY <1>1, <1>2, <1>3, <1>4, <1>5, ClaimedLoads DEF Next

\* A recorded delivery intent is never dropped, by a cancellation, a failure or a
\* takeover, unless SQLite refuses a save.
THEOREM IntentIsRemembered == Safety => IntentRemembered
<1>1. TypeInv /\ OwnerInv /\ IntentInv /\ [Next]_vars => IntentInv'
  BY NextIntent DEF IntentInv, OwnerInv
<1>2. TypeInv /\ OwnerInv /\ IntentInv /\ [Next]_vars
        => [body.state \in Delivery /\ saveErrors' = 0
              => body'.state \in Delivery \cup {"COMPLETED"}]_vars
  BY NextIntent DEF OwnerInv
<1> QED
  BY <1>1, <1>2, InitIntent, AlwaysOwner, PTL DEF Safety, IntentRemembered
==============================================================================
