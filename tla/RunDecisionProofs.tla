-------------------------- MODULE RunDecisionProofs --------------------------
(***************************************************************************)
(* Theorems of RunDecision, for every number of processes, every set of    *)
(* traces, and ledgers and reviews without a bound.                        *)
(***************************************************************************)
EXTENDS RunDecision, TLAPS, WellFoundedInduction

-----------------------------------------------------------------------------
(* The inductive invariant.                                                *)

Ids == {None} \cup (Nat \X Nat)
Decisions ==
  [id : Ids, bundle : Nat \cup {None}, verdict : Verdicts \cup {None}, proved : BOOLEAN,
   actor : Actors \cup {None}, allowed : SUBSET Actors, overturns : Ids]
EventSet ==
  [type : {"CREATED", "ATTACHED", "REVIEWED", "APPLIED"}, seq : Nat, item : {0, 1},
   order : {<<>>}, decision : Decisions]
BundleSet == [stamp : Nat, intact : BOOLEAN]
CommandSet ==
  [op : {"REVIEW", "IMPORT", "APPLY", "CORRECT"}, number : Nat, stamp : Nat,
   waived : SUBSET Gaps, decision : Decisions, ready : BOOLEAN]

TypeInv ==
  /\ trace \in TraceSet
  /\ intact \in BOOLEAN
  /\ bundles \in Seq(BundleSet)
  /\ started \in Nat
  /\ localFile \in [decision : Decisions, ready : BOOLEAN]
  /\ log \in Seq(EventSet)
  /\ workspace \in {"without", "applied", "half applied"}
  /\ lock \in Procs \cup {None}
  /\ pc \in [Procs -> Phases]
  /\ cmd \in [Procs -> CommandSet]
  /\ crashes \in Nat

\* One process is in the engine, and it holds the lock.
LockInv == \A p \in Procs : Live(p) => lock = p

\* The ledger is what an import, a correction and an application can make of it.
Shape(events) ==
  /\ events \in Seq(EventSet)
  /\ 2 <= Len(events)
  /\ events[1].type = "CREATED"
  /\ events[2].type = "ATTACHED"
  /\ \A k \in DOMAIN events :
       /\ events[k].seq = k
       /\ 1 < k => events[k].item = 1
       /\ 2 < k => events[k].type \in {"REVIEWED", "APPLIED"}

\* What VERIFIED takes.
Earned(d) ==
  d.verdict = "ACCEPTED" =>
    /\ trace.done /\ trace.gate /\ ~trace.violation
    /\ Cut \notin trace.gaps
    /\ d.actor = "HUMAN"
\* A decision replay can read: it is earned, says what was looked at and who decided.
Fit(d) ==
  /\ Earned(d)
  /\ d.id \in Nat \X Nat
  /\ d.bundle # None
  /\ Effective(d)
First(d) == d.id[2] = 0 /\ d.overturns = None
\* A correction follows the decision it overturns, which is in the ledger.
Follows(d) ==
  /\ d.id[2] # 0
  /\ d.overturns = <<d.id[1], d.id[2] - 1>>
  /\ Imported(d.overturns) # {}

LedgerInv ==
  /\ Shape(log)
  /\ \A k \in Decided :
       /\ Fit(log[k].decision)
       /\ First(log[k].decision) \/ Follows(log[k].decision)
  /\ inForce = Replayed(log)

\* What a command carries from one of its steps to the next.
Carries(p) ==
  LET c == cmd[p] IN
  /\ pc[p] \in {"numbered", "bundled", "written"} => c.op = "REVIEW"
  /\ pc[p] = "numbered" =>
       /\ c.number \in 1..(Len(bundles) + 1)
       /\ c.decision.overturns = None
  /\ pc[p] = "bundled" =>
       /\ c.number \in DOMAIN bundles
       /\ Earned(c.decision)
       /\ c.decision.actor \in trace.allowed
       /\ c.decision.overturns = None
  /\ pc[p] = "written" => Fit(c.decision) /\ First(c.decision)
  /\ pc[p] = "import" => c.op = "IMPORT"
  /\ pc[p] = "apply" => c.op = "APPLY"
  /\ pc[p] \in Critical => c.op # "REVIEW"
  /\ c.op = "IMPORT" => Fit(c.decision) /\ First(c.decision)
  /\ c.op = "CORRECT" => \E k \in Decided : log[k].decision = c.decision

\* What the checks under the lock found still holds.
Checked(p) ==
  LET c == cmd[p] IN
  /\ pc[p] = "append" =>
       /\ c.op \in {"IMPORT", "CORRECT"}
       /\ c.op = "IMPORT" => Imported(c.decision.id) = {}
       /\ c.op = "CORRECT" => \A k \in Decided : log[k].decision.overturns # c.decision.id
  /\ pc[p] \in {"git", "record"} => AcceptedLast /\ ~AlreadyApplied
  /\ pc[p] = "git" => workspace = "without"
  /\ pc[p] = "record" => workspace = "applied"

CommandInv ==
  /\ localFile # NoReview => Fit(localFile.decision) /\ First(localFile.decision)
  /\ \A p \in Procs : Carries(p) /\ Checked(p)

Inv ==
  /\ TypeInv /\ LockInv /\ LedgerInv /\ CommandInv
  /\ AppliedOnAcceptance /\ WorkspaceIsRecorded

-----------------------------------------------------------------------------
(* Induction over the natural numbers, for a set of them.                   *)

Below == {p \in Nat \X Nat : p[1] < p[2]}

LEMMA BelowIsWellFounded == IsWellFoundedOn(Below, Nat)
BY NatLessThanWellFounded DEF OpToRel, Below

LEMMA SetInduction ==
  ASSUME NEW S, 0 \in S, \A n \in Nat : n \in S => n + 1 \in S
  PROVE  Nat \subseteq S
<1>1. SUFFICES ASSUME NEW n \in Nat, n \notin S
               PROVE  FALSE
  OBVIOUS
<1> DEFINE T == Nat \ S
<1>2. T \subseteq Nat /\ T # {}
  BY <1>1
<1>3. PICK x \in T : \A y \in T : ~(<<y, x>> \in Below)
  <2> HIDE DEF T
  <2> QED BY <1>2, BelowIsWellFounded, WFMin
<1>4. \A y \in T : ~(y < x)
  BY <1>3 DEF Below
<1>5. x # 0 /\ x - 1 \in Nat /\ x - 1 < x /\ (x - 1) + 1 = x
  BY <1>3
<1>6. x - 1 \in S
  BY <1>4, <1>5
<1> QED BY <1>3, <1>5, <1>6

-----------------------------------------------------------------------------
(* What replay makes of such a ledger.                                      *)

LEMMA ShapeFits ==
  ASSUME NEW o, Shape(o)
  PROVE  /\ Len(o) \in Nat /\ DOMAIN o = 1..Len(o) /\ 1 \in DOMAIN o /\ 2 \in DOMAIN o
         /\ \A k \in DOMAIN o : o[k] \in EventSet
BY DEF Shape

LEMMA OrderedIsTheLedger ==
  ASSUME NEW o, Shape(o)
  PROVE  Ordered(o) = o
<1>1. ASSUME NEW n \in DOMAIN o
      PROVE  (CHOOSE i \in DOMAIN o : o[i].seq = n) = n
  BY <1>1 DEF Shape
<1> QED BY <1>1, ShapeFits DEF Ordered, Shape

\* The queue that holds the item of the run.
OfTheRun == Enqueue(EmptyQueue, 2)

\* Reviews and applications leave the queue alone.
LEMMA QueueIsOfTheRun ==
  ASSUME NEW o, Shape(o)
  PROVE  Queue(o) = OfTheRun
<1> DEFINE F(g) == [k \in 0..Len(o) |-> IF k = 0 THEN EmptyQueue ELSE Apply(o, g[k - 1], k)]
           after == CHOOSE g : g = F(g)
           known == [k \in 0..Len(o) |-> IF k <= 1 THEN EmptyQueue ELSE OfTheRun]
<1>1. Len(o) \in Nat /\ 2 <= Len(o) /\ DOMAIN o = 1..Len(o)
  BY ShapeFits DEF Shape
<1>2. \A q : Apply(o, q, 1) = q /\ Apply(o, EmptyQueue, 2) = OfTheRun
  BY <1>1 DEF Shape, Apply, Target, OfTheRun
<1>3. \A k \in 3..Len(o) : \A q : Apply(o, q, k) = q
  BY <1>1 DEF Shape, Apply, Target
<1>4. known = F(known)
  <2>1. ASSUME NEW k \in 0..Len(o)
        PROVE  known[k] = IF k = 0 THEN EmptyQueue ELSE Apply(o, known[k - 1], k)
    <3>1. CASE k = 0
      BY <3>1, <1>1
    <3>2. CASE k = 1
      BY <3>2, <1>1, <1>2
    <3>3. CASE k = 2
      BY <3>3, <1>1, <1>2
    <3>4. CASE k > 2
      BY <3>4, <1>1, <1>3
    <3> QED BY <3>1, <3>2, <3>3, <3>4
  <2> QED BY <2>1
<1>5. after = F(after)
  <2> HIDE DEF F, known
  <2> QED BY <1>4
<1>6. \A k \in 0..Len(o) :
        after[k] = IF k = 0 THEN EmptyQueue ELSE Apply(o, after[k - 1], k)
  <2> HIDE DEF after
  <2> QED BY <1>5
<1>7. after[1] = EmptyQueue /\ after[2] = OfTheRun
  <2> HIDE DEF after
  <2>1. after[0] = EmptyQueue
    BY <1>1, <1>6
  <2>2. after[1] = EmptyQueue
    BY <2>1, <1>1, <1>2, <1>6
  <2> QED BY <2>2, <1>1, <1>2, <1>6
<1> DEFINE S == {n \in Nat : n + 2 <= Len(o) => after[n + 2] = OfTheRun}
<1>8. Nat \subseteq S
  <2> HIDE DEF after
  <2>1. 0 \in S
    BY <1>7
  <2>2. ASSUME NEW n \in Nat, n \in S
        PROVE  n + 1 \in S
    <3>1. SUFFICES ASSUME n + 1 + 2 <= Len(o)
                   PROVE  after[n + 1 + 2] = OfTheRun
      OBVIOUS
    <3>2. n + 1 + 2 \in 3..Len(o) /\ n + 1 + 2 \in 0..Len(o) /\ n + 1 + 2 - 1 = n + 2
      BY <3>1, <1>1
    <3>3. after[n + 1 + 2] = Apply(o, after[n + 2], n + 1 + 2)
      BY <3>2, <1>6
    <3>4. after[n + 2] = OfTheRun
      BY <2>2, <3>2
    <3> QED BY <3>2, <3>3, <3>4, <1>3
  <2> HIDE DEF S
  <2> QED BY <2>1, <2>2, SetInduction
<1>9. Len(o) - 2 \in Nat /\ (Len(o) - 2) + 2 = Len(o)
  BY <1>1
<1>10. after[Len(o)] = OfTheRun
  <2> HIDE DEF after
  <2> QED BY <1>8, <1>9
<1> QED BY <1>10 DEF Queue

LEMMA EntryOfTheRun ==
  ASSUME NEW o, Shape(o)
  PROVE  EntryOf(o, OfTheRun, 1) = 2
<1>1. OfTheRun.order = <<2>>
  BY DEF OfTheRun, Enqueue, EmptyQueue
<1>2. o[2].item = 1
  BY ShapeFits DEF Shape
<1>3. {i \in 1..Len(<<2>>) : o[<<2>>[i]].item = 1} = {1}
  BY <1>2
<1>4. Min({1}) = 1
  BY DEF Min
<1> QED BY <1>1, <1>3, <1>4 DEF EntryOf, IndexOf, SelectInSeq

\* A replay reads every review of such a ledger.
Readable(o) ==
  \A k \in Reviews(o) : o[k].decision.bundle # None /\ Effective(o[k].decision)

LEMMA ReplayedIsInForce ==
  ASSUME NEW o, Shape(o)
  PROVE  Replayed(o) = InForce(o, OfTheRun, 2)
BY OrderedIsTheLedger, QueueIsOfTheRun DEF Replayed

LEMMA InForceIsReviewed ==
  ASSUME NEW o, Shape(o)
  PROVE  \A d \in Replayed(o) : \E k \in Reviews(o) : o[k].decision = d
BY ReplayedIsInForce DEF InForce, Standing

LEMMA StandingReviews ==
  ASSUME NEW o, Shape(o), Readable(o)
  PROVE  Standing(o, OfTheRun, 2) = {k \in Reviews(o) : ~Overturned(o, k)}
<1>1. \A k \in Reviews(o) : o[k].item = 1
  BY ShapeFits DEF Reviews, Shape
<1>2. \A k \in Reviews(o) : EntryOf(o, OfTheRun, o[k].item) = 2
  BY <1>1, EntryOfTheRun
<1>3. \A k \in Reviews(o) : ~Unfit(o, OfTheRun, k)
  BY <1>2 DEF Unfit, Readable
<1> QED BY <1>2, <1>3 DEF Standing

LEMMA LedgerGrows ==
  ASSUME NEW o, Shape(o),
         NEW e \in EventSet, e.type \in {"REVIEWED", "APPLIED"}, e.seq = Len(o) + 1, e.item = 1
  PROVE  LET more == Append(o, e) IN
         /\ Shape(more)
         /\ Len(more) = Len(o) + 1 /\ DOMAIN more = DOMAIN o \cup {Len(o) + 1}
         /\ more[Len(o) + 1] = e
         /\ \A k \in DOMAIN o : more[k] = o[k] /\ k < Len(o) + 1
         /\ Reviews(more) = IF e.type = "REVIEWED" THEN Reviews(o) \cup {Len(o) + 1}
                                                   ELSE Reviews(o)
<1> DEFINE more == Append(o, e)
<1>1. o \in Seq(EventSet) /\ 2 <= Len(o) /\ Len(o) \in Nat /\ DOMAIN o = 1..Len(o)
  BY DEF Shape
<1>2. /\ more \in Seq(EventSet) /\ Len(more) = Len(o) + 1
      /\ DOMAIN more = DOMAIN o \cup {Len(o) + 1}
      /\ more[Len(o) + 1] = e
      /\ \A k \in DOMAIN o : more[k] = o[k] /\ k < Len(o) + 1
  BY <1>1
<1> HIDE DEF more
<1>3. \A k \in DOMAIN more :
        /\ more[k].seq = k
        /\ 1 < k => more[k].item = 1
        /\ 2 < k => more[k].type \in {"REVIEWED", "APPLIED"}
  BY <1>1, <1>2 DEF Shape
<1>4. Shape(more)
  BY <1>1, <1>2, <1>3 DEF Shape
<1>5. Reviews(more) = IF e.type = "REVIEWED" THEN Reviews(o) \cup {Len(o) + 1} ELSE Reviews(o)
  BY <1>1, <1>2 DEF Reviews
<1> QED BY <1>2, <1>4, <1>5 DEF more

\* An application changes nothing a replay says of the reviews.
LEMMA ApplicationDecidesNothing ==
  ASSUME NEW o, Shape(o), Readable(o),
         NEW e \in EventSet, e.type = "APPLIED", e.seq = Len(o) + 1, e.item = 1
  PROVE  Replayed(Append(o, e)) = Replayed(o)
<1> DEFINE more == Append(o, e)
<1>1. Shape(more) /\ Reviews(more) = Reviews(o) /\ \A k \in DOMAIN o : more[k] = o[k]
  BY LedgerGrows
<1> HIDE DEF more
<1>2. \A k \in Reviews(o) : k \in DOMAIN o /\ more[k] = o[k]
  BY <1>1 DEF Reviews
<1>3. Readable(more)
  BY <1>1, <1>2 DEF Readable
<1>4. \A k \in Reviews(o) : Overturned(more, k) <=> Overturned(o, k)
  BY <1>1, <1>2 DEF Overturned
<1>5. Standing(more, OfTheRun, 2) = Standing(o, OfTheRun, 2)
  BY <1>1, <1>3, <1>4, StandingReviews
<1>6. \A k \in Standing(o, OfTheRun, 2) : more[k] = o[k]
  BY <1>2 DEF Standing
<1>7. InForce(more, OfTheRun, 2) = InForce(o, OfTheRun, 2)
  BY <1>5, <1>6 DEF InForce
<1> QED BY <1>1, <1>7, ReplayedIsInForce DEF more

\* A decision nobody overturned is in force once it is the last one.
LEMMA LastIsInForce ==
  ASSUME NEW o, Shape(o), Readable(o),
         NEW e \in EventSet, e.type = "REVIEWED", e.seq = Len(o) + 1, e.item = 1,
         e.decision.bundle # None, Effective(e.decision),
         e.decision.overturns # e.decision.id,
         \A k \in Reviews(o) : o[k].decision.overturns # e.decision.id
  PROVE  Replayed(Append(o, e)) = {e.decision}
<1> DEFINE more == Append(o, e)
           n == Len(o) + 1
<1>1. /\ Shape(more) /\ Reviews(more) = Reviews(o) \cup {n} /\ more[n] = e
      /\ \A k \in DOMAIN o : more[k] = o[k] /\ k < n
  BY LedgerGrows
<1>2. n \in Nat /\ DOMAIN o \subseteq Nat
  BY ShapeFits
<1> HIDE DEF more, n
<1>3. \A k \in Reviews(o) : k \in DOMAIN o /\ more[k] = o[k] /\ k < n
  BY <1>1 DEF Reviews
<1>4. Readable(more)
  BY <1>1, <1>3 DEF Readable
<1>5. ~Overturned(more, n)
  BY <1>1, <1>3 DEF Overturned
<1>6. n \in Standing(more, OfTheRun, 2) /\ \A j \in Standing(more, OfTheRun, 2) : j <= n
  <2>1. Standing(more, OfTheRun, 2) = {k \in Reviews(more) : ~Overturned(more, k)}
    BY <1>1, <1>4, StandingReviews
  <2>2. \A j \in Reviews(more) : j <= n
    BY <1>1, <1>2, <1>3
  <2> QED BY <2>1, <2>2, <1>1, <1>5
<1>7. \A m \in Standing(more, OfTheRun, 2) :
        (\A j \in Standing(more, OfTheRun, 2) : j <= m) => m = n
  <2>1. \A m \in Standing(more, OfTheRun, 2) : m \in Nat
    BY <1>1, <1>2, <1>3 DEF Standing
  <2> QED BY <2>1, <1>2, <1>6
<1>8. InForce(more, OfTheRun, 2) = {e.decision}
  BY <1>1, <1>6, <1>7 DEF InForce
<1> QED BY <1>1, <1>8, ReplayedIsInForce DEF more

-----------------------------------------------------------------------------
(* Types.                                                                  *)

LEMMA BlankFits ==
  /\ NoDecision \in Decisions
  /\ Blank \in [type : {"CREATED"}, seq : {0}, item : {0}, order : {<<>>}, decision : {NoDecision}]
  /\ NoCommand \in CommandSet
  /\ NoReview \in [decision : Decisions, ready : BOOLEAN]
<1>1. NoDecision \in Decisions
  BY DEF NoDecision, Decisions, Ids, Actors
<1> QED BY <1>1 DEF Blank, NoCommand, CommandSet, NoReview

LEMMA LedgerFits ==
  ASSUME TypeInv
  PROVE  /\ log \in Seq(EventSet) /\ Len(log) \in Nat /\ DOMAIN log = 1..Len(log)
         /\ \A k \in DOMAIN log : log[k] \in EventSet
<1>1. log \in Seq(EventSet)
  BY DEF TypeInv
<1> QED BY <1>1

LEMMA EventFits ==
  ASSUME TypeInv, NEW d \in Decisions, NEW type \in {"REVIEWED", "APPLIED"}
  PROVE  /\ Event(type, d) \in EventSet
         /\ Event(type, d).type = type
         /\ Event(type, d).seq = Len(log) + 1
         /\ Event(type, d).item = 1
         /\ Event(type, d).decision = d
<1>1. Len(log) + 1 \in Nat
  BY LedgerFits
<1> QED BY <1>1, BlankFits DEF Event, Blank, EventSet

LEMMA DecisionAt ==
  ASSUME TypeInv, NEW k \in DOMAIN log
  PROVE  log[k] \in EventSet /\ log[k].decision \in Decisions
<1>1. log[k] \in EventSet
  BY LedgerFits
<1> QED BY <1>1 DEF EventSet

LEMMA CorrectionFits ==
  ASSUME NEW d \in Decisions, d.id \in Nat \X Nat
  PROVE  /\ Correction(d) \in Decisions
         /\ Correction(d).id = <<d.id[1], d.id[2] + 1>>
         /\ Correction(d).overturns = d.id
         /\ Correction(d).verdict = "REJECTED"
         /\ Correction(d).bundle = d.bundle
         /\ Correction(d).actor = d.actor
         /\ Correction(d).allowed = d.allowed
<1>1. PICK a \in Nat, b \in Nat : d.id = <<a, b>>
  OBVIOUS
<1>2. d.id[1] = a /\ d.id[2] = b /\ <<a, b + 1>> \in Ids /\ d.id \in Ids
  BY <1>1 DEF Ids
<1> QED BY <1>2 DEF Correction, Decisions, Verdicts

LEMMA TypeInit == Init => TypeInv
<1> SUFFICES ASSUME Init PROVE TypeInv
  OBVIOUS
<1>1. /\ [Blank EXCEPT !.seq = 1] \in EventSet
      /\ Attaching \in EventSet
  BY BlankFits DEF EventSet, Attaching, Blank
<1>2. log \in Seq(EventSet)
  BY <1>1 DEF Init
<1> QED BY <1>2, BlankFits, DecisionAssumption DEF Init, TypeInv, Phases

\* What a step does to the command of its process.
LEMMA CommandsFit ==
  ASSUME TypeInv, NEW p \in Procs, NEW c \in CommandSet, cmd' = [cmd EXCEPT ![p] = c]
  PROVE  /\ cmd' \in [Procs -> CommandSet] /\ cmd'[p] = c
         /\ \A q \in Procs : q # p => cmd'[q] = cmd[q]
BY DEF TypeInv

LEMMA PhasesFit ==
  ASSUME TypeInv, NEW p \in Procs, NEW phase \in Phases, Goto(p, phase)
  PROVE  /\ pc' \in [Procs -> Phases] /\ pc'[p] = phase
         /\ \A q \in Procs : q # p => pc'[q] = pc[q]
BY DEF TypeInv, Goto

LEMMA ExitFits ==
  ASSUME TypeInv, NEW p \in Procs, Exit(p)
  PROVE  /\ cmd' \in [Procs -> CommandSet] /\ cmd'[p] = NoCommand
         /\ pc' \in [Procs -> Phases] /\ pc'[p] = "idle"
         /\ \A q \in Procs : q # p => cmd'[q] = cmd[q] /\ pc'[q] = pc[q]
<1>1. "idle" \in Phases
  BY DEF Phases
<1>2. Goto(p, "idle") /\ cmd' = [cmd EXCEPT ![p] = NoCommand] /\ NoCommand \in CommandSet
  BY BlankFits DEF Exit
<1>3. /\ pc' \in [Procs -> Phases] /\ pc'[p] = "idle"
      /\ \A q \in Procs : q # p => pc'[q] = pc[q]
  BY <1>1, <1>2, PhasesFit
<1>4. /\ cmd' \in [Procs -> CommandSet] /\ cmd'[p] = NoCommand
      /\ \A q \in Procs : q # p => cmd'[q] = cmd[q]
  BY <1>2, CommandsFit
<1> QED BY <1>3, <1>4

\* What a step does to the ledger: nothing, or one event is appended under the lock.
LEMMA LedgerMoves ==
  ASSUME [Next]_vars
  PROVE  /\ trace' = trace
         /\ \/ UNCHANGED objective
            \/ \E p \in Procs : Decide(p) \/ Record(p)
<1> DEFINE Still == trace' = trace /\ UNCHANGED objective
<1>1. CASE UNCHANGED vars
  BY <1>1 DEF vars, artifacts, objective
<1>2. CASE Damage \/ BreakLock
  BY <1>2 DEF Damage, BreakLock, artifacts, objective
<1>3. ASSUME NEW p \in Procs, Number(p) \/ Bundle(p) \/ Refer(p) \/ WriteLocal(p)
      PROVE  Still
  BY <1>3 DEF Number, Bundle, Refer, WriteLocal, artifacts, objective
<1>4. ASSUME NEW p \in Procs, BeginImport(p) \/ PlanApply(p) \/ Acquire(p) \/ NotAcquired(p)
      PROVE  Still
  BY <1>4 DEF BeginImport, PlanApply, Acquire, NotAcquired, artifacts, objective
<1>5. ASSUME NEW p \in Procs, CheckImport(p) \/ CheckCorrect(p) \/ CheckApply(p)
      PROVE  Still
  BY <1>5 DEF CheckImport, CheckCorrect, CheckApply, artifacts, objective
<1>6. ASSUME NEW p \in Procs, GitApply(p) \/ Crash(p)
      PROVE  Still
  BY <1>6 DEF GitApply, Crash, artifacts, objective
<1>7. ASSUME NEW p \in Procs, Decide(p) \/ Record(p)
      PROVE  trace' = trace
  BY <1>7 DEF Decide, Record, artifacts
<1> HIDE DEF Still
<1>8. Still \/ \E p \in Procs : trace' = trace /\ (Decide(p) \/ Record(p))
  BY <1>1, <1>2, <1>3, <1>4, <1>5, <1>6, <1>7 DEF Next, Still
<1> QED BY <1>8 DEF Still

\* The command a step writes, if it does not end it.
LEMMA NumberWrites ==
  ASSUME TypeInv, NEW p \in Procs, Number(p)
  PROVE  \E c \in CommandSet :
           /\ cmd' = [cmd EXCEPT ![p] = c]
           /\ c.op = "REVIEW" /\ c.number = Len(bundles) + 1 /\ c.decision.overturns = None
<1>1. started' \in Nat /\ Len(bundles) + 1 \in Nat
  <2>1. bundles \in Seq(BundleSet) /\ started \in Nat
    BY DEF TypeInv
  <2> QED BY <2>1 DEF Number
<1>2. PICK v \in Verdicts, a \in Actors, w \in SUBSET CapabilityGaps :
        cmd' = [cmd EXCEPT ![p] =
                  [NoCommand EXCEPT
                    !.number = NextReviewDecisionId, !.stamp = started', !.waived = w,
                    !.decision = [NoDecision EXCEPT !.verdict = v, !.actor = a]]]
  BY DEF Number
<1>3. w \in SUBSET Gaps
  BY DEF TypeInv, TraceSet, CapabilityGaps
<1>4. /\ [NoDecision EXCEPT !.verdict = v, !.actor = a] \in Decisions
      /\ [NoDecision EXCEPT !.verdict = v, !.actor = a].overturns = None
  BY DEF NoDecision, Decisions, Ids, Actors
<1> DEFINE c == [NoCommand EXCEPT
                   !.number = NextReviewDecisionId, !.stamp = started', !.waived = w,
                   !.decision = [NoDecision EXCEPT !.verdict = v, !.actor = a]]
<1>5. /\ c \in CommandSet /\ c.op = "REVIEW" /\ c.number = Len(bundles) + 1
      /\ c.decision = [NoDecision EXCEPT !.verdict = v, !.actor = a]
  BY <1>1, <1>3, <1>4 DEF NoCommand, CommandSet, NextReviewDecisionId
<1> QED BY <1>2, <1>4, <1>5

LEMMA BundleWrites ==
  ASSUME TypeInv, CommandInv, NEW p \in Procs, Bundle(p)
  PROVE  /\ bundles' \in Seq(BundleSet) /\ Len(bundles) <= Len(bundles')
         /\ cmd[p].number \in DOMAIN bundles'
         /\ \/ Exit(p)
            \/ /\ Goto(p, "bundled")
               /\ \E c \in CommandSet :
                    /\ cmd' = [cmd EXCEPT ![p] = c]
                    /\ c.op = "REVIEW" /\ c.number = cmd[p].number
                    /\ c.decision = cmd[p].decision
                    /\ Earned(c.decision) /\ c.decision.actor \in trace.allowed
<1> DEFINE c0 == cmd[p]
           b == [stamp |-> c0.stamp, intact |-> intact]
<1>1. c0 \in CommandSet /\ bundles \in Seq(BundleSet) /\ intact \in BOOLEAN
  BY DEF TypeInv
<1>2. c0.op = "REVIEW" /\ c0.number \in 1..(Len(bundles) + 1)
  BY DEF CommandInv, Carries, Bundle
<1>3. b \in BundleSet
  BY <1>1 DEF CommandSet, BundleSet
<1> HIDE DEF b
<1>4. bundles' = IF c0.number <= Len(bundles) THEN [bundles EXCEPT ![c0.number] = b]
                                              ELSE Append(bundles, b)
  BY DEF Bundle, b
<1>5. /\ bundles' \in Seq(BundleSet) /\ Len(bundles) <= Len(bundles')
      /\ c0.number \in DOMAIN bundles'
  BY <1>1, <1>2, <1>3, <1>4
<1>6. ASSUME ~Exit(p)
      PROVE  /\ Goto(p, "bundled")
             /\ MayDecide(b, c0)
             /\ cmd' = [cmd EXCEPT ![p].ready = MigrationReady(b, c0)]
  BY <1>6 DEF Bundle, b
<1>7. ASSUME MayDecide(b, c0)
      PROVE  Earned(c0.decision) /\ c0.decision.actor \in trace.allowed
  <2>1. c0.decision.actor \in trace.allowed /\ trace.allowed = {"HUMAN"}
    BY <1>7 DEF MayDecide, TypeInv, TraceSet
  <2>2. ASSUME c0.decision.verdict = "ACCEPTED"
        PROVE  trace.done /\ trace.gate /\ ~trace.violation /\ Cut \notin trace.gaps
    BY <1>7, <2>2 DEF MayDecide, EvaluateAcceptance, Defects, Unwaivable
  <2> QED BY <2>1, <2>2 DEF Earned
<1>8. MigrationReady(b, c0) \in BOOLEAN
  BY DEF MigrationReady
<1> DEFINE c == [c0 EXCEPT !.ready = MigrationReady(b, c0)]
<1>9. c \in CommandSet /\ c.op = c0.op /\ c.number = c0.number /\ c.decision = c0.decision
  BY <1>1, <1>8 DEF CommandSet
<1>10. ASSUME ~Exit(p)
       PROVE  cmd' = [cmd EXCEPT ![p] = c]
  BY <1>10, <1>6
<1> HIDE DEF c
<1> QED BY <1>2, <1>5, <1>6, <1>7, <1>9, <1>10

LEMMA ReferWrites ==
  ASSUME TypeInv, CommandInv, NEW p \in Procs, Refer(p)
  PROVE  \E c \in CommandSet :
           /\ cmd' = [cmd EXCEPT ![p] = c]
           /\ c.op = "REVIEW" /\ Fit(c.decision) /\ First(c.decision)
<1> DEFINE d == cmd[p].decision
           n == cmd[p].number
<1>1. /\ cmd[p] \in CommandSet /\ cmd[p].op = "REVIEW" /\ n \in DOMAIN bundles
      /\ Earned(d) /\ d.actor \in trace.allowed /\ d.overturns = None
  BY DEF TypeInv, CommandInv, Carries, Refer
<1>2. d \in Decisions /\ n \in Nat
  BY <1>1 DEF CommandSet
<1>3. BundleHash(p) \in Nat
  <2>1. bundles \in Seq(BundleSet)
    BY DEF TypeInv
  <2>2. bundles[n] \in BundleSet
    BY <1>1, <2>1
  <2> QED BY <2>2 DEF BundleHash, BundleSet
<1>4. BundleHash(p) # None
  BY <1>3, DecisionAssumption
<1>5. trace.allowed \in SUBSET Actors /\ trace.done \in BOOLEAN /\ trace.gate \in BOOLEAN
  BY DEF TypeInv, TraceSet, Actors
<1> DEFINE e == [d EXCEPT !.id = <<n, 0>>, !.bundle = BundleHash(p),
                          !.proved = trace.done /\ trace.gate, !.allowed = trace.allowed]
<1>6. (trace.done /\ trace.gate) \in BOOLEAN /\ <<n, 0>> \in Ids
  BY <1>2 DEF Ids
<1>7. /\ e \in Decisions /\ e.id = <<n, 0>> /\ e.bundle = BundleHash(p)
      /\ e.allowed = trace.allowed /\ e.actor = d.actor /\ e.verdict = d.verdict
      /\ e.overturns = d.overturns
  BY <1>2, <1>3, <1>5, <1>6 DEF Decisions
<1> HIDE DEF e
<1>8. Fit(e) /\ First(e)
  BY <1>1, <1>2, <1>4, <1>7 DEF Fit, First, Earned, Effective
<1> DEFINE c == [cmd[p] EXCEPT !.decision = e]
<1>9. c \in CommandSet /\ c.op = "REVIEW" /\ c.decision = e
  BY <1>1, <1>7 DEF CommandSet
<1>10. cmd' = [cmd EXCEPT ![p] = c]
  BY DEF Refer, e
<1> QED BY <1>8, <1>9, <1>10

LEMMA TypeStep ==
  ASSUME TypeInv, CommandInv, LedgerInv, [Next]_vars
  PROVE  TypeInv'
<1> DEFINE Rest == UNCHANGED <<trace, intact, bundles, started, localFile, log, workspace, crashes>>
<1>0. /\ trace \in TraceSet /\ intact \in BOOLEAN /\ bundles \in Seq(BundleSet)
      /\ started \in Nat /\ localFile \in [decision : Decisions, ready : BOOLEAN]
      /\ log \in Seq(EventSet) /\ workspace \in {"without", "applied", "half applied"}
      /\ lock \in Procs \cup {None} /\ pc \in [Procs -> Phases]
      /\ cmd \in [Procs -> CommandSet] /\ crashes \in Nat
  BY DEF TypeInv
<1>n. started \in Nat /\ crashes \in Nat
  BY <1>0
<1>e. log \in Seq(EventSet)
  BY <1>0
<1>p. {"idle", "numbered", "bundled", "written", "import", "apply", "check", "append", "git",
       "record"} \subseteq Phases
  BY DEF Phases, Critical
<1>1. CASE UNCHANGED vars
  BY <1>0, <1>1 DEF vars, artifacts, reviews, local, objective, TypeInv
<1>2. CASE Damage
  BY <1>0, <1>2 DEF Damage, reviews, local, objective, TypeInv
<1>3. CASE BreakLock
  BY <1>0, <1>3 DEF BreakLock, artifacts, reviews, local, objective, TypeInv
<1>4. ASSUME NEW p \in Procs, Number(p)
      PROVE  TypeInv'
  <2>1. cmd' \in [Procs -> CommandSet]
    BY <1>4, NumberWrites, CommandsFit
  <2>2. pc' \in [Procs -> Phases]
    BY <1>4, <1>p, PhasesFit DEF Number
  <2>3. started' \in Nat
    BY <1>n, <1>4 DEF Number
  <2>4. UNCHANGED <<trace, intact, bundles, localFile, log, workspace, lock, crashes>>
    BY <1>4 DEF Number, artifacts, objective
  <2> QED BY <1>0, <2>1, <2>2, <2>3, <2>4 DEF TypeInv
<1>5. ASSUME NEW p \in Procs, Bundle(p)
      PROVE  TypeInv'
  <2>1. cmd' \in [Procs -> CommandSet] /\ pc' \in [Procs -> Phases]
    BY <1>5, <1>p, BundleWrites, CommandsFit, PhasesFit, ExitFits
  <2>2. bundles' \in Seq(BundleSet)
    BY <1>5, BundleWrites
  <2> QED BY <1>0, <1>5, <2>1, <2>2 DEF Bundle, artifacts, objective, TypeInv
<1>6. ASSUME NEW p \in Procs, Refer(p)
      PROVE  TypeInv'
  <2>1. cmd' \in [Procs -> CommandSet]
    BY <1>6, ReferWrites, CommandsFit
  <2>2. pc' \in [Procs -> Phases]
    BY <1>6, <1>p, PhasesFit DEF Refer
  <2> QED BY <1>0, <1>6, <2>1, <2>2 DEF Refer, artifacts, reviews, objective, TypeInv
<1>7. ASSUME NEW p \in Procs, WriteLocal(p)
      PROVE  TypeInv'
  <2>1. cmd' \in [Procs -> CommandSet] /\ pc' \in [Procs -> Phases]
    BY <1>7, ExitFits DEF WriteLocal
  <2>2. cmd[p] \in CommandSet
    BY <1>0
  <2>3. localFile' \in [decision : Decisions, ready : BOOLEAN]
    BY <1>7, <2>2 DEF WriteLocal, CommandSet
  <2> QED BY <1>0, <1>7, <2>1, <2>3 DEF WriteLocal, artifacts, objective, TypeInv
<1>8. ASSUME NEW p \in Procs, BeginImport(p)
      PROVE  TypeInv'
  <2>1. [NoCommand EXCEPT !.op = "IMPORT", !.ready = localFile.ready,
                          !.decision = localFile.decision] \in CommandSet
    BY <1>0, BlankFits DEF NoCommand, CommandSet
  <2>2. cmd' \in [Procs -> CommandSet] /\ pc' \in [Procs -> Phases]
    BY <1>8, <1>p, <2>1, CommandsFit, PhasesFit DEF BeginImport
  <2> QED BY <1>0, <1>8, <2>2 DEF BeginImport, artifacts, reviews, objective, TypeInv
<1>9. ASSUME NEW p \in Procs, PlanApply(p)
      PROVE  TypeInv'
  <2>1. PICK d \in LastDecision :
          cmd' = [cmd EXCEPT ![p] = [NoCommand EXCEPT !.op = "APPLY", !.decision = d]]
    BY <1>9 DEF PlanApply
  <2>2. d \in Decisions
    BY <2>1, DecisionAt DEF LastDecision, Decided, Reviews
  <2>3. [NoCommand EXCEPT !.op = "APPLY", !.decision = d] \in CommandSet
    BY <2>2, BlankFits DEF NoCommand, CommandSet
  <2>4. cmd' \in [Procs -> CommandSet] /\ pc' \in [Procs -> Phases]
    BY <1>9, <1>p, <2>1, <2>3, CommandsFit, PhasesFit DEF PlanApply
  <2> QED BY <1>0, <1>9, <2>4 DEF PlanApply, artifacts, reviews, objective, TypeInv
<1>10. ASSUME NEW p \in Procs, Acquire(p)
       PROVE  TypeInv'
  <2>1. CASE UNCHANGED cmd
    <3>1. cmd' \in [Procs -> CommandSet] /\ pc' \in [Procs -> Phases]
      BY <1>0, <1>10, <1>p, <2>1, PhasesFit DEF Acquire
    <3> QED BY <1>0, <1>10, <3>1 DEF Acquire, artifacts, reviews, objective, TypeInv
  <2>2. CASE ~UNCHANGED cmd
    <3>1. PICK k \in Decided :
            cmd' = [cmd EXCEPT ![p] = [NoCommand EXCEPT !.op = "CORRECT",
                                                        !.decision = log[k].decision]]
      BY <1>10, <2>2 DEF Acquire
    <3>2. log[k].decision \in Decisions
      BY <3>1, DecisionAt DEF Decided, Reviews
    <3>3. [NoCommand EXCEPT !.op = "CORRECT", !.decision = log[k].decision] \in CommandSet
      BY <3>2, BlankFits DEF NoCommand, CommandSet
    <3>4. cmd' \in [Procs -> CommandSet] /\ pc' \in [Procs -> Phases]
      BY <1>10, <1>p, <3>1, <3>3, CommandsFit, PhasesFit DEF Acquire
    <3> QED BY <1>0, <1>10, <3>4 DEF Acquire, artifacts, reviews, objective, TypeInv
  <2> QED BY <2>1, <2>2
<1>11. ASSUME NEW p \in Procs, NotAcquired(p)
       PROVE  TypeInv'
  <2>1. cmd' \in [Procs -> CommandSet] /\ pc' \in [Procs -> Phases]
    BY <1>11, ExitFits DEF NotAcquired
  <2> QED BY <1>0, <1>11, <2>1 DEF NotAcquired, artifacts, reviews, objective, TypeInv
<1>12. ASSUME NEW p \in Procs, CheckImport(p) \/ CheckCorrect(p) \/ CheckApply(p)
       PROVE  TypeInv'
  <2>1. /\ \/ Leave(p)
           \/ UNCHANGED <<lock, cmd>> /\ (Goto(p, "append") \/ Goto(p, "git"))
        /\ UNCHANGED <<artifacts, reviews, objective, workspace, crashes>>
    BY <1>12 DEF CheckImport, CheckCorrect, CheckApply
  <2>2. /\ cmd' \in [Procs -> CommandSet] /\ pc' \in [Procs -> Phases]
        /\ lock' \in Procs \cup {None}
    BY <1>0, <1>p, <2>1, ExitFits, PhasesFit DEF Leave
  <2> QED BY <1>0, <2>1, <2>2 DEF artifacts, reviews, objective, TypeInv
<1>13. ASSUME NEW p \in Procs, Decide(p) \/ Record(p)
       PROVE  TypeInv'
  <2>1. cmd[p] \in CommandSet
    BY <1>0
  <2>2. cmd[p].decision \in Decisions
    BY <2>1 DEF CommandSet
  <2>3. PICK type \in {"REVIEWED", "APPLIED"}, d \in Decisions : log' = Append(log, Event(type, d))
    <3>1. CASE Record(p)
      BY <3>1, <2>2 DEF Record
    <3>2. CASE Decide(p) /\ cmd[p].op = "IMPORT"
      BY <3>2, <2>2 DEF Decide
    <3>3. CASE Decide(p) /\ cmd[p].op # "IMPORT"
      <4>1. cmd[p].op = "CORRECT"
        BY <3>3 DEF CommandInv, Checked, Decide
      <4>2. PICK k \in Decided : log[k].decision = cmd[p].decision
        BY <4>1 DEF CommandInv, Carries
      <4>3. cmd[p].decision.id \in Nat \X Nat
        BY <4>2 DEF LedgerInv, Fit
      <4>4. Correction(cmd[p].decision) \in Decisions
        BY <4>3, <2>2, CorrectionFits
      <4> QED BY <3>3, <4>4 DEF Decide
    <3> QED BY <1>13, <3>1, <3>2, <3>3
  <2>4. log' \in Seq(EventSet)
    <3>1. Event(type, d) \in EventSet
      BY EventFits
    <3> QED BY <1>e, <2>3, <3>1
  <2>5. /\ cmd' \in [Procs -> CommandSet] /\ pc' \in [Procs -> Phases]
        /\ lock' \in Procs \cup {None}
    BY <1>13, ExitFits DEF Decide, Record, Leave
  <2> QED BY <1>0, <1>13, <2>4, <2>5 DEF Decide, Record, artifacts, reviews, TypeInv
<1>14. ASSUME NEW p \in Procs, GitApply(p)
       PROVE  TypeInv'
  <2>1. /\ cmd' \in [Procs -> CommandSet] /\ pc' \in [Procs -> Phases]
        /\ lock' \in Procs \cup {None}
    BY <1>0, <1>p, <1>14, ExitFits, PhasesFit DEF GitApply, Leave
  <2>2. workspace' \in {"without", "applied", "half applied"}
    BY <1>14 DEF GitApply
  <2> QED BY <1>0, <1>14, <2>1, <2>2 DEF GitApply, artifacts, reviews, objective, TypeInv
<1>15. ASSUME NEW p \in Procs, Crash(p)
       PROVE  TypeInv'
  <2>1. cmd' \in [Procs -> CommandSet] /\ pc' \in [Procs -> Phases]
    BY <1>15, ExitFits DEF Crash
  <2>2. workspace' \in {workspace} \cup {"half applied"}
    BY <1>15 DEF Crash
  <2>5. crashes' = crashes + 1
    BY <1>15 DEF Crash
  <2>3. workspace' \in {"without", "applied", "half applied"}
    BY <1>0, <2>2
  <2>4. crashes' \in Nat
    BY <1>n, <2>5
  <2> QED BY <1>0, <1>15, <2>1, <2>3, <2>4 DEF Crash, artifacts, reviews, objective, TypeInv
<1> QED
  BY <1>1, <1>2, <1>3, <1>4, <1>5, <1>6, <1>7, <1>8, <1>9, <1>10, <1>11, <1>12, <1>13, <1>14,
     <1>15 DEF Next

-----------------------------------------------------------------------------
(* The lock.                                                               *)

LEMMA LockStep ==
  ASSUME TypeInv, LockInv, [Next]_vars
  PROVE  LockInv'
<1>0. pc \in [Procs -> Phases] /\ \A p \in Procs : pc[p] \in Critical => lock = p
  BY DEF TypeInv, LockInv, Live
<1>1. ASSUME NEW p \in Procs, NEW phase, pc' = [pc EXCEPT ![p] = phase],
             phase \in Critical => lock' = p,
             lock' = lock \/ lock = None \/ lock = p
      PROVE  LockInv'
  <2> SUFFICES ASSUME NEW q \in Procs, pc'[q] \in Critical
               PROVE  lock' = q
    BY DEF LockInv, Live
  <2>1. CASE q = p
    BY <1>0, <1>1, <2>1
  <2>2. CASE q # p
    <3>1. lock = q
      BY <1>0, <1>1, <2>2
    <3>2. q # None
      BY DecisionAssumption
    <3> QED BY <1>1, <2>2, <3>1, <3>2
  <2> QED BY <2>1, <2>2
<1>i. "idle" \notin Critical
  BY DEF Critical
<1>2. CASE UNCHANGED vars
  BY <1>2 DEF vars, local, LockInv, Live
<1>3. CASE Damage
  BY <1>3 DEF Damage, local, LockInv, Live
<1>4. CASE BreakLock
  <2>1. \A p \in Procs : pc[p] \notin Critical
    BY <1>0, <1>4 DEF BreakLock, Live
  <2> QED BY <2>1, <1>4 DEF BreakLock, local, LockInv, Live
<1>5. ASSUME NEW p \in Procs,
             Number(p) \/ Bundle(p) \/ Refer(p) \/ WriteLocal(p) \/ BeginImport(p)
               \/ PlanApply(p) \/ NotAcquired(p) \/ Crash(p)
      PROVE  LockInv'
  <2>1. lock' = lock /\ \E phase : phase \notin Critical /\ pc' = [pc EXCEPT ![p] = phase]
    BY <1>5 DEF Number, Bundle, Refer, WriteLocal, BeginImport, PlanApply, NotAcquired, Crash,
                Exit, Goto, Critical
  <2> QED BY <2>1, <1>1
<1>6. ASSUME NEW p \in Procs, Acquire(p)
      PROVE  LockInv'
  <2>1. lock = None /\ lock' = p /\ pc' = [pc EXCEPT ![p] = "check"]
    BY <1>6 DEF Acquire, Goto
  <2> QED BY <2>1, <1>1
<1>7. ASSUME NEW p \in Procs, CheckImport(p) \/ CheckCorrect(p) \/ CheckApply(p) \/ GitApply(p)
      PROVE  LockInv'
  <2>1. lock = p
    BY <1>0, <1>7 DEF CheckImport, CheckCorrect, CheckApply, GitApply, Critical
  <2>2. \/ lock' = lock /\ \E phase : pc' = [pc EXCEPT ![p] = phase]
        \/ pc' = [pc EXCEPT ![p] = "idle"]
    BY <1>7 DEF CheckImport, CheckCorrect, CheckApply, GitApply, Leave, Exit, Goto
  <2> QED BY <2>1, <2>2, <1>1, <1>i
<1>8. ASSUME NEW p \in Procs, Decide(p) \/ Record(p)
      PROVE  LockInv'
  <2>1. lock = p
    BY <1>0, <1>8 DEF Decide, Record, Critical
  <2>2. pc' = [pc EXCEPT ![p] = "idle"]
    BY <1>8 DEF Decide, Record, Leave, Exit, Goto
  <2> QED BY <2>1, <2>2, <1>1, <1>i
<1> QED BY <1>2, <1>3, <1>4, <1>5, <1>6, <1>7, <1>8 DEF Next

-----------------------------------------------------------------------------
(* The ledger.                                                             *)

\* Of the decisions in the ledger.
LEMMA DecidedFits ==
  ASSUME LedgerInv
  PROVE  /\ Shape(log) /\ Readable(log)
         /\ \A k \in Decided : k \in DOMAIN log
BY DEF LedgerInv, Fit, Readable, Decided, Reviews

\* What the two commands append.
LEMMA Appended ==
  ASSUME TypeInv, LedgerInv, CommandInv, NEW p \in Procs, Decide(p) \/ Record(p)
  PROVE  \E e \in EventSet :
           /\ log' = Append(log, e) /\ inForce' = Replayed(log')
           /\ e.seq = Len(log) + 1 /\ e.item = 1
           /\ \/ /\ Record(p) /\ e.type = "APPLIED"
              \/ /\ Decide(p) /\ e.type = "REVIEWED" /\ cmd[p].op = "IMPORT"
                 /\ e.decision = cmd[p].decision
                 /\ Fit(e.decision) /\ First(e.decision)
                 /\ Imported(e.decision.id) = {}
              \/ /\ Decide(p) /\ e.type = "REVIEWED" /\ cmd[p].op = "CORRECT"
                 /\ e.decision = Correction(cmd[p].decision)
                 /\ Fit(e.decision) /\ Follows(e.decision)
                 /\ e.decision.verdict = "REJECTED"
                 /\ e.decision.overturns # e.decision.id
                 /\ \A k \in Decided : log[k].decision.overturns # e.decision.id
<1> DEFINE d == cmd[p].decision
<1>1. d \in Decisions
  BY DEF TypeInv, CommandSet
<1>2. CASE Record(p)
  <2>1. log' = Append(log, Event("APPLIED", d)) /\ inForce' = Replayed(log')
    BY <1>2 DEF Record
  <2> QED BY <1>1, <1>2, <2>1, EventFits
<1>3. CASE Decide(p) /\ cmd[p].op = "IMPORT"
  <2>1. log' = Append(log, Event("REVIEWED", d)) /\ inForce' = Replayed(log')
    BY <1>3 DEF Decide
  <2>2. Fit(d) /\ First(d) /\ Imported(d.id) = {}
    BY <1>3 DEF CommandInv, Carries, Checked, Decide
  <2> QED BY <1>1, <1>3, <2>1, <2>2, EventFits
<1>4. CASE Decide(p) /\ cmd[p].op # "IMPORT"
  <2>1. cmd[p].op = "CORRECT" /\ \A k \in Decided : log[k].decision.overturns # d.id
    BY <1>4 DEF CommandInv, Checked, Decide
  <2>2. PICK m \in Decided : log[m].decision = d
    BY <2>1 DEF CommandInv, Carries
  <2>3. Fit(d)
    BY <2>2 DEF LedgerInv
  <2> DEFINE c == Correction(d)
  <2>4. PICK a \in Nat, b \in Nat : d.id = <<a, b>>
    BY <2>3 DEF Fit
  <2>5. /\ c \in Decisions /\ c.id = <<a, b + 1>> /\ c.overturns = <<a, b>>
        /\ c.verdict = "REJECTED" /\ c.bundle = d.bundle /\ c.actor = d.actor
        /\ c.allowed = d.allowed
    <3>1. d.id[1] = a /\ d.id[2] = b
      BY <2>4
    <3> QED BY <2>3, <2>4, <3>1, <1>1, CorrectionFits DEF Fit
  <2>6. log' = Append(log, Event("REVIEWED", c)) /\ inForce' = Replayed(log')
    BY <1>4 DEF Decide
  <2> HIDE DEF c
  <2>7. Fit(c)
    BY <2>3, <2>4, <2>5 DEF Fit, Earned, Effective
  <2>8. Follows(c)
    <3>1. m \in Imported(c.overturns)
      BY <2>2, <2>4, <2>5 DEF Imported
    <3>2. c.id[1] = a /\ c.id[2] = b + 1 /\ b + 1 # 0 /\ (b + 1) - 1 = b
      BY <2>4, <2>5
    <3> QED BY <2>5, <3>1, <3>2 DEF Follows
  <2>9. c.overturns # c.id
    BY <2>4, <2>5
  <2>10. Imported(c.id) = {}
    <3> SUFFICES ASSUME NEW k \in Decided, log[k].decision.id = c.id
                 PROVE  FALSE
      BY DEF Imported
    <3> DEFINE e == log[k].decision
    <3>1. e.id[1] = a /\ e.id[2] = b + 1 /\ b + 1 # 0 /\ (b + 1) - 1 = b
      BY <2>5
    <3>2. First(e) \/ Follows(e)
      BY DEF LedgerInv
    <3>3. e.overturns = <<a, b>>
      BY <3>1, <3>2 DEF First, Follows
    <3> QED BY <2>1, <2>4, <3>3
  <2>11. \A k \in Decided : log[k].decision.overturns # c.id
    <3> SUFFICES ASSUME NEW k \in Decided, log[k].decision.overturns = c.id
                 PROVE  FALSE
      OBVIOUS
    <3>1. c.id # None
      BY <2>5, DecisionAssumption
    <3>2. Follows(log[k].decision)
      BY <3>1 DEF LedgerInv, First
    <3> QED BY <2>10, <3>2 DEF Follows
  <2> DEFINE e == Event("REVIEWED", c)
  <2>12. /\ e \in EventSet /\ e.type = "REVIEWED" /\ e.seq = Len(log) + 1 /\ e.item = 1
         /\ e.decision = c
    BY <2>5, EventFits
  <2>13. log' = Append(log, e)
    BY <2>6
  <2>14. c = Correction(d) /\ c.verdict = "REJECTED"
    BY <2>5 DEF c
  <2> HIDE DEF e
  <2> QED BY <1>4, <2>1, <2>6, <2>7, <2>8, <2>9, <2>11, <2>12, <2>13, <2>14
<1> QED BY <1>2, <1>3, <1>4

\* The invariant's parts about one decision, in the next state.
LEMMA DecisionsKeep ==
  ASSUME trace' = trace
  PROVE  \A d : (Earned(d) => Earned(d)') /\ (Fit(d) => Fit(d)') /\ (First(d) => First(d)')
BY DEF Earned, Fit, First

LEMMA LedgerStep ==
  ASSUME TypeInv, LedgerInv, CommandInv, [Next]_vars
  PROVE  /\ LedgerInv'
         /\ Len(log) <= Len(log') /\ \A k \in DOMAIN log : k \in DOMAIN log' /\ log'[k] = log[k]
         /\ \A k \in Decided : k \in DOMAIN log /\ k \in Decided'
<1>1. /\ Shape(log) /\ inForce = Replayed(log)
      /\ \A k \in Decided : Fit(log[k].decision)
      /\ \A k \in Decided : First(log[k].decision) \/ Follows(log[k].decision)
  BY DEF LedgerInv
<1>2. trace' = trace
  BY LedgerMoves
<1>3. CASE UNCHANGED objective
  <2>1. log' = log /\ inForce' = inForce /\ Decided' = Decided
    BY <1>3 DEF objective, Decided, Reviews
  <2>2. Replayed(log)' = Replayed(log)
    BY <2>1 DEF Replayed
  <2>3. \A d : Follows(d) => Follows(d)'
    BY <2>1 DEF Follows, Imported
  <2>4. \A k \in Decided : Fit(log[k].decision)' /\ (First(log[k].decision) \/ Follows(log[k].decision))'
    BY <1>1, <1>2, <2>1, <2>3, DecisionsKeep
  <2> QED BY <1>1, <2>1, <2>2, <2>4, DecidedFits, ShapeFits DEF LedgerInv
<1>4. CASE \E p \in Procs : Decide(p) \/ Record(p)
  <2>1. PICK e \in EventSet :
          /\ log' = Append(log, e) /\ inForce' = Replayed(log')
          /\ e.seq = Len(log) + 1 /\ e.item = 1
          /\ e.type \in {"REVIEWED", "APPLIED"}
          /\ e.type = "REVIEWED" => Fit(e.decision) /\ (First(e.decision) \/ Follows(e.decision))
    BY <1>4, Appended
  <2>2. /\ Shape(log') /\ Len(log') = Len(log) + 1
        /\ DOMAIN log' = DOMAIN log \cup {Len(log) + 1}
        /\ log'[Len(log) + 1] = e
        /\ \A k \in DOMAIN log : log'[k] = log[k]
        /\ Reviews(log') = IF e.type = "REVIEWED" THEN Decided \cup {Len(log) + 1} ELSE Decided
    BY <1>1, <2>1, LedgerGrows DEF Decided
  <2>3. Decided' = Reviews(log')
    BY DEF Decided
  <2>4. \A k \in Decided : k \in DOMAIN log /\ k \in Decided' /\ log'[k] = log[k]
    BY <2>2, <2>3, DecidedFits
  <2>5. \A d : Follows(d) => Follows(d)'
    BY <2>4 DEF Follows, Imported
  <2>6. \A k \in Decided' : \E d : log'[k].decision = d /\ Fit(d) /\ (First(d) \/ Follows(d))
    BY <1>1, <2>1, <2>2, <2>3, <2>4
  <2>7. \A k \in Decided' :
          Fit(log[k].decision)' /\ (First(log[k].decision) \/ Follows(log[k].decision))'
    BY <1>2, <2>5, <2>6, DecisionsKeep
  <2>8. LedgerInv'
    BY <2>1, <2>2, <2>7 DEF LedgerInv, Shape, Replayed
  <2>9. Len(log) <= Len(log')
    BY <2>2, <1>1, ShapeFits
  <2> QED BY <2>2, <2>4, <2>8, <2>9
<1> QED BY <1>3, <1>4, LedgerMoves

-----------------------------------------------------------------------------
(* The commands.                                                           *)

\* What a process carries survives the steps of the others.
LEMMA CarriesOn ==
  ASSUME TypeInv, LedgerInv, CommandInv, [Next]_vars,
         NEW q \in Procs, pc'[q] = pc[q], cmd'[q] = cmd[q],
         bundles' = bundles \/ (bundles' \in Seq(BundleSet) /\ Len(bundles) <= Len(bundles'))
  PROVE  Carries(q)'
<1>1. trace' = trace
  BY LedgerMoves
<1>2. \A k \in Decided : k \in Decided' /\ log'[k] = log[k]
  BY LedgerStep
<1>3. Len(bundles) <= Len(bundles') /\ Len(bundles) \in Nat /\ Len(bundles') \in Nat
  <2>1. bundles \in Seq(BundleSet)
    BY DEF TypeInv
  <2> QED BY <2>1
<1>4. \A n : /\ n \in DOMAIN bundles => n \in DOMAIN bundles'
             /\ n \in 1..(Len(bundles) + 1) => n \in 1..(Len(bundles') + 1)
  <2>1. bundles \in Seq(BundleSet) /\ bundles' \in Seq(BundleSet)
    BY DEF TypeInv
  <2> QED BY <1>3, <2>1
<1> DEFINE c == cmd[q]
<1>5. \A d : (Earned(d) => Earned(d)') /\ (Fit(d) => Fit(d)') /\ (First(d) => First(d)')
  BY <1>1, DecisionsKeep
<1>6. Carries(q)
  BY DEF CommandInv
<1>7. /\ Earned(c.decision) => Earned(cmd[q].decision)'
      /\ Fit(c.decision) => Fit(cmd[q].decision)'
      /\ First(c.decision) => First(cmd[q].decision)'
  <2>1. \A d : d = c.decision =>
          /\ Earned(d) => Earned(cmd[q].decision)'
          /\ Fit(d) => Fit(cmd[q].decision)'
          /\ First(d) => First(cmd[q].decision)'
    BY <1>1 DEF Earned, Fit, First
  <2> QED BY <2>1
<1> QED BY <1>1, <1>2, <1>4, <1>6, <1>7 DEF Carries

\* So does what it found, unless they hold the lock.
LEMMA CheckedStill ==
  ASSUME CommandInv, NEW q \in Procs, pc'[q] = pc[q], cmd'[q] = cmd[q],
         pc[q] \notin {"append", "git", "record"} \/ UNCHANGED <<log, workspace>>
  PROVE  Checked(q)'
<1>1. Checked(q)
  BY DEF CommandInv
<1>2. CASE pc[q] \notin {"append", "git", "record"}
  BY <1>2 DEF Checked
<1>3. CASE UNCHANGED <<log, workspace>>
  BY <1>1, <1>3 DEF Checked, Imported, Decided, Reviews, AcceptedLast, LastDecision, AlreadyApplied
<1> QED BY <1>2, <1>3

LEMMA NothingCarried ==
  ASSUME NEW p \in Procs, pc'[p] = "idle", cmd'[p] = NoCommand
  PROVE  Carries(p)' /\ Checked(p)'
BY DEF Carries, Checked, NoCommand, Critical

\* A step of one process, in or out of the engine.
LEMMA OthersStep ==
  ASSUME TypeInv, LockInv, LedgerInv, CommandInv, [Next]_vars, NEW p \in Procs,
         \A q \in Procs : q # p => cmd'[q] = cmd[q] /\ pc'[q] = pc[q],
         UNCHANGED <<log, workspace>> \/ Live(p),
         bundles' = bundles \/ (bundles' \in Seq(BundleSet) /\ Len(bundles) <= Len(bundles')),
         localFile' # NoReview => Fit(localFile.decision)' /\ First(localFile.decision)',
         Carries(p)', Checked(p)'
  PROVE  CommandInv'
<1>1. ASSUME NEW q \in Procs, q # p
      PROVE  Carries(q)' /\ Checked(q)'
  <2>1. Carries(q)'
    BY <1>1, CarriesOn
  <2>2. UNCHANGED <<log, workspace>> \/ pc[q] \notin {"append", "git", "record"}
    BY <1>1 DEF LockInv, Live, Critical
  <2> QED BY <1>1, <2>1, <2>2, CheckedStill
<1>2. localFile' # NoReview' => Fit(localFile.decision)' /\ First(localFile.decision)'
  BY DEF NoReview, NoDecision
<1> QED BY <1>1, <1>2 DEF CommandInv

LEMMA LocalFileStays ==
  ASSUME CommandInv, trace' = trace, localFile' = localFile
  PROVE  localFile' # NoReview => Fit(localFile.decision)' /\ First(localFile.decision)'
<1>1. \A d : d = localFile.decision =>
        (Fit(d) => Fit(localFile.decision)') /\ (First(d) => First(localFile.decision)')
  BY DEF Fit, First, Earned
<1> QED BY <1>1 DEF CommandInv

\* A command that only moves on carries what it did.
LEMMA MovesOn ==
  ASSUME TypeInv, LedgerInv, CommandInv, [Next]_vars,
         NEW p \in Procs, cmd'[p] = cmd[p], cmd[p].op # "REVIEW",
         pc'[p] \in Critical, bundles' = bundles
  PROVE  Carries(p)'
<1>1. trace' = trace
  BY LedgerMoves
<1>2. \A k \in Decided : k \in Decided' /\ log'[k] = log[k]
  BY LedgerStep
<1>3. Carries(p)
  BY DEF CommandInv
<1>4. pc'[p] \notin {"numbered", "bundled", "written", "import", "apply"}
  BY DEF Critical
<1>5. /\ Fit(cmd[p].decision) => Fit(cmd[p].decision)'
      /\ First(cmd[p].decision) => First(cmd[p].decision)'
  <2>1. \A d : d = cmd[p].decision =>
          /\ Fit(d) => Fit(cmd[p].decision)'
          /\ First(d) => First(cmd[p].decision)'
    BY <1>1 DEF Earned, Fit, First
  <2> QED BY <2>1
<1> QED BY <1>2, <1>3, <1>4, <1>5 DEF Carries

LEMMA CommandStep ==
  ASSUME TypeInv, LockInv, LedgerInv, CommandInv, [Next]_vars
  PROVE  CommandInv'
<1>t. trace' = trace
  BY LedgerMoves
<1>p. {"idle", "numbered", "bundled", "written", "import", "apply", "check", "append", "git",
       "record"} \subseteq Phases
  BY DEF Phases, Critical
<1>d. \A d, e : d = e =>
        /\ Earned(d) => Earned(e)'
        /\ Fit(d) => Fit(e)'
        /\ First(d) => First(e)'
  BY <1>t DEF Earned, Fit, First
<1>e. ASSUME NEW p \in Procs, Exit(p), bundles' = bundles, localFile' = localFile,
             UNCHANGED <<log, workspace>> \/ Live(p)
      PROVE  CommandInv'
  BY <1>e, <1>t, ExitFits, NothingCarried, LocalFileStays, OthersStep
<1>1. CASE UNCHANGED vars
  <2>1. \A q \in Procs : pc'[q] = pc[q] /\ cmd'[q] = cmd[q]
    BY <1>1 DEF vars, local
  <2>2. bundles' = bundles /\ UNCHANGED <<log, workspace>> /\ localFile' = localFile
    BY <1>1 DEF vars, reviews, objective
  <2> QED BY <1>t, <2>1, <2>2, CarriesOn, CheckedStill, LocalFileStays DEF CommandInv
<1>2. CASE Damage \/ BreakLock
  <2>1. \A q \in Procs : pc'[q] = pc[q] /\ cmd'[q] = cmd[q]
    BY <1>2 DEF Damage, BreakLock, local
  <2>2. bundles' = bundles /\ UNCHANGED <<log, workspace>> /\ localFile' = localFile
    BY <1>2 DEF Damage, BreakLock, reviews, objective
  <2> QED BY <1>t, <2>1, <2>2, CarriesOn, CheckedStill, LocalFileStays DEF CommandInv
<1>3. ASSUME NEW p \in Procs, Number(p)
      PROVE  CommandInv'
  <2>1. PICK c \in CommandSet :
          /\ cmd' = [cmd EXCEPT ![p] = c]
          /\ c.op = "REVIEW" /\ c.number = Len(bundles) + 1 /\ c.decision.overturns = None
    BY <1>3, NumberWrites
  <2>2. cmd'[p] = c /\ \A q \in Procs : q # p => cmd'[q] = cmd[q]
    BY <2>1, CommandsFit
  <2>3. pc'[p] = "numbered" /\ \A q \in Procs : q # p => pc'[q] = pc[q]
    BY <1>3, <1>p, PhasesFit DEF Number
  <2>4. bundles' = bundles /\ localFile' = localFile /\ UNCHANGED <<log, workspace>>
    BY <1>3 DEF Number, objective
  <2>5. Len(bundles) + 1 \in 1..(Len(bundles') + 1)
    <3>1. bundles \in Seq(BundleSet)
      BY DEF TypeInv
    <3> QED BY <3>1, <2>4
  <2>6. Carries(p)' /\ Checked(p)'
    BY <2>1, <2>2, <2>3, <2>5 DEF Carries, Checked, Critical
  <2> QED BY <1>t, <2>2, <2>3, <2>4, <2>6, LocalFileStays, OthersStep
<1>4. ASSUME NEW p \in Procs, Bundle(p)
      PROVE  CommandInv'
  <2>1. /\ bundles' \in Seq(BundleSet) /\ Len(bundles) <= Len(bundles')
        /\ cmd[p].number \in DOMAIN bundles'
    BY <1>4, BundleWrites
  <2>2. localFile' = localFile /\ UNCHANGED <<log, workspace>>
    BY <1>4 DEF Bundle, objective
  <2>3. CASE Exit(p)
    BY <1>t, <2>1, <2>2, <2>3, ExitFits, NothingCarried, LocalFileStays, OthersStep
  <2>4. CASE ~Exit(p)
    <3>1. Goto(p, "bundled") /\ pc[p] = "numbered"
      BY <1>4, <2>4 DEF Bundle
    <3>2. PICK c \in CommandSet :
            /\ cmd' = [cmd EXCEPT ![p] = c]
            /\ c.op = "REVIEW" /\ c.number = cmd[p].number
            /\ c.decision = cmd[p].decision
            /\ Earned(c.decision) /\ c.decision.actor \in trace.allowed
      BY <1>4, <2>4, BundleWrites
    <3>3. cmd'[p] = c /\ \A q \in Procs : q # p => cmd'[q] = cmd[q]
      BY <3>2, CommandsFit
    <3>4. pc'[p] = "bundled" /\ \A q \in Procs : q # p => pc'[q] = pc[q]
      BY <3>1, <1>p, PhasesFit
    <3>5. c.decision.overturns = None
      BY <3>1, <3>2 DEF CommandInv, Carries
    <3>6. Earned(cmd[p].decision)'
      BY <1>d, <3>2, <3>3
    <3>7. Carries(p)' /\ Checked(p)'
      BY <1>t, <2>1, <3>2, <3>3, <3>4, <3>5, <3>6 DEF Carries, Checked, Critical
    <3> QED BY <1>t, <2>1, <2>2, <3>3, <3>4, <3>7, LocalFileStays, OthersStep
  <2> QED BY <2>3, <2>4
<1>5. ASSUME NEW p \in Procs, Refer(p)
      PROVE  CommandInv'
  <2>1. PICK c \in CommandSet :
          /\ cmd' = [cmd EXCEPT ![p] = c]
          /\ c.op = "REVIEW" /\ Fit(c.decision) /\ First(c.decision)
    BY <1>5, ReferWrites
  <2>2. cmd'[p] = c /\ \A q \in Procs : q # p => cmd'[q] = cmd[q]
    BY <2>1, CommandsFit
  <2>3. pc'[p] = "written" /\ \A q \in Procs : q # p => pc'[q] = pc[q]
    BY <1>5, <1>p, PhasesFit DEF Refer
  <2>4. bundles' = bundles /\ localFile' = localFile /\ UNCHANGED <<log, workspace>>
    BY <1>5 DEF Refer, reviews, objective
  <2>5. Fit(cmd[p].decision)' /\ First(cmd[p].decision)'
    BY <1>d, <2>1, <2>2
  <2>6. Carries(p)' /\ Checked(p)'
    BY <2>1, <2>2, <2>3, <2>5 DEF Carries, Checked, Critical
  <2> QED BY <1>t, <2>2, <2>3, <2>4, <2>6, LocalFileStays, OthersStep
<1>6. ASSUME NEW p \in Procs, WriteLocal(p)
      PROVE  CommandInv'
  <2>1. /\ Exit(p) /\ bundles' = bundles /\ UNCHANGED <<log, workspace>>
        /\ localFile'.decision = cmd[p].decision
    BY <1>6 DEF WriteLocal, objective
  <2>2. Fit(cmd[p].decision) /\ First(cmd[p].decision)
    BY <1>6 DEF WriteLocal, CommandInv, Carries
  <2>3. Fit(localFile.decision)' /\ First(localFile.decision)'
    BY <1>d, <2>1, <2>2
  <2> QED BY <2>1, <2>3, ExitFits, NothingCarried, OthersStep
<1>7. ASSUME NEW p \in Procs, BeginImport(p)
      PROVE  CommandInv'
  <2> DEFINE c == [NoCommand EXCEPT !.op = "IMPORT", !.ready = localFile.ready,
                                    !.decision = localFile.decision]
  <2>1. c.op = "IMPORT" /\ c.decision = localFile.decision
    BY DEF NoCommand
  <2>2. /\ cmd' = [cmd EXCEPT ![p] = c] /\ localFile # NoReview
        /\ bundles' = bundles /\ localFile' = localFile /\ UNCHANGED <<log, workspace>>
    BY <1>7 DEF BeginImport, reviews, objective
  <2>3. cmd'[p] = c /\ \A q \in Procs : q # p => cmd'[q] = cmd[q]
    BY <2>2 DEF TypeInv
  <2>4. pc'[p] = "import" /\ \A q \in Procs : q # p => pc'[q] = pc[q]
    BY <1>7, <1>p, PhasesFit DEF BeginImport
  <2> HIDE DEF c
  <2>5. Fit(c.decision) /\ First(c.decision)
    BY <2>1, <2>2 DEF CommandInv
  <2>6. Fit(cmd[p].decision)' /\ First(cmd[p].decision)'
    BY <1>d, <2>3, <2>5
  <2>7. Carries(p)' /\ Checked(p)'
    BY <2>1, <2>3, <2>4, <2>6 DEF Carries, Checked, Critical
  <2> QED BY <1>t, <2>2, <2>3, <2>4, <2>7, LocalFileStays, OthersStep
<1>8. ASSUME NEW p \in Procs, PlanApply(p)
      PROVE  CommandInv'
  <2>1. PICK d \in LastDecision :
          cmd' = [cmd EXCEPT ![p] = [NoCommand EXCEPT !.op = "APPLY", !.decision = d]]
    BY <1>8 DEF PlanApply
  <2>2. cmd'[p].op = "APPLY" /\ \A q \in Procs : q # p => cmd'[q] = cmd[q]
    BY <2>1 DEF TypeInv, NoCommand
  <2>3. pc'[p] = "apply" /\ \A q \in Procs : q # p => pc'[q] = pc[q]
    BY <1>8, <1>p, PhasesFit DEF PlanApply
  <2>4. bundles' = bundles /\ localFile' = localFile /\ UNCHANGED <<log, workspace>>
    BY <1>8 DEF PlanApply, reviews, objective
  <2>5. Carries(p)' /\ Checked(p)'
    BY <2>2, <2>3 DEF Carries, Checked, Critical
  <2> QED BY <1>t, <2>2, <2>3, <2>4, <2>5, LocalFileStays, OthersStep
<1>9. ASSUME NEW p \in Procs, Acquire(p)
      PROVE  CommandInv'
  <2>1. pc'[p] = "check" /\ \A q \in Procs : q # p => pc'[q] = pc[q]
    BY <1>9, <1>p, PhasesFit DEF Acquire
  <2>2. bundles' = bundles /\ localFile' = localFile /\ UNCHANGED <<log, workspace>>
    BY <1>9 DEF Acquire, reviews, objective
  <2>3. Checked(p)'
    BY <2>1 DEF Checked
  <2>4. CASE pc[p] \in {"import", "apply"} /\ UNCHANGED cmd
    <3>1. cmd[p].op # "REVIEW"
      BY <2>4 DEF CommandInv, Carries
    <3>2. Carries(p)'
      BY <2>1, <2>2, <2>4, <3>1, MovesOn DEF Critical
    <3> QED BY <1>t, <2>1, <2>2, <2>3, <2>4, <3>2, LocalFileStays, OthersStep
  <2>5. CASE \E k \in Decided :
               cmd' = [cmd EXCEPT ![p] = [NoCommand EXCEPT !.op = "CORRECT",
                                                           !.decision = log[k].decision]]
    <3>1. PICK k \in Decided :
            cmd' = [cmd EXCEPT ![p] = [NoCommand EXCEPT !.op = "CORRECT",
                                                        !.decision = log[k].decision]]
      BY <2>5
    <3>2. /\ cmd'[p].op = "CORRECT" /\ cmd'[p].decision = log[k].decision
          /\ \A q \in Procs : q # p => cmd'[q] = cmd[q]
      BY <3>1 DEF TypeInv, NoCommand
    <3>3. k \in Decided' /\ log'[k] = log[k]
      BY LedgerStep
    <3>4. Carries(p)'
      BY <2>1, <3>2, <3>3 DEF Carries, Critical
    <3> QED BY <1>t, <2>1, <2>2, <2>3, <3>2, <3>4, LocalFileStays, OthersStep
  <2> QED BY <1>9, <2>4, <2>5 DEF Acquire
<1>10. ASSUME NEW p \in Procs, NotAcquired(p)
       PROVE  CommandInv'
  BY <1>10, <1>e DEF NotAcquired, reviews, objective
<1>11. ASSUME NEW p \in Procs, CheckImport(p) \/ CheckCorrect(p) \/ CheckApply(p)
       PROVE  CommandInv'
  <2>1. /\ pc[p] = "check" /\ bundles' = bundles /\ localFile' = localFile
        /\ UNCHANGED <<log, workspace>>
    BY <1>11 DEF CheckImport, CheckCorrect, CheckApply, reviews, objective
  <2>2. CASE Exit(p)
    BY <2>1, <2>2, <1>e
  <2>3. CASE ~Exit(p)
    <3>1. /\ cmd' = cmd
          /\ \/ /\ Goto(p, "append") /\ cmd[p].op = "IMPORT"
                /\ Imported(cmd[p].decision.id) = {}
             \/ /\ Goto(p, "append") /\ cmd[p].op = "CORRECT"
                /\ \A k \in Decided : log[k].decision.overturns # cmd[p].decision.id
             \/ /\ Goto(p, "git") /\ StillApplicable(p)
      BY <1>11, <2>3 DEF CheckImport, CheckCorrect, CheckApply, Leave
    <3>2. pc'[p] \in {"append", "git"} /\ \A q \in Procs : q # p => pc'[q] = pc[q]
      BY <3>1, <1>p, PhasesFit
    <3>3. cmd[p].op # "REVIEW"
      BY <2>1 DEF CommandInv, Carries, Critical
    <3>4. Carries(p)'
      BY <2>1, <3>1, <3>2, <3>3, MovesOn DEF Critical
    <3>5. Decided' = Decided /\ (Imported(cmd[p].decision.id) = {} => Imported(cmd[p].decision.id)' = {})
      BY <2>1, <3>1 DEF Decided, Reviews, Imported
    <3>6. AcceptedLast' = AcceptedLast /\ AlreadyApplied' = AlreadyApplied
      BY <2>1 DEF AcceptedLast, LastDecision, Decided, Reviews, AlreadyApplied
    <3>7. CASE Goto(p, "append")
      <4>1. pc'[p] = "append"
        BY <3>7, <1>p, PhasesFit
      <4>2. "append" # "git"
        OBVIOUS
      <4>3. ~Goto(p, "git")
        BY <4>1, <1>p, PhasesFit
      <4> QED BY <1>t, <2>1, <3>1, <3>2, <3>4, <3>5, <4>1, <4>3, LocalFileStays, OthersStep
              DEF Checked
    <3>8. CASE Goto(p, "git")
      <4>1. pc'[p] = "git"
        BY <3>8, <1>p, PhasesFit
      <4>2. ~Goto(p, "append")
        BY <4>1, <1>p, PhasesFit
      <4>3. Checked(p)'
        BY <2>1, <3>1, <3>6, <4>1, <4>2 DEF Checked, StillApplicable, Applicable
      <4> QED BY <1>t, <2>1, <3>1, <3>2, <3>4, <4>3, LocalFileStays, OthersStep
    <3> QED BY <3>1, <3>7, <3>8
  <2> QED BY <2>2, <2>3
<1>12. ASSUME NEW p \in Procs, Decide(p) \/ Record(p) \/ Crash(p)
       PROVE  CommandInv'
  <2>1. /\ Exit(p) /\ bundles' = bundles /\ localFile' = localFile
        /\ UNCHANGED <<log, workspace>> \/ Live(p)
    BY <1>12 DEF Decide, Record, Crash, Leave, reviews, objective, Live, Critical
  <2> QED BY <2>1, <1>e
<1>13. ASSUME NEW p \in Procs, GitApply(p)
       PROVE  CommandInv'
  <2>1. /\ pc[p] = "git" /\ bundles' = bundles /\ localFile' = localFile /\ log' = log /\ Live(p)
    BY <1>13 DEF GitApply, reviews, objective, Live, Critical
  <2>2. CASE Exit(p)
    BY <2>1, <2>2, <1>e
  <2>3. CASE ~Exit(p)
    <3>1. Goto(p, "record") /\ cmd' = cmd /\ workspace' = "applied"
      BY <1>13, <2>3 DEF GitApply, Succeeded, Leave
    <3>2. pc'[p] = "record" /\ \A q \in Procs : q # p => pc'[q] = pc[q]
      BY <3>1, <1>p, PhasesFit
    <3>3. cmd[p].op # "REVIEW" /\ AcceptedLast /\ ~AlreadyApplied
      BY <2>1 DEF CommandInv, Carries, Checked, Critical
    <3>4. Carries(p)'
      BY <2>1, <3>1, <3>2, <3>3, MovesOn DEF Critical
    <3>5. AcceptedLast' = AcceptedLast /\ AlreadyApplied' = AlreadyApplied
      BY <2>1 DEF AcceptedLast, LastDecision, Decided, Reviews, AlreadyApplied
    <3>6. Checked(p)'
      BY <3>1, <3>2, <3>3, <3>5 DEF Checked
    <3> QED BY <1>t, <2>1, <3>1, <3>2, <3>4, <3>6, LocalFileStays, OthersStep
  <2> QED BY <2>2, <2>3
<1> QED
  BY <1>1, <1>2, <1>3, <1>4, <1>5, <1>6, <1>7, <1>8, <1>9, <1>10, <1>11, <1>12, <1>13 DEF Next

-----------------------------------------------------------------------------
(* The properties of the application.                                      *)

LEMMA AppliedStep ==
  ASSUME Inv, [Next]_vars
  PROVE  AppliedOnAcceptance'
<1> USE DEF Inv
<1>1. CASE UNCHANGED objective
  BY <1>1 DEF objective, AppliedOnAcceptance, Decided, Reviews
<1>2. CASE \E p \in Procs : Decide(p) \/ Record(p)
  <2>1. PICK p \in Procs, e \in EventSet :
          /\ log' = Append(log, e) /\ e.seq = Len(log) + 1 /\ e.item = 1
          /\ \/ Record(p) /\ e.type = "APPLIED"
             \/ Decide(p) /\ e.type = "REVIEWED"
    BY <1>2, Appended
  <2> DEFINE n == Len(log) + 1
  <2>2. /\ DOMAIN log' = DOMAIN log \cup {n} /\ log'[n] = e
        /\ \A k \in DOMAIN log : log'[k] = log[k] /\ k < n
        /\ n \in Nat /\ DOMAIN log \subseteq Nat
    BY <2>1, LedgerGrows, LedgerFits DEF LedgerInv
  <2>3. \A k : k \in Decided' <=> k \in Decided \/ (k = n /\ e.type = "REVIEWED")
    BY <2>2 DEF Decided, Reviews
  <2>4. Decided \subseteq DOMAIN log
    BY DecidedFits
  <2> HIDE DEF n
  <2>5. SUFFICES ASSUME NEW k \in DOMAIN log', log'[k].type = "APPLIED"
                 PROVE  /\ \A j \in DOMAIN log' : log'[j].type = "APPLIED" => j = k
                        /\ \E m \in Decided' :
                             /\ m < k /\ log'[m].decision.verdict = "ACCEPTED"
                             /\ \A j \in Decided' : j < k => j <= m
    BY DEF AppliedOnAcceptance
  <2>6. CASE k = n
    <3>1. Record(p) /\ e.type = "APPLIED"
      BY <2>1, <2>2, <2>5, <2>6
    <3>2. AcceptedLast /\ ~AlreadyApplied
      BY <3>1 DEF CommandInv, Checked, Record
    <3>3. PICK m \in Decided : log[m].decision.verdict = "ACCEPTED" /\ \A j \in Decided : j <= m
      BY <3>2 DEF AcceptedLast, LastDecision
    <3>4. m \in Decided' /\ m < k /\ log'[m].decision.verdict = "ACCEPTED"
      BY <2>2, <2>3, <2>4, <2>6, <3>3
    <3>5. \A j \in Decided' : j < k => j <= m
      BY <2>3, <3>1, <3>3
    <3>6. \A j \in DOMAIN log' : log'[j].type = "APPLIED" => j = k
      BY <2>2, <2>6, <3>2 DEF AlreadyApplied
    <3> QED BY <3>4, <3>5, <3>6
  <2>7. CASE k # n
    <3>1. k \in DOMAIN log /\ log[k].type = "APPLIED" /\ k < n /\ k \in Nat
      BY <2>2, <2>5, <2>7
    <3>2. PICK m \in Decided :
            m < k /\ log[m].decision.verdict = "ACCEPTED" /\ \A j \in Decided : j < k => j <= m
      BY <3>1 DEF AppliedOnAcceptance
    <3>3. m \in Decided' /\ log'[m].decision.verdict = "ACCEPTED"
      BY <2>2, <2>3, <2>4, <3>2
    <3>4. \A j \in Decided' : j < k => j <= m
      BY <2>2, <2>3, <3>1, <3>2
    <3>5. e.type # "APPLIED"
      <4>1. AlreadyApplied
        BY <3>1 DEF AlreadyApplied
      <4>2. ~Record(p)
        BY <4>1 DEF CommandInv, Checked, Record
      <4> QED BY <2>1, <4>2
    <3>6. \A j \in DOMAIN log' : log'[j].type = "APPLIED" => j = k
      BY <2>2, <3>1, <3>5 DEF AppliedOnAcceptance
    <3> QED BY <3>2, <3>3, <3>4, <3>6
  <2> QED BY <2>6, <2>7
<1> QED BY <1>1, <1>2, LedgerMoves

LEMMA WorkspaceStep ==
  ASSUME Inv, [Next]_vars
  PROVE  WorkspaceIsRecorded'
<1> USE DEF Inv
<1>t. trace' = trace
  BY LedgerMoves
<1>0. pc \in [Procs -> Phases] /\ crashes \in Nat
  BY DEF TypeInv
<1>a. ASSUME AlreadyApplied' = AlreadyApplied, workspace' = workspace, crashes' = crashes,
             \A p \in Procs : pc[p] = "record" => pc'[p] = "record"
      PROVE  WorkspaceIsRecorded'
  BY <1>t, <1>a DEF WorkspaceIsRecorded
<1>1. CASE UNCHANGED vars
  BY <1>1, <1>a DEF vars, objective, local, AlreadyApplied
<1>2. CASE Damage \/ BreakLock
  BY <1>2, <1>a DEF Damage, BreakLock, objective, local, AlreadyApplied
<1>3. ASSUME NEW p \in Procs,
             Number(p) \/ Bundle(p) \/ Refer(p) \/ WriteLocal(p) \/ BeginImport(p)
               \/ PlanApply(p) \/ NotAcquired(p) \/ Acquire(p)
      PROVE  WorkspaceIsRecorded'
  <2>1. pc[p] # "record" /\ \E phase : pc' = [pc EXCEPT ![p] = phase]
    BY <1>3 DEF Number, Bundle, Refer, WriteLocal, BeginImport, PlanApply, NotAcquired, Acquire,
                Exit, Goto
  <2>2. log' = log /\ workspace' = workspace /\ crashes' = crashes
    BY <1>3 DEF Number, Bundle, Refer, WriteLocal, BeginImport, PlanApply, NotAcquired, Acquire,
                objective
  <2> QED BY <1>0, <1>a, <2>1, <2>2 DEF AlreadyApplied
<1>4. ASSUME NEW p \in Procs, CheckImport(p) \/ CheckCorrect(p) \/ CheckApply(p)
      PROVE  WorkspaceIsRecorded'
  <2>1. pc[p] = "check" /\ \E phase : pc' = [pc EXCEPT ![p] = phase]
    BY <1>4 DEF CheckImport, CheckCorrect, CheckApply, Leave, Exit, Goto
  <2>2. log' = log /\ workspace' = workspace /\ crashes' = crashes
    BY <1>4 DEF CheckImport, CheckCorrect, CheckApply, objective
  <2> QED BY <1>0, <1>a, <2>1, <2>2 DEF AlreadyApplied
<1>5. ASSUME NEW p \in Procs, Decide(p)
      PROVE  WorkspaceIsRecorded'
  <2>1. pc[p] = "append" /\ pc' = [pc EXCEPT ![p] = "idle"]
        /\ workspace' = workspace /\ crashes' = crashes
    BY <1>5 DEF Decide, Leave, Exit, Goto
  <2>2. PICK e \in EventSet :
          log' = Append(log, e) /\ e.seq = Len(log) + 1 /\ e.item = 1 /\ e.type = "REVIEWED"
    <3>1. ~Record(p)
      BY <2>1 DEF Record
    <3> QED BY <1>5, <3>1, Appended
  <2>3. /\ DOMAIN log' = DOMAIN log \cup {Len(log) + 1} /\ log'[Len(log) + 1] = e
        /\ \A k \in DOMAIN log : log'[k] = log[k]
    BY <2>2, LedgerGrows DEF LedgerInv
  <2>4. AlreadyApplied' = AlreadyApplied
    BY <2>2, <2>3 DEF AlreadyApplied
  <2> QED BY <1>0, <1>a, <2>1, <2>4
<1>6. ASSUME NEW p \in Procs, Record(p)
      PROVE  WorkspaceIsRecorded'
  <2>1. workspace' = workspace /\ workspace = "applied"
    BY <1>6 DEF Record, CommandInv, Checked
  <2>2. PICK e \in EventSet :
          log' = Append(log, e) /\ e.seq = Len(log) + 1 /\ e.item = 1 /\ e.type = "APPLIED"
    <3>1. ~Decide(p)
      BY <1>6 DEF Record, Decide
    <3> QED BY <1>6, <3>1, Appended
  <2>3. DOMAIN log' = DOMAIN log \cup {Len(log) + 1} /\ log'[Len(log) + 1] = e
    BY <2>2, LedgerGrows DEF LedgerInv
  <2>4. AlreadyApplied'
    BY <2>2, <2>3 DEF AlreadyApplied
  <2> QED BY <2>1, <2>4 DEF WorkspaceIsRecorded
<1>7. ASSUME NEW p \in Procs, GitApply(p)
      PROVE  WorkspaceIsRecorded'
  <2>1. log' = log /\ crashes' = crashes /\ pc[p] = "git"
    BY <1>7 DEF GitApply, objective
  <2>2. ~AlreadyApplied
    BY <2>1 DEF CommandInv, Checked
  <2>3. ~AlreadyApplied'
    BY <2>1, <2>2 DEF AlreadyApplied
  <2>4. workspace' = "applied" => pc' = [pc EXCEPT ![p] = "record"]
    BY <1>7 DEF GitApply, Succeeded, Goto
  <2>5. workspace' = "applied" => pc'[p] = "record"
    BY <1>0, <2>4
  <2> QED BY <2>3, <2>5 DEF WorkspaceIsRecorded
<1>8. ASSUME NEW p \in Procs, Crash(p)
      PROVE  WorkspaceIsRecorded'
  <2>1. crashes' = crashes + 1 /\ log' = log
    BY <1>8 DEF Crash, objective
  <2>2. crashes' # 0
    BY <1>0, <2>1
  <2>3. AlreadyApplied' = AlreadyApplied
    BY <2>1 DEF AlreadyApplied
  <2>4. AlreadyApplied => workspace' = workspace
    BY <1>8 DEF Crash, CommandInv, Checked
  <2> QED BY <2>2, <2>3, <2>4 DEF WorkspaceIsRecorded
<1> QED BY <1>1, <1>2, <1>3, <1>4, <1>5, <1>6, <1>7, <1>8 DEF Next

-----------------------------------------------------------------------------
(* The theorems.                                                           *)

LEMMA InitInv == Init => Inv
<1> SUFFICES ASSUME Init PROVE Inv
  OBVIOUS
<1>1. TypeInv
  BY TypeInit
<1>2. LockInv /\ CommandInv
  BY DEF Init, LockInv, CommandInv, Live, Carries, Checked, NoCommand, Critical
<1>3. /\ log[1].type = "CREATED" /\ log[2].type = "ATTACHED" /\ Len(log) = 2
      /\ log[1].seq = 1 /\ log[2].seq = 2 /\ log[2].item = 1
  BY DEF Init, Blank, Attaching
<1>4. Shape(log)
  <2>1. log \in Seq(EventSet) /\ DOMAIN log = {1, 2}
    BY <1>1, <1>3, LedgerFits
  <2> QED BY <1>3, <2>1 DEF Shape
<1>5. Decided = {}
  <2>1. DOMAIN log = {1, 2}
    BY <1>1, <1>3, LedgerFits
  <2> QED BY <1>3, <2>1 DEF Decided, Reviews
<1>6. Replayed(log) = {}
  BY <1>4, <1>5, InForceIsReviewed DEF Decided
<1>7. LedgerInv
  BY <1>4, <1>5, <1>6 DEF LedgerInv, Init
<1>8. ~AlreadyApplied
  <2>1. DOMAIN log = {1, 2}
    BY <1>1, <1>3, LedgerFits
  <2> QED BY <1>3, <2>1 DEF AlreadyApplied
<1>9. AppliedOnAcceptance /\ WorkspaceIsRecorded
  BY <1>8 DEF AppliedOnAcceptance, WorkspaceIsRecorded, AlreadyApplied, Init
<1> QED BY <1>1, <1>2, <1>7, <1>9 DEF Inv

LEMMA StepInv == Inv /\ [Next]_vars => Inv'
BY TypeStep, LockStep, LedgerStep, CommandStep, AppliedStep, WorkspaceStep DEF Inv

LEMMA Invariance == Spec => []Inv
BY InitInv, StepInv, PTL DEF Spec

\* An application follows the acceptance that was the last decision when the patch
\* went in, and there is one at most (apply.ts, applyRunResult).
THEOREM ApplicationFollowsAcceptance == Spec => []AppliedOnAcceptance
<1>1. Inv => AppliedOnAcceptance
  BY DEF Inv
<1> QED BY <1>1, Invariance, PTL

\* The workspace and the ledger agree on the application of the patch, unless a
\* process died between the two (apply.ts, applyRunResult).
THEOREM RecordedWorkspace == Spec => []WorkspaceIsRecorded
<1>1. Inv => WorkspaceIsRecorded
  BY DEF Inv
<1> QED BY <1>1, Invariance, PTL

\* What makes an item VERIFIED was accepted by a person, on evidence that is whole,
\* through every file between the review and the ledger (review.ts reviewRun,
\* ledger.ts importLocalReview and applyReviewDecisions).
THEOREM EarnedVerification == Spec => []VerifiedIsEarned
<1>1. Inv => VerifiedIsEarned
  <2> SUFFICES ASSUME Inv, NEW d \in inForce
               PROVE  Earned(d)
    BY DEF VerifiedIsEarned, Earned
  <2>1. PICK k \in Decided : log[k].decision = d
    BY InForceIsReviewed DEF Inv, LedgerInv, Decided
  <2> QED BY <2>1 DEF Inv, LedgerInv, Fit
<1> QED BY <1>1, Invariance, PTL

\* Only a decision that is new to the ledger verifies an item; a correction never
\* does, whatever it overturns (ledger.ts, applyReviewDecisions).
THEOREM NewDecisionVerifies == Spec => VerifiedByNewDecision
<1> DEFINE A == ~IsVerified /\ IsVerified' =>
                  LET d == log'[Len(log')].decision IN
                  d.overturns = None /\ Imported(d.id) = {}
<1>1. Inv /\ [Next]_vars => [A]_objective
  <2> SUFFICES ASSUME Inv, [Next]_vars, ~UNCHANGED objective
               PROVE  A
    OBVIOUS
  <2>1. PICK p \in Procs : Decide(p) \/ Record(p)
    BY LedgerMoves
  <2>2. PICK e \in EventSet :
          /\ log' = Append(log, e) /\ inForce' = Replayed(log')
          /\ e.seq = Len(log) + 1 /\ e.item = 1
          /\ \/ e.type = "APPLIED"
             \/ /\ e.type = "REVIEWED"
                /\ First(e.decision) /\ Imported(e.decision.id) = {}
             \/ /\ e.type = "REVIEWED"
                /\ Fit(e.decision) /\ e.decision.verdict = "REJECTED"
                /\ e.decision.overturns # e.decision.id
                /\ \A k \in Decided : log[k].decision.overturns # e.decision.id
    BY <2>1, Appended DEF Inv
  <2>3. Shape(log) /\ Readable(log) /\ inForce = Replayed(log)
    BY DecidedFits DEF Inv, LedgerInv
  <2>4. CASE e.type = "APPLIED"
    <3>1. inForce' = inForce
      BY <2>2, <2>3, <2>4, ApplicationDecidesNothing
    <3> QED BY <3>1 DEF IsVerified
  <2>5. CASE First(e.decision) /\ Imported(e.decision.id) = {}
    <3>1. log'[Len(log')] = e
      BY <2>2, <2>3, LedgerGrows, ShapeFits
    <3> QED BY <2>5, <3>1 DEF First
  <2>6. CASE /\ e.type = "REVIEWED"
             /\ Fit(e.decision) /\ e.decision.verdict = "REJECTED"
             /\ e.decision.overturns # e.decision.id
             /\ \A k \in Decided : log[k].decision.overturns # e.decision.id
    <3>1. inForce' = {e.decision}
      BY <2>2, <2>3, <2>6, LastIsInForce DEF Fit, Decided
    <3> QED BY <2>6, <3>1 DEF IsVerified
  <2> QED BY <2>2, <2>4, <2>5, <2>6
<1> HIDE DEF A
<1>2. Spec => [][A]_objective
  BY <1>1, Invariance, PTL DEF Spec
<1> QED BY <1>2 DEF A, VerifiedByNewDecision

=============================================================================
