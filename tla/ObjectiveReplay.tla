--------------------------- MODULE ObjectiveReplay ---------------------------
(***************************************************************************)
(* What the ledger of an Objective says (replayObjective of src/src/ledger.ts): *)
(* its queue, the stored state of each entry, the review decision in force *)
(* and the findings, derived from the events alone.                        *)
(*                                                                         *)
(* An entry of the queue is the object a TASK_ATTACHED event made, here the *)
(* position of that event; several positions of a queue may hold the same  *)
(* object.  An item is the task revision an entry stands for.              *)
(***************************************************************************)
EXTENDS Naturals, Sequences, SequencesExt

CONSTANT None

Mutant_CanceledComesBack ==
  [WAITING  |-> {"BLOCKED", "SKIPPED", "CANCELED"},
   BLOCKED  |-> {"WAITING", "SKIPPED", "CANCELED"},
   SKIPPED  |-> {"WAITING", "CANCELED"},
   CANCELED |-> {"WAITING"}]
QueueTransitions ==
  [WAITING  |-> {"BLOCKED", "SKIPPED", "CANCELED"},
   BLOCKED  |-> {"WAITING", "SKIPPED", "CANCELED"},
   SKIPPED  |-> {"WAITING", "CANCELED"},
   CANCELED |-> {}]

\* QUEUE_EVENT_TARGET, with the events named by their commands.
Target == [BLOCK |-> "BLOCKED", UNBLOCK |-> "WAITING", SKIP |-> "SKIPPED",
           UNSKIP |-> "WAITING", CANCEL |-> "CANCELED"]

NoDecision == [id |-> None, bundle |-> None, verdict |-> None, proved |-> FALSE,
               actor |-> None, allowed |-> {}, overturns |-> None]
Blank == [type |-> "CREATED", seq |-> 0, item |-> 0, order |-> <<>>,
          decision |-> NoDecision]

-----------------------------------------------------------------------------
(* Structure.  A replay that cannot trust the ledger derives nothing.       *)

Types(log) == {log[i].type : i \in DOMAIN log}
Contiguous(log) == {log[i].seq : i \in DOMAIN log} = DOMAIN log
Complete(log, readable) ==
  readable /\ Contiguous(log) /\ "CREATED" \in Types(log)

\* The events in the order of their seq, of a ledger that is complete.
Ordered(log) ==
  [n \in DOMAIN log |-> log[CHOOSE i \in DOMAIN log : log[i].seq = n]]

-----------------------------------------------------------------------------
(* The queue after the events o: the entries in order, their stored states *)
(* and the number of events that could not be applied.                     *)

EmptyQueue == [order |-> <<>>, stored |-> <<>>, findings |-> 0]

History(q, x) == q.stored[x] \in {"SKIPPED", "CANCELED"}
\* find: where the first entry of the item is among the entries s, or 0.
IndexOf(o, s, item) == SelectInSeq(s, LAMBDA x : o[x].item = item)
EntryOf(o, q, item) ==
  LET i == IndexOf(o, q.order, item) IN IF i = 0 THEN 0 ELSE q.order[i]
Refused(q) == [q EXCEPT !.findings = @ + 1]

ApplyQueueTransition(o, q, k) ==
  LET x == EntryOf(o, q, o[k].item)
  IN  IF x # 0 /\ Target[o[k].type] \in QueueTransitions[q.stored[x]]
        THEN [q EXCEPT !.stored[x] = Target[o[k].type]]
        ELSE Refused(q)

\* The entries of s that are in S, in their order.
Keep(s, S) ==
  LET kept[n \in 0..Len(s)] ==
        IF n = 0 THEN <<>>
        ELSE IF s[n] \in S THEN Append(kept[n - 1], s[n]) ELSE kept[n - 1]
  IN  kept[Len(s)]

Settled(q) == {x \in DOMAIN q.stored : History(q, x)}
Future(o, q) == Keep(q.order, DOMAIN q.stored \ Settled(q))
ItemsOf(o, entries) == [i \in DOMAIN entries |-> o[entries[i]].item]

ApplyReorder(o, q, k) ==
  LET want == o[k].order
      future == Future(o, q)
      Find(item) == future[IndexOf(o, future, item)]
  IN  IF ToSet(want) \subseteq ToSet(ItemsOf(o, future))
        THEN [q EXCEPT !.order =
               Keep(q.order, Settled(q))
                 \o [i \in DOMAIN want |-> Find(want[i])]
                 \o Keep(future, {x \in ToSet(future) : o[x].item \notin ToSet(want)})]
        ELSE Refused(q)

Enqueue(q, k) ==
  [q EXCEPT !.order = Append(@, k),
            !.stored = [x \in DOMAIN @ \cup {k} |-> IF x = k THEN "WAITING" ELSE @[x]]]

Apply(o, q, k) ==
  CASE o[k].type = "ATTACHED"      -> Enqueue(q, k)
    [] o[k].type = "REORDERED"     -> ApplyReorder(o, q, k)
    [] o[k].type \in DOMAIN Target -> ApplyQueueTransition(o, q, k)
    [] OTHER                       -> q

Queue(o) ==
  LET after[k \in 0..Len(o)] ==
        IF k = 0 THEN EmptyQueue ELSE Apply(o, after[k - 1], k)
  IN  after[Len(o)]

-----------------------------------------------------------------------------
(* Review decisions.  What a decision overturns is removed first, wherever  *)
(* it is; of those left, the later one is in force.                         *)

Reviews(o) == {k \in DOMAIN o : o[k].type = "REVIEWED"}

\* actorSatisfiesResultReviewGate: the kind of actor decides, under the gate the
\* decision carries; who it was does not matter.
Effective(d) == d.actor \in d.allowed

Overturned(o, k) ==
  \E j \in Reviews(o) : o[j].decision.overturns = o[k].decision.id

Unfit(o, q, k) ==
  \/ EntryOf(o, q, o[k].item) = 0
  \/ /\ ~Overturned(o, k)
     /\ o[k].decision.bundle = None \/ ~Effective(o[k].decision)
Standing(o, q, x) ==
  {k \in Reviews(o) : /\ EntryOf(o, q, o[k].item) = x
                      /\ ~Overturned(o, k)
                      /\ ~Unfit(o, q, k)}

Mutant_FirstStands(o, q, x) ==
  {o[k].decision : k \in {m \in Standing(o, q, x) : \A j \in Standing(o, q, x) : m <= j}}
\* The decision in force for entry x, as a set of at most one.
InForce(o, q, x) ==
  {o[k].decision : k \in {m \in Standing(o, q, x) : \A j \in Standing(o, q, x) : j <= m}}

Findings(o, q) == q.findings # 0 \/ \E k \in Reviews(o) : Unfit(o, q, k)

\* The snapshot, as far as it is not the events themselves.
ReplayObjective(log, readable) ==
  IF Complete(log, readable)
    THEN LET q == Queue(Ordered(log))
         IN  [complete |-> TRUE, queue |-> q, findings |-> Findings(Ordered(log), q)]
    ELSE [complete |-> FALSE, queue |-> EmptyQueue, findings |-> TRUE]

-----------------------------------------------------------------------------
(* Derived states, never stored (deriveQueueStates).                       *)

Verified(o, q, x) == \E d \in InForce(o, q, x) : d.verdict = "ACCEPTED" /\ d.proved
Ready(o, q, x) == q.stored[x] = "WAITING" /\ ~Verified(o, q, x)

\* An object at several positions keeps what its last position gave it.
Next1(o, q, x, kind) ==
  /\ Ready(o, q, x)
  /\ kind = "SEQUENCE" =>
       \A i, j \in DOMAIN q.order :
         i < j /\ Ready(o, q, q.order[i]) => q.order[j] # x

\* The item the cursor is at, or 0.
Cursor(o, q, kind) ==
  LET i == SelectInSeq(q.order, LAMBDA x : Next1(o, q, x, kind))
  IN  IF i = 0 THEN 0 ELSE o[q.order[i]].item
==============================================================================
