------------------------ MODULE ObjectiveLedgerProofs ------------------------
(***************************************************************************)
(* Theorems of ObjectiveLedger, for every number of processes, revisions   *)
(* and local reviews, and ledgers without a bound.                         *)
(***************************************************************************)
EXTENDS ObjectiveLedger, TLAPS, FiniteSetTheorems, WellFoundedInduction

-----------------------------------------------------------------------------
(* The inductive invariant.                                                *)

\* One command is in the engine, and holds the lock, until an operator breaks the
\* lock of a live one.
LockInv == ~overlap => \A p \in Procs : Live(p) => lock = p

\* What a command is, whatever happens around it.
Engine == {"precheck", "idempotency", "read", "write", "replay", "save", "postcheck"}
CommandFits(p) ==
  LET c == cmd[p] IN
  /\ pc[p] \in Engine => c.op # "REBUILD"
  /\ pc[p] = "lock" => c.op = "ATTACHED"
  /\ c.op \in {"ATTACHED"} \cup DOMAIN Target => c.item \in Revs
  /\ c.op = "ATTACHED" => c.succeeds \subseteq Succeeds(c.item)
  /\ c.op = "REVIEWED" => c.decision.id \in Ids
  /\ c.op = "CORRECT" => \E i \in Events("REVIEWED") : log[i].decision = c.decision

\* What its checks found still holds, unless the lock was taken from it.
Checked(p) ==
  /\ pc[p] \in {"idempotency", "read", "write"} => Permitted(p)
  /\ pc[p] \in {"read", "write"} => StillToDo(p)
  /\ pc[p] = "write" => cmd[p].seq = Len(log) + 1

CommandInv ==
  \A p \in Procs : CommandFits(p) /\ (~overlap => Checked(p))

\* What replay makes of the events it is given.
AttachedIn(o) == {i \in DOMAIN o : o[i].type = "ATTACHED"}
QueueStates == {"WAITING", "BLOCKED", "SKIPPED", "CANCELED"}
\* Each item was attached once.
Once(o) == \A i, j \in AttachedIn(o) : o[i].item = o[j].item => i = j

\* A ledger that only commands let through by their checks wrote to.
Orderly(o) ==
  /\ \A k \in DOMAIN o : o[k].seq = k
  /\ o # <<>> => o[1].type = "CREATED"
  /\ Once(o)
  /\ \A i \in AttachedIn(o) : o[i].item \in Revs
  /\ Queue(o).findings = 0
  /\ \A k \in Reviews(o) :
       /\ \E i \in AttachedIn(o) : o[i].item = o[k].item
       /\ o[k].decision.id \in Ids
       /\ o[k].decision.bundle # None
       /\ Effective(o[k].decision)

LedgerInv ==
  /\ view = ReplayObjective(log, readable)
  /\ \A i \in Events("ATTACHED") : log[i].item \in Revs
  /\ \A k \in Events("REVIEWED") : log[k].decision.id \in Ids
  /\ ~overlap => Orderly(log)

\* Without a fault and a race a snapshot that is behind is about to be replaced.
SnapshotInv ==
  /\ \A p \in Procs : cmd[p].sees <= size
  /\ faults = 0 => ~overlap
  /\ faults = 0 /\ ~raced =>
       /\ \A p \in Procs : pc[p] = "save" => cmd[p].sees = size
       /\ snapshot = size \/ \E p \in Procs : pc[p] \in {"replay", "save"}

Inv ==
  /\ TypeOK /\ LockInv /\ CommandInv /\ LedgerInv /\ SnapshotInv
  /\ AttachedSucceedFirst

-----------------------------------------------------------------------------
(* Induction over the natural numbers, for a set of them.                   *)

Below == {p \in Nat \X Nat : p[1] < p[2]}

LEMMA BelowIsWellFounded == IsWellFoundedOn(Below, Nat)
BY NatLessThanWellFounded DEF OpToRel, Below

LEMMA Least ==
  ASSUME NEW T, T \subseteq Nat, T # {}
  PROVE  \E x \in T : \A y \in T : x <= y
<1>1. PICK x \in T : \A y \in T : ~(<<y, x>> \in Below)
  BY BelowIsWellFounded, WFMin
<1>2. \A y \in T : ~(y < x)
  BY <1>1 DEF Below
<1> QED BY <1>2

LEMMA SetInduction ==
  ASSUME NEW S, 0 \in S, \A n \in Nat : n \in S => n + 1 \in S
  PROVE  Nat \subseteq S
<1>1. SUFFICES ASSUME NEW n \in Nat, n \notin S
               PROVE  FALSE
  OBVIOUS
<1>2. Nat \ S \subseteq Nat /\ Nat \ S # {}
  BY <1>1
<1>3. PICK x \in Nat \ S : \A y \in Nat \ S : x <= y
  BY <1>2, Least
<1>4. x # 0 /\ x - 1 \in Nat /\ x - 1 < x /\ (x - 1) + 1 = x
  BY <1>3
<1>5. x - 1 \in S
  BY <1>3, <1>4
<1> QED BY <1>3, <1>4, <1>5

-----------------------------------------------------------------------------
(* Sequences.                                                              *)

LEMMA ToSetFits ==
  ASSUME NEW T, NEW s \in Seq(T)
  PROVE  ToSet(s) \subseteq T /\ s \in Seq(ToSet(s))
BY DEF ToSet

LEMMA ToSetAppend ==
  ASSUME NEW T, NEW s \in Seq(T), NEW e \in T
  PROVE  ToSet(Append(s, e)) = ToSet(s) \cup {e}
<1>1. DOMAIN Append(s, e) = DOMAIN s \cup {Len(s) + 1}
  OBVIOUS
<1>2. \A i \in DOMAIN s : Append(s, e)[i] = s[i]
  OBVIOUS
<1>3. Append(s, e)[Len(s) + 1] = e
  OBVIOUS
<1> HIDE DEF ToSet
<1> QED BY <1>1, <1>2, <1>3 DEF ToSet

LEMMA ToSetConcat ==
  ASSUME NEW T, NEW s \in Seq(T), NEW t \in Seq(T)
  PROVE  s \o t \in Seq(T) /\ ToSet(s \o t) = ToSet(s) \cup ToSet(t)
<1>1. s \o t \in Seq(T) /\ Len(s \o t) = Len(s) + Len(t)
  OBVIOUS
<1>2. \A i \in 1..Len(s) : (s \o t)[i] = s[i]
  OBVIOUS
<1>3. \A i \in 1..Len(t) : (s \o t)[Len(s) + i] = t[i]
  OBVIOUS
<1>4. \A i \in 1..Len(s \o t) : i \in 1..Len(s) \/ (i - Len(s) \in 1..Len(t) /\ Len(s) + (i - Len(s)) = i)
  BY <1>1
<1>5. ToSet(s \o t) \subseteq ToSet(s) \cup ToSet(t)
  <2> SUFFICES ASSUME NEW i \in 1..Len(s \o t)
               PROVE  (s \o t)[i] \in ToSet(s) \cup ToSet(t)
    BY <1>1 DEF ToSet
  <2>1. CASE i \in 1..Len(s)
    BY <1>2, <2>1 DEF ToSet
  <2>2. CASE i - Len(s) \in 1..Len(t) /\ Len(s) + (i - Len(s)) = i
    <3>1. (s \o t)[i] = t[i - Len(s)]
      BY <1>3, <2>2
    <3> QED BY <2>2, <3>1 DEF ToSet
  <2> QED BY <1>4, <2>1, <2>2
<1>6. ToSet(s) \subseteq ToSet(s \o t)
  <2>1. \A i \in 1..Len(s) : i \in 1..Len(s \o t)
    BY <1>1
  <2> QED BY <1>1, <1>2, <2>1 DEF ToSet
<1>7. ToSet(t) \subseteq ToSet(s \o t)
  <2> SUFFICES ASSUME NEW i \in 1..Len(t)
               PROVE  t[i] \in ToSet(s \o t)
    BY DEF ToSet
  <2>1. Len(s) + i \in DOMAIN (s \o t)
    BY <1>1
  <2>2. (s \o t)[Len(s) + i] = t[i]
    BY <1>3
  <2> QED BY <2>1, <2>2 DEF ToSet
<1> QED BY <1>1, <1>5, <1>6, <1>7

\* What is kept of a sequence is what was in it and in the set.
LEMMA KeepFits ==
  ASSUME NEW T, NEW s \in Seq(T), NEW S
  PROVE  Keep(s, S) \in Seq(T) /\ ToSet(Keep(s, S)) = ToSet(s) \cap S
<1> DEFINE n == Len(s)
           F(g) == [k \in 0..n |-> IF k = 0 THEN <<>>
                                   ELSE IF s[k] \in S THEN Append(g[k - 1], s[k]) ELSE g[k - 1]]
           kept == CHOOSE g : g = F(g)
           Begins(k, g) == /\ g = [j \in 0..k |->
                                   IF j = 0 THEN <<>>
                                   ELSE IF s[j] \in S THEN Append(g[j - 1], s[j]) ELSE g[j - 1]]
           Built == {k \in Nat : k <= n => \E g : Begins(k, g)}
           Part(k) == {s[j] : j \in 1..k} \cap S
           Right == {k \in Nat : k <= n => kept[k] \in Seq(T) /\ ToSet(kept[k]) = Part(k)}
<1>b. \A k : k \in Built <=> k \in Nat /\ (k <= n => \E g : Begins(k, g))
  BY Zenon
<1>1. n \in Nat /\ DOMAIN s = 1..n /\ \A k \in 1..n : s[k] \in T
  OBVIOUS
<1>2. Nat \subseteq Built
  <2>1. 0 \in Built
    <3>1. \A j \in 0..0 : j = 0
      OBVIOUS
    <3>2. Begins(0, [j \in 0..0 |-> <<>>])
      BY <3>1, Zenon
    <3> QED BY <3>2
  <2>2. ASSUME NEW k \in Nat, k \in Built
        PROVE  k + 1 \in Built
    <3>1. SUFFICES ASSUME k + 1 <= n
                   PROVE  \E g : Begins(k + 1, g)
      <4> HIDE DEF Begins, Built, n
      <4>1. k + 1 \in Nat
        OBVIOUS
      <4> QED BY <1>b, <4>1
    <3>2. \E f : Begins(k, f)
      <4>1. k <= n
        BY <1>1, <3>1
      <4> QED BY <1>b, <2>2, <4>1, Zenon
    <3>a. PICK f : Begins(k, f)
      BY <3>2, Zenon
    <3> DEFINE last == IF s[k + 1] \in S THEN Append(f[k], s[k + 1]) ELSE f[k]
               g == [j \in 0..(k + 1) |-> IF j <= k THEN f[j] ELSE last]
    <3>3. \A j \in 0..k : f[j] = IF j = 0 THEN <<>>
                                 ELSE IF s[j] \in S THEN Append(f[j - 1], s[j]) ELSE f[j - 1]
      BY <3>a
    <3>4. \A j \in 0..k : g[j] = f[j]
      OBVIOUS
    <3>5. g[k + 1] = last
      OBVIOUS
    <3> HIDE DEF g
    <3>6. ASSUME NEW j \in 0..(k + 1)
          PROVE  g[j] = IF j = 0 THEN <<>>
                        ELSE IF s[j] \in S THEN Append(g[j - 1], s[j]) ELSE g[j - 1]
      <4>1. CASE j = 0
        BY <3>3, <3>4, <4>1
      <4>2. CASE j \in 1..k
        <5>1. j \in 0..k /\ j - 1 \in 0..k /\ j # 0
          BY <4>2
        <5> QED BY <3>3, <3>4, <5>1
      <4>3. CASE j = k + 1
        <5>1. j # 0 /\ j - 1 = k /\ k \in 0..k
          BY <4>3
        <5> QED BY <3>4, <3>5, <4>3, <5>1
      <4> QED BY <4>1, <4>2, <4>3
    <3>7. Begins(k + 1, g)
      <4>1. g = [j \in 0..(k + 1) |-> g[j]]
        BY DEF g
      <4> QED BY <3>6, <4>1
    <3> QED BY <3>7
  <2> HIDE DEF Built
  <2> QED BY <2>1, <2>2, SetInduction
<1>3. \E g : Begins(n, g)
  BY <1>1, <1>2
<1>4. kept = F(kept)
  <2>1. \E g : g = F(g)
    BY <1>3
  <2> HIDE DEF F
  <2> QED BY <2>1
<1>5. \A k \in 0..n : kept[k] = IF k = 0 THEN <<>>
                                ELSE IF s[k] \in S THEN Append(kept[k - 1], s[k]) ELSE kept[k - 1]
  <2> HIDE DEF kept
  <2> QED BY <1>4
<1>6. Keep(s, S) = kept[n]
  BY DEF Keep
<1> HIDE DEF kept
<1>7. Nat \subseteq Right
  <2>1. 0 \in Right
    <3>1. kept[0] = <<>>
      BY <1>1, <1>5
    <3>2. ToSet(<<>>) = {} /\ <<>> \in Seq(T)
      BY DEF ToSet
    <3>3. 1..0 = {}
      OBVIOUS
    <3>4. Part(0) = {}
      BY <3>3
    <3> HIDE DEF Part
    <3> QED BY <3>1, <3>2, <3>4
  <2>2. ASSUME NEW k \in Nat, k \in Right
        PROVE  k + 1 \in Right
    <3>1. SUFFICES ASSUME k + 1 <= n
                   PROVE  kept[k + 1] \in Seq(T) /\ ToSet(kept[k + 1]) = Part(k + 1)
      OBVIOUS
    <3>2. kept[k] \in Seq(T) /\ ToSet(kept[k]) = Part(k)
      BY <1>1, <2>2, <3>1
    <3>3. k + 1 \in 0..n /\ k + 1 # 0 /\ (k + 1) - 1 = k /\ k + 1 \in 1..n
      BY <1>1, <3>1
    <3>4. kept[k + 1] = IF s[k + 1] \in S THEN Append(kept[k], s[k + 1]) ELSE kept[k]
      BY <1>5, <3>3
    <3>5. Part(k + 1) = IF s[k + 1] \in S THEN Part(k) \cup {s[k + 1]} ELSE Part(k)
      <4>1. 1..(k + 1) = 1..k \cup {k + 1}
        OBVIOUS
      <4>2. {s[j] : j \in 1..(k + 1)} = {s[j] : j \in 1..k} \cup {s[k + 1]}
        BY <4>1
      <4> QED BY <4>2
    <3>6. s[k + 1] \in T
      BY <1>1, <3>3
    <3> HIDE DEF Part
    <3>7. CASE s[k + 1] \in S
      <4>1. kept[k + 1] = Append(kept[k], s[k + 1]) /\ Part(k + 1) = Part(k) \cup {s[k + 1]}
        BY <3>4, <3>5, <3>7
      <4>2. Append(kept[k], s[k + 1]) \in Seq(T)
        BY <3>2, <3>6
      <4>3. kept[k] \in Seq(T)
        BY <3>2
      <4>4. ToSet(Append(kept[k], s[k + 1])) = ToSet(kept[k]) \cup {s[k + 1]}
        BY <3>6, <4>3, ToSetAppend
      <4> QED BY <3>2, <4>1, <4>2, <4>4
    <3>8. CASE s[k + 1] \notin S
      BY <3>2, <3>4, <3>5, <3>8
    <3> QED BY <3>7, <3>8
  <2> HIDE DEF Right
  <2> QED BY <2>1, <2>2, SetInduction
<1>8. kept[n] \in Seq(T) /\ ToSet(kept[n]) = Part(n)
  <2>1. n \in Right
    BY <1>1, <1>7
  <2> HIDE DEF n, Part
  <2> QED BY <2>1
<1>9. Part(n) = ToSet(s) \cap S
  BY <1>1 DEF ToSet
<1> QED BY <1>6, <1>8, <1>9

-----------------------------------------------------------------------------
(* Replay: one event at a time.                                            *)

LEMMA IndexFits ==
  ASSUME NEW o, NEW T, NEW s \in Seq(T), NEW item
  PROVE  LET n == IndexOf(o, s, item) IN
         /\ (\E i \in DOMAIN s : o[s[i]].item = item) => n \in DOMAIN s /\ o[s[n]].item = item
         /\ (\A i \in DOMAIN s : o[s[i]].item # item) => n = 0
<1> DEFINE I == {i \in 1..Len(s) : o[s[i]].item = item}
<1>1. IndexOf(o, s, item) = IF I # {} THEN Min(I) ELSE 0
  BY DEF IndexOf, SelectInSeq
<1>2. DOMAIN s = 1..Len(s) /\ I \subseteq Nat
  OBVIOUS
<1>3. I # {} => Min(I) \in I
  <2> SUFFICES ASSUME I # {} PROVE Min(I) \in I
    OBVIOUS
  <2>1. \E x \in I : \A y \in I : x <= y
    <3> HIDE DEF I
    <3> QED BY <1>2, Least
  <2> HIDE DEF I
  <2> QED BY <2>1 DEF Min
<1> QED BY <1>1, <1>2, <1>3

LEMMA EntryFits ==
  ASSUME NEW o, NEW T, T \subseteq Nat \ {0}, NEW q, q.order \in Seq(T), NEW item
  PROVE  LET x == EntryOf(o, q, item) IN
         /\ (\E y \in ToSet(q.order) : o[y].item = item) =>
               x \in ToSet(q.order) /\ x \in T /\ x # 0 /\ o[x].item = item
         /\ (\A y \in ToSet(q.order) : o[y].item # item) => x = 0
<1> DEFINE n == IndexOf(o, q.order, item)
<1>1. EntryOf(o, q, item) = IF n = 0 THEN 0 ELSE q.order[n]
  BY DEF EntryOf
<1>2. /\ (\E i \in DOMAIN q.order : o[q.order[i]].item = item) =>
             n \in DOMAIN q.order /\ o[q.order[n]].item = item
      /\ (\A i \in DOMAIN q.order : o[q.order[i]].item # item) => n = 0
  <2> DEFINE s == q.order
  <2>1. s \in Seq(T)
    OBVIOUS
  <2>2. n = IndexOf(o, s, item)
    OBVIOUS
  <2> HIDE DEF s, n
  <2>3. /\ (\E i \in DOMAIN s : o[s[i]].item = item) => n \in DOMAIN s /\ o[s[n]].item = item
        /\ (\A i \in DOMAIN s : o[s[i]].item # item) => n = 0
    BY <2>1, <2>2, IndexFits
  <2> QED
    BY <2>3 DEF s
<1> HIDE DEF n
<1>3. \A i \in DOMAIN q.order : i # 0 /\ q.order[i] \in T /\ q.order[i] \in ToSet(q.order)
  BY DEF ToSet
<1>4. (\E y \in ToSet(q.order) : o[y].item = item)
        <=> \E i \in DOMAIN q.order : o[q.order[i]].item = item
  BY DEF ToSet
<1>5. (\A y \in ToSet(q.order) : o[y].item # item)
        <=> \A i \in DOMAIN q.order : o[q.order[i]].item # item
  BY DEF ToSet
<1> QED BY <1>1, <1>2, <1>3, <1>4, <1>5

\* What is true of the queue after k of the events o.
Upto(o, k) == {i \in AttachedIn(o) : i <= k}
Queues(o, k) == [order : Seq(Upto(o, k)), stored : [Upto(o, k) -> QueueStates], findings : Nat]
Represents(o, q, k) ==
  \A i \in Upto(o, k) : \E x \in ToSet(q.order) : o[x].item = o[i].item
Sound(o, q, k) == q \in Queues(o, k) /\ Represents(o, q, k)

IsLedger(o) == o \in Seq(EventSet)

LEMMA LedgerType ==
  ASSUME NEW o, IsLedger(o)
  PROVE  /\ Len(o) \in Nat /\ DOMAIN o = 1..Len(o)
         /\ \A k \in DOMAIN o : o[k] \in EventSet
         /\ \A k : Upto(o, k) \subseteq Nat \ {0}
<1>1. Len(o) \in Nat /\ DOMAIN o = 1..Len(o) /\ \A k \in DOMAIN o : o[k] \in EventSet
  BY DEF IsLedger
<1> QED BY <1>1 DEF Upto, AttachedIn

LEMMA QueueUpdated ==
  ASSUME NEW X, NEW Y, NEW q \in [order : X, stored : Y, findings : Nat],
         NEW V, NEW W, NEW a \in V, NEW b \in W
  PROVE  LET r == [q EXCEPT !.order = a, !.stored = b] IN
         /\ r \in [order : V, stored : W, findings : Nat]
         /\ r.order = a /\ r.stored = b /\ r.findings = q.findings
OBVIOUS

LEMMA RefusedSound ==
  ASSUME NEW o, NEW k, NEW q, Sound(o, q, k)
  PROVE  /\ Sound(o, Refused(q), k)
         /\ Refused(q).findings # 0
<1> DEFINE X == Seq(Upto(o, k))
           Y == [Upto(o, k) -> QueueStates]
           r == Refused(q)
<1>1. q \in [order : X, stored : Y, findings : Nat]
  BY DEF Sound, Queues
<1> HIDE DEF X, Y
<1>2. r \in [order : X, stored : Y, findings : Nat] /\ r.order = q.order /\ r.findings # 0
  BY <1>1 DEF Refused
<1>3. Sound(o, r, k)
  BY <1>2 DEF Sound, Queues, Represents, X, Y
<1> QED BY <1>2, <1>3

\* An event that attaches nothing leaves the positions as they are.
LEMMA NothingAttached ==
  ASSUME NEW o, IsLedger(o), NEW k \in DOMAIN o, o[k].type # "ATTACHED",
         NEW q, Sound(o, q, k - 1)
  PROVE  Sound(o, q, k)
<1>1. Upto(o, k) = Upto(o, k - 1)
  BY LedgerType DEF Upto, AttachedIn
<1> QED BY <1>1 DEF Sound, Queues, Represents

LEMMA EnqueueSound ==
  ASSUME NEW o, IsLedger(o), NEW k \in DOMAIN o, o[k].type = "ATTACHED",
         NEW q, Sound(o, q, k - 1)
  PROVE  /\ Sound(o, Enqueue(q, k), k)
         /\ Enqueue(q, k).findings = q.findings
         /\ Enqueue(q, k).stored[k] = "WAITING"
         /\ \A x \in Upto(o, k - 1) : Enqueue(q, k).stored[x] = q.stored[x]
         /\ ToSet(Enqueue(q, k).order) = ToSet(q.order) \cup {k}
<1> DEFINE T == Upto(o, k - 1)
           e == Enqueue(q, k)
<1>1. Upto(o, k) = T \cup {k} /\ k \notin T
  BY LedgerType DEF Upto, AttachedIn
<1>2. q.order \in Seq(T) /\ q.stored \in [T -> QueueStates]
  BY DEF Sound, Queues
<1> DEFINE a == Append(q.order, k)
           b == [x \in DOMAIN q.stored \cup {k} |-> IF x = k THEN "WAITING" ELSE q.stored[x]]
<1>3. e = [q EXCEPT !.order = a, !.stored = b]
  BY DEF Enqueue
<1>4. q \in [order : Seq(T), stored : [T -> QueueStates], findings : Nat]
  BY DEF Sound, Queues
<1> HIDE DEF e, T
<1>5. q.order \in Seq(T \cup {k}) /\ a \in Seq(T \cup {k}) /\ ToSet(a) = ToSet(q.order) \cup {k}
  <2>1. q.order \in Seq(T \cup {k})
    BY <1>2
  <2> QED BY <2>1, ToSetAppend
<1>6. b \in [T \cup {k} -> QueueStates]
  BY <1>2 DEF QueueStates
<1> HIDE DEF a, b
<1>7. /\ e \in [order : Seq(T \cup {k}), stored : [T \cup {k} -> QueueStates], findings : Nat]
      /\ e.order = a /\ e.stored = b /\ e.findings = q.findings
  BY <1>3, <1>4, <1>5, <1>6, QueueUpdated
<1>10. e \in Queues(o, k)
  BY <1>1, <1>7 DEF Queues
<1>8. Represents(o, e, k)
  BY <1>1, <1>5, <1>7 DEF Represents, Sound, T
<1>9. e.stored[k] = "WAITING" /\ \A x \in T : e.stored[x] = q.stored[x]
  BY <1>1, <1>2, <1>7 DEF b
<1> QED BY <1>5, <1>7, <1>8, <1>9, <1>10 DEF e, T, Sound

LEMMA TransitionSound ==
  ASSUME NEW o, IsLedger(o), NEW k \in DOMAIN o, o[k].type \in DOMAIN Target,
         NEW q, Sound(o, q, k - 1)
  PROVE  Sound(o, ApplyQueueTransition(o, q, k), k)
<1> DEFINE x == EntryOf(o, q, o[k].item)
           r == [q EXCEPT !.stored[x] = Target[o[k].type]]
<1>1. o[k].type # "ATTACHED"
  BY DEF Target
<1>2. Sound(o, q, k)
  BY <1>1, NothingAttached
<1>3. CASE x # 0 /\ Target[o[k].type] \in QueueTransitions[q.stored[x]]
  <2>1. Target[o[k].type] \in QueueStates
    BY DEF Target, QueueStates
  <2> HIDE DEF x
  <2>2. /\ r \in Queues(o, k) /\ r.order = q.order
    BY <1>2, <2>1 DEF Sound, Queues
  <2>3. Represents(o, r, k)
    BY <1>2, <2>2 DEF Represents, Sound
  <2> QED BY <1>3, <2>2, <2>3 DEF ApplyQueueTransition, Sound, x
<1>4. CASE ~(x # 0 /\ Target[o[k].type] \in QueueTransitions[q.stored[x]])
  <2>1. ApplyQueueTransition(o, q, k) = Refused(q)
    BY <1>4 DEF ApplyQueueTransition
  <2> QED BY <1>2, <2>1, RefusedSound
<1> QED BY <1>3, <1>4

LEMMA FutureFits ==
  ASSUME NEW o, NEW k, NEW q, Sound(o, q, k)
  PROVE  /\ Future(o, q) \in Seq(Upto(o, k))
         /\ ToSet(Future(o, q)) = ToSet(q.order) \ Settled(q)
         /\ ToSet(q.order) \subseteq DOMAIN q.stored
         /\ DOMAIN q.stored = Upto(o, k)
         /\ q.order \in Seq(Upto(o, k))
<1>1. q.order \in Seq(Upto(o, k)) /\ DOMAIN q.stored = Upto(o, k)
  BY DEF Sound, Queues
<1>2. ToSet(q.order) \subseteq DOMAIN q.stored
  BY <1>1, ToSetFits
<1>3. /\ Future(o, q) \in Seq(Upto(o, k))
      /\ ToSet(Future(o, q)) = ToSet(q.order) \cap (DOMAIN q.stored \ Settled(q))
  BY <1>1, KeepFits DEF Future
<1> QED BY <1>1, <1>2, <1>3

\* What may be reordered, and what that leaves.
MayReorder(o, q, k) == ToSet(o[k].order) \subseteq ToSet(ItemsOf(o, Future(o, q)))

LEMMA ReorderSound ==
  ASSUME NEW o, IsLedger(o), NEW k \in DOMAIN o, o[k].type = "REORDERED",
         NEW q, Sound(o, q, k - 1)
  PROVE  LET r == ApplyReorder(o, q, k) IN
         /\ Sound(o, r, k)
         /\ MayReorder(o, q, k) =>
              /\ r.findings = q.findings /\ r.stored = q.stored
              /\ ToSet(r.order) \subseteq ToSet(q.order)
<1> DEFINE T == Upto(o, k)
           want == o[k].order
           future == Future(o, q)
           r == ApplyReorder(o, q, k)
           Find(item) == future[IndexOf(o, future, item)]
           first == Keep(q.order, Settled(q))
           asked == [i \in DOMAIN want |-> Find(want[i])]
           last == Keep(future, {x \in ToSet(future) : o[x].item \notin ToSet(want)})
<1>1. Sound(o, q, k)
  BY NothingAttached
<1>2. /\ future \in Seq(T) /\ ToSet(future) = ToSet(q.order) \ Settled(q)
      /\ q.order \in Seq(T)
  BY <1>1, FutureFits
<1>3. CASE ~MayReorder(o, q, k)
  <2>1. r = Refused(q)
    BY <1>3 DEF ApplyReorder, MayReorder
  <2> QED BY <1>1, <1>3, <2>1, RefusedSound
<1>4. CASE MayReorder(o, q, k)
  <2>1. r = [q EXCEPT !.order = first \o asked \o last]
    BY <1>4 DEF ApplyReorder, MayReorder
  <2>2. first \in Seq(T) /\ ToSet(first) = ToSet(q.order) \cap Settled(q)
    BY <1>2, KeepFits
  <2>3. /\ last \in Seq(T)
        /\ ToSet(last) = {x \in ToSet(future) : o[x].item \notin ToSet(want)}
    <3>1. /\ last \in Seq(T)
          /\ ToSet(last) = ToSet(future) \cap {x \in ToSet(future) : o[x].item \notin ToSet(want)}
      BY <1>2, KeepFits
    <3> QED BY <3>1
  <2>4. \A item \in ToSet(want) : \E i \in DOMAIN future : o[future[i]].item = item
    BY <1>4 DEF MayReorder, ItemsOf, ToSet
  <2>5. \A item \in ToSet(want) :
          Find(item) \in ToSet(future) /\ Find(item) \in T /\ o[Find(item)].item = item
    <3> SUFFICES ASSUME NEW item \in ToSet(want)
                 PROVE  /\ Find(item) \in ToSet(future) /\ Find(item) \in T
                        /\ o[Find(item)].item = item
      OBVIOUS
    <3> DEFINE n == IndexOf(o, future, item)
    <3>1. n \in DOMAIN future /\ o[future[n]].item = item
      <4> HIDE DEF future
      <4> QED BY <1>2, <2>4, IndexFits
    <3> HIDE DEF n, future
    <3>2. future[n] \in ToSet(future) /\ future[n] \in T
      BY <1>2, <3>1 DEF ToSet
    <3> QED BY <3>1, <3>2 DEF n
  <2>6. want \in Seq(Nat)
    <3>1. o[k] \in EventSet
      BY LedgerType
    <3>2. o[k].order \in Orders \cup {<<>>}
      BY <3>1 DEF EventSet
    <3>3. Orders \subseteq Seq(Nat) /\ <<>> \in Seq(Nat)
      BY ObjectiveAssumption
    <3> QED BY <3>2, <3>3
  <2>7. \A i \in DOMAIN want : want[i] \in ToSet(want)
    BY DEF ToSet
  <2> HIDE DEF Find, future, want
  <2>8. /\ asked \in Seq(T) /\ ToSet(asked) = {Find(item) : item \in ToSet(want)}
    <3>1. asked \in Seq(T)
      BY <2>5, <2>6, <2>7
    <3>2. DOMAIN asked = DOMAIN want
      OBVIOUS
    <3>3. ToSet(asked) = {asked[i] : i \in DOMAIN want}
      BY <3>2 DEF ToSet
    <3>4. ToSet(want) = {want[i] : i \in DOMAIN want}
      BY DEF ToSet
    <3> QED BY <3>1, <3>3, <3>4
  <2> HIDE DEF first, asked, last
  <2>9. /\ first \o asked \o last \in Seq(T)
        /\ ToSet(first \o asked \o last) = ToSet(first) \cup ToSet(asked) \cup ToSet(last)
    <3>1. first \o asked \in Seq(T) /\ ToSet(first \o asked) = ToSet(first) \cup ToSet(asked)
      BY <2>2, <2>8, ToSetConcat
    <3> DEFINE front == first \o asked
    <3> HIDE DEF front
    <3>2. front \in Seq(T) /\ ToSet(front) = ToSet(first) \cup ToSet(asked)
      BY <3>1 DEF front
    <3>3. front \o last \in Seq(T) /\ ToSet(front \o last) = ToSet(front) \cup ToSet(last)
      BY <2>3, <3>2, ToSetConcat
    <3> QED BY <3>2, <3>3 DEF front
  <2> DEFINE order == first \o asked \o last
  <2> HIDE DEF order
  <2>10. /\ r \in Queues(o, k) /\ r.order = order
         /\ r.stored = q.stored /\ r.findings = q.findings
    <3> DEFINE Y == [Upto(o, k) -> QueueStates]
               X == Seq(T)
    <3>1. q \in [order : X, stored : Y, findings : Nat]
      BY <1>1 DEF Sound, Queues
    <3>2. order \in X
      BY <2>9 DEF order
    <3>3. r = [q EXCEPT !.order = order]
      BY <2>1 DEF order
    <3> HIDE DEF X, Y, r
    <3>4. /\ r \in [order : X, stored : Y, findings : Nat] /\ r.order = order
          /\ r.stored = q.stored /\ r.findings = q.findings
      BY <3>1, <3>2, <3>3
    <3> QED BY <3>4 DEF X, Y, Queues
  <2>11. ToSet(order) = ToSet(first) \cup ToSet(asked) \cup ToSet(last)
    BY <2>9 DEF order
  <2>12. ToSet(order) \subseteq ToSet(q.order)
    BY <1>2, <2>2, <2>3, <2>5, <2>8, <2>11
  <2>13. \A x \in ToSet(q.order) : \E y \in ToSet(order) : o[y].item = o[x].item
    <3> SUFFICES ASSUME NEW x \in ToSet(q.order)
                 PROVE  \E y \in ToSet(order) : o[y].item = o[x].item
      OBVIOUS
    <3>1. CASE x \in Settled(q)
      BY <2>2, <2>11, <3>1
    <3>2. CASE x \in ToSet(future) /\ o[x].item \notin ToSet(want)
      BY <2>3, <2>11, <3>2
    <3>3. CASE x \in ToSet(future) /\ o[x].item \in ToSet(want)
      <4>1. Find(o[x].item) \in ToSet(order)
        BY <2>8, <2>11, <3>3
      <4>2. o[Find(o[x].item)].item = o[x].item
        BY <2>5, <3>3
      <4> QED BY <4>1, <4>2
    <3> QED BY <1>2, <3>1, <3>2, <3>3
  <2>14. Represents(o, r, k)
    <3> SUFFICES ASSUME NEW i \in Upto(o, k)
                 PROVE  \E y \in ToSet(order) : o[y].item = o[i].item
      BY <2>10 DEF Represents
    <3>1. PICK x \in ToSet(q.order) : o[x].item = o[i].item
      BY <1>1 DEF Sound, Represents
    <3> QED BY <2>13, <3>1
  <2> QED BY <2>10, <2>12, <2>14 DEF Sound
<1> QED BY <1>3, <1>4

LEMMA ApplySound ==
  ASSUME NEW o, IsLedger(o), NEW k \in DOMAIN o, NEW q, Sound(o, q, k - 1)
  PROVE  Sound(o, Apply(o, q, k), k)
<1>1. CASE o[k].type = "ATTACHED"
  <2>1. Apply(o, q, k) = Enqueue(q, k)
    BY <1>1 DEF Apply, Target
  <2> QED BY <1>1, <2>1, EnqueueSound
<1>2. CASE o[k].type = "REORDERED"
  <2>1. Apply(o, q, k) = ApplyReorder(o, q, k)
    BY <1>2 DEF Apply, Target
  <2> QED BY <1>2, <2>1, ReorderSound
<1>3. CASE o[k].type \in DOMAIN Target
  <2>1. Apply(o, q, k) = ApplyQueueTransition(o, q, k)
    BY <1>3 DEF Apply, Target
  <2> QED BY <1>3, <2>1, TransitionSound
<1>4. CASE o[k].type \notin {"ATTACHED", "REORDERED"} \cup DOMAIN Target
  <2>1. Apply(o, q, k) = q
    BY <1>4 DEF Apply
  <2> QED BY <1>4, <2>1, NothingAttached
<1> QED BY <1>1, <1>2, <1>3, <1>4

-----------------------------------------------------------------------------
(* Replay: all events.                                                     *)

\* The queue after each of the events.
QueuesAfter(o) ==
  CHOOSE g : g = [k \in 0..Len(o) |-> IF k = 0 THEN EmptyQueue ELSE Apply(o, g[k - 1], k)]

LEMMA QueueRecursion ==
  ASSUME NEW o, IsLedger(o)
  PROVE  /\ Queue(o) = QueuesAfter(o)[Len(o)]
         /\ QueuesAfter(o)[0] = EmptyQueue
         /\ \A k \in 1..Len(o) : QueuesAfter(o)[k] = Apply(o, QueuesAfter(o)[k - 1], k)
<1> DEFINE n == Len(o)
           F(g) == [k \in 0..n |-> IF k = 0 THEN EmptyQueue ELSE Apply(o, g[k - 1], k)]
           Begins(k, g) == g = [j \in 0..k |-> IF j = 0 THEN EmptyQueue ELSE Apply(o, g[j - 1], j)]
           Built == {k \in Nat : \E g : Begins(k, g)}
<1>1. n \in Nat
  BY LedgerType
<1>2. Nat \subseteq Built
  <2>1. 0 \in Built
    <3>1. \A j \in 0..0 : j = 0
      OBVIOUS
    <3>2. Begins(0, [j \in 0..0 |-> EmptyQueue])
      BY <3>1, Zenon
    <3> QED BY <3>2
  <2>2. ASSUME NEW k \in Nat, k \in Built
        PROVE  k + 1 \in Built
    <3>1. PICK f : Begins(k, f)
      BY <2>2
    <3> DEFINE last == Apply(o, f[k], k + 1)
               g == [j \in 0..(k + 1) |-> IF j <= k THEN f[j] ELSE last]
    <3>2. \A j \in 0..k : f[j] = IF j = 0 THEN EmptyQueue ELSE Apply(o, f[j - 1], j)
      BY <3>1
    <3>3. (\A j \in 0..k : g[j] = f[j]) /\ g[k + 1] = last
      OBVIOUS
    <3>4. g = [j \in 0..(k + 1) |-> g[j]]
      OBVIOUS
    <3> HIDE DEF g
    <3>5. ASSUME NEW j \in 0..(k + 1)
          PROVE  g[j] = IF j = 0 THEN EmptyQueue ELSE Apply(o, g[j - 1], j)
      <4>1. CASE j = 0
        BY <3>2, <3>3, <4>1
      <4>2. CASE j \in 1..k
        <5>1. j \in 0..k /\ j - 1 \in 0..k /\ j # 0
          BY <4>2
        <5> QED BY <3>2, <3>3, <5>1
      <4>3. CASE j = k + 1
        <5>1. j # 0 /\ j - 1 = k /\ k \in 0..k
          BY <4>3
        <5> QED BY <3>3, <4>3, <5>1
      <4> QED BY <4>1, <4>2, <4>3
    <3>6. Begins(k + 1, g)
      BY <3>4, <3>5
    <3> QED BY <3>6
  <2> HIDE DEF Built
  <2> QED BY <2>1, <2>2, SetInduction
<1>3. \E g : g = F(g)
  BY <1>1, <1>2
<1>4. QueuesAfter(o) = F(QueuesAfter(o))
  <2>1. QueuesAfter(o) = CHOOSE g : g = F(g)
    BY DEF QueuesAfter
  <2> HIDE DEF F
  <2> QED BY <1>3, <2>1
<1>5. \A k \in 0..n : QueuesAfter(o)[k] =
        IF k = 0 THEN EmptyQueue ELSE Apply(o, QueuesAfter(o)[k - 1], k)
  BY <1>4
<1>6. Queue(o) = QueuesAfter(o)[n]
  BY DEF Queue, QueuesAfter
<1>7. 0 \in 0..n /\ \A k \in 1..n : k \in 0..n /\ k # 0
  BY <1>1
<1> QED BY <1>5, <1>6, <1>7

LEMMA EmptySound ==
  ASSUME NEW o, IsLedger(o)
  PROVE  Sound(o, EmptyQueue, 0)
<1>1. Upto(o, 0) = {}
  BY LedgerType DEF Upto
<1>2. EmptyQueue \in [order : Seq({}), stored : [{} -> QueueStates], findings : Nat]
  BY DEF EmptyQueue
<1> QED BY <1>1, <1>2 DEF Sound, Queues, Represents

LEMMA QueuesSound ==
  ASSUME NEW o, IsLedger(o)
  PROVE  \A k \in 0..Len(o) : Sound(o, QueuesAfter(o)[k], k)
<1> DEFINE Right == {k \in Nat : k <= Len(o) => Sound(o, QueuesAfter(o)[k], k)}
<1>1. 0 \in Right
  BY EmptySound, QueueRecursion
<1>2. ASSUME NEW k \in Nat, k \in Right
      PROVE  k + 1 \in Right
  <2>1. SUFFICES ASSUME k + 1 <= Len(o)
                 PROVE  Sound(o, QueuesAfter(o)[k + 1], k + 1)
    OBVIOUS
  <2>2. k + 1 \in 1..Len(o) /\ k + 1 \in DOMAIN o /\ (k + 1) - 1 = k /\ k <= Len(o)
    BY <2>1, LedgerType
  <2>3. QueuesAfter(o)[k + 1] = Apply(o, QueuesAfter(o)[k], k + 1)
    BY <2>2, QueueRecursion
  <2>4. Sound(o, QueuesAfter(o)[k], (k + 1) - 1)
    BY <1>2, <2>2
  <2> QED BY <2>2, <2>3, <2>4, ApplySound
<1>3. Nat \subseteq Right
  <2> HIDE DEF Right
  <2> QED BY <1>1, <1>2, SetInduction
<1> QED BY <1>3, LedgerType

LEMMA QueueSound ==
  ASSUME NEW o, IsLedger(o)
  PROVE  Sound(o, Queue(o), Len(o)) /\ Upto(o, Len(o)) = AttachedIn(o)
<1>1. Len(o) \in 0..Len(o)
  BY LedgerType
<1>2. Upto(o, Len(o)) = AttachedIn(o)
  BY LedgerType DEF Upto, AttachedIn
<1> QED BY <1>1, <1>2, QueuesSound, QueueRecursion

\* What comes later in the ledger changes nothing of what an event did.
Extends(more, o) == Len(o) <= Len(more) /\ \A k \in DOMAIN o : more[k] = o[k]

Reordering(o, q, future, want) ==
  IF ToSet(want) \subseteq ToSet(ItemsOf(o, future))
    THEN [q EXCEPT !.order =
           Keep(q.order, Settled(q))
             \o [i \in DOMAIN want |-> future[IndexOf(o, future, want[i])]]
             \o Keep(future, {x \in ToSet(future) : o[x].item \notin ToSet(want)})]
    ELSE Refused(q)

LEMMA ReorderFits ==
  ASSUME NEW o, NEW q, NEW k
  PROVE  ApplyReorder(o, q, k) = Reordering(o, q, Future(o, q), o[k].order)
  BY DEF ApplyReorder, Reordering

LEMMA ApplyDepends ==
  ASSUME NEW o, IsLedger(o), NEW more, IsLedger(more), Extends(more, o),
         NEW k \in DOMAIN o, NEW q, Sound(o, q, k - 1)
  PROVE  Apply(more, q, k) = Apply(o, q, k)
<1> DEFINE T == Upto(o, k - 1)
<1>1. q.order \in Seq(T) /\ T \subseteq DOMAIN o
  BY DEF Sound, Queues, Upto, AttachedIn
<1>2. \A x \in T : more[x] = o[x]
  BY <1>1 DEF Extends
<1>3. more[k] = o[k]
  BY DEF Extends
<1>4. \A s \in Seq(T) : \A item : IndexOf(more, s, item) = IndexOf(o, s, item)
  <2> SUFFICES ASSUME NEW s \in Seq(T), NEW item
               PROVE  IndexOf(more, s, item) = IndexOf(o, s, item)
    OBVIOUS
  <2>1. \A i \in 1..Len(s) : more[s[i]] = o[s[i]]
    BY <1>2
  <2>2. {i \in 1..Len(s) : more[s[i]].item = item} = {i \in 1..Len(s) : o[s[i]].item = item}
    BY <2>1
  <2> QED BY <2>2 DEF IndexOf, SelectInSeq
<1>5. \A item : EntryOf(more, q, item) = EntryOf(o, q, item)
  BY <1>1, <1>4 DEF EntryOf
<1>6. ApplyQueueTransition(more, q, k) = ApplyQueueTransition(o, q, k)
  BY <1>3, <1>5 DEF ApplyQueueTransition
<1>7. ApplyReorder(more, q, k) = ApplyReorder(o, q, k)
  <2> DEFINE future == Future(o, q)
  <2>1. Future(more, q) = future /\ future \in Seq(T)
    BY FutureFits DEF Future
  <2> HIDE DEF future
  <2>2. ItemsOf(more, future) = ItemsOf(o, future)
    BY <1>2, <2>1 DEF ItemsOf
  <2>3. \A item : IndexOf(more, future, item) = IndexOf(o, future, item)
    BY <1>4, <2>1
  <2>4. \A x \in ToSet(future) : more[x] = o[x]
    BY <1>2, <2>1, ToSetFits
  <2> DEFINE want == o[k].order
  <2>5. {x \in ToSet(future) : more[x].item \notin ToSet(want)}
          = {x \in ToSet(future) : o[x].item \notin ToSet(want)}
    BY <2>4
  <2>6. [i \in DOMAIN want |-> future[IndexOf(more, future, want[i])]]
          = [i \in DOMAIN want |-> future[IndexOf(o, future, want[i])]]
    BY <2>3
  <2>7. more[k].order = want
    BY <1>3
  <2> HIDE DEF want
  <2>8. Reordering(more, q, future, want) = Reordering(o, q, future, want)
    BY <2>2, <2>5, <2>6, Zenon DEF Reordering
  <2>9. ApplyReorder(o, q, k) = Reordering(o, q, future, want)
    BY ReorderFits DEF future, want
  <2>10. ApplyReorder(more, q, k) = Reordering(more, q, future, want)
    BY <2>1, <2>7, ReorderFits
  <2> QED BY <2>8, <2>9, <2>10
<1> QED BY <1>3, <1>6, <1>7 DEF Apply

LEMMA QueuePrefix ==
  ASSUME NEW o, IsLedger(o), NEW more, IsLedger(more), Extends(more, o)
  PROVE  \A k \in 0..Len(o) : QueuesAfter(more)[k] = QueuesAfter(o)[k]
<1> DEFINE Right == {k \in Nat : k <= Len(o) => QueuesAfter(more)[k] = QueuesAfter(o)[k]}
<1>1. 0 \in Right
  BY QueueRecursion
<1>2. ASSUME NEW k \in Nat, k \in Right
      PROVE  k + 1 \in Right
  <2>1. SUFFICES ASSUME k + 1 <= Len(o)
                 PROVE  QueuesAfter(more)[k + 1] = QueuesAfter(o)[k + 1]
    OBVIOUS
  <2>2. /\ k + 1 \in 1..Len(o) /\ k + 1 \in DOMAIN o /\ k + 1 \in 1..Len(more)
        /\ (k + 1) - 1 = k /\ k <= Len(o) /\ k \in 0..Len(o)
    BY <2>1, LedgerType DEF Extends
  <2>3. /\ QueuesAfter(o)[k + 1] = Apply(o, QueuesAfter(o)[k], k + 1)
        /\ QueuesAfter(more)[k + 1] = Apply(more, QueuesAfter(more)[k], k + 1)
    BY <2>2, QueueRecursion
  <2>4. QueuesAfter(more)[k] = QueuesAfter(o)[k]
    BY <1>2, <2>2
  <2>5. Sound(o, QueuesAfter(o)[k], (k + 1) - 1)
    BY <2>2, QueuesSound
  <2> QED BY <2>2, <2>3, <2>4, <2>5, ApplyDepends
<1>3. Nat \subseteq Right
  <2> HIDE DEF Right
  <2> QED BY <1>1, <1>2, SetInduction
<1> QED BY <1>3, LedgerType

\* The queue of a ledger with one more event.
LEMMA QueueGrows ==
  ASSUME NEW o, IsLedger(o), NEW e \in EventSet
  PROVE  LET more == Append(o, e)
             k == Len(o) + 1
         IN  /\ IsLedger(more) /\ Len(more) = k /\ DOMAIN more = DOMAIN o \cup {k}
             /\ k \in DOMAIN more /\ k \notin DOMAIN o /\ more[k] = e
             /\ \A i \in DOMAIN o : more[i] = o[i] /\ i < k
             /\ Queue(more) = Apply(more, Queue(o), k)
             /\ Sound(more, Queue(o), k - 1) /\ Upto(more, k - 1) = AttachedIn(o)
<1> DEFINE more == Append(o, e)
           k == Len(o) + 1
<1>1. Len(o) \in Nat /\ DOMAIN o = 1..Len(o)
  BY LedgerType
<1>2. /\ IsLedger(more) /\ Len(more) = k /\ DOMAIN more = DOMAIN o \cup {k}
      /\ k \in DOMAIN more /\ k \notin DOMAIN o /\ more[k] = e
      /\ \A i \in DOMAIN o : more[i] = o[i] /\ i < k
  BY <1>1 DEF IsLedger
<1> HIDE DEF more
<1>3. Extends(more, o)
  BY <1>1, <1>2 DEF Extends
<1>4. k \in 1..Len(more) /\ k - 1 = Len(o) /\ Len(o) \in 0..Len(o) /\ Len(o) \in 0..Len(more)
  BY <1>1, <1>2
<1>5. Queue(o) = QueuesAfter(more)[Len(o)]
  BY <1>2, <1>3, <1>4, QueuePrefix, QueueRecursion
<1>6. Queue(more) = Apply(more, Queue(o), k)
  <2>1. Queue(more) = QueuesAfter(more)[k]
    BY <1>2, QueueRecursion
  <2>2. QueuesAfter(more)[k] = Apply(more, QueuesAfter(more)[k - 1], k)
    BY <1>2, <1>4, QueueRecursion
  <2> QED BY <1>4, <1>5, <2>1, <2>2
<1>7. Sound(more, Queue(o), k - 1)
  BY <1>2, <1>4, <1>5, QueuesSound
<1>8. Upto(more, k - 1) = AttachedIn(o)
  BY <1>1, <1>2, <1>4 DEF Upto, AttachedIn
<1> QED BY <1>2, <1>6, <1>7, <1>8 DEF more

-----------------------------------------------------------------------------
(* Replay of a ledger that is orderly.                                     *)

LEMMA OrderedIsTheLedger ==
  ASSUME NEW o, IsLedger(o), \A k \in DOMAIN o : o[k].seq = k
  PROVE  Ordered(o) = o
<1>1. ASSUME NEW n \in DOMAIN o
      PROVE  (CHOOSE i \in DOMAIN o : o[i].seq = n) = n
  BY <1>1
<1> QED BY <1>1 DEF Ordered, IsLedger

LEMMA EntryFound ==
  ASSUME NEW o, IsLedger(o), NEW k, NEW q, Sound(o, q, k), NEW i \in Upto(o, k)
  PROVE  LET x == EntryOf(o, q, o[i].item) IN
         /\ x \in Upto(o, k) /\ x # 0 /\ o[x].item = o[i].item
         /\ Once(o) => x = i
<1>1. q.order \in Seq(Upto(o, k)) /\ Upto(o, k) \subseteq Nat \ {0}
  BY LedgerType DEF Sound, Queues
<1>2. \E y \in ToSet(q.order) : o[y].item = o[i].item
  BY DEF Sound, Represents
<1> DEFINE x == EntryOf(o, q, o[i].item)
<1>3. x \in Upto(o, k) /\ x # 0 /\ o[x].item = o[i].item
  BY <1>1, <1>2, EntryFits
<1> QED BY <1>3 DEF Once, Upto

LEMMA EntryMissing ==
  ASSUME NEW o, IsLedger(o), NEW k, NEW q, Sound(o, q, k), NEW item,
         \A i \in Upto(o, k) : o[i].item # item
  PROVE  EntryOf(o, q, item) = 0
<1>1. q.order \in Seq(Upto(o, k)) /\ Upto(o, k) \subseteq Nat \ {0}
  BY LedgerType DEF Sound, Queues
<1>2. ToSet(q.order) \subseteq Upto(o, k)
  BY <1>1, ToSetFits
<1> QED BY <1>1, <1>2, EntryFits

\* The queue of a ledger reads the same in the ledger with one more event.
LEMMA SameEntries ==
  ASSUME NEW o, IsLedger(o), NEW e \in EventSet
  PROVE  LET more == Append(o, e)
             q == Queue(o)
         IN  /\ \A item : EntryOf(more, q, item) = EntryOf(o, q, item)
             /\ ItemsOf(more, Future(more, q)) = ItemsOf(o, Future(o, q))
<1> DEFINE more == Append(o, e)
           q == Queue(o)
           T == AttachedIn(o)
           future == Future(o, q)
<1>1. \A i \in DOMAIN o : more[i] = o[i]
  BY QueueGrows
<1>2. q.order \in Seq(T) /\ future \in Seq(T) /\ T \subseteq DOMAIN o
  <2>1. Sound(o, q, Len(o)) /\ Upto(o, Len(o)) = T
    BY QueueSound
  <2> QED BY <2>1, FutureFits DEF AttachedIn
<1> HIDE DEF more, q, T
<1>3. \A x \in T : more[x] = o[x]
  BY <1>1, <1>2
<1>4. \A item : IndexOf(more, q.order, item) = IndexOf(o, q.order, item)
  <2> SUFFICES ASSUME NEW item
               PROVE  IndexOf(more, q.order, item) = IndexOf(o, q.order, item)
    OBVIOUS
  <2>1. \A i \in 1..Len(q.order) : more[q.order[i]] = o[q.order[i]]
    BY <1>2, <1>3
  <2>2. {i \in 1..Len(q.order) : more[q.order[i]].item = item}
          = {i \in 1..Len(q.order) : o[q.order[i]].item = item}
    BY <2>1
  <2> QED BY <2>2 DEF IndexOf, SelectInSeq
<1>5. ItemsOf(more, future) = ItemsOf(o, future)
  BY <1>2, <1>3 DEF ItemsOf
<1>6. Future(more, q) = future
  BY DEF Future
<1> QED BY <1>4, <1>5, <1>6 DEF EntryOf, more, q

\* What the checks of a command ask of the ledger it appends to.
Welcome(o, e) ==
  LET q == Queue(o) IN
  /\ e.seq = Len(o) + 1
  /\ o = <<>> => e.type = "CREATED"
  /\ e.type = "ATTACHED" =>
       e.item \in Revs /\ \A i \in AttachedIn(o) : o[i].item # e.item
  /\ e.type \in DOMAIN Target =>
       LET x == EntryOf(o, q, e.item) IN
       x # 0 /\ Target[e.type] \in QueueTransitions[q.stored[x]]
  /\ e.type = "REORDERED" => ToSet(e.order) \subseteq ToSet(ItemsOf(o, Future(o, q)))
  /\ e.type = "REVIEWED" =>
       /\ \E i \in AttachedIn(o) : o[i].item = e.item
       /\ e.decision.id \in Ids /\ e.decision.bundle # None /\ Effective(e.decision)

\* What the event does to the stored states.
Stores(o, e) ==
  LET q == Queue(o)
      r == Queue(Append(o, e))
  IN  /\ r.findings = q.findings
      /\ e.type = "ATTACHED" =>
           /\ r.stored[Len(o) + 1] = "WAITING"
           /\ \A x \in AttachedIn(o) : r.stored[x] = q.stored[x]
      /\ e.type \in DOMAIN Target =>
           r.stored = [q.stored EXCEPT ![EntryOf(o, q, e.item)] = Target[e.type]]
      /\ e.type \notin {"ATTACHED"} \cup DOMAIN Target => r.stored = q.stored

LEMMA WelcomeStores ==
  ASSUME NEW o, IsLedger(o), NEW e \in EventSet, Welcome(o, e)
  PROVE  Stores(o, e)
<1> DEFINE more == Append(o, e)
           k == Len(o) + 1
           q == Queue(o)
           r == Queue(more)
<1>1. /\ IsLedger(more) /\ k \in DOMAIN more /\ more[k] = e
      /\ r = Apply(more, q, k) /\ Sound(more, q, k - 1) /\ Upto(more, k - 1) = AttachedIn(o)
  BY QueueGrows
<1>2. \A item : EntryOf(more, q, item) = EntryOf(o, q, item)
  BY SameEntries
<1>3. ItemsOf(more, Future(more, q)) = ItemsOf(o, Future(o, q))
  BY SameEntries
<1>f. q \in Queues(more, k - 1)
  BY <1>1 DEF Sound
<1> HIDE DEF more, k, q, r
<1>4. CASE e.type = "ATTACHED"
  <2>1. r = Enqueue(q, k)
    BY <1>1, <1>4 DEF Apply, Target
  <2>2. /\ r.findings = q.findings /\ r.stored[k] = "WAITING"
        /\ \A x \in Upto(more, k - 1) : r.stored[x] = q.stored[x]
    BY <1>1, <1>4, <2>1, EnqueueSound
  <2>3. e.type \notin DOMAIN Target
    BY <1>4 DEF Target
  <2> QED BY <1>1, <1>4, <2>2, <2>3 DEF Stores, more, k, q, r
<1>5. CASE e.type \in DOMAIN Target
  <2> DEFINE x == EntryOf(o, q, e.item)
  <2>1. r = ApplyQueueTransition(more, q, k)
    BY <1>1, <1>5 DEF Apply, Target
  <2>2. x # 0 /\ Target[e.type] \in QueueTransitions[q.stored[x]]
    BY <1>5 DEF Welcome, q
  <2>3. x = EntryOf(more, q, more[k].item)
    BY <1>1, <1>2
  <2> HIDE DEF x
  <2>4. r = [q EXCEPT !.stored[x] = Target[e.type]]
    BY <1>1, <2>1, <2>2, <2>3 DEF ApplyQueueTransition
  <2>5. r.findings = q.findings /\ r.stored = [q.stored EXCEPT ![x] = Target[e.type]]
    BY <1>f, <2>4 DEF Queues
  <2>6. e.type # "ATTACHED"
    BY <1>5 DEF Target
  <2> QED BY <1>5, <2>5, <2>6 DEF Stores, more, q, r, x
<1>6. CASE e.type = "REORDERED"
  <2>1. r = ApplyReorder(more, q, k)
    BY <1>1, <1>6 DEF Apply, Target
  <2>2. MayReorder(more, q, k)
    BY <1>1, <1>3, <1>6 DEF MayReorder, Welcome, q
  <2>3. r.findings = q.findings /\ r.stored = q.stored
    BY <1>1, <1>6, <2>1, <2>2, ReorderSound
  <2>4. e.type \notin DOMAIN Target
    BY <1>6 DEF Target
  <2> QED BY <1>6, <2>3, <2>4 DEF Stores, more, q, r
<1>7. CASE e.type \notin {"ATTACHED", "REORDERED"} \cup DOMAIN Target
  <2>1. r = q
    BY <1>1, <1>7 DEF Apply
  <2> QED BY <1>7, <2>1 DEF Stores, more, q, r
<1> QED BY <1>4, <1>5, <1>6, <1>7

LEMMA OrderlyGrows ==
  ASSUME NEW o, IsLedger(o), Orderly(o), NEW e \in EventSet, Welcome(o, e)
  PROVE  Orderly(Append(o, e))
<1> DEFINE more == Append(o, e)
           k == Len(o) + 1
<1>1. /\ DOMAIN more = DOMAIN o \cup {k} /\ k \notin DOMAIN o /\ more[k] = e
      /\ \A i \in DOMAIN o : more[i] = o[i]
      /\ IsLedger(more)
  BY QueueGrows
<1>2. Queue(more).findings = 0
  BY WelcomeStores DEF Stores, Orderly
<1>3. more[1].type = "CREATED"
  <2>1. CASE o = <<>>
    <3>1. k = 1
      BY <2>1
    <3>2. e.type = "CREATED"
      BY <2>1 DEF Welcome
    <3> QED BY <1>1, <3>1, <3>2
  <2>2. CASE o # <<>>
    <3>1. 1 \in DOMAIN o
      BY <2>2, LedgerType DEF IsLedger
    <3> QED BY <1>1, <2>2, <3>1 DEF Orderly
  <2> QED BY <2>1, <2>2
<1> HIDE DEF more
<1>4. \A i : i \in AttachedIn(more) <=> i \in AttachedIn(o) \/ (i = k /\ e.type = "ATTACHED")
  BY <1>1 DEF AttachedIn
<1>5. \A i : i \in Reviews(more) <=> i \in Reviews(o) \/ (i = k /\ e.type = "REVIEWED")
  BY <1>1 DEF Reviews
<1>6. \A i \in AttachedIn(o) : more[i] = o[i]
  BY <1>1 DEF AttachedIn
<1>7. \A i \in Reviews(o) : more[i] = o[i]
  BY <1>1 DEF Reviews
<1>8. Once(more)
  <2> SUFFICES ASSUME NEW i \in AttachedIn(more), NEW j \in AttachedIn(more),
                      more[i].item = more[j].item
               PROVE  i = j
    BY DEF Once
  <2>1. CASE i \in AttachedIn(o) /\ j \in AttachedIn(o)
    BY <1>6, <2>1 DEF Orderly, Once
  <2>2. CASE e.type = "ATTACHED" /\ (i = k \/ j = k)
    <3>1. \A n \in AttachedIn(o) : more[n].item # e.item
      BY <1>6, <2>2 DEF Welcome
    <3> QED BY <1>1, <1>4, <2>2, <3>1
  <2> QED BY <1>4, <2>1, <2>2
<1>9. \A i \in AttachedIn(more) : more[i].item \in Revs
  BY <1>1, <1>4, <1>6 DEF Orderly, Welcome
<1>10. \A i \in Reviews(more) :
         /\ \E j \in AttachedIn(more) : more[j].item = more[i].item
         /\ more[i].decision.id \in Ids
         /\ more[i].decision.bundle # None
         /\ Effective(more[i].decision)
  <2> SUFFICES ASSUME NEW i \in Reviews(more)
               PROVE  /\ \E j \in AttachedIn(o) : o[j].item = more[i].item
                      /\ more[i].decision.id \in Ids
                      /\ more[i].decision.bundle # None
                      /\ Effective(more[i].decision)
    BY <1>4, <1>6
  <2>1. CASE i \in Reviews(o)
    BY <1>7, <2>1 DEF Orderly
  <2>2. CASE i = k /\ e.type = "REVIEWED"
    BY <1>1, <2>2 DEF Welcome
  <2> QED BY <1>5, <2>1, <2>2
<1>11. \A i \in DOMAIN more : more[i].seq = i
  BY <1>1 DEF Orderly, Welcome
<1> QED BY <1>2, <1>3, <1>8, <1>9, <1>10, <1>11 DEF Orderly, more

\* A replay of it derives everything and finds nothing wrong.
LEMMA OrderlyReplays ==
  ASSUME NEW o, IsLedger(o), Orderly(o), o # <<>>
  PROVE  LET v == ReplayObjective(o, TRUE) IN
         v.complete = TRUE /\ v.queue = Queue(o) /\ v.findings = FALSE
<1>1. Ordered(o) = o
  BY OrderedIsTheLedger DEF Orderly
<1>2. Complete(o, TRUE)
  <2>1. {o[i].seq : i \in DOMAIN o} = DOMAIN o
    BY DEF Orderly
  <2>2. 1 \in DOMAIN o
    BY LedgerType DEF IsLedger
  <2>3. "CREATED" \in Types(o)
    BY <2>2 DEF Orderly, Types
  <2> QED BY <2>1, <2>3 DEF Complete, Contiguous
<1>3. \A k \in Reviews(o) : ~Unfit(o, Queue(o), k)
  <2> SUFFICES ASSUME NEW k \in Reviews(o)
               PROVE  ~Unfit(o, Queue(o), k)
    OBVIOUS
  <2>1. PICK i \in AttachedIn(o) : o[i].item = o[k].item
    BY DEF Orderly
  <2>2. EntryOf(o, Queue(o), o[i].item) # 0
    BY QueueSound, EntryFound
  <2> QED BY <2>1, <2>2 DEF Unfit, Orderly
<1>4. ~Findings(o, Queue(o))
  BY <1>3 DEF Findings, Orderly
<1>5. Findings(o, Queue(o)) = FALSE
  BY <1>4 DEF Findings
<1> QED BY <1>1, <1>2, <1>5 DEF ReplayObjective

-----------------------------------------------------------------------------
(* Types.                                                                  *)

LEMMA BlankFits == NoDecision \in Decisions /\ NoCommand \in CommandSet
<1>1. NoDecision \in Decisions
  BY DEF NoDecision, Decisions
<1>2. 0 \in 0..MaxRev
  BY ObjectiveAssumption
<1> QED BY <1>1, <1>2 DEF NoCommand, CommandSet

LEMMA CorrectionFits ==
  ASSUME NEW d \in Decisions, d.id \in Ids
  PROVE  /\ Correction(d) \in Decisions
         /\ Correction(d).id \in Ids
         /\ Correction(d).overturns = d.id
         /\ Correction(d).bundle = d.bundle
         /\ Correction(d).actor = d.actor
         /\ Correction(d).allowed = d.allowed
<1>1. PICK a \in Runs, b \in Nat : d.id = <<a, b>>
  BY DEF Ids
<1>2. d.id[1] = a /\ d.id[2] = b /\ <<a, b + 1>> \in Ids
  BY <1>1 DEF Ids
<1> QED BY <1>2 DEF Correction, Decisions

LEMMA LocalFits ==
  ASSUME NEW l \in Locals
  PROVE  /\ l.item \in 0..MaxRev /\ l.decision \in Decisions /\ l.decision.id \in Ids
         /\ l.ready => Effective(l.decision)
BY ObjectiveAssumption

\* The arguments of a command.
With(op, item) == [NoCommand EXCEPT !.op = op, !.item = item]

LEMMA CommandsAre ==
  Commands =
    {With("CREATED", 0)}
      \cup {With(op, r) : op \in DOMAIN Target, r \in Revs}
      \cup {[With("REORDERED", 0) EXCEPT !.order = o] : o \in Orders}
      \cup {[With("REVIEWED", l.item) EXCEPT !.decision = l.decision] : l \in Locals}
      \cup {[With("CORRECT", 0) EXCEPT !.decision = log[i].decision] : i \in Events("REVIEWED")}
BY DEF Commands, With

\* What the commands that start under the lock have in common.
LEMMA CommandIs ==
  ASSUME TypeOK, NEW c \in Commands
  PROVE  /\ c \in CommandSet /\ c.sees = 0 /\ c.op \notin {"REBUILD", "ATTACHED"}
         /\ c.op \in DOMAIN Target => c.item \in Revs
         /\ c.op = "REVIEWED" => c.decision.id \in Ids
         /\ c.op = "CORRECT" => \E i \in Events("REVIEWED") : log[i].decision = c.decision
<1> DEFINE Ops == {"REBUILD", "CREATED", "ATTACHED", "REORDERED", "REVIEWED", "CORRECT"}
                    \cup DOMAIN Target
<1>1. ASSUME NEW op \in Ops, NEW r \in 0..MaxRev
      PROVE  /\ With(op, r) \in CommandSet /\ With(op, r).op = op /\ With(op, r).item = r
             /\ With(op, r).sees = 0
  BY BlankFits DEF With, CommandSet, NoCommand
<1>2. 0 \in 0..MaxRev /\ Revs \subseteq 0..MaxRev
  BY ObjectiveAssumption DEF Revs
<1>3. ASSUME NEW d \in Decisions, NEW op \in Ops, NEW r \in 0..MaxRev,
             c = [With(op, r) EXCEPT !.decision = d]
      PROVE  c \in CommandSet /\ c.op = op /\ c.sees = 0 /\ c.decision = d
  <2>1. With(op, r) \in CommandSet /\ With(op, r).op = op /\ With(op, r).sees = 0
    BY <1>1
  <2> QED BY <1>3, <2>1 DEF CommandSet
<1>4. CASE c = With("CREATED", 0)
  BY <1>1, <1>2, <1>4 DEF Target
<1>5. ASSUME NEW op \in DOMAIN Target, NEW r \in Revs, c = With(op, r)
      PROVE  c \in CommandSet /\ c.sees = 0 /\ c.op = op /\ c.item \in Revs
  BY <1>1, <1>2, <1>5
<1>6. ASSUME NEW o \in Orders, c = [With("REORDERED", 0) EXCEPT !.order = o]
      PROVE  c \in CommandSet /\ c.op = "REORDERED" /\ c.sees = 0
  <2>1. /\ With("REORDERED", 0) \in CommandSet /\ With("REORDERED", 0).op = "REORDERED"
        /\ With("REORDERED", 0).sees = 0
    BY <1>1, <1>2
  <2> QED BY <1>6, <2>1 DEF CommandSet
<1>7. ASSUME NEW l \in Locals, c = [With("REVIEWED", l.item) EXCEPT !.decision = l.decision]
      PROVE  /\ c \in CommandSet /\ c.op = "REVIEWED" /\ c.sees = 0
             /\ c.decision.id \in Ids
  BY <1>3, <1>7, LocalFits
<1>8. ASSUME NEW i \in Events("REVIEWED"),
             c = [With("CORRECT", 0) EXCEPT !.decision = log[i].decision]
      PROVE  c \in CommandSet /\ c.op = "CORRECT" /\ c.sees = 0 /\ c.decision = log[i].decision
  <2>1. i \in DOMAIN log /\ log \in Seq(EventSet)
    BY DEF Events, TypeOK
  <2>2. log[i] \in EventSet
    BY <2>1
  <2>3. log[i].decision \in Decisions
    BY <2>2 DEF EventSet
  <2> QED BY <1>2, <1>3, <1>8, <2>3
<1>9. \A op \in DOMAIN Target : op \notin {"REBUILD", "ATTACHED", "REVIEWED", "CORRECT"}
  BY DEF Target
<1> QED BY <1>4, <1>5, <1>6, <1>7, <1>8, <1>9, CommandsAre DEF Target

LEMMA CommandsFit ==
  ASSUME TypeOK, NEW p \in Procs, NEW c \in CommandSet, cmd' = [cmd EXCEPT ![p] = c]
  PROVE  /\ cmd' \in [Procs -> CommandSet] /\ cmd'[p] = c
         /\ \A q \in Procs : q # p => cmd'[q] = cmd[q]
BY DEF TypeOK

LEMMA PhasesFit ==
  ASSUME TypeOK, NEW p \in Procs, NEW phase \in Phases, Goto(p, phase)
  PROVE  /\ pc' \in [Procs -> Phases] /\ pc'[p] = phase
         /\ \A q \in Procs : q # p => pc'[q] = pc[q]
BY DEF TypeOK, Goto

\* A step of p: to one phase, with one command, while the other processes stay.
Moves(p) ==
  /\ pc' \in [Procs -> Phases] /\ cmd' \in [Procs -> CommandSet]
  /\ \A q \in Procs : q # p => pc'[q] = pc[q] /\ cmd'[q] = cmd[q]

LEMMA GotoMoves ==
  ASSUME TypeOK, NEW p \in Procs, NEW phase \in Phases, Goto(p, phase), UNCHANGED cmd
  PROVE  Moves(p) /\ pc'[p] = phase /\ cmd'[p] = cmd[p]
BY PhasesFit DEF Moves, TypeOK

LEMMA ExitMoves ==
  ASSUME TypeOK, NEW p \in Procs, NEW phase \in Phases, Exit(p, phase)
  PROVE  Moves(p) /\ pc'[p] = phase /\ cmd'[p] = NoCommand
BY BlankFits, CommandsFit, PhasesFit DEF Moves, Exit

LEMMA NewCommandMoves ==
  ASSUME TypeOK, NEW p \in Procs, NEW phase \in Phases, Goto(p, phase),
         NEW c \in CommandSet, cmd' = [cmd EXCEPT ![p] = c]
  PROVE  Moves(p) /\ pc'[p] = phase /\ cmd'[p] = c
BY CommandsFit, PhasesFit DEF Moves

LEMMA LedgerFits ==
  ASSUME TypeOK
  PROVE  /\ IsLedger(log) /\ Len(log) \in Nat /\ DOMAIN log = 1..Len(log)
         /\ \A k \in DOMAIN log : log[k] \in EventSet /\ log[k].item \in 0..MaxRev
                                  /\ log[k].decision \in Decisions
<1>1. log \in Seq(EventSet)
  BY DEF TypeOK
<1>2. \A k \in DOMAIN log : log[k] \in EventSet
  BY <1>1
<1> QED BY <1>1, <1>2 DEF IsLedger, EventSet

\* What a correction is about is a decision the ledger holds.
LEMMA CorrectedFits ==
  ASSUME TypeOK, LedgerInv, NEW p \in Procs, CommandFits(p), cmd[p].op = "CORRECT"
  PROVE  LET i == CHOOSE i \in Imported(cmd[p].decision.id) : TRUE IN
         /\ cmd[p].decision.id \in Ids
         /\ i \in Events("REVIEWED") /\ i \in DOMAIN log /\ log[i].decision.id = cmd[p].decision.id
         /\ \E k \in Events("REVIEWED") : log[k].decision = cmd[p].decision
<1>1. PICK k \in Events("REVIEWED") : log[k].decision = cmd[p].decision
  BY DEF CommandFits
<1>2. cmd[p].decision.id \in Ids
  BY <1>1 DEF LedgerInv
<1>3. Imported(cmd[p].decision.id) # {}
  BY <1>1 DEF Imported
<1> QED BY <1>1, <1>2, <1>3 DEF Imported, Events

LEMMA EntryTyped ==
  ASSUME TypeOK, LedgerInv, NEW p \in Procs, CommandFits(p), pc[p] = "write"
  PROVE  /\ Entry(p) \in EventSet
         /\ Entry(p).seq = cmd[p].seq
         /\ cmd[p].op # "CORRECT" =>
              /\ Entry(p).type = cmd[p].op /\ Entry(p).item = cmd[p].item
              /\ Entry(p).order = cmd[p].order /\ Entry(p).decision = cmd[p].decision
         /\ cmd[p].op = "CORRECT" =>
              /\ Entry(p).type = "REVIEWED"
              /\ Entry(p).item = log[CHOOSE i \in Imported(cmd[p].decision.id) : TRUE].item
              /\ Entry(p).decision = Correction(cmd[p].decision)
<1>1. cmd[p] \in CommandSet
  BY DEF TypeOK
<1>2. cmd[p].op # "REBUILD"
  BY DEF CommandFits, Engine
<1>3. CASE cmd[p].op = "CORRECT"
  <2> DEFINE i == CHOOSE i \in Imported(cmd[p].decision.id) : TRUE
  <2>1. cmd[p].decision.id \in Ids /\ i \in DOMAIN log
    BY <1>3, CorrectedFits
  <2> HIDE DEF i
  <2>2. log[i].item \in 0..MaxRev
    BY <2>1, LedgerFits
  <2>3. Correction(cmd[p].decision) \in Decisions
    BY <1>1, <2>1, CorrectionFits DEF CommandSet
  <2>4. Entry(p) = [type |-> "REVIEWED", seq |-> cmd[p].seq, item |-> log[i].item,
                    order |-> cmd[p].order, decision |-> Correction(cmd[p].decision)]
    BY <1>3 DEF Entry, i
  <2> QED BY <1>1, <1>3, <2>2, <2>3, <2>4 DEF CommandSet, EventSet, i
<1>4. CASE cmd[p].op # "CORRECT"
  <2>1. Entry(p) = [type |-> cmd[p].op, seq |-> cmd[p].seq, item |-> cmd[p].item,
                    order |-> cmd[p].order, decision |-> cmd[p].decision]
    BY <1>4 DEF Entry
  <2> QED BY <1>1, <1>2, <1>4, <2>1 DEF CommandSet, EventSet
<1> QED BY <1>3, <1>4

\* What each action does to the command and the phase of its process.
LEMMA AttachBegins ==
  ASSUME TypeOK, NEW p \in Procs, BeginAttach(p)
  PROVE  /\ Moves(p) /\ pc'[p] = "lock" /\ cmd'[p].sees = 0 /\ cmd'[p].op = "ATTACHED"
         /\ cmd'[p].item \in Revs /\ cmd'[p].succeeds = Succeeds(cmd'[p].item)
<1>1. PICK r \in Revs :
        cmd' = [cmd EXCEPT ![p] = [NoCommand EXCEPT !.op = "ATTACHED", !.item = r,
                                                    !.exists = r <= known,
                                                    !.succeeds = Succeeds(r)]]
  BY DEF BeginAttach
<1> DEFINE c == [NoCommand EXCEPT !.op = "ATTACHED", !.item = r, !.exists = r <= known,
                                  !.succeeds = Succeeds(r)]
<1>2. r \in 0..MaxRev /\ Succeeds(r) \subseteq Revs /\ (r <= known) \in BOOLEAN
  BY ObjectiveAssumption DEF Revs, Succeeds
<1>3. /\ c \in CommandSet /\ c.op = "ATTACHED" /\ c.item = r /\ c.succeeds = Succeeds(r)
      /\ c.sees = 0
  BY <1>2, BlankFits DEF NoCommand, CommandSet
<1>4. "lock" \in Phases /\ Goto(p, "lock")
  BY DEF BeginAttach, Phases
<1> HIDE DEF c
<1>5. cmd' = [cmd EXCEPT ![p] = c]
  BY <1>1 DEF c
<1> QED BY <1>3, <1>4, <1>5, NewCommandMoves

LEMMA AcquireMoves ==
  ASSUME TypeOK, NEW p \in Procs, Acquire(p)
  PROVE  /\ Moves(p) /\ pc'[p] = "precheck"
         /\ \/ pc[p] = "lock" /\ cmd'[p] = cmd[p]
            \/ pc[p] = "idle" /\ cmd'[p] \in Commands
<1>1. "precheck" \in Phases /\ Goto(p, "precheck")
  BY DEF Acquire, Phases, Critical
<1>2. CASE pc[p] = "lock" /\ UNCHANGED cmd
  BY <1>1, <1>2, GotoMoves
<1>3. CASE pc[p] = "idle" /\ \E c \in Commands : cmd' = [cmd EXCEPT ![p] = c]
  <2>1. PICK c \in Commands : cmd' = [cmd EXCEPT ![p] = c]
    BY <1>3
  <2>2. c \in CommandSet
    BY CommandIs
  <2> QED BY <1>1, <1>3, <2>1, <2>2, NewCommandMoves
<1> QED BY <1>2, <1>3 DEF Acquire

LEMMA ChecksMove ==
  ASSUME TypeOK, NEW p \in Procs, Precheck(p) \/ Idempotency(p)
  PROVE  /\ Moves(p)
         /\ \/ pc'[p] = "release" /\ cmd'[p] = NoCommand
            \/ /\ cmd'[p] = cmd[p]
               /\ \/ pc[p] = "precheck" /\ pc'[p] = "idempotency" /\ Permitted(p)
                  \/ pc[p] = "idempotency" /\ pc'[p] = "read" /\ StillToDo(p)
<1>1. {"idempotency", "read", "release"} \subseteq Phases
  BY DEF Phases, Critical
<1>2. CASE Exit(p, "release")
  BY <1>1, <1>2, ExitMoves
<1>3. CASE Precheck(p) /\ ~Exit(p, "release")
  BY <1>1, <1>3, GotoMoves DEF Precheck
<1>4. CASE Idempotency(p) /\ ~Exit(p, "release")
  BY <1>1, <1>4, GotoMoves DEF Idempotency
<1> QED BY <1>2, <1>3, <1>4

LEMMA NumberUpdated ==
  ASSUME NEW c \in CommandSet, NEW n \in Nat
  PROVE  /\ [c EXCEPT !.seq = n] \in CommandSet /\ [c EXCEPT !.sees = n] \in CommandSet
BY DEF CommandSet

LEMMA SeqMoves ==
  ASSUME TypeOK, NEW p \in Procs, ReadSeq(p)
  PROVE  Moves(p) /\ pc'[p] = "write" /\ cmd'[p] = [cmd[p] EXCEPT !.seq = Len(log) + 1]
<1>1. "write" \in Phases /\ Goto(p, "write")
  BY DEF ReadSeq, Phases, Critical
<1>2. cmd' = [cmd EXCEPT ![p] = [cmd[p] EXCEPT !.seq = Len(log) + 1]]
  BY DEF ReadSeq, NextSeq
<1>3. [cmd[p] EXCEPT !.seq = Len(log) + 1] \in CommandSet
  <2>1. cmd[p] \in CommandSet /\ Len(log) + 1 \in Nat
    BY LedgerFits DEF TypeOK
  <2> QED BY <2>1, NumberUpdated
<1> QED BY <1>1, <1>2, <1>3, NewCommandMoves

LEMMA ReplayMoves ==
  ASSUME TypeOK, NEW p \in Procs, Replay(p)
  PROVE  /\ Moves(p) /\ cmd'[p] = [cmd[p] EXCEPT !.sees = size] /\ cmd'[p].sees = size
         /\ \/ pc[p] = "replay" /\ pc'[p] = "save"
            \/ pc[p] = "idle" /\ pc'[p] = "rebuild"
<1>1. {"save", "rebuild"} \subseteq Phases
  BY DEF Phases, Critical
<1>2. cmd' = [cmd EXCEPT ![p] = [cmd[p] EXCEPT !.sees = size]]
  BY DEF Replay
<1>3. [cmd[p] EXCEPT !.sees = size] \in CommandSet /\ cmd[p] \in CommandSet
  <2>1. cmd[p] \in CommandSet /\ size \in Nat
    BY DEF TypeOK
  <2> QED BY <2>1, NumberUpdated
<1>4. [cmd[p] EXCEPT !.sees = size].sees = size
  BY <1>3 DEF CommandSet
<1>5. CASE pc[p] = "replay" /\ Goto(p, "save")
  BY <1>1, <1>2, <1>3, <1>4, <1>5, NewCommandMoves
<1>6. CASE pc[p] = "idle" /\ Goto(p, "rebuild")
  BY <1>1, <1>2, <1>3, <1>4, <1>6, NewCommandMoves
<1> QED BY <1>5, <1>6 DEF Replay

LEMMA SaveMoves ==
  ASSUME TypeOK, NEW p \in Procs, RebuildSnapshot(p)
  PROVE  /\ Moves(p)
         /\ \/ pc[p] = "save" /\ pc'[p] = "postcheck" /\ cmd'[p] = cmd[p]
            \/ pc[p] = "rebuild" /\ pc'[p] = "idle" /\ cmd'[p] = NoCommand
<1>1. {"postcheck", "idle"} \subseteq Phases
  BY DEF Phases, Critical
<1>2. CASE pc[p] = "save"
  BY <1>1, <1>2, GotoMoves DEF RebuildSnapshot
<1>3. CASE pc[p] = "rebuild"
  BY <1>1, <1>3, ExitMoves DEF RebuildSnapshot
<1> QED BY <1>2, <1>3 DEF RebuildSnapshot

LEMMA WriteMoves ==
  ASSUME TypeOK, NEW p \in Procs, Write(p)
  PROVE  Moves(p) /\ pc'[p] = "replay" /\ cmd'[p] = cmd[p]
<1>1. "replay" \in Phases
  BY DEF Phases, Critical
<1> QED BY <1>1, GotoMoves DEF Write

\* The steps that end a command.
Leaves(p) ==
  NotAcquired(p) \/ Postcheck(p) \/ Release(p) \/ Fail(p) \/ Crash(p)

LEMMA LeavesMoves ==
  ASSUME TypeOK, NEW p \in Procs, Leaves(p)
  PROVE  /\ Moves(p) /\ cmd'[p] = NoCommand
         /\ pc'[p] = "idle" \/ (pc'[p] = "release" /\ pc[p] \in Engine)
<1>1. {"release", "idle"} \subseteq Phases
  BY DEF Phases, Critical
<1>2. \/ Exit(p, "idle")
      \/ Exit(p, "release") /\ pc[p] \in Engine
  BY DEF Leaves, NotAcquired, Postcheck, Release, Fail, Crash, Engine
<1> QED BY <1>1, <1>2, ExitMoves

LEMMA InterruptedFits ==
  ASSUME TypeOK, NEW p \in Procs, Interrupted(p)
  PROVE  /\ log' = log /\ readable' \in BOOLEAN
         /\ size' \in Nat /\ size <= size' /\ snapshot' \in Nat
         /\ UNCHANGED ledger \/ (pc[p] = "write" /\ readable' = FALSE
                                   /\ view' = ReplayObjective(log, FALSE))
<1>1. size \in Nat /\ snapshot \in Nat
  BY DEF TypeOK
<1>2. readable \in BOOLEAN
  BY DEF TypeOK
<1>3. CASE UNCHANGED <<ledger, snapshot>>
  BY <1>1, <1>2, <1>3 DEF ledger
<1>4. CASE /\ pc[p] = "write" /\ readable' = FALSE
           /\ view' = ReplayObjective(log, FALSE) /\ size' = size + 1
           /\ UNCHANGED <<log, snapshot>>
  <2>1. size' \in Nat /\ size <= size'
    BY <1>1, <1>4
  <2> QED BY <1>1, <1>4, <2>1
<1>5. CASE pc[p] \in {"save", "rebuild"} /\ snapshot' = 0 /\ UNCHANGED ledger
  BY <1>1, <1>2, <1>5 DEF ledger
<1> QED BY <1>3, <1>4, <1>5 DEF Interrupted

\* The steps that leave the ledger, its snapshot and the task as they are.
Quiet(p) ==
  \/ BeginAttach(p) \/ Acquire(p) \/ NotAcquired(p) \/ Precheck(p) \/ Idempotency(p)
  \/ ReadSeq(p) \/ Replay(p) \/ Postcheck(p) \/ Release(p)

LEMMA QuietMoves ==
  ASSUME TypeOK, NEW p \in Procs, Quiet(p)
  PROVE  /\ UNCHANGED <<ledger, snapshot, task, history>> /\ Moves(p)
         /\ lock' \in Procs \cup {None}
<1>1. UNCHANGED <<ledger, snapshot, task, history>>
  BY DEF Quiet, BeginAttach, Acquire, NotAcquired, Precheck, Idempotency, ReadSeq, Replay,
         Postcheck, Release
<1>2. Moves(p)
  BY AttachBegins, AcquireMoves, ChecksMove, SeqMoves, ReplayMoves, LeavesMoves DEF Quiet, Leaves
<1>3. lock' \in Procs \cup {None}
  BY DEF Quiet, BeginAttach, Acquire, NotAcquired, Precheck, Idempotency, ReadSeq, Replay,
         Postcheck, Release, TypeOK
<1> QED BY <1>1, <1>2, <1>3

LEMMA TypeInit == Init => TypeOK
<1> SUFFICES ASSUME Init PROVE TypeOK
  OBVIOUS
<1>1. log \in Seq(EventSet)
  BY DEF Init
<1>2. known \in Revs /\ links \subseteq 1..(known - 1)
  BY ObjectiveAssumption DEF Init, Revs
<1>3. pc \in [Procs -> Phases] /\ cmd \in [Procs -> CommandSet]
  BY BlankFits DEF Init, Phases
<1> QED BY <1>1, <1>2, <1>3 DEF Init, TypeOK

LEMMA TypeStep ==
  ASSUME TypeOK, CommandInv, LedgerInv, [Next]_vars
  PROVE  TypeOK'
<1>0. /\ log \in Seq(EventSet) /\ readable \in BOOLEAN
      /\ known \in Revs /\ links \subseteq 1..(known - 1)
      /\ lock \in Procs \cup {None}
      /\ pc \in [Procs -> Phases] /\ cmd \in [Procs -> CommandSet]
      /\ overlap \in BOOLEAN /\ raced \in BOOLEAN
  BY DEF TypeOK
<1>n. size \in Nat /\ snapshot \in Nat /\ faults \in Nat
  BY DEF TypeOK
<1>1. CASE UNCHANGED vars
  BY <1>0, <1>n, <1>1 DEF vars, ledger, task, local, history, TypeOK
<1>2. CASE NewRevision
  <2>1. known' \in Revs /\ links' \subseteq 1..(known' - 1)
    <3>1. known \in Nat /\ known \in 1..MaxRev /\ MaxRev \in Nat /\ known < MaxRev
          /\ known' = known + 1
      BY <1>0, <1>2, ObjectiveAssumption DEF Revs, NewRevision
    <3>2. known' - 1 = known /\ known' \in 1..MaxRev /\ 1..(known - 1) \subseteq 1..known
          /\ known \in 1..known
      BY <3>1
    <3>3. links' \subseteq links \cup {known}
      BY <1>2 DEF NewRevision
    <3> QED BY <1>0, <3>2, <3>3 DEF Revs
  <2> QED BY <1>0, <1>n, <1>2, <2>1 DEF NewRevision, ledger, local, history, TypeOK
<1>3. CASE BreakLock
  <2>1. faults' \in Nat
    BY <1>n, <1>3 DEF BreakLock
  <2>2. overlap' \in BOOLEAN
    BY <1>3 DEF BreakLock, Live
  <2> QED BY <1>0, <1>n, <1>3, <2>1, <2>2 DEF BreakLock, ledger, task, local, TypeOK
<1>4. ASSUME NEW p \in Procs, Quiet(p)
      PROVE  TypeOK'
  BY <1>0, <1>n, <1>4, QuietMoves DEF ledger, task, history, Moves, TypeOK
<1>5. ASSUME NEW p \in Procs, Write(p)
      PROVE  TypeOK'
  <2>1. log' \in Seq(EventSet)
    <3>1. Entry(p) \in EventSet
      BY <1>5, EntryTyped DEF CommandInv, Write
    <3> QED BY <1>0, <1>5, <3>1 DEF Write
  <2>2. size' \in Nat
    BY <1>n, <1>5 DEF Write
  <2>3. Moves(p)
    BY <1>5, WriteMoves
  <2>4. UNCHANGED <<readable, snapshot, known, links, lock, overlap, raced, faults>>
    BY <1>5 DEF Write, task, history
  <2> QED BY <1>0, <1>n, <2>1, <2>2, <2>3, <2>4 DEF Moves, TypeOK
<1>6. ASSUME NEW p \in Procs, RebuildSnapshot(p)
      PROVE  TypeOK'
  <2>1. snapshot' \in Nat
    BY <1>0, <1>6 DEF RebuildSnapshot, Derived, CommandSet
  <2>2. raced' \in BOOLEAN
    BY <1>6 DEF RebuildSnapshot
  <2>3. Moves(p)
    BY <1>6, SaveMoves
  <2>4. UNCHANGED <<log, readable, size, known, links, lock, overlap, faults>>
    BY <1>6 DEF RebuildSnapshot, ledger, task
  <2> QED BY <1>0, <1>n, <2>1, <2>2, <2>3, <2>4 DEF Moves, TypeOK
<1>7. ASSUME NEW p \in Procs, Fail(p) \/ Crash(p)
      PROVE  TypeOK'
  <2>1. log' = log /\ readable' \in BOOLEAN /\ size' \in Nat /\ snapshot' \in Nat
    BY <1>7, InterruptedFits DEF Fail, Crash
  <2>2. faults' \in Nat
    BY <1>n, <1>7 DEF Fail, Crash
  <2>3. Moves(p)
    BY <1>7, LeavesMoves DEF Leaves
  <2>4. UNCHANGED <<known, links, lock, overlap, raced>>
    BY <1>7 DEF Fail, Crash, task
  <2> QED BY <1>0, <2>1, <2>2, <2>3, <2>4 DEF Moves, TypeOK
<1> QED BY <1>1, <1>2, <1>3, <1>4, <1>5, <1>6, <1>7 DEF Next, Quiet

-----------------------------------------------------------------------------
(* The lock.                                                               *)

LEMMA LockStep ==
  ASSUME TypeOK, LockInv, [Next]_vars
  PROVE  LockInv'
<1>1. CASE UNCHANGED vars
  BY <1>1 DEF vars, local, history, LockInv, Live
<1>2. CASE NewRevision
  BY <1>2 DEF NewRevision, local, history, LockInv, Live
<1>3. CASE BreakLock
  <2> SUFFICES ASSUME ~overlap', NEW q \in Procs, Live(q)'
               PROVE  FALSE
    BY DEF LockInv
  <2>1. ~overlap /\ ~Live(lock) /\ pc' = pc
    BY <1>3 DEF BreakLock, local
  <2> QED BY <2>1 DEF LockInv, Live
<1>4. ASSUME NEW p \in Procs, Moves(p), overlap' = overlap,
             Live(p)' => lock' = p,
             lock' = lock \/ (lock = None /\ lock' = p) \/ (Live(p) /\ lock' = None)
      PROVE  LockInv'
  <2> SUFFICES ASSUME ~overlap', NEW q \in Procs, Live(q)'
               PROVE  lock' = q
    BY DEF LockInv
  <2>1. CASE q = p
    BY <1>4, <2>1
  <2>2. CASE q # p
    <3>1. Live(q)
      BY <1>4, <2>2 DEF Moves, Live
    <3>2. lock = q /\ (Live(p) => lock = p)
      BY <1>4, <3>1 DEF LockInv
    <3>3. q # None
      BY ObjectiveAssumption
    <3> QED BY <1>4, <2>2, <3>2, <3>3
  <2> QED BY <2>1, <2>2
<1>5. ASSUME NEW p \in Procs, Moves(p), overlap' = overlap, lock' = lock,
             pc'[p] \in Critical => Live(p)
      PROVE  LockInv'
  <2> SUFFICES ASSUME ~overlap', NEW q \in Procs, Live(q)'
               PROVE  lock' = q
    BY DEF LockInv
  <2>1. Live(q)
    BY <1>5 DEF Moves, Live
  <2> QED BY <1>5, <2>1 DEF LockInv
<1>6. ASSUME NEW p \in Procs, BeginAttach(p) \/ NotAcquired(p)
      PROVE  LockInv'
  <2>1. Moves(p) /\ pc'[p] \in {"lock", "idle"} \cup Phases
    BY <1>6, AttachBegins, LeavesMoves DEF Leaves, Moves
  <2>2. pc'[p] \notin Critical
    <3>1. CASE BeginAttach(p)
      BY <3>1, AttachBegins DEF Critical
    <3>2. CASE NotAcquired(p)
      BY <3>2, LeavesMoves DEF Leaves, Critical, Engine, NotAcquired
    <3> QED BY <1>6, <3>1, <3>2
  <2>3. overlap' = overlap /\ lock' = lock
    BY <1>6 DEF BeginAttach, NotAcquired, history
  <2> QED BY <1>5, <2>1, <2>2, <2>3
<1>7. ASSUME NEW p \in Procs, Acquire(p)
      PROVE  LockInv'
  <2>1. Moves(p) /\ overlap' = overlap /\ lock = None /\ lock' = p
    BY <1>7, AcquireMoves DEF Acquire, history
  <2> QED BY <1>4, <2>1
<1>8. ASSUME NEW p \in Procs,
             Precheck(p) \/ Idempotency(p) \/ ReadSeq(p) \/ Write(p) \/ Postcheck(p)
      PROVE  LockInv'
  <2>1. Live(p)
    BY <1>8 DEF Precheck, Idempotency, ReadSeq, Write, Postcheck, Live, Critical
  <2>2. Moves(p)
    BY <1>8, ChecksMove, SeqMoves, WriteMoves, LeavesMoves DEF Leaves
  <2>3. overlap' = overlap /\ lock' = lock
    BY <1>8 DEF Precheck, Idempotency, ReadSeq, Write, Postcheck, history
  <2> QED BY <1>5, <2>1, <2>2, <2>3
<1>9. ASSUME NEW p \in Procs, Replay(p) \/ RebuildSnapshot(p)
      PROVE  LockInv'
  <2>1. Moves(p) /\ (pc'[p] \in Critical => Live(p))
    BY <1>9, ReplayMoves, SaveMoves DEF Critical, Live
  <2>2. overlap' = overlap /\ lock' = lock
    BY <1>9 DEF Replay, RebuildSnapshot, history
  <2> QED BY <1>5, <2>1, <2>2
<1>10. ASSUME NEW p \in Procs, Release(p)
       PROVE  LockInv'
  <2>1. Moves(p) /\ pc'[p] = "idle" /\ Live(p)
    BY <1>10, LeavesMoves DEF Leaves, Release, Live, Critical, Engine
  <2>2. overlap' = overlap /\ lock' = None
    BY <1>10 DEF Release, history
  <2>3. ~Live(p)'
    BY <2>1 DEF Live, Critical
  <2> QED BY <1>4, <2>1, <2>2, <2>3
<1>11. ASSUME NEW p \in Procs, Fail(p) \/ Crash(p)
       PROVE  LockInv'
  <2>1. Moves(p) /\ (pc'[p] = "idle" \/ (pc'[p] = "release" /\ pc[p] \in Engine))
    BY <1>11, LeavesMoves DEF Leaves
  <2>2. overlap' = overlap /\ lock' = lock
    BY <1>11 DEF Fail, Crash
  <2>3. pc'[p] \in Critical => Live(p)
    BY <2>1 DEF Live, Critical, Engine
  <2> QED BY <1>5, <2>1, <2>2, <2>3
<1> QED BY <1>1, <1>2, <1>3, <1>6, <1>7, <1>8, <1>9, <1>10, <1>11 DEF Next

-----------------------------------------------------------------------------
(* The ledger.                                                             *)

LEMMA EventsAre ==
  /\ Events("ATTACHED") = AttachedIn(log)
  /\ Events("REVIEWED") = Reviews(log)
BY DEF Events, AttachedIn, Reviews

\* What the checks of a command read is what replay derives from the ledger.
LEMMA ReadsTheLedger ==
  ASSUME TypeOK, LedgerInv, ~overlap, readable, log # <<>>
  PROVE  /\ IsComplete = TRUE /\ Replayed = Queue(log) /\ Ordered(log) = log
         /\ view.findings = FALSE
<1>1. IsLedger(log) /\ Orderly(log)
  BY LedgerFits DEF LedgerInv
<1>2. view = ReplayObjective(log, TRUE)
  BY DEF LedgerInv, TypeOK
<1>3. Ordered(log) = log
  BY <1>1, OrderedIsTheLedger DEF Orderly
<1> QED BY <1>1, <1>2, <1>3, OrderlyReplays DEF IsComplete, Replayed

\* An event is one the ledger welcomes, unless the lock was taken from its command.
LEMMA WriteIsWelcome ==
  ASSUME TypeOK, CommandInv, LedgerInv, ~overlap, NEW p \in Procs, pc[p] = "write"
  PROVE  Welcome(log, Entry(p))
<1>1. CommandFits(p) /\ Permitted(p) /\ StillToDo(p) /\ cmd[p].seq = Len(log) + 1
  BY DEF CommandInv, Checked
<1>2. cmd[p] \in CommandSet /\ cmd[p].op # "REBUILD"
  BY <1>1 DEF TypeOK, CommandFits, Engine
<1>3. IsLedger(log) /\ Orderly(log)
  BY LedgerFits DEF LedgerInv
<1> DEFINE e == Entry(p)
           c == cmd[p]
<1>4. /\ e.seq = c.seq
      /\ c.op # "CORRECT" =>
           /\ e.type = c.op /\ e.item = c.item /\ e.order = c.order /\ e.decision = c.decision
      /\ c.op = "CORRECT" =>
           /\ e.type = "REVIEWED"
           /\ e.item = log[CHOOSE i \in Imported(c.decision.id) : TRUE].item
           /\ e.decision = Correction(c.decision)
  BY <1>1, EntryTyped
<1> HIDE DEF e
<1>5. e.seq = Len(log) + 1
  BY <1>1, <1>4
<1>6. CASE c.op = "CREATED"
  <2>1. e.type = "CREATED"
    BY <1>4, <1>6
  <2> QED BY <1>5, <2>1 DEF Welcome, Target, e
<1>7. ASSUME c.op # "CREATED"
      PROVE  /\ log # <<>> /\ IsComplete /\ Replayed = Queue(log) /\ Ordered(log) = log
  <2>1. readable /\ Events("CREATED") # {}
    BY <1>1, <1>7 DEF Permitted
  <2>2. log # <<>>
    BY <2>1 DEF Events
  <2> QED BY <2>1, <2>2, ReadsTheLedger
<1>8. CASE c.op = "ATTACHED"
  <2>1. e.type = "ATTACHED" /\ e.item = c.item /\ c.item \in Revs
    BY <1>1, <1>4, <1>8 DEF CommandFits
  <2>2. StillToAttach(p)
    BY <1>1, <1>8 DEF StillToDo
  <2>3. \A i \in AttachedIn(log) : log[i].item # e.item
    BY <2>1, <2>2, EventsAre DEF StillToAttach, Attached
  <2> QED BY <1>5, <1>7, <1>8, <2>1, <2>3 DEF Welcome, Target, e
<1>9. CASE c.op \in DOMAIN Target
  <2>1. e.type = c.op /\ e.item = c.item
    BY <1>4, <1>9 DEF Target
  <2>2. StillToTransition(p)
    BY <1>1, <1>9 DEF StillToDo, Target
  <2>3. c.op # "CREATED"
    BY <1>9 DEF Target
  <2>4. LET x == EntryOf(log, Queue(log), e.item) IN
        x # 0 /\ Target[e.type] \in QueueTransitions[Queue(log).stored[x]]
    BY <1>7, <2>1, <2>2, <2>3 DEF StillToTransition
  <2> QED BY <1>5, <1>7, <1>9, <2>1, <2>3, <2>4 DEF Welcome, Target, e
<1>10. CASE c.op = "REORDERED"
  <2>1. e.type = "REORDERED" /\ e.order = c.order
    BY <1>4, <1>10
  <2>2. StillToReorder(p)
    BY <1>1, <1>10 DEF StillToDo
  <2>3. \A i \in DOMAIN c.order : \E j \in DOMAIN ItemsOf(log, Future(log, Queue(log))) :
          ItemsOf(log, Future(log, Queue(log)))[j] = c.order[i]
    BY <1>7, <1>10, <2>2 DEF StillToReorder
  <2>4. ToSet(e.order) \subseteq ToSet(ItemsOf(log, Future(log, Queue(log))))
    BY <2>1, <2>3 DEF ToSet
  <2> QED BY <1>5, <1>7, <1>10, <2>1, <2>4 DEF Welcome, Target, e
<1>11. CASE c.op = "REVIEWED"
  <2>1. e.type = "REVIEWED" /\ e.item = c.item /\ e.decision = c.decision
    BY <1>4, <1>11
  <2>2. MayImport(p)
    BY <1>1, <1>11 DEF Permitted
  <2>3. PICK l \in Locals : l.item = c.item /\ l.decision = c.decision /\ l.ready
    BY <2>2 DEF MayImport
  <2>4. e.decision.id \in Ids /\ Effective(e.decision) /\ e.decision.bundle # None
    BY <2>1, <2>2, <2>3, LocalFits DEF MayImport
  <2>5. \E i \in AttachedIn(log) : log[i].item = e.item
    BY <2>1, <2>2, EventsAre DEF MayImport, Attached
  <2> QED BY <1>5, <1>7, <1>11, <2>1, <2>4, <2>5 DEF Welcome, Target, e
<1>12. CASE c.op = "CORRECT"
  <2> DEFINE i == CHOOSE i \in Imported(c.decision.id) : TRUE
  <2>1. /\ e.type = "REVIEWED" /\ e.item = log[i].item
        /\ e.decision = Correction(c.decision)
    BY <1>4, <1>12
  <2>2. /\ c.decision.id \in Ids /\ i \in Reviews(log)
        /\ \E k \in Reviews(log) : log[k].decision = c.decision
    BY <1>1, <1>12, CorrectedFits, EventsAre
  <2> HIDE DEF i
  <2>3. \E j \in AttachedIn(log) : log[j].item = e.item
    BY <1>3, <2>1, <2>2 DEF Orderly
  <2>4. c.decision.bundle # None /\ Effective(c.decision)
    BY <1>3, <2>2 DEF Orderly
  <2>5. c.decision \in Decisions
    BY <1>2 DEF CommandSet
  <2>6. /\ e.decision.id \in Ids /\ e.decision.bundle = c.decision.bundle
        /\ e.decision.actor = c.decision.actor /\ e.decision.allowed = c.decision.allowed
    BY <2>1, <2>2, <2>5, CorrectionFits
  <2>7. Effective(e.decision)
    BY <2>4, <2>6 DEF Effective
  <2> QED BY <1>5, <1>7, <1>12, <2>1, <2>3, <2>4, <2>6, <2>7 DEF Welcome, Target, e
<1> QED BY <1>2, <1>6, <1>8, <1>9, <1>10, <1>11, <1>12 DEF CommandSet

LEMMA LedgerStays ==
  ASSUME LedgerInv, UNCHANGED ledger, overlap => overlap'
  PROVE  LedgerInv'
BY DEF LedgerInv, Events, ledger

LEMMA LedgerStep ==
  ASSUME TypeOK, CommandInv, LedgerInv, [Next]_vars
  PROVE  LedgerInv'
<1>1. CASE UNCHANGED vars
  BY <1>1, LedgerStays DEF vars, history
<1>2. CASE NewRevision \/ BreakLock
  <2>1. UNCHANGED ledger
    BY <1>2 DEF NewRevision, BreakLock
  <2>2. overlap => overlap'
    BY <1>2 DEF NewRevision, BreakLock, history
  <2> QED BY <2>1, <2>2, LedgerStays
<1>3. ASSUME NEW p \in Procs, Quiet(p) \/ RebuildSnapshot(p)
      PROVE  LedgerInv'
  BY <1>3, QuietMoves, LedgerStays DEF RebuildSnapshot, history
<1>4. ASSUME NEW p \in Procs, Fail(p) \/ Crash(p)
      PROVE  LedgerInv'
  <2>1. /\ log' = log /\ readable' \in BOOLEAN
        /\ UNCHANGED ledger \/ (readable' = FALSE /\ view' = ReplayObjective(log, FALSE))
    BY <1>4, InterruptedFits DEF Fail, Crash
  <2>2. overlap' = overlap
    BY <1>4 DEF Fail, Crash
  <2> QED BY <2>1, <2>2, LedgerStays DEF LedgerInv, Events
<1>5. ASSUME NEW p \in Procs, Write(p)
      PROVE  LedgerInv'
  <2>1. /\ pc[p] = "write" /\ CommandFits(p) /\ IsLedger(log)
        /\ view' = ReplayObjective(log', readable) /\ readable' = readable
        /\ overlap' = overlap
    BY <1>5, LedgerFits DEF Write, CommandInv, history
  <2>2. CASE ~readable
    <3>1. log' = log
      BY <1>5, <2>2 DEF Write
    <3> QED BY <2>1, <3>1 DEF LedgerInv, Events
  <2>3. CASE readable
    <3> DEFINE e == Entry(p)
               k == Len(log) + 1
    <3>1. log' = Append(log, e) /\ e \in EventSet
      BY <1>5, <2>1, <2>3, EntryTyped DEF Write
    <3>2. ~overlap => Orderly(log')
      <4> SUFFICES ASSUME ~overlap PROVE Orderly(Append(log, e))
        BY <3>1
      <4>1. Welcome(log, e) /\ Orderly(log)
        BY <2>1, WriteIsWelcome DEF LedgerInv
      <4> QED BY <2>1, <3>1, <4>1, OrderlyGrows
    <3>3. /\ DOMAIN log' = DOMAIN log \cup {k} /\ log'[k] = e
          /\ \A i \in DOMAIN log : log'[i] = log[i]
      BY <2>1, <3>1, QueueGrows
    <3>4. e.type = "ATTACHED" => e.item \in Revs
      BY <2>1, EntryTyped DEF CommandFits
    <3>5. e.type = "REVIEWED" => e.decision.id \in Ids
      <4>1. CASE cmd[p].op = "CORRECT"
        <5>1. cmd[p].decision \in Decisions /\ cmd[p].decision.id \in Ids
          BY <2>1, <4>1, CorrectedFits DEF TypeOK, CommandSet
        <5>2. e.decision = Correction(cmd[p].decision)
          BY <2>1, <4>1, EntryTyped
        <5> QED BY <5>1, <5>2, CorrectionFits
      <4>2. CASE cmd[p].op # "CORRECT"
        BY <2>1, <4>2, EntryTyped DEF CommandFits
      <4> QED BY <4>1, <4>2
    <3> HIDE DEF e, k
    <3>6. \A i \in Events("ATTACHED")' : log'[i].item \in Revs
      BY <3>3, <3>4 DEF LedgerInv, Events
    <3>7. \A i \in Events("REVIEWED")' : log'[i].decision.id \in Ids
      BY <3>3, <3>5 DEF LedgerInv, Events
    <3>8. view' = ReplayObjective(log', readable')
      BY <2>1
    <3>9. ~overlap' => Orderly(log')
      BY <2>1, <3>2
    <3> QED BY <3>6, <3>7, <3>8, <3>9 DEF LedgerInv
  <2> QED BY <2>2, <2>3
<1> QED BY <1>1, <1>2, <1>3, <1>4, <1>5 DEF Next, Quiet

-----------------------------------------------------------------------------
(* Commands.                                                               *)

\* The ledger and the links of the task only grow.
Grows ==
  /\ \A i \in DOMAIN log : i \in DOMAIN log' /\ log'[i] = log[i]
  /\ links \subseteq links'

LEMMA LedgerGrows ==
  ASSUME TypeOK, CommandInv, LedgerInv, [Next]_vars
  PROVE  Grows /\ (overlap => overlap')
<1>1. CASE UNCHANGED vars
  BY <1>1 DEF vars, ledger, task, history, Grows
<1>2. CASE NewRevision
  BY <1>2 DEF NewRevision, ledger, history, Grows
<1>3. CASE BreakLock
  <2>1. overlap => overlap'
    BY <1>3 DEF BreakLock
  <2> QED BY <1>3, <2>1 DEF BreakLock, ledger, task, Grows
<1>4. ASSUME NEW p \in Procs, Quiet(p) \/ RebuildSnapshot(p)
      PROVE  Grows /\ (overlap => overlap')
  BY <1>4, QuietMoves DEF RebuildSnapshot, ledger, task, history, Grows
<1>5. ASSUME NEW p \in Procs, Fail(p) \/ Crash(p)
      PROVE  Grows /\ (overlap => overlap')
  <2>1. log' = log
    BY <1>5, InterruptedFits DEF Fail, Crash
  <2>2. links' = links /\ overlap' = overlap
    BY <1>5 DEF Fail, Crash, task
  <2> QED BY <2>1, <2>2 DEF Grows
<1>6. ASSUME NEW p \in Procs, Write(p)
      PROVE  Grows /\ (overlap => overlap')
  <2>1. links' = links /\ overlap' = overlap
    BY <1>6 DEF Write, task, history
  <2>2. CASE ~readable
    BY <1>6, <2>1, <2>2 DEF Write, Grows
  <2>3. CASE readable
    <3>1. Entry(p) \in EventSet /\ log' = Append(log, Entry(p))
      BY <1>6, <2>3, EntryTyped DEF CommandInv, Write
    <3>2. \A i \in DOMAIN log : i \in DOMAIN log' /\ log'[i] = log[i]
      BY <3>1, LedgerFits, QueueGrows
    <3> QED BY <2>1, <3>2 DEF Grows
  <2> QED BY <2>2, <2>3
<1> QED BY <1>1, <1>2, <1>3, <1>4, <1>5, <1>6 DEF Next, Quiet

LEMMA SucceedsGrows ==
  ASSUME links \subseteq links'
  PROVE  \A r : Succeeds(r) \subseteq Succeeds(r)'
BY DEF Succeeds

\* What holds of a command holds of the same command further on.
LEMMA FitsStill ==
  ASSUME NEW p \in Procs, CommandFits(p), Grows,
         cmd'[p].op = cmd[p].op, cmd'[p].item = cmd[p].item,
         cmd'[p].succeeds = cmd[p].succeeds, cmd'[p].decision = cmd[p].decision,
         pc'[p] \in Engine => pc[p] \in Engine \cup {"lock"},
         pc'[p] = "lock" => pc[p] = "lock"
  PROVE  CommandFits(p)'
<1>1. /\ pc'[p] \in Engine => cmd'[p].op # "REBUILD"
      /\ pc'[p] = "lock" => cmd'[p].op = "ATTACHED"
  BY DEF CommandFits
<1>2. /\ cmd'[p].op \in {"ATTACHED"} \cup DOMAIN Target => cmd'[p].item \in Revs
      /\ cmd'[p].op = "REVIEWED" => cmd'[p].decision.id \in Ids
  BY DEF CommandFits
<1>3. cmd'[p].op = "ATTACHED" =>
        cmd'[p].succeeds \subseteq {r \in Revs : r < cmd'[p].item /\ r..(cmd'[p].item - 1) \subseteq links'}
  <2>1. cmd[p].op = "ATTACHED" => cmd[p].succeeds \subseteq Succeeds(cmd[p].item)
    BY DEF CommandFits
  <2> QED BY <2>1 DEF Succeeds, Grows
<1>4. cmd'[p].op = "CORRECT" => \E i \in Events("REVIEWED")' : log'[i].decision = cmd'[p].decision
  BY DEF CommandFits, Grows, Events
<1> QED BY <1>1, <1>2, <1>3, <1>4 DEF CommandFits, Succeeds

LEMMA NothingFits ==
  ASSUME NEW p \in Procs, cmd'[p] = NoCommand, pc'[p] \notin Engine \cup {"lock"}
  PROVE  CommandFits(p)' /\ Checked(p)'
<1>1. NoCommand.op = "REBUILD"
  BY DEF NoCommand
<1>2. CommandFits(p)'
  BY <1>1 DEF CommandFits, Target
<1>3. Checked(p)'
  BY DEF Checked, Engine
<1> QED BY <1>2, <1>3

\* Nothing a command asked of the ledger changes while the ledger does not.
LEMMA AsksTheSame ==
  ASSUME NEW p \in Procs, UNCHANGED ledger,
         cmd'[p] = cmd[p] \/ (cmd[p] \in CommandSet /\ \E n : cmd'[p] = [cmd[p] EXCEPT !.seq = n])
  PROVE  /\ Permitted(p) => Permitted(p)'
         /\ StillToDo(p) => StillToDo(p)'
<1>1. /\ cmd'[p].op = cmd[p].op /\ cmd'[p].item = cmd[p].item
      /\ cmd'[p].exists = cmd[p].exists /\ cmd'[p].succeeds = cmd[p].succeeds
      /\ cmd'[p].decision = cmd[p].decision /\ cmd'[p].order = cmd[p].order
  BY DEF CommandSet
<1>2. log' = log /\ readable' = readable /\ view' = view
  BY DEF ledger
<1>3. Permitted(p) => Permitted(p)'
  <2>1. MayAttach(p) => MayAttach(p)'
    BY <1>1, <1>2 DEF MayAttach, Attached, Events
  <2>2. MayImport(p) => MayImport(p)'
    BY <1>1, <1>2 DEF MayImport, Attached, Imported, Events
  <2>3. MayCorrect(p) => MayCorrect(p)'
    BY <1>1, <1>2 DEF MayCorrect, Imported, Events
  <2> QED BY <1>1, <1>2, <2>1, <2>2, <2>3 DEF Permitted, Events
<1>4. StillToDo(p) => StillToDo(p)'
  <2>1. StillToCreate => StillToCreate'
    BY <1>2 DEF StillToCreate, Events
  <2>2. StillToAttach(p) => StillToAttach(p)'
    BY <1>1, <1>2 DEF StillToAttach, Attached, Events
  <2>3. StillToReorder(p) => StillToReorder(p)'
    BY <1>1, <1>2 DEF StillToReorder, IsComplete, Replayed
  <2>4. StillToImport(p) => StillToImport(p)'
    BY <1>1, <1>2 DEF StillToImport, Imported, Events
  <2>5. StillToCorrect(p) => StillToCorrect(p)'
    BY <1>1, <1>2 DEF StillToCorrect, Events
  <2>6. StillToTransition(p) => StillToTransition(p)'
    BY <1>1, <1>2 DEF StillToTransition, IsComplete, Replayed
  <2> QED BY <1>1, <2>1, <2>2, <2>3, <2>4, <2>5, <2>6 DEF StillToDo
<1> QED BY <1>3, <1>4

LEMMA OthersStep ==
  ASSUME CommandInv, LockInv, NEW p \in Procs, Moves(p), Grows, overlap => overlap',
         UNCHANGED ledger \/ Live(p)
  PROVE  \A q \in Procs : q # p => CommandFits(q)' /\ (~overlap' => Checked(q)')
<1> SUFFICES ASSUME NEW q \in Procs, q # p
             PROVE  CommandFits(q)' /\ (~overlap' => Checked(q)')
  OBVIOUS
<1>0. pc'[q] = pc[q] /\ cmd'[q] = cmd[q]
  BY DEF Moves
<1>1. CommandFits(q)'
  BY <1>0, FitsStill DEF CommandInv
<1>2. ASSUME ~overlap'
      PROVE  Checked(q)'
  <2>1. ~overlap /\ Checked(q)
    BY <1>2 DEF CommandInv
  <2>2. CASE UNCHANGED ledger
    <3>1. (Permitted(q) => Permitted(q)') /\ (StillToDo(q) => StillToDo(q)')
      BY <1>0, <2>2, AsksTheSame
    <3> QED BY <1>0, <2>1, <2>2, <3>1 DEF Checked, ledger
  <2>3. CASE Live(p)
    <3>1. ~Live(q)
      BY <2>1, <2>3 DEF LockInv
    <3> QED BY <1>0, <3>1 DEF Checked, Live, Critical
  <2> QED BY <2>2, <2>3
<1> QED BY <1>1, <1>2

LEMMA CommandStep ==
  ASSUME TypeOK, LockInv, CommandInv, LedgerInv, [Next]_vars
  PROVE  CommandInv'
<1>g. Grows /\ (overlap => overlap')
  BY LedgerGrows
<1>c. \A p \in Procs : CommandFits(p) /\ (~overlap => Checked(p)) /\ cmd[p] \in CommandSet
  BY DEF CommandInv, TypeOK
<1>1. ASSUME pc' = pc, cmd' = cmd, UNCHANGED ledger
      PROVE  CommandInv'
  <2> SUFFICES ASSUME NEW p \in Procs
               PROVE  CommandFits(p)' /\ (~overlap' => Checked(p)')
    BY DEF CommandInv
  <2>1. CommandFits(p)'
    BY <1>1, <1>c, <1>g, FitsStill
  <2>2. (Permitted(p) => Permitted(p)') /\ (StillToDo(p) => StillToDo(p)')
    BY <1>1, AsksTheSame
  <2>3. Checked(p) => Checked(p)'
    BY <1>1, <2>2 DEF Checked, ledger
  <2> QED BY <1>c, <1>g, <2>1, <2>3
<1>2. ASSUME NEW p \in Procs, Moves(p), UNCHANGED ledger \/ Live(p),
             CommandFits(p)' /\ (~overlap' => Checked(p)')
      PROVE  CommandInv'
  <2>1. \A q \in Procs : q # p => CommandFits(q)' /\ (~overlap' => Checked(q)')
    BY <1>2, <1>g, OthersStep
  <2> QED BY <1>2, <2>1 DEF CommandInv
<1>3. CASE UNCHANGED vars
  BY <1>1, <1>3 DEF vars, local
<1>4. CASE NewRevision \/ BreakLock
  BY <1>1, <1>4 DEF NewRevision, BreakLock, local
<1>5. ASSUME NEW p \in Procs, BeginAttach(p)
      PROVE  CommandInv'
  <2>1. /\ Moves(p) /\ pc'[p] = "lock" /\ cmd'[p].op = "ATTACHED"
        /\ cmd'[p].item \in Revs /\ cmd'[p].succeeds = Succeeds(cmd'[p].item)
    BY <1>5, AttachBegins
  <2>2. UNCHANGED ledger /\ UNCHANGED task
    BY <1>5 DEF BeginAttach
  <2>3. cmd'[p].succeeds = {r \in Revs : r < cmd'[p].item /\ r..(cmd'[p].item - 1) \subseteq links'}
    BY <2>1, <2>2 DEF Succeeds, task
  <2>4. CommandFits(p)'
    BY <2>1, <2>3 DEF CommandFits, Engine, Target, Succeeds
  <2>5. Checked(p)'
    BY <2>1 DEF Checked
  <2> QED BY <1>2, <2>1, <2>2, <2>4, <2>5
<1>6. ASSUME NEW p \in Procs, Acquire(p)
      PROVE  CommandInv'
  <2>1. /\ Moves(p) /\ pc'[p] = "precheck"
        /\ \/ pc[p] = "lock" /\ cmd'[p] = cmd[p]
           \/ pc[p] = "idle" /\ cmd'[p] \in Commands
    BY <1>6, AcquireMoves
  <2>2. UNCHANGED ledger /\ UNCHANGED task
    BY <1>6 DEF Acquire
  <2>3. Checked(p)'
    BY <2>1 DEF Checked
  <2>4. CASE pc[p] = "lock" /\ cmd'[p] = cmd[p]
    <3>1. CommandFits(p)'
      BY <1>c, <1>g, <2>1, <2>4, FitsStill DEF Engine
    <3> QED BY <1>2, <2>1, <2>2, <2>3, <3>1
  <2>5. CASE cmd'[p] \in Commands
    <3>1. /\ cmd'[p].op \notin {"REBUILD", "ATTACHED"}
          /\ cmd'[p].op \in DOMAIN Target => cmd'[p].item \in Revs
          /\ cmd'[p].op = "REVIEWED" => cmd'[p].decision.id \in Ids
          /\ cmd'[p].op = "CORRECT" => \E i \in Events("REVIEWED") : log[i].decision = cmd'[p].decision
      BY <2>5, CommandIs
    <3>2. CommandFits(p)'
      BY <2>1, <2>2, <3>1 DEF CommandFits, Events, ledger
    <3> QED BY <1>2, <2>1, <2>2, <2>3, <3>2
  <2> QED BY <2>1, <2>4, <2>5
<1>7. ASSUME NEW p \in Procs, Precheck(p) \/ Idempotency(p)
      PROVE  CommandInv'
  <2>1. /\ Moves(p)
        /\ \/ pc'[p] = "release" /\ cmd'[p] = NoCommand
           \/ /\ cmd'[p] = cmd[p]
              /\ \/ pc[p] = "precheck" /\ pc'[p] = "idempotency" /\ Permitted(p)
                 \/ pc[p] = "idempotency" /\ pc'[p] = "read" /\ StillToDo(p)
    BY <1>7, ChecksMove
  <2>2. UNCHANGED ledger
    BY <1>7 DEF Precheck, Idempotency
  <2>3. CASE pc'[p] = "release" /\ cmd'[p] = NoCommand
    <3>1. CommandFits(p)' /\ Checked(p)'
      BY <2>3, NothingFits DEF Engine
    <3> QED BY <1>2, <2>1, <2>2, <3>1
  <2>4. CASE /\ cmd'[p] = cmd[p]
             /\ \/ pc[p] = "precheck" /\ pc'[p] = "idempotency" /\ Permitted(p)
                \/ pc[p] = "idempotency" /\ pc'[p] = "read" /\ StillToDo(p)
    <3>1. CommandFits(p)'
      BY <1>c, <1>g, <2>4, FitsStill DEF Engine
    <3>2. (Permitted(p) => Permitted(p)') /\ (StillToDo(p) => StillToDo(p)')
      BY <2>2, <2>4, AsksTheSame
    <3>3. ASSUME ~overlap' PROVE Checked(p)'
      BY <1>c, <1>g, <2>4, <3>2, <3>3 DEF Checked
    <3> QED BY <1>2, <2>1, <2>2, <3>1, <3>3
  <2> QED BY <2>1, <2>3, <2>4
<1>8. ASSUME NEW p \in Procs, ReadSeq(p)
      PROVE  CommandInv'
  <2>1. /\ Moves(p) /\ pc[p] = "read" /\ pc'[p] = "write"
        /\ cmd'[p] = [cmd[p] EXCEPT !.seq = Len(log) + 1]
    BY <1>8, SeqMoves DEF ReadSeq
  <2>2. UNCHANGED ledger
    BY <1>8 DEF ReadSeq
  <2>3. /\ cmd'[p].op = cmd[p].op /\ cmd'[p].item = cmd[p].item
        /\ cmd'[p].succeeds = cmd[p].succeeds /\ cmd'[p].decision = cmd[p].decision
        /\ cmd'[p].seq = Len(log) + 1
    BY <1>c, <2>1 DEF CommandSet
  <2>4. CommandFits(p)'
    BY <1>c, <1>g, <2>1, <2>3, FitsStill DEF Engine
  <2>5. (Permitted(p) => Permitted(p)') /\ (StillToDo(p) => StillToDo(p)')
    BY <1>c, <2>1, <2>2, AsksTheSame
  <2>6. ASSUME ~overlap' PROVE Checked(p)'
    <3>1. Permitted(p) /\ StillToDo(p)
      BY <1>c, <1>g, <2>1, <2>6 DEF Checked
    <3>2. cmd'[p].seq = Len(log') + 1
      BY <2>2, <2>3 DEF ledger
    <3> QED BY <2>5, <3>1, <3>2 DEF Checked
  <2> QED BY <1>2, <2>1, <2>2, <2>4, <2>6
<1>9. ASSUME NEW p \in Procs, Write(p)
      PROVE  CommandInv'
  <2>1. Moves(p) /\ pc[p] = "write" /\ pc'[p] = "replay" /\ cmd'[p] = cmd[p]
    BY <1>9, WriteMoves DEF Write
  <2>2. CommandFits(p)'
    BY <1>c, <1>g, <2>1, FitsStill DEF Engine
  <2>3. Checked(p)'
    BY <2>1 DEF Checked
  <2>4. Live(p)
    BY <2>1 DEF Live, Critical
  <2> QED BY <1>2, <2>1, <2>2, <2>3, <2>4
<1>10. ASSUME NEW p \in Procs, Replay(p)
       PROVE  CommandInv'
  <2>1. /\ Moves(p) /\ cmd'[p] = [cmd[p] EXCEPT !.sees = size]
        /\ \/ pc[p] = "replay" /\ pc'[p] = "save"
           \/ pc[p] = "idle" /\ pc'[p] = "rebuild"
    BY <1>10, ReplayMoves
  <2>2. UNCHANGED ledger
    BY <1>10 DEF Replay
  <2>3. /\ cmd'[p].op = cmd[p].op /\ cmd'[p].item = cmd[p].item
        /\ cmd'[p].succeeds = cmd[p].succeeds /\ cmd'[p].decision = cmd[p].decision
    BY <1>c, <2>1 DEF CommandSet
  <2>4. CommandFits(p)'
    BY <1>c, <1>g, <2>1, <2>3, FitsStill DEF Engine
  <2>5. Checked(p)'
    BY <2>1 DEF Checked
  <2> QED BY <1>2, <2>1, <2>2, <2>4, <2>5
<1>11. ASSUME NEW p \in Procs, RebuildSnapshot(p)
       PROVE  CommandInv'
  <2>1. /\ Moves(p)
        /\ \/ pc[p] = "save" /\ pc'[p] = "postcheck" /\ cmd'[p] = cmd[p]
           \/ pc[p] = "rebuild" /\ pc'[p] = "idle" /\ cmd'[p] = NoCommand
    BY <1>11, SaveMoves
  <2>2. UNCHANGED ledger
    BY <1>11 DEF RebuildSnapshot
  <2>3. CommandFits(p)'
    BY <1>c, <1>g, <2>1, FitsStill, NothingFits DEF Engine
  <2>4. Checked(p)'
    BY <2>1 DEF Checked
  <2> QED BY <1>2, <2>1, <2>2, <2>3, <2>4
<1>12. ASSUME NEW p \in Procs, Leaves(p)
       PROVE  CommandInv'
  <2>1. Moves(p) /\ cmd'[p] = NoCommand /\ pc'[p] \in {"idle", "release"}
    BY <1>12, LeavesMoves
  <2>2. CommandFits(p)' /\ Checked(p)'
    BY <2>1, NothingFits DEF Engine
  <2>3. UNCHANGED ledger \/ Live(p)
    <3>1. CASE NotAcquired(p) \/ Postcheck(p) \/ Release(p)
      BY <3>1 DEF NotAcquired, Postcheck, Release
    <3>2. CASE Fail(p) \/ Crash(p)
      BY <3>2, InterruptedFits DEF Fail, Crash, Live, Critical
    <3> QED BY <1>12, <3>1, <3>2 DEF Leaves
  <2> QED BY <1>2, <2>1, <2>2, <2>3
<1> QED BY <1>3, <1>4, <1>5, <1>6, <1>7, <1>8, <1>9, <1>10, <1>11, <1>12 DEF Next, Leaves

-----------------------------------------------------------------------------
(* The order of the revisions.                                             *)

LEMMA SuccessionStep ==
  ASSUME TypeOK, CommandInv, LedgerInv, AttachedSucceedFirst, [Next]_vars
  PROVE  AttachedSucceedFirst'
<1>g. Grows /\ (overlap => overlap')
  BY LedgerGrows
<1>s. \A r : Succeeds(r) \subseteq Succeeds(r)'
  BY <1>g, SucceedsGrows DEF Grows
<1>1. ASSUME log' = log
      PROVE  AttachedSucceedFirst'
  <2> SUFFICES ASSUME ~overlap', NEW i \in Events("ATTACHED"), NEW j \in Events("ATTACHED"),
                      i < j, \A k \in Events("ATTACHED") : i <= k
               PROVE  log[i].item \in {r \in Revs : /\ r < log[j].item
                                                    /\ r..(log[j].item - 1) \subseteq links'}
    BY <1>1 DEF AttachedSucceedFirst, Events, Succeeds
  <2>1. log[i].item \in Succeeds(log[j].item)
    BY <1>g DEF AttachedSucceedFirst
  <2> QED BY <1>g, <2>1 DEF Succeeds, Grows
<1>2. ASSUME NEW p \in Procs, Write(p), readable
      PROVE  AttachedSucceedFirst'
  <2> DEFINE e == Entry(p)
             n == Len(log) + 1
  <2>1. /\ log' = Append(log, e) /\ e \in EventSet /\ links' = links
        /\ overlap' = overlap /\ pc[p] = "write"
    BY <1>2, EntryTyped DEF Write, CommandInv, task, history
  <2>2. /\ DOMAIN log' = DOMAIN log \cup {n} /\ log'[n] = e
        /\ \A i \in DOMAIN log : log'[i] = log[i] /\ i < n
    BY <2>1, LedgerFits, QueueGrows
  <2> SUFFICES ASSUME ~overlap,
                      NEW i \in DOMAIN log', NEW j \in DOMAIN log', i < j,
                      log'[i].type = "ATTACHED", log'[j].type = "ATTACHED",
                      \A k \in DOMAIN log' : log'[k].type = "ATTACHED" => i <= k
               PROVE  log'[i].item \in {r \in Revs : /\ r < log'[j].item
                                                     /\ r..(log'[j].item - 1) \subseteq links}
    BY <2>1 DEF AttachedSucceedFirst, Events, Succeeds
  <2>n. n \in Nat /\ \A k \in DOMAIN log : k \in Nat
    BY LedgerFits
  <2> HIDE DEF e, n
  <2>3. i \in Events("ATTACHED") /\ log'[i] = log[i]
    <3>1. i # n
      BY <2>2, <2>n
    <3> QED BY <2>2, <3>1 DEF Events
  <2>4. CASE j \in DOMAIN log
    <3>1. j \in Events("ATTACHED") /\ log'[j] = log[j]
      BY <2>2, <2>4 DEF Events
    <3>2. \A k \in Events("ATTACHED") : i <= k
      BY <2>2 DEF Events
    <3>3. log[i].item \in Succeeds(log[j].item)
      BY <2>3, <3>1, <3>2 DEF AttachedSucceedFirst
    <3> QED BY <2>3, <3>1, <3>3 DEF Succeeds
  <2>5. CASE j = n
    <3>1. e.type = "ATTACHED" /\ log'[j] = e
      BY <2>2, <2>5
    <3>2. CommandFits(p) /\ Permitted(p) /\ StillToDo(p)
      BY <2>1 DEF CommandInv, Checked
    <3>3. cmd[p].op = "ATTACHED" /\ e.item = cmd[p].item
      BY <2>1, <3>1, <3>2, EntryTyped DEF e
    <3>4. MayAttach(p) /\ ~Attached(cmd[p].item)
      BY <3>2, <3>3 DEF Permitted, StillToDo, StillToAttach
    <3>5. log[i].item # cmd[p].item
      BY <2>3, <3>4 DEF Attached
    <3>6. \A k \in Events("ATTACHED") : ~(k < i)
      BY <2>2, <2>3, <2>n DEF Events
    <3>7. log[i].item \in cmd[p].succeeds
      BY <2>3, <3>4, <3>5, <3>6 DEF MayAttach
    <3>8. log[i].item \in Succeeds(cmd[p].item)
      BY <3>2, <3>3, <3>7 DEF CommandFits
    <3> QED BY <2>3, <3>1, <3>3, <3>8 DEF Succeeds
  <2> QED BY <2>2, <2>4, <2>5
<1>3. CASE UNCHANGED vars
  BY <1>1, <1>3 DEF vars, ledger
<1>4. CASE NewRevision \/ BreakLock
  BY <1>1, <1>4 DEF NewRevision, BreakLock, ledger
<1>5. ASSUME NEW p \in Procs, Quiet(p) \/ RebuildSnapshot(p)
      PROVE  AttachedSucceedFirst'
  BY <1>1, <1>5, QuietMoves DEF RebuildSnapshot, ledger
<1>6. ASSUME NEW p \in Procs, Fail(p) \/ Crash(p)
      PROVE  AttachedSucceedFirst'
  BY <1>1, <1>6, InterruptedFits DEF Fail, Crash
<1>7. ASSUME NEW p \in Procs, Write(p)
      PROVE  AttachedSucceedFirst'
  BY <1>1, <1>2, <1>7 DEF Write
<1> QED BY <1>3, <1>4, <1>5, <1>6, <1>7 DEF Next, Quiet

-----------------------------------------------------------------------------
(* The snapshot.                                                           *)

LEMMA SnapshotStep ==
  ASSUME TypeOK, LockInv, SnapshotInv, [Next]_vars
  PROVE  SnapshotInv'
<1>0. /\ size \in Nat /\ snapshot \in Nat
      /\ \A q \in Procs : cmd[q].sees \in Nat /\ cmd[q].sees <= size
  BY DEF TypeOK, CommandSet, SnapshotInv
<1>b. NoCommand.sees = 0
  BY DEF NoCommand
<1>k. ASSUME faults = 0, NEW p \in Procs, Live(p), NEW q \in Procs, q # p
      PROVE  ~Live(q)
  BY <1>k DEF LockInv, SnapshotInv
\* A step that changes neither the ledger nor the snapshot, nor saves.
<1>1. ASSUME UNCHANGED <<ledger, snapshot>>, pc' = pc, cmd' = cmd, raced' = raced,
             faults' = faults, overlap' = overlap
      PROVE  SnapshotInv'
  BY <1>1 DEF SnapshotInv, ledger
<1>2. ASSUME NEW p \in Procs, Moves(p), UNCHANGED <<ledger, snapshot, history>>,
             cmd'[p].sees <= size, pc[p] \notin {"replay", "save"},
             pc'[p] \notin {"replay", "save"}
      PROVE  SnapshotInv'
  <2>1. \A q \in Procs : cmd'[q].sees <= size
    BY <1>0, <1>2 DEF Moves
  <2>2. faults' = 0 => ~overlap'
    BY <1>2 DEF SnapshotInv, history
  <2>3. ASSUME faults' = 0, ~raced'
        PROVE  /\ \A q \in Procs : pc'[q] = "save" => cmd'[q].sees = size
               /\ snapshot = size \/ \E q \in Procs : pc'[q] \in {"replay", "save"}
    BY <1>2, <2>3 DEF SnapshotInv, Moves, history
  <2> QED BY <1>2, <2>1, <2>2, <2>3 DEF SnapshotInv, ledger
<1>3. CASE UNCHANGED vars
  BY <1>1, <1>3 DEF vars, local, history
<1>4. CASE NewRevision
  BY <1>1, <1>4 DEF NewRevision, local, history
<1>5. CASE BreakLock
  <2>1. CASE Live(lock)
    <3>1. faults' # 0
      BY <1>5, <2>1 DEF BreakLock, TypeOK
    <3> QED BY <1>5, <3>1 DEF BreakLock, local, ledger, SnapshotInv
  <2>2. CASE ~Live(lock)
    <3>1. faults' = faults /\ (overlap' => overlap)
      BY <1>5, <2>2 DEF BreakLock
    <3> QED BY <1>5, <3>1 DEF BreakLock, local, ledger, SnapshotInv
  <2> QED BY <2>1, <2>2
<1>6. ASSUME NEW p \in Procs, BeginAttach(p)
      PROVE  SnapshotInv'
  <2>1. Moves(p) /\ cmd'[p].sees = 0 /\ pc'[p] = "lock"
    BY <1>6, AttachBegins
  <2>2. pc[p] = "idle" /\ UNCHANGED <<ledger, snapshot, history>>
    BY <1>6 DEF BeginAttach
  <2>3. cmd'[p].sees <= size
    BY <1>0, <2>1
  <2> QED BY <1>2, <2>1, <2>2, <2>3
<1>7. ASSUME NEW p \in Procs, Acquire(p)
      PROVE  SnapshotInv'
  <2>1. cmd'[p].sees <= size
    BY <1>0, <1>7, AcquireMoves, CommandIs
  <2> QED BY <1>2, <1>7, <2>1, AcquireMoves DEF Acquire
<1>8. ASSUME NEW p \in Procs, Precheck(p) \/ Idempotency(p)
      PROVE  SnapshotInv'
  <2>1. cmd'[p].sees <= size
    BY <1>0, <1>b, <1>8, ChecksMove
  <2> QED BY <1>2, <1>8, <2>1, ChecksMove DEF Precheck, Idempotency
<1>9. ASSUME NEW p \in Procs, ReadSeq(p)
      PROVE  SnapshotInv'
  <2>1. cmd[p] \in CommandSet /\ cmd'[p] = [cmd[p] EXCEPT !.seq = Len(log) + 1]
    BY <1>9, SeqMoves DEF TypeOK
  <2>2. cmd'[p].sees = cmd[p].sees
    BY <2>1 DEF CommandSet
  <2>3. Moves(p) /\ pc[p] = "read" /\ pc'[p] = "write"
    BY <1>9, SeqMoves DEF ReadSeq
  <2>4. UNCHANGED <<ledger, snapshot, history>>
    BY <1>9 DEF ReadSeq
  <2> QED BY <1>0, <1>2, <2>2, <2>3, <2>4
<1>10. ASSUME NEW p \in Procs, NotAcquired(p) \/ Postcheck(p) \/ Release(p)
       PROVE  SnapshotInv'
  <2>1. Moves(p) /\ cmd'[p].sees <= size /\ pc'[p] \notin {"replay", "save"}
    BY <1>0, <1>b, <1>10, LeavesMoves DEF Leaves
  <2> QED BY <1>2, <1>10, <2>1 DEF NotAcquired, Postcheck, Release
<1>11. ASSUME NEW p \in Procs, Fail(p) \/ Crash(p)
       PROVE  SnapshotInv'
  <2>1. size' \in Nat /\ size <= size'
    BY <1>11, InterruptedFits DEF Fail, Crash
  <2>2. Moves(p) /\ cmd'[p] = NoCommand
    BY <1>11, LeavesMoves DEF Leaves
  <2>3. \A q \in Procs : cmd'[q].sees <= size'
    BY <1>0, <1>b, <2>1, <2>2 DEF Moves
  <2>4. faults' # 0
    BY <1>11 DEF Fail, Crash, TypeOK
  <2> QED BY <2>3, <2>4 DEF SnapshotInv
<1>12. ASSUME NEW p \in Procs, Write(p)
       PROVE  SnapshotInv'
  <2>1. Moves(p) /\ pc[p] = "write" /\ pc'[p] = "replay" /\ cmd'[p] = cmd[p]
    BY <1>12, WriteMoves DEF Write
  <2>2. size' = size + 1 /\ snapshot' = snapshot /\ UNCHANGED history
    BY <1>12 DEF Write
  <2>3. \A q \in Procs : cmd'[q].sees <= size'
    BY <1>0, <2>1, <2>2 DEF Moves
  <2>4. ASSUME faults' = 0, NEW q \in Procs
        PROVE  pc'[q] # "save"
    <3>1. CASE q = p
      BY <2>1, <3>1
    <3>2. CASE q # p
      <4>1. ~Live(q)
        BY <1>k, <2>1, <2>2, <2>4, <3>2 DEF Live, Critical, history
      <4> QED BY <2>1, <3>2, <4>1 DEF Moves, Live, Critical
    <3> QED BY <3>1, <3>2
  <2>5. faults' = 0 => ~overlap'
    BY <2>2 DEF SnapshotInv, history
  <2> QED BY <2>1, <2>3, <2>4, <2>5 DEF SnapshotInv
<1>13. ASSUME NEW p \in Procs, Replay(p)
       PROVE  SnapshotInv'
  <2>1. /\ Moves(p) /\ cmd'[p].sees = size
        /\ \/ pc[p] = "replay" /\ pc'[p] = "save"
           \/ pc[p] = "idle" /\ pc'[p] = "rebuild"
    BY <1>13, ReplayMoves
  <2>2. UNCHANGED <<ledger, snapshot, history>>
    BY <1>13 DEF Replay
  <2>3. CASE pc[p] = "idle"
    BY <1>0, <1>2, <2>1, <2>2, <2>3
  <2>4. CASE pc[p] = "replay" /\ pc'[p] = "save"
    <3>1. \A q \in Procs : cmd'[q].sees <= size
      BY <1>0, <2>1 DEF Moves
    <3>2. faults' = 0 => ~overlap'
      BY <2>2 DEF SnapshotInv, history
    <3>3. ASSUME faults' = 0, ~raced'
          PROVE  \A q \in Procs : pc'[q] = "save" => cmd'[q].sees = size
      BY <2>1, <2>2, <3>3 DEF SnapshotInv, Moves, history
    <3> QED BY <2>2, <2>4, <3>1, <3>2, <3>3 DEF SnapshotInv, ledger
  <2> QED BY <2>1, <2>3, <2>4
<1>14. ASSUME NEW p \in Procs, RebuildSnapshot(p)
       PROVE  SnapshotInv'
  <2>1. /\ Moves(p)
        /\ \/ pc[p] = "save" /\ pc'[p] = "postcheck" /\ cmd'[p] = cmd[p]
           \/ pc[p] = "rebuild" /\ pc'[p] = "idle" /\ cmd'[p] = NoCommand
    BY <1>14, SaveMoves
  <2>2. /\ snapshot' = cmd[p].sees /\ size' = size /\ overlap' = overlap /\ faults' = faults
        /\ raced' = (raced \/ (pc[p] = "rebuild" /\ cmd[p].sees < snapshot))
    BY <1>14 DEF RebuildSnapshot, Derived, ledger
  <2>3. \A q \in Procs : cmd'[q].sees <= size'
    BY <1>0, <1>b, <2>1, <2>2 DEF Moves
  <2>4. faults' = 0 => ~overlap'
    BY <2>2 DEF SnapshotInv
  <2>5. ASSUME faults' = 0, ~raced'
        PROVE  /\ \A q \in Procs : pc'[q] = "save" => cmd'[q].sees = size'
               /\ snapshot' = size' \/ \E q \in Procs : pc'[q] \in {"replay", "save"}
    <3>1. faults = 0 /\ ~raced /\ (pc[p] = "rebuild" => ~(cmd[p].sees < snapshot))
      BY <2>2, <2>5
    <3>2. /\ \A q \in Procs : pc[q] = "save" => cmd[q].sees = size
          /\ snapshot = size \/ \E q \in Procs : pc[q] \in {"replay", "save"}
      BY <3>1 DEF SnapshotInv
    <3>3. \A q \in Procs : pc'[q] = "save" => cmd'[q].sees = size'
      BY <2>1, <2>2, <3>2 DEF Moves
    <3>4. CASE pc[p] = "save"
      BY <2>2, <3>2, <3>3, <3>4
    <3>5. CASE pc[p] = "rebuild"
      <4>1. CASE snapshot = size
        <5>1. cmd[p].sees = size
          BY <1>0, <3>1, <3>5, <4>1
        <5> QED BY <2>2, <3>3, <5>1
      <4>2. CASE \E q \in Procs : pc[q] \in {"replay", "save"}
        BY <2>1, <3>3, <3>5, <4>2 DEF Moves
      <4> QED BY <3>2, <4>1, <4>2
    <3> QED BY <2>1, <3>4, <3>5
  <2> QED BY <2>3, <2>4, <2>5 DEF SnapshotInv
<1> QED BY <1>3, <1>4, <1>5, <1>6, <1>7, <1>8, <1>9, <1>10, <1>11, <1>12, <1>13, <1>14 DEF Next

-----------------------------------------------------------------------------
(* The invariant.                                                          *)

LEMMA EmptyOrderly == IsLedger(<<>>) /\ Orderly(<<>>)
<1>1. IsLedger(<<>>) /\ Len(<<>>) = 0 /\ DOMAIN <<>> = {}
  BY DEF IsLedger
<1>2. Queue(<<>>) = EmptyQueue
  BY <1>1, QueueRecursion
<1>3. Queue(<<>>).findings = 0
  BY <1>2 DEF EmptyQueue
<1> QED BY <1>1, <1>3 DEF Orderly, Once, AttachedIn, Reviews

LEMMA InitInv == Init => Inv
<1> SUFFICES ASSUME Init PROVE Inv
  OBVIOUS
<1>1. TypeOK
  BY TypeInit
<1>2. LockInv /\ CommandInv
  BY DEF Init, LockInv, CommandInv, Live, CommandFits, Checked, NoCommand, Critical, Engine, Target
<1>3. log = <<>> /\ DOMAIN log = {}
  BY DEF Init
<1>4. LedgerInv
  BY <1>3, EmptyOrderly DEF Init, LedgerInv, Events
<1>5. SnapshotInv
  BY DEF Init, SnapshotInv, NoCommand
<1>6. AttachedSucceedFirst
  BY <1>3 DEF AttachedSucceedFirst, Events
<1> QED BY <1>1, <1>2, <1>4, <1>5, <1>6 DEF Inv

LEMMA StepInv == Inv /\ [Next]_vars => Inv'
BY TypeStep, LockStep, CommandStep, LedgerStep, SnapshotStep, SuccessionStep DEF Inv

LEMMA Invariance == Spec => []Inv
BY InitInv, StepInv, PTL DEF Spec

\* Every reachable state is well typed: the ledger is a sequence of events and no
\* command names a revision there is not.
THEOREM TypeCorrect == Spec => []TypeOK
<1>1. Inv => TypeOK
  BY DEF Inv
<1> QED BY <1>1, Invariance, PTL

\* While one command is in the engine at a time and no line was cut short, replay
\* derives the queue and reports nothing: what M2 and M3 let through is what the
\* replay of every later read accepts (ledger.ts, applyQueueTransition,
\* applyReorder and applyReviewDecisions).
THEOREM CleanReplay == Spec => []ReplayIsClean
<1>1. Inv => ReplayIsClean
  BY ReadsTheLedger DEF Inv, ReplayIsClean
<1> QED BY <1>1, Invariance, PTL

\* Every revision in the queue succeeds the one attached first, although the task
\* ledger was read before the lock was taken (ledger.ts, attachTask).
THEOREM RecordedSuccession == Spec => []AttachedSucceedFirst
<1>1. Inv => AttachedSucceedFirst
  BY DEF Inv
<1> QED BY <1>1, Invariance, PTL

\* Without a fault, and without a rebuild that overwrote a newer snapshot,
\* objective.json is what replay gives whenever nothing runs (ledger.ts,
\* rebuildObjectiveSnapshot and detectDrift).
THEOREM ExplainedDrift == Spec => []DriftIsExplained
<1>1. Inv => DriftIsExplained
  BY DEF Inv, SnapshotInv, DriftIsExplained, Drift
<1> QED BY <1>1, Invariance, PTL

-----------------------------------------------------------------------------
(* The queue is the one that was promised.                                 *)

\* The state of an item, of what replay derived from a ledger.
Stored(v, o, item) ==
  IF v.complete /\ \E i \in AttachedIn(o) : o[i].item = item
    THEN v.queue.stored[EntryOf(Ordered(o), v.queue, item)] ELSE "ABSENT"
States == {"ABSENT", "WAITING", "BLOCKED", "SKIPPED", "CANCELED"}

LEMMA ItemStateIs ==
  /\ [r \in Revs |-> ItemState(r)] = [r \in Revs |-> Stored(view, log, r)]
  /\ [r \in Revs |-> ItemState(r)]' = [r \in Revs |-> Stored(view', log', r)]
<1>1. \A r : ItemState(r) = Stored(view, log, r)
  BY DEF ItemState, Stored, IsComplete, Replayed, Attached, Events, AttachedIn
<1>2. \A r : ItemState(r)' = Stored(view', log', r)
  BY DEF ItemState, Stored, IsComplete, Replayed, Attached, Events, AttachedIn
<1> QED BY <1>1, <1>2

\* The numbers of a ledger without gaps are all different.
LEMMA NumbersDiffer ==
  ASSUME NEW o, IsLedger(o), Contiguous(o)
  PROVE  \A i, j \in DOMAIN o : o[i].seq = o[j].seq => i = j
<1> DEFINE f == [i \in DOMAIN o |-> o[i].seq]
<1>1. f \in Surjection(DOMAIN o, DOMAIN o)
  BY DEF Contiguous, Surjection
<1>2. IsFiniteSet(DOMAIN o)
  <2>1. DOMAIN o = 1..Len(o) /\ Len(o) \in Int /\ 1 \in Int
    BY LedgerType
  <2> QED BY <2>1, FS_Interval
<1>3. f \in Injection(DOMAIN o, DOMAIN o)
  BY <1>1, <1>2, FS_SurjSameCardinalityImpliesInj
<1> QED BY <1>3 DEF Injection, IsInjective

\* Read in the order of its numbers, it has the same events.
LEMMA OrderedFits ==
  ASSUME NEW o, IsLedger(o), Contiguous(o)
  PROVE  /\ IsLedger(Ordered(o))
         /\ \A i \in DOMAIN o : \E j \in DOMAIN Ordered(o) : Ordered(o)[j] = o[i]
<1> DEFINE At(n) == CHOOSE i \in DOMAIN o : o[i].seq = n
<1>1. \A n \in DOMAIN o : At(n) \in DOMAIN o /\ o[At(n)].seq = n
  BY DEF Contiguous
<1>2. Ordered(o) = [n \in DOMAIN o |-> o[At(n)]]
  BY DEF Ordered
<1>3. \A i \in DOMAIN o : o[i].seq \in DOMAIN o /\ At(o[i].seq) = i
  BY <1>1, NumbersDiffer DEF Contiguous
<1> HIDE DEF At
<1>4. IsLedger(Ordered(o))
  <2>1. \A n \in DOMAIN o : o[At(n)] \in EventSet
    BY <1>1, LedgerType
  <2>2. DOMAIN o = 1..Len(o) /\ Len(o) \in Nat
    BY LedgerType
  <2> QED BY <1>2, <2>1, <2>2 DEF IsLedger
<1>5. \A i \in DOMAIN o : \E j \in DOMAIN Ordered(o) : Ordered(o)[j] = o[i]
  BY <1>2, <1>3
<1> QED BY <1>4, <1>5

\* Whatever a ledger holds, the states are states.
LEMMA StoredFits ==
  ASSUME NEW o, IsLedger(o), NEW readableLog \in BOOLEAN, NEW item
  PROVE  Stored(ReplayObjective(o, readableLog), o, item) \in States
<1> DEFINE v == ReplayObjective(o, readableLog)
           s == Ordered(o)
<1>1. CASE Complete(o, readableLog) /\ \E i \in AttachedIn(o) : o[i].item = item
  <2>1. v.complete = TRUE /\ v.queue = Queue(s)
    BY <1>1 DEF ReplayObjective
  <2>2. IsLedger(s) /\ \A i \in DOMAIN o : \E j \in DOMAIN s : s[j] = o[i]
    BY <1>1, OrderedFits DEF Complete
  <2>3. PICK j \in AttachedIn(s) : s[j].item = item
    BY <1>1, <2>2 DEF AttachedIn
  <2> HIDE DEF s, v
  <2>4. Sound(s, Queue(s), Len(s)) /\ Upto(s, Len(s)) = AttachedIn(s)
    BY <2>2, QueueSound
  <2>5. EntryOf(s, Queue(s), item) \in Upto(s, Len(s))
    BY <2>2, <2>3, <2>4, EntryFound
  <2>6. Queue(s).stored[EntryOf(s, Queue(s), item)] \in QueueStates
    BY <2>4, <2>5 DEF Sound, Queues
  <2>7. Stored(v, o, item) = Queue(s).stored[EntryOf(s, Queue(s), item)]
    BY <1>1, <2>1 DEF Stored, s
  <2> QED BY <2>6, <2>7 DEF QueueStates, States, v
<1>2. CASE ~(Complete(o, readableLog) /\ \E i \in AttachedIn(o) : o[i].item = item)
  <2>1. ~(v.complete /\ \E i \in AttachedIn(o) : o[i].item = item)
    BY <1>2 DEF ReplayObjective
  <2> HIDE DEF v
  <2>2. Stored(v, o, item) = "ABSENT"
    BY <2>1 DEF Stored
  <2> QED BY <2>2 DEF States, v
<1> QED BY <1>1, <1>2

\* In an orderly ledger each item has the state of the entry it was attached as.
LEMMA OrderlyStates ==
  ASSUME NEW o, IsLedger(o), Orderly(o)
  PROVE  LET v == ReplayObjective(o, TRUE) IN
         /\ \A i \in AttachedIn(o) :
              /\ Stored(v, o, o[i].item) = Queue(o).stored[i]
              /\ EntryOf(o, Queue(o), o[i].item) = i
         /\ \A item : (\A i \in AttachedIn(o) : o[i].item # item)
                        => Stored(v, o, item) = "ABSENT" /\ EntryOf(o, Queue(o), item) = 0
<1> DEFINE v == ReplayObjective(o, TRUE)
<1>1. Sound(o, Queue(o), Len(o)) /\ Upto(o, Len(o)) = AttachedIn(o)
  BY QueueSound
<1>2. ASSUME NEW i \in AttachedIn(o)
      PROVE  /\ Stored(v, o, o[i].item) = Queue(o).stored[i]
             /\ EntryOf(o, Queue(o), o[i].item) = i
  <2>1. EntryOf(o, Queue(o), o[i].item) = i
    BY <1>1, EntryFound DEF Orderly
  <2>2. o # <<>>
    BY DEF AttachedIn
  <2>3. v.complete = TRUE /\ v.queue = Queue(o) /\ Ordered(o) = o
    BY <2>2, OrderlyReplays, OrderedIsTheLedger DEF Orderly
  <2> HIDE DEF v
  <2> QED BY <2>1, <2>3 DEF Stored
<1>3. ASSUME NEW item, \A i \in AttachedIn(o) : o[i].item # item
      PROVE  Stored(v, o, item) = "ABSENT" /\ EntryOf(o, Queue(o), item) = 0
  <2>1. EntryOf(o, Queue(o), item) = 0
    BY <1>1, <1>3, EntryMissing
  <2> QED BY <1>3, <2>1 DEF Stored
<1> QED BY <1>2, <1>3

StatesOf(o) == [r \in Revs |-> Stored(ReplayObjective(o, TRUE), o, r)]

\* One state of the table to another, an item at a time.
Along(from, to) ==
  \/ from = "ABSENT" /\ to = "WAITING"
  \/ from \in DOMAIN QueueTransitions /\ to \in QueueTransitions[from]

LEMMA EventMovesOne ==
  ASSUME NEW o, IsLedger(o), Orderly(o), NEW e \in EventSet, Welcome(o, e)
  PROVE  LET s == StatesOf(o)
             t == StatesOf(Append(o, e))
         IN  \/ t = s
             \/ \E r \in Revs : \E to \in QueueStates :
                  Along(s[r], to) /\ t = [s EXCEPT ![r] = to]
<1> DEFINE more == Append(o, e)
           n == Len(o) + 1
           q == Queue(o)
           p == Queue(more)
           s == StatesOf(o)
           t == StatesOf(more)
<1>1. /\ IsLedger(more) /\ Orderly(more) /\ Stores(o, e)
      /\ DOMAIN more = DOMAIN o \cup {n} /\ n \notin DOMAIN o /\ more[n] = e
      /\ \A i \in DOMAIN o : more[i] = o[i]
  BY OrderlyGrows, WelcomeStores, QueueGrows
<1>2. /\ DOMAIN s = Revs /\ DOMAIN t = Revs
      /\ \A i \in AttachedIn(o) : o[i].item \in Revs
      /\ \A i \in AttachedIn(o) : s[o[i].item] = q.stored[i]
      /\ \A i \in AttachedIn(more) : t[more[i].item] = p.stored[i]
      /\ \A r \in Revs : (\A i \in AttachedIn(o) : o[i].item # r) => s[r] = "ABSENT"
      /\ \A r \in Revs : (\A i \in AttachedIn(more) : more[i].item # r) => t[r] = "ABSENT"
  <2>1. \A i \in AttachedIn(o) : o[i].item \in Revs
    BY DEF Orderly
  <2>2. \A i \in AttachedIn(more) : more[i].item \in Revs
    BY <1>1 DEF Orderly
  <2>3. \A r \in Revs : /\ s[r] = Stored(ReplayObjective(o, TRUE), o, r)
                        /\ t[r] = Stored(ReplayObjective(more, TRUE), more, r)
    BY DEF StatesOf
  <2>4. DOMAIN s = Revs /\ DOMAIN t = Revs
    BY DEF StatesOf
  <2> HIDE DEF s, t, more, q, p
  <2>5. /\ \A i \in AttachedIn(o) :
             Stored(ReplayObjective(o, TRUE), o, o[i].item) = q.stored[i]
        /\ \A r : (\A i \in AttachedIn(o) : o[i].item # r)
                    => Stored(ReplayObjective(o, TRUE), o, r) = "ABSENT"
    BY OrderlyStates DEF q
  <2>6. /\ \A i \in AttachedIn(more) :
             Stored(ReplayObjective(more, TRUE), more, more[i].item) = p.stored[i]
        /\ \A r : (\A i \in AttachedIn(more) : more[i].item # r)
                    => Stored(ReplayObjective(more, TRUE), more, r) = "ABSENT"
    BY <1>1, OrderlyStates DEF p
  <2> QED BY <2>1, <2>2, <2>3, <2>4, <2>5, <2>6
<1>s. /\ s = [r \in Revs |-> s[r]]
      /\ t = [r \in Revs |-> t[r]]
  BY DEF StatesOf
<1>3. \A i : i \in AttachedIn(more) <=> i \in AttachedIn(o) \/ (i = n /\ e.type = "ATTACHED")
  BY <1>1 DEF AttachedIn
<1>4. \A i \in AttachedIn(o) : more[i] = o[i] /\ i \in AttachedIn(more) /\ i # n
  BY <1>1, <1>3 DEF AttachedIn
<1>5. q.stored \in [AttachedIn(o) -> QueueStates]
  BY QueueSound DEF Sound, Queues
<1>a. \A r \in Revs : \/ \A i \in AttachedIn(o) : o[i].item # r
                      \/ \E i \in AttachedIn(o) : o[i].item = r
  OBVIOUS
<1> HIDE DEF s, t, more, q, p, n
<1>6. CASE e.type = "ATTACHED"
  <2>1. /\ e.item \in Revs /\ \A i \in AttachedIn(o) : o[i].item # e.item
        /\ p.stored[n] = "WAITING" /\ \A i \in AttachedIn(o) : p.stored[i] = q.stored[i]
    BY <1>1, <1>6 DEF Welcome, Stores, p, q, n, more
  <2>2. n \in AttachedIn(more) /\ more[n].item = e.item
    BY <1>1, <1>3, <1>6
  <2>3. t[e.item] = "WAITING" /\ s[e.item] = "ABSENT"
    BY <1>2, <2>1, <2>2
  <2>4. ASSUME NEW r \in Revs, r # e.item
        PROVE  t[r] = s[r]
    <3>1. CASE \E i \in AttachedIn(o) : o[i].item = r
      BY <1>2, <1>4, <2>1, <3>1
    <3>2. CASE \A i \in AttachedIn(o) : o[i].item # r
      <4>1. \A i \in AttachedIn(more) : more[i].item # r
        BY <1>3, <1>4, <2>2, <2>4, <3>2
      <4> QED BY <1>2, <3>2, <4>1
    <3> QED BY <3>1, <3>2
  <2>5. t = [s EXCEPT ![e.item] = "WAITING"]
    BY <1>2, <1>s, <2>1, <2>3, <2>4
  <2>6. Along(s[e.item], "WAITING") /\ "WAITING" \in QueueStates
    BY <2>3 DEF Along, QueueStates
  <2> QED BY <2>1, <2>5, <2>6 DEF s, t, more
<1>7. CASE e.type \in DOMAIN Target
  <2> DEFINE x == EntryOf(o, q, e.item)
  <2>1. /\ x # 0 /\ Target[e.type] \in QueueTransitions[q.stored[x]]
        /\ p.stored = [q.stored EXCEPT ![x] = Target[e.type]]
    BY <1>1, <1>7 DEF Welcome, Stores, p, q, more
  <2>2. PICK i \in AttachedIn(o) : o[i].item = e.item
    <3>1. (\A i \in AttachedIn(o) : o[i].item # e.item) => EntryOf(o, Queue(o), e.item) = 0
      BY OrderlyStates
    <3>2. EntryOf(o, Queue(o), e.item) # 0
      BY <2>1 DEF q
    <3> QED BY <3>1, <3>2
  <2>3. x = i
    <3>1. EntryOf(o, Queue(o), o[i].item) = i
      BY OrderlyStates
    <3> QED BY <2>2, <3>1 DEF q
  <2> HIDE DEF x
  <2>4. e.type # "ATTACHED"
    BY <1>7 DEF Target
  <2>5. e.item \in Revs /\ s[e.item] = q.stored[i] /\ q.stored[i] \in QueueStates
    BY <1>2, <1>5, <2>2
  <2>6. p.stored[i] = Target[e.type] /\ \A j \in AttachedIn(o) : j # i => p.stored[j] = q.stored[j]
    BY <1>5, <2>1, <2>2, <2>3
  <2>7. t[e.item] = Target[e.type]
    BY <1>2, <1>4, <2>2, <2>6
  <2>8. ASSUME NEW r \in Revs, r # e.item
        PROVE  t[r] = s[r]
    <3>1. CASE \E j \in AttachedIn(o) : o[j].item = r
      BY <1>2, <1>4, <2>2, <2>6, <2>8, <3>1
    <3>2. CASE \A j \in AttachedIn(o) : o[j].item # r
      <4>1. \A j \in AttachedIn(more) : more[j].item # r
        BY <1>3, <1>4, <2>4, <3>2
      <4> QED BY <1>2, <3>2, <4>1
    <3> QED BY <3>1, <3>2
  <2>9. t = [s EXCEPT ![e.item] = Target[e.type]]
    BY <1>2, <1>s, <2>5, <2>7, <2>8
  <2>10. Along(s[e.item], Target[e.type])
    BY <2>1, <2>3, <2>5 DEF Along, QueueTransitions, QueueStates
  <2>11. Target[e.type] \in QueueStates
    BY <1>7 DEF Target, QueueStates
  <2> QED BY <2>5, <2>9, <2>10, <2>11 DEF s, t, more
<1>8. CASE e.type \notin {"ATTACHED"} \cup DOMAIN Target
  <2>1. p.stored = q.stored
    BY <1>1, <1>8 DEF Stores, p, q, more
  <2>2. ASSUME NEW r \in Revs
        PROVE  t[r] = s[r]
    <3>1. CASE \E j \in AttachedIn(o) : o[j].item = r
      BY <1>2, <1>4, <2>1, <3>1
    <3>2. CASE \A j \in AttachedIn(o) : o[j].item # r
      <4>1. \A j \in AttachedIn(more) : more[j].item # r
        BY <1>3, <1>4, <1>8, <3>2
      <4> QED BY <1>2, <3>2, <4>1
    <3> QED BY <3>1, <3>2
  <2>3. t = s
    BY <1>s, <2>2
  <2> QED BY <2>3 DEF s, t, more
<1> QED BY <1>6, <1>7, <1>8

\* Once lost the ledger stays lost, and until then it only changes by an event.
LEMMA LedgerChanges ==
  ASSUME TypeOK, CommandInv, LedgerInv, [Next]_vars
  PROVE  /\ overlap' \/ ~readable' \/ (~overlap /\ readable)
         /\ log' = log \/ \E p \in Procs : Write(p) /\ readable /\ log' = Append(log, Entry(p))
<1> DEFINE Goal == /\ overlap' \/ ~readable' \/ (~overlap /\ readable)
                   /\ \/ log' = log
                      \/ \E p \in Procs : Write(p) /\ readable /\ log' = Append(log, Entry(p))
<1>g. overlap => overlap'
  BY LedgerGrows
<1>1. ASSUME UNCHANGED ledger
      PROVE  Goal
  BY <1>g, <1>1 DEF ledger
<1>2. CASE UNCHANGED vars
  BY <1>1, <1>2 DEF vars
<1>3. CASE NewRevision \/ BreakLock
  BY <1>1, <1>3 DEF NewRevision, BreakLock
<1>4. ASSUME NEW p \in Procs, Quiet(p) \/ RebuildSnapshot(p)
      PROVE  Goal
  BY <1>1, <1>4, QuietMoves DEF RebuildSnapshot
<1>5. ASSUME NEW p \in Procs, Fail(p) \/ Crash(p)
      PROVE  Goal
  BY <1>g, <1>1, <1>5, InterruptedFits DEF Fail, Crash
<1>6. ASSUME NEW p \in Procs, Write(p)
      PROVE  Goal
  <2>1. readable' = readable /\ (log' = log \/ (readable /\ log' = Append(log, Entry(p))))
    BY <1>6 DEF Write
  <2> QED BY <1>g, <1>6, <2>1
<1> QED BY <1>2, <1>3, <1>4, <1>5, <1>6 DEF Next, Quiet

LEMMA QueueStep ==
  ASSUME Inv, Inv', [Next]_vars
  PROVE  [Promised!Next]_<<[r \in Revs |-> ItemState(r)], overlap \/ ~readable>>
<1> DEFINE s == [r \in Revs |-> ItemState(r)]
           lost == overlap \/ ~readable
<1>0. /\ TypeOK /\ CommandInv /\ LedgerInv
      /\ IsLedger(log) /\ view = ReplayObjective(log, readable) /\ readable \in BOOLEAN
  BY LedgerFits DEF Inv, LedgerInv, TypeOK
<1>1. IsLedger(log') /\ view' = ReplayObjective(log', readable') /\ readable' \in BOOLEAN
  BY DEF Inv, LedgerInv, TypeOK, IsLedger
<1>2. /\ s = [r \in Revs |-> Stored(view, log, r)]
      /\ s' = [r \in Revs |-> Stored(view', log', r)]
  BY ItemStateIs
<1>3. /\ overlap' \/ ~readable' \/ (~overlap /\ readable)
      /\ log' = log \/ \E p \in Procs : Write(p) /\ readable /\ log' = Append(log, Entry(p))
  BY <1>0, LedgerChanges
<1>4. CASE overlap' \/ ~readable'
  <2>1. s' \in [Revs -> {"ABSENT", "WAITING", "BLOCKED", "SKIPPED", "CANCELED"}]
    <3>1. \A r \in Revs : Stored(view', log', r) \in States
      BY <1>1, StoredFits
    <3> QED BY <1>2, <3>1 DEF States
  <2>2. lost' = TRUE
    BY <1>4
  <2>3. Promised!Lose
    BY <2>1, <2>2 DEF Promised!Lose
  <2> QED BY <2>3 DEF Promised!Next
<1>5. CASE ~overlap' /\ readable'
  <2>1. ~overlap /\ readable /\ readable = TRUE /\ readable' = TRUE
    BY <1>0, <1>1, <1>3, <1>5
  <2>2. lost' = lost /\ ~lost
    BY <1>5, <2>1
  <2>3. s = StatesOf(log) /\ s' = StatesOf(log')
    BY <1>0, <1>1, <1>2, <2>1 DEF StatesOf
  <2>4. CASE log' = log
    <3>1. s' = s
      BY <2>3, <2>4
    <3> QED BY <2>2, <3>1
  <2>5. ASSUME NEW p \in Procs, Write(p), log' = Append(log, Entry(p))
        PROVE  s' = s \/ \E r \in Revs : \E to \in QueueStates :
                           Along(s[r], to) /\ s' = [s EXCEPT ![r] = to]
    <3>1. Entry(p) \in EventSet /\ Welcome(log, Entry(p)) /\ Orderly(log)
      BY <1>0, <2>1, <2>5, EntryTyped, WriteIsWelcome DEF Write, CommandInv, LedgerInv
    <3> HIDE DEF s
    <3> QED BY <1>0, <2>3, <2>5, <3>1, EventMovesOne
  <2>6. ASSUME NEW r \in Revs, NEW to \in QueueStates,
               Along(s[r], to), s' = [s EXCEPT ![r] = to]
        PROVE  Promised!Next
    <3>1. \A S : s[r] \in S => Promised!Move(r, S, to)
      BY <2>2, <2>6 DEF Promised!Move
    <3>2. CASE s[r] = "ABSENT" /\ to = "WAITING"
      <4>1. Promised!Attach(r)
        BY <3>1, <3>2 DEF Promised!Attach
      <4> QED BY <4>1 DEF Promised!Next
    <3>3. CASE s[r] \in DOMAIN QueueTransitions /\ to \in QueueTransitions[s[r]]
      <4>1. \/ s[r] = "WAITING" /\ to = "BLOCKED"
            \/ s[r] = "BLOCKED" /\ to = "WAITING"
            \/ s[r] \in {"WAITING", "BLOCKED"} /\ to = "SKIPPED"
            \/ s[r] = "SKIPPED" /\ to = "WAITING"
            \/ s[r] \in {"WAITING", "BLOCKED", "SKIPPED"} /\ to = "CANCELED"
        <5> HIDE DEF s
        <5> QED BY <3>3 DEF QueueTransitions
      <4>2. \/ Promised!Block(r) \/ Promised!Unblock(r) \/ Promised!Skip(r)
            \/ Promised!Unskip(r) \/ Promised!Cancel(r)
        BY <3>1, <4>1 DEF Promised!Block, Promised!Unblock, Promised!Skip, Promised!Unskip,
                          Promised!Cancel
      <4> QED BY <4>2 DEF Promised!Next
    <3> QED BY <2>6, <3>2, <3>3 DEF Along
  <2> QED BY <1>3, <2>2, <2>4, <2>5, <2>6
<1> QED BY <1>4, <1>5

\* The queue is the one the Objective was promised, command by command, until the
\* ledger can no longer be trusted (ledger.ts, the rules of the queue at its head).
THEOREM PromisedQueue == Spec => QueueAsPromised
<1>1. Init => Promised!Init
  <2> SUFFICES ASSUME Init PROVE Promised!Init
    OBVIOUS
  <2>1. ~IsComplete
    BY DEF Init, IsComplete, ReplayObjective, Complete, Types
  <2>2. \A r \in Revs : ItemState(r) = "ABSENT"
    BY <2>1 DEF ItemState
  <2>3. (overlap \/ ~readable) = FALSE
    BY DEF Init
  <2> QED BY <2>2, <2>3 DEF Promised!Init
<1>2. Inv /\ Inv' /\ [Next]_vars
        => [Promised!Next]_<<[r \in Revs |-> ItemState(r)], overlap \/ ~readable>>
  BY QueueStep
<1> QED BY <1>1, <1>2, Invariance, PTL DEF Spec, QueueAsPromised, Promised!Spec

=============================================================================
