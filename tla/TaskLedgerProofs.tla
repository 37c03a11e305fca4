-------------------------- MODULE TaskLedgerProofs --------------------------
(***************************************************************************)
(* Proofs about TaskLedger for every set of processes, contents and         *)
(* guardrails and every number of events and faults.                        *)
(***************************************************************************)
EXTENDS TaskLedger, TLAPS

\* What a command holds fits the phase it is in.
Appending == {"read", "write", "contract", "postcheck"}
CommandFits(c, phase) ==
  /\ c.kind = "approve" <=> c.stage # "INVALIDATED"
  /\ c.kind = "approve" => c.hash \in Contents /\ c.guard \in Guards
  /\ c.stage = "SUPERSEDED" => c.rev > 1
  /\ IF phase \in Appending THEN c.rev # 0 ELSE c.stage \in {"CREATED", "INVALIDATED"}
  /\ phase = "contract" => c.stage = "APPROVED"

TypeInv == TypeOK /\ \A p \in Procs : CommandFits(cmd[p], pc[p])

LEMMA NoCommandFits ==
  /\ NoCommand \in Command
  /\ \A phase \in Phases \ Appending : CommandFits(NoCommand, phase)
  BY DEF NoCommand, Command, Hashes, Types, CommandFits, Appending

LEMMA InitType == Init => TypeInv
<1> SUFFICES ASSUME Init PROVE TypeInv
  OBVIOUS
<1>1. "idle" \in Phases \ Appending
  BY DEF Phases, Appending
<1>2. pc \in [Procs -> Phases] /\ cmd \in [Procs -> Command]
  BY <1>1, NoCommandFits DEF Init
<1>3. TypeOK
  <2>1. events \in Seq(Event) /\ stored \subseteq Contract
    BY DEF Init
  <2>2. torn \subseteq Nat /\ confirmed \subseteq Nat /\ faults \in Nat
    BY DEF Init
  <2>3. readable \in BOOLEAN /\ overlap \in BOOLEAN /\ lock \in Procs \cup {None}
    BY DEF Init
  <2> QED
    BY <1>2, <2>1, <2>2, <2>3 DEF TypeOK
<1>4. ASSUME NEW p \in Procs PROVE CommandFits(cmd[p], pc[p])
  BY <1>1, NoCommandFits DEF Init
<1> QED
  BY <1>3, <1>4 DEF TypeInv

\* A step gives the command of one process another content and phase.
LEMMA OneCommand ==
  ASSUME TypeInv, NEW p \in Procs, NEW phase \in Phases, NEW c \in Command,
         Goto(p, phase), cmd' = [cmd EXCEPT ![p] = c], CommandFits(c, phase)
  PROVE  /\ pc' \in [Procs -> Phases]
         /\ cmd' \in [Procs -> Command]
         /\ \A q \in Procs : CommandFits(cmd[q], pc[q])'
<1>1. /\ pc' \in [Procs -> Phases]
      /\ pc'[p] = phase
      /\ \A q \in Procs \ {p} : pc'[q] = pc[q]
  BY DEF Goto, TypeInv, TypeOK
<1>2. /\ cmd' \in [Procs -> Command]
      /\ cmd'[p] = c
      /\ \A q \in Procs \ {p} : cmd'[q] = cmd[q]
  BY DEF TypeInv, TypeOK
<1>3. ASSUME NEW q \in Procs PROVE CommandFits(cmd'[q], pc'[q])
  BY <1>1, <1>2 DEF TypeInv
<1> QED
  BY <1>1, <1>2, <1>3

\* A command ends.
LEMMA Leaving ==
  ASSUME TypeInv, NEW p \in Procs, NEW phase \in {"idle", "release"}, Exit(p, phase)
  PROVE  /\ pc' \in [Procs -> Phases]
         /\ cmd' \in [Procs -> Command]
         /\ \A q \in Procs : CommandFits(cmd[q], pc[q])'
<1>1. phase \in Phases \ Appending
  BY DEF Phases, Critical, Appending
<1> QED
  BY <1>1, NoCommandFits, OneCommand DEF Exit

\* A command goes on and what it holds stays.
LEMMA Advancing ==
  ASSUME TypeInv, NEW p \in Procs, NEW phase \in Phases \ Appending,
         pc[p] \notin Appending, Goto(p, phase), UNCHANGED cmd
  PROVE  /\ pc' \in [Procs -> Phases]
         /\ cmd' \in [Procs -> Command]
         /\ \A q \in Procs : CommandFits(cmd[q], pc[q])'
<1>1. cmd[p] \in Command /\ cmd' = [cmd EXCEPT ![p] = cmd[p]]
  BY DEF TypeInv, TypeOK
<1>2. CommandFits(cmd[p], phase)
  BY DEF TypeInv, CommandFits, Appending
<1> QED
  BY <1>1, <1>2, OneCommand

\* The phases before M4.
LEMMA EarlySteps ==
  ASSUME TypeInv, NEW p \in Procs,
         \/ BeginInvalidate(p) \/ Acquire(p) \/ NotAcquired(p)
         \/ Precheck(p) \/ Idempotency(p)
  PROVE  TypeInv'
<1> USE DEF TypeInv, TypeOK, Phases, Critical, Appending, ledger, history
<1>1. CASE BeginInvalidate(p)
  BY <1>1, Advancing DEF BeginInvalidate
<1>2. CASE Acquire(p)
  BY <1>2, Advancing DEF Acquire
<1>3. CASE NotAcquired(p)
  BY <1>3, Leaving DEF NotAcquired
<1>4. CASE Precheck(p)
  BY <1>4, Advancing, Leaving DEF Precheck
<1>5. CASE Idempotency(p)
  BY <1>5, Advancing, Leaving DEF Idempotency
<1> QED
  BY <1>1, <1>2, <1>3, <1>4, <1>5

LEMMA BeginStep == ASSUME TypeInv, NEW p \in Procs, BeginApprove(p) PROVE TypeInv'
<1>1. PICK h \in Contents, g \in Guards :
        cmd' = [cmd EXCEPT ![p] = [NoCommand EXCEPT !.kind = "approve", !.hash = h,
                                                    !.guard = g, !.stage = "CREATED"]]
  BY DEF BeginApprove
<1> DEFINE c == [NoCommand EXCEPT !.kind = "approve", !.hash = h,
                                  !.guard = g, !.stage = "CREATED"]
<1>2. c \in Command /\ CommandFits(c, "lock")
  BY DEF NoCommand, Command, Hashes, Types, CommandFits, Appending
<1>3. "lock" \in Phases /\ Goto(p, "lock")
  BY DEF BeginApprove, Phases
<1> QED
  BY <1>1, <1>2, <1>3, OneCommand
  DEF BeginApprove, TypeInv, TypeOK, ledger, history

\* The phases of M4.
\* A claim sets the revision and the hash before it, and nothing else.
LEMMA Claimed ==
  ASSUME TypeInv, NEW p \in Procs, Claim(p)
  PROVE  \E r \in Nat \ {0}, h \in Hashes :
           cmd' = [cmd EXCEPT ![p] = [cmd[p] EXCEPT !.rev = r, !.prior = h]]
<1>1. \A i \in DOMAIN events : events[i].rev \in Nat \ {0} /\ events[i].hash \in Hashes
  <2>1. \A i \in DOMAIN events : events[i] \in Event
    BY DEF TypeInv, TypeOK
  <2> QED
    BY <2>1 DEF Event
<1>2. CASE Approving(p)
  <2>1. PICK last \in Latest :
          cmd' = [cmd EXCEPT ![p].rev = last.rev + 1, ![p].prior = last.hash]
    BY <1>2 DEF Claim
  <2>2. last.rev \in Nat /\ last.hash \in Hashes
    <3>1. CASE Of("CREATED") = {}
      BY <3>1, last = [rev |-> 0, hash |-> None] DEF Latest, Hashes
    <3>2. CASE Of("CREATED") # {}
      <4>1. PICK i \in LastOf("CREATED") :
              last = [rev |-> events[i].rev, hash |-> events[i].hash]
        BY <3>2 DEF Latest
      <4> QED
        BY <1>1, <4>1 DEF LastOf, Of
    <3> QED
      BY <3>1, <3>2
  <2>3. last.rev + 1 \in Nat \ {0}
    BY <2>2
  <2> HIDE DEF Approving
  <2> QED
    BY <2>1, <2>2, <2>3 DEF TypeInv, TypeOK
<1>3. CASE ~Approving(p)
  <2>1. PICK i \in DOMAIN events :
          cmd' = [cmd EXCEPT ![p].rev = events[i].rev, ![p].prior = events[i].hash]
    BY <1>3 DEF Claim, Of
  <2> QED
    BY <1>1, <2>1
<1> QED
  BY <1>2, <1>3

LEMMA ClaimStep == ASSUME TypeInv, NEW p \in Procs, Claim(p) PROVE TypeInv'
<1>2. PICK r \in Nat \ {0}, h \in Hashes :
        cmd' = [cmd EXCEPT ![p] = [cmd[p] EXCEPT !.rev = r, !.prior = h]]
  BY Claimed
<1> DEFINE c == [cmd[p] EXCEPT !.rev = r, !.prior = h]
<1>3. cmd[p] \in Command /\ CommandFits(cmd[p], "claim")
  BY DEF TypeInv, TypeOK, Claim
<1>4. c \in Command /\ CommandFits(c, "read")
  BY <1>3 DEF Command, CommandFits, Appending
<1>5. "read" \in Phases /\ Goto(p, "read")
  BY DEF Claim, Phases, Critical
<1> QED
  BY <1>2, <1>4, <1>5, OneCommand DEF Claim, TypeInv, TypeOK, ledger, history

LEMMA ReadStep == ASSUME TypeInv, NEW p \in Procs, ReadSeq(p) PROVE TypeInv'
<1> DEFINE c == [cmd[p] EXCEPT !.seq = NextSeq(p)]
<1>1. cmd[p] \in Command /\ CommandFits(cmd[p], "read") /\ NextSeq(p) \in Nat
  BY DEF TypeInv, TypeOK, ReadSeq, NextSeq
<1>2. c \in Command /\ CommandFits(c, "write")
  BY <1>1 DEF Command, CommandFits, Appending
<1>3. "write" \in Phases /\ Goto(p, "write") /\ cmd' = [cmd EXCEPT ![p] = c]
  BY DEF ReadSeq, Phases, Critical
<1> QED
  BY <1>2, <1>3, OneCommand DEF ReadSeq, TypeInv, TypeOK, ledger, history

\* The record a command appends is an event.
LEMMA EntryIsEvent ==
  ASSUME TypeInv, NEW p \in Procs, pc[p] = "write" PROVE Entry(p) \in Event
<1>1. cmd[p] \in Command /\ CommandFits(cmd[p], "write")
  BY DEF TypeInv, TypeOK
<1> QED
  BY <1>1 DEF Entry, Event, Command, CommandFits, Appending, Hashes

LEMMA WriteStep == ASSUME TypeInv, NEW p \in Procs, Write(p) PROVE TypeInv'
<1>1. events' \in Seq(Event)
  BY EntryIsEvent DEF Write, TypeInv, TypeOK
<1>2. cmd[p] \in Command /\ CommandFits(cmd[p], "write")
  BY DEF TypeInv, TypeOK, Write
<1>3. PICK stage \in Types, phase \in {"contract", "read", "postcheck"} :
        /\ cmd' = [cmd EXCEPT ![p] = [cmd[p] EXCEPT !.stage = stage]]
        /\ Goto(p, phase)
        /\ stage = "INVALIDATED" <=> cmd[p].stage = "INVALIDATED"
        /\ stage = "SUPERSEDED" => cmd[p].rev > 1
        /\ phase = "contract" => stage = "APPROVED"
  <2>1. CASE cmd[p].stage = "CREATED"
    BY <2>1 DEF Write, Types
  <2>2. CASE cmd[p].stage = "APPROVED" /\ cmd[p].rev > 1
    BY <2>2 DEF Write, HasPredecessor, Types
  <2>3. CASE UNCHANGED cmd /\ Goto(p, "postcheck")
    <3>1. cmd' = [cmd EXCEPT ![p] = [cmd[p] EXCEPT !.stage = cmd[p].stage]]
      BY <1>2, <2>3 DEF Command, TypeInv, TypeOK
    <3> QED
      BY <1>2, <2>3, <3>1 DEF Command, CommandFits
  <2> QED
    BY <2>1, <2>2, <2>3 DEF Write, HasPredecessor
<1> DEFINE c == [cmd[p] EXCEPT !.stage = stage]
<1>4. c \in Command /\ CommandFits(c, phase)
  BY <1>2, <1>3 DEF Command, CommandFits, Appending
<1>5. phase \in Phases
  BY DEF Phases, Critical
<1> QED
  BY <1>1, <1>3, <1>4, <1>5, OneCommand DEF Write, TypeInv, TypeOK, history

LEMMA StoreStep == ASSUME TypeInv, NEW p \in Procs, StoreContract(p) PROVE TypeInv'
<1>1. cmd[p] \in Command /\ CommandFits(cmd[p], "contract")
  BY DEF TypeInv, TypeOK, StoreContract
<1>2. stored' \subseteq Contract
  <2>1. PICK source \in Contents :
          stored' = stored \cup {[rev |-> cmd[p].rev, hash |-> cmd[p].hash,
                                  guard |-> cmd[p].guard, source |-> source]}
    BY DEF StoreContract
  <2>2. cmd[p].rev \in Nat /\ cmd[p].hash \in Hashes /\ cmd[p].guard \in Guards \cup {None}
    BY <1>1 DEF Command
  <2>3. [rev |-> cmd[p].rev, hash |-> cmd[p].hash, guard |-> cmd[p].guard,
         source |-> source] \in Contract
    BY <2>2 DEF Contract, Hashes
  <2> QED
    BY <2>1, <2>3 DEF TypeInv, TypeOK
<1>3. CommandFits(cmd[p], "read") /\ "read" \in Phases
  BY <1>1 DEF CommandFits, Appending, Phases, Critical
<1>4. cmd' = [cmd EXCEPT ![p] = cmd[p]] /\ Goto(p, "read")
  BY DEF StoreContract, TypeInv, TypeOK
<1> QED
  BY <1>1, <1>2, <1>3, <1>4, OneCommand DEF StoreContract, TypeInv, TypeOK, history

\* The steps that end a command, and those that are none of a command.
LEMMA InterruptedType ==
  ASSUME TypeInv, NEW p \in Procs, Interrupted(p)
  PROVE  readable' \in BOOLEAN /\ stored' \subseteq Contract /\ UNCHANGED events
<1>1. cmd[p].rev \in Nat
  <2>1. cmd[p] \in Command
    BY DEF TypeInv, TypeOK
  <2> QED
    BY <2>1 DEF Command
<1>2. [rev |-> cmd[p].rev, hash |-> None, guard |-> None, source |-> None] \in Contract
  BY <1>1 DEF Contract, Hashes
<1>3. stored \subseteq Contract /\ readable \in BOOLEAN
  BY DEF TypeInv, TypeOK
<1>4. stored' = stored \/ stored' = stored \cup
        {[rev |-> cmd[p].rev, hash |-> None, guard |-> None, source |-> None]}
  BY DEF Interrupted, ledger
<1>5. stored' \subseteq Contract
  BY <1>2, <1>3, <1>4
<1>6. readable' \in BOOLEAN /\ UNCHANGED events
  BY <1>3 DEF Interrupted, ledger
<1> QED
  BY <1>5, <1>6

LEMMA LateSteps ==
  ASSUME TypeInv,
         \/ \E p \in Procs : \/ ContractExists(p) \/ Unreadable(p) \/ Fail(p)
                             \/ Postcheck(p) \/ Release(p) \/ Crash(p)
         \/ BreakLock \/ UNCHANGED vars
  PROVE  TypeInv'
<1>1. ASSUME NEW p \in Procs PROVE Unfinished(p) \subseteq Nat /\ cmd[p].rev \in Nat
  <2>1. cmd[p] \in Command
    BY DEF TypeInv, TypeOK
  <2> QED
    BY <2>1 DEF Unfinished, Command
<1> USE DEF TypeInv, TypeOK, ledger, history, local
<1>2. ASSUME NEW p \in Procs,
             ContractExists(p) \/ Unreadable(p) \/ Fail(p) \/ Crash(p)
      PROVE  TypeInv'
  <2>1. torn' \subseteq Nat
    <3>1. Unfinished(p) \subseteq Nat /\ torn \subseteq Nat
      BY <1>1
    <3>2. torn' = torn \cup Unfinished(p)
      BY <1>2 DEF ContractExists, Unreadable, Fail, Crash
    <3> QED
      BY <3>1, <3>2
  <2>2. faults' \in Nat
    BY <1>2 DEF ContractExists, Unreadable, Fail, Crash
  <2>3. PICK phase \in {"idle", "release"} : Exit(p, phase)
    BY <1>2 DEF ContractExists, Unreadable, Fail, Crash
  <2>4. UNCHANGED <<lock, overlap, confirmed>>
    BY <1>2 DEF ContractExists, Unreadable, Fail, Crash
  <2>5. readable' \in BOOLEAN /\ stored' \subseteq Contract /\ UNCHANGED events
    <3>1. UNCHANGED ledger \/ Interrupted(p)
      BY <1>2 DEF ContractExists, Unreadable, Fail, Crash
    <3> QED
      BY <3>1, InterruptedType
  <2> QED
    BY <2>1, <2>2, <2>3, <2>4, <2>5, Leaving
<1>3. ASSUME NEW p \in Procs, Postcheck(p) PROVE TypeInv'
  <2>1. confirmed' \subseteq Nat
    BY <1>1, <1>3 DEF Postcheck
  <2> QED
    BY <1>3, <2>1, Leaving DEF Postcheck
<1>4. ASSUME NEW p \in Procs, Release(p) PROVE TypeInv'
  BY <1>4, Leaving DEF Release
<1>6. ASSUME BreakLock PROVE TypeInv'
  BY <1>6 DEF BreakLock, Live
<1>7. CASE UNCHANGED vars
  BY <1>7 DEF vars
<1> QED
  BY <1>2, <1>3, <1>4, <1>6, <1>7

LEMMA NextType == TypeInv /\ [Next]_vars => TypeInv'
  BY EarlySteps, BeginStep, ClaimStep, ReadStep, WriteStep, StoreStep, LateSteps
  DEF Next

\* TypeOK holds of every behaviour.
THEOREM TypeCorrect == Spec => []TypeOK
<1>1. TypeInv => TypeOK
  BY DEF TypeInv
<1> QED
  BY <1>1, InitType, NextType, PTL DEF Spec

-----------------------------------------------------------------------------
(* One holder, and with it contiguous sequence numbers.                    *)

\* SeqContiguous is inductive only together with OneHolder: the number a command
\* is about to write is still the next one, because nobody else has appended.
SeqInv ==
  /\ TypeInv
  /\ OneHolder
  /\ SeqContiguous
  /\ ~overlap => \A p \in Procs : pc[p] = "write" => cmd[p].seq = Len(events) + 1

\* Nothing is live without the lock, so whoever creates it is alone.
LEMMA NextHolder == TypeInv /\ OneHolder /\ [Next]_vars => OneHolder'
<1> SUFFICES ASSUME TypeInv, OneHolder, [Next]_vars PROVE OneHolder'
  OBVIOUS
<1> USE LedgerAssumption DEF OneHolder, Live, Critical
<1>1. pc \in [Procs -> Phases] /\ lock \in Procs \cup {None}
  BY DEF TypeInv, TypeOK
<1>2. ASSUME NEW p \in Procs, NEW phase, Goto(p, phase),
             Live(p) \/ phase \notin Critical, UNCHANGED <<lock, overlap>>
      PROVE  OneHolder'
  BY <1>1, <1>2 DEF Goto
<1>3. ASSUME NEW p \in Procs, Acquire(p) PROVE OneHolder'
  BY <1>1, <1>3 DEF Acquire, Goto, history
<1>4. ASSUME NEW p \in Procs, Release(p) PROVE OneHolder'
  BY <1>1, <1>4 DEF Release, Exit, Goto, history
<1>5. ASSUME BreakLock PROVE OneHolder'
  BY <1>1, <1>5 DEF BreakLock, local
<1>6. CASE UNCHANGED vars
  BY <1>6 DEF vars, local, history
<1>7. ASSUME NEW p \in Procs,
             \/ BeginApprove(p) \/ BeginInvalidate(p) \/ NotAcquired(p)
             \/ Precheck(p) \/ Idempotency(p) \/ Claim(p) \/ ReadSeq(p)
      PROVE  OneHolder'
  BY <1>2, <1>7
  DEF BeginApprove, BeginInvalidate, NotAcquired, Precheck, Idempotency, Claim,
      ReadSeq, Exit, history
<1>8. ASSUME NEW p \in Procs,
             \/ Write(p) \/ StoreContract(p) \/ ContractExists(p) \/ Unreadable(p)
             \/ Fail(p) \/ Postcheck(p) \/ Crash(p)
      PROVE  OneHolder'
  BY <1>2, <1>8
  DEF Write, StoreContract, ContractExists, Unreadable, Fail, Postcheck, Crash,
      Exit, history
<1> QED
  BY <1>3, <1>4, <1>5, <1>6, <1>7, <1>8 DEF Next

LEMMA NextSeqInv == SeqInv /\ [Next]_vars => SeqInv'
<1> SUFFICES ASSUME SeqInv, [Next]_vars PROVE SeqInv'
  OBVIOUS
<1>1. TypeInv /\ TypeInv' /\ OneHolder /\ OneHolder'
  BY NextType, NextHolder DEF SeqInv
<1>2. /\ pc \in [Procs -> Phases] /\ cmd \in [Procs -> Command]
      /\ cmd' \in [Procs -> Command] /\ events \in Seq(Event)
  BY <1>1 DEF TypeInv, TypeOK
<1> DEFINE Num == /\ SeqContiguous
                  /\ ~overlap => \A p \in Procs :
                       pc[p] = "write" => cmd[p].seq = Len(events) + 1
<1> SUFFICES Num'
  BY <1>1 DEF SeqInv
<1>3. Num
  BY DEF SeqInv
\* a step of p that writes no event and does not lead to "write"
<1>4. ASSUME NEW p \in Procs, NEW phase, Goto(p, phase), phase # "write",
             \A q \in Procs \ {p} : cmd'[q] = cmd[q], UNCHANGED <<events, overlap>>
      PROVE  Num'
  BY <1>2, <1>3, <1>4 DEF Goto, SeqContiguous
<1>5. ASSUME NEW p \in Procs, ReadSeq(p) PROVE Num'
  <2>1. /\ cmd'[p].seq = Len(events) + 1
        /\ \A q \in Procs \ {p} : cmd'[q] = cmd[q] /\ pc'[q] = pc[q]
        /\ UNCHANGED <<events, overlap>>
    BY <1>2, <1>5 DEF ReadSeq, NextSeq, Goto, ledger, history, Command
  <2> QED
    BY <1>3, <2>1 DEF SeqContiguous
<1>6. ASSUME NEW p \in Procs, Write(p) PROVE Num'
  <2>1. /\ pc[p] = "write"
        /\ events' = Append(events, Entry(p))
        /\ Entry(p).seq = cmd[p].seq
        /\ UNCHANGED overlap
    BY <1>6 DEF Write, Entry, history
  <2>2. CASE overlap
    BY <2>1, <2>2 DEF SeqContiguous
  <2>3. CASE ~overlap
    <3>1. Entry(p).seq = Len(events) + 1
      BY <1>3, <2>1, <2>3
    <3>2. Entry(p) \in Event
      BY <1>1, <2>1, EntryIsEvent
    <3>3. SeqContiguous'
      BY <1>2, <1>3, <2>1, <2>3, <3>1, <3>2 DEF SeqContiguous
    <3>4. \A q \in Procs : pc'[q] # "write"
      <4>1. \A q \in Procs : pc[q] = "write" => q = p
        BY <1>1, <2>1, <2>3 DEF OneHolder, Live, Critical
      <4> QED
        BY <1>2, <1>6, <4>1 DEF Write, Goto
    <3> QED
      BY <3>3, <3>4
  <2> QED
    BY <2>2, <2>3
<1>7. ASSUME BreakLock PROVE Num'
  BY <1>3, <1>7 DEF BreakLock, local, ledger, SeqContiguous
<1>8. CASE UNCHANGED vars
  BY <1>3, <1>8 DEF vars, local, ledger, history, SeqContiguous
<1>9. ASSUME NEW p \in Procs,
             \/ BeginApprove(p) \/ BeginInvalidate(p) \/ Acquire(p) \/ NotAcquired(p)
             \/ Precheck(p) \/ Idempotency(p) \/ Claim(p)
      PROVE  Num'
  <2>1. \A q \in Procs \ {p} : cmd'[q] = cmd[q]
    BY <1>2, <1>9
    DEF BeginApprove, BeginInvalidate, Acquire, NotAcquired, Precheck, Idempotency,
        Claim, Exit
  <2> QED
    BY <1>4, <1>9, <2>1
    DEF BeginApprove, BeginInvalidate, Acquire, NotAcquired, Precheck, Idempotency,
        Claim, Exit, ledger, history
<1>10. ASSUME NEW p \in Procs,
              \/ StoreContract(p) \/ ContractExists(p) \/ Unreadable(p) \/ Fail(p)
              \/ Postcheck(p) \/ Release(p) \/ Crash(p)
       PROVE  Num'
  <2>1. \A q \in Procs \ {p} : cmd'[q] = cmd[q]
    BY <1>2, <1>10
    DEF StoreContract, ContractExists, Unreadable, Fail, Postcheck, Release, Crash,
        Exit
  <2> QED
    BY <1>4, <1>10, <2>1
    DEF StoreContract, ContractExists, Unreadable, Fail, Postcheck, Release, Crash,
        Interrupted, Exit, ledger, history
<1> QED
  BY <1>5, <1>6, <1>7, <1>8, <1>9, <1>10 DEF Next

LEMMA InitSeqInv == Init => SeqInv
  BY InitType DEF Init, SeqInv, OneHolder, SeqContiguous, Live, Critical

\* Unless an operator removes the lock of a live command, commands exclude each
\* other inside the mutation engine.
THEOREM MutualExclusion == Spec => []OneHolder
<1>1. SeqInv => OneHolder
  BY DEF SeqInv
<1> QED
  BY <1>1, InitSeqInv, NextSeqInv, PTL DEF Spec

\* ... and number their events 1, 2, 3, ..., whatever crashes and failed writes
\* happen between them.
THEOREM Contiguous == Spec => []SeqContiguous
<1>1. SeqInv => SeqContiguous
  BY DEF SeqInv
<1> QED
  BY <1>1, InitSeqInv, NextSeqInv, PTL DEF Spec

-----------------------------------------------------------------------------
(* Approvals and contracts.                                                *)

\* A command that created the contract of its revision and has not yet appended
\* the approval owns the revision: the exclusive create gives it to one command.
Owns(p) == pc[p] \in {"read", "write"} /\ cmd[p].stage = "APPROVED"
HasContract(r, h, g) == \E c \in stored : c.rev = r /\ c.hash = h /\ c.guard = g

\* ApprovalNamesStoredContract, said of places in the ledger.
Named ==
  \A i \in Of("APPROVED") : HasContract(events[i].rev, events[i].hash, events[i].guard)

OwnerInv ==
  /\ \A p \in Procs : Owns(p) => HasContract(cmd[p].rev, cmd[p].hash, cmd[p].guard)
  /\ \A p, q \in Procs : Owns(p) /\ Owns(q) /\ cmd[p].rev = cmd[q].rev => p = q
  /\ \A p \in Procs : Owns(p) => \A i \in Of("APPROVED") : events[i].rev # cmd[p].rev

StoreInv ==
  /\ TypeInv
  /\ Named
  /\ RevisionApprovedOnce
  /\ OwnerInv

LEMMA InitStoreInv == Init => StoreInv
  BY InitType
  DEF Init, StoreInv, Named, RevisionApprovedOnce, OwnerInv,
      Of, Owns

\* A step that adds no approval and removes no contract.
LEMMA ApprovalsStay ==
  ASSUME StoreInv, stored \subseteq stored',
         Of("APPROVED")' = Of("APPROVED"),
         \A i \in Of("APPROVED") : events'[i] = events[i]
  PROVE  Named' /\ RevisionApprovedOnce'
<1>1. ASSUME NEW i \in Of("APPROVED")
      PROVE  \E c \in stored' : /\ c.rev = events'[i].rev
                                 /\ c.hash = events'[i].hash
                                 /\ c.guard = events'[i].guard
  <2>1. HasContract(events[i].rev, events[i].hash, events[i].guard)
    BY <1>1 DEF StoreInv, Named
  <2>2. PICK c \in stored :
          c.rev = events[i].rev /\ c.hash = events[i].hash /\ c.guard = events[i].guard
    BY <2>1 DEF HasContract
  <2>3. c \in stored' /\ events'[i] = events[i]
    BY <1>1
  <2> QED
    BY <2>2, <2>3
<1>2. Named'
  BY <1>1 DEF Named, HasContract
<1>3. RevisionApprovedOnce'
  BY DEF StoreInv, RevisionApprovedOnce
<1> QED
  BY <1>2, <1>3

\* A step that appends nothing and makes nobody an owner.
LEMMA NoNewOwner ==
  ASSUME StoreInv, NEW p \in Procs, UNCHANGED events, stored \subseteq stored',
         \A q \in Procs \ {p} : pc'[q] = pc[q] /\ cmd'[q] = cmd[q],
         Owns(p)' => /\ Owns(p)
                     /\ cmd'[p].rev = cmd[p].rev
                     /\ cmd'[p].hash = cmd[p].hash
                     /\ cmd'[p].guard = cmd[p].guard
  PROVE  /\ Named'
         /\ RevisionApprovedOnce'
         /\ OwnerInv'
<1>1. Of("APPROVED")' = Of("APPROVED")
  BY DEF Of
<1>2. Named' /\ RevisionApprovedOnce'
  BY <1>1, ApprovalsStay
<1>3. \A q \in Procs : Owns(q)' => /\ Owns(q)
                                   /\ cmd'[q].rev = cmd[q].rev
                                   /\ cmd'[q].hash = cmd[q].hash
                                   /\ cmd'[q].guard = cmd[q].guard
  BY DEF Owns
<1>4. OwnerInv'
  <2>1. \A q \in Procs :
          Owns(q)' => HasContract(cmd[q].rev, cmd[q].hash, cmd[q].guard)'
    BY <1>3 DEF StoreInv, OwnerInv, HasContract
  <2>2. \A q, w \in Procs : Owns(q)' /\ Owns(w)' /\ cmd'[q].rev = cmd'[w].rev => q = w
    BY <1>3 DEF StoreInv, OwnerInv
  <2>3. \A q \in Procs : Owns(q)' => \A i \in Of("APPROVED")' : events'[i].rev # cmd'[q].rev
    BY <1>1, <1>3 DEF StoreInv, OwnerInv
  <2> QED
    BY <2>1, <2>2, <2>3 DEF OwnerInv
<1> QED
  BY <1>2, <1>4

\* A command that ends, or goes to a phase in which it cannot own.
LEMMA Disowning ==
  ASSUME StoreInv, NEW p \in Procs, NEW phase, Goto(p, phase),
         phase \notin {"read", "write"}, UNCHANGED events, stored \subseteq stored',
         \A q \in Procs \ {p} : cmd'[q] = cmd[q]
  PROVE  /\ Named'
         /\ RevisionApprovedOnce'
         /\ OwnerInv'
<1>1. pc \in [Procs -> Phases]
  BY DEF StoreInv, TypeInv, TypeOK
<1>2. ~Owns(p)' /\ \A q \in Procs \ {p} : pc'[q] = pc[q]
  BY <1>1 DEF Goto, Owns
<1> QED
  BY <1>2, NoNewOwner

LEMMA ClaimOwner ==
  ASSUME StoreInv, NEW p \in Procs, Claim(p) \/ ReadSeq(p)
  PROVE  /\ Named'
         /\ RevisionApprovedOnce'
         /\ OwnerInv'
<1>1. /\ pc \in [Procs -> Phases] /\ cmd \in [Procs -> Command]
      /\ CommandFits(cmd[p], pc[p])
  BY DEF StoreInv, TypeInv, TypeOK
<1>2. CASE Claim(p)
  <2>1. PICK r \in Nat \ {0}, h \in Hashes :
          cmd' = [cmd EXCEPT ![p] = [cmd[p] EXCEPT !.rev = r, !.prior = h]]
    BY <1>2, Claimed DEF StoreInv
  <2>2. cmd[p].stage # "APPROVED"
    BY <1>1, <1>2 DEF Claim, CommandFits, Appending
  <2>3. cmd'[p].stage = cmd[p].stage
    BY <1>1, <2>1 DEF Command
  <2>4. UNCHANGED <<events, stored>>
        /\ \A q \in Procs \ {p} : pc'[q] = pc[q] /\ cmd'[q] = cmd[q]
    BY <1>1, <1>2, <2>1 DEF Claim, Goto, ledger
  <2>5. ~Owns(p)'
    BY <2>2, <2>3 DEF Owns
  <2> QED
    BY <2>4, <2>5, NoNewOwner
<1>3. CASE ReadSeq(p)
  <2>1. /\ cmd'[p].rev = cmd[p].rev /\ cmd'[p].hash = cmd[p].hash
        /\ cmd'[p].guard = cmd[p].guard /\ cmd'[p].stage = cmd[p].stage
    BY <1>1, <1>3 DEF ReadSeq, Command
  <2>2. UNCHANGED <<events, stored>>
        /\ \A q \in Procs \ {p} : pc'[q] = pc[q] /\ cmd'[q] = cmd[q]
    BY <1>1, <1>3 DEF ReadSeq, Goto, ledger
  <2>3. Owns(p)' => Owns(p)
    BY <1>3, <2>1 DEF Owns, ReadSeq
  <2> QED
    BY <2>1, <2>2, <2>3, NoNewOwner
<1> QED
  BY <1>2, <1>3

\* The create succeeds only where nothing is stored, and every owner and every
\* approval has something stored.
LEMMA StoreOwner ==
  ASSUME StoreInv, NEW p \in Procs, StoreContract(p)
  PROVE  /\ Named'
         /\ RevisionApprovedOnce'
         /\ OwnerInv'
<1>1. pc \in [Procs -> Phases] /\ UNCHANGED <<events, cmd>>
  BY DEF StoreInv, TypeInv, TypeOK, StoreContract
<1>0. PICK source \in Contents :
        stored' = stored \cup {[rev |-> cmd[p].rev, hash |-> cmd[p].hash,
                                guard |-> cmd[p].guard, source |-> source]}
  BY DEF StoreContract
<1> DEFINE new == [rev |-> cmd[p].rev, hash |-> cmd[p].hash, guard |-> cmd[p].guard,
                   source |-> source]
<1>2. /\ stored' = stored \cup {new}
      /\ new.rev = cmd[p].rev
      /\ new.hash = cmd[p].hash
      /\ new.guard = cmd[p].guard
  BY <1>0
<1> HIDE DEF new
<1>3. \A c \in stored : c.rev # cmd[p].rev
  BY DEF StoreContract, Taken
<1>4. Named' /\ RevisionApprovedOnce'
  <2>1. Of("APPROVED")' = Of("APPROVED")
    BY <1>1 DEF Of
  <2> QED
    BY <1>1, <1>2, <2>1, ApprovalsStay
<1>5. \A q \in Procs \ {p} : Owns(q)' => Owns(q) /\ cmd[q].rev # cmd[p].rev
  <2>1. \A q \in Procs \ {p} : Owns(q)' => Owns(q)
    BY <1>1 DEF Owns, StoreContract, Goto
  <2> QED
    BY <1>3, <2>1 DEF StoreInv, OwnerInv, HasContract
<1>6. \A i \in Of("APPROVED") : events[i].rev # cmd[p].rev
  BY <1>3 DEF StoreInv, Named, HasContract
<1>7. \A r, h, g : HasContract(r, h, g) => HasContract(r, h, g)'
  BY <1>2 DEF HasContract
<1>8. HasContract(cmd[p].rev, cmd[p].hash, cmd[p].guard)'
  BY <1>1, <1>2 DEF HasContract
<1>9. OwnerInv'
  <2>1. \A q \in Procs : Owns(q)' => HasContract(cmd[q].rev, cmd[q].hash, cmd[q].guard)'
    <3>1. ASSUME NEW q \in Procs \ {p}, Owns(q)'
          PROVE  HasContract(cmd[q].rev, cmd[q].hash, cmd[q].guard)'
      <4>1. HasContract(cmd[q].rev, cmd[q].hash, cmd[q].guard)
        BY <1>5, <3>1 DEF StoreInv, OwnerInv
      <4> QED
        BY <1>1, <1>2, <4>1 DEF HasContract
    <3> QED
      BY <1>8, <3>1
  <2>2. \A q, w \in Procs : Owns(q)' /\ Owns(w)' /\ cmd'[q].rev = cmd'[w].rev => q = w
    BY <1>1, <1>5 DEF StoreInv, OwnerInv
  <2>3. \A q \in Procs : Owns(q)' => \A i \in Of("APPROVED")' : events'[i].rev # cmd'[q].rev
    BY <1>1, <1>5, <1>6 DEF StoreInv, OwnerInv, Of
  <2> QED
    BY <2>1, <2>2, <2>3 DEF OwnerInv
<1> QED
  BY <1>4, <1>9

LEMMA WriteOwner ==
  ASSUME StoreInv, NEW p \in Procs, Write(p)
  PROVE  /\ Named'
         /\ RevisionApprovedOnce'
         /\ OwnerInv'
<1>1. /\ pc \in [Procs -> Phases] /\ cmd \in [Procs -> Command]
      /\ events \in Seq(Event) /\ CommandFits(cmd[p], "write") /\ pc[p] = "write"
  BY DEF StoreInv, TypeInv, TypeOK, Write
<1>2. Entry(p) \in Event /\ events' = Append(events, Entry(p)) /\ UNCHANGED stored
  BY <1>1, EntryIsEvent DEF StoreInv, Write
<1>3. /\ DOMAIN events' = DOMAIN events \cup {Len(events) + 1}
      /\ Len(events) + 1 \notin DOMAIN events
      /\ \A i \in DOMAIN events : events'[i] = events[i]
      /\ events'[Len(events) + 1] = Entry(p)
  BY <1>1, <1>2
<1>4. \A q \in Procs \ {p} : pc'[q] = pc[q] /\ cmd'[q] = cmd[q]
  BY <1>1 DEF Write, Goto
<1>5. ~Owns(p)'
  BY <1>1 DEF Write, Goto, Owns, Command
<1>6. \A q \in Procs : Owns(q)' => /\ q # p /\ Owns(q)
                                   /\ cmd'[q] = cmd[q]
                                   /\ HasContract(cmd[q].rev, cmd[q].hash, cmd[q].guard)
  BY <1>4, <1>5 DEF Owns, StoreInv, OwnerInv
<1>7. CASE cmd[p].stage # "APPROVED"
  <2>1. Of("APPROVED")' = Of("APPROVED")
    BY <1>3, <1>7 DEF Of, Entry
  <2>2. \A i \in Of("APPROVED") : events'[i] = events[i]
    BY <1>3 DEF Of
  <2>3. Named' /\ RevisionApprovedOnce'
    BY <1>2, <2>1, <2>2, ApprovalsStay
  <2>4. OwnerInv'
    <3>1. \A q \in Procs : Owns(q)' => HasContract(cmd[q].rev, cmd[q].hash, cmd[q].guard)'
      BY <1>2, <1>6 DEF HasContract
    <3>2. \A q, w \in Procs : Owns(q)' /\ Owns(w)' /\ cmd'[q].rev = cmd'[w].rev => q = w
      BY <1>6 DEF StoreInv, OwnerInv
    <3>3. \A q \in Procs : Owns(q)' =>
            \A i \in Of("APPROVED")' : events'[i].rev # cmd'[q].rev
      BY <1>6, <2>1, <2>2 DEF StoreInv, OwnerInv
    <3> QED
      BY <3>1, <3>2, <3>3 DEF OwnerInv
  <2> QED
    BY <2>3, <2>4
<1>8. CASE cmd[p].stage = "APPROVED"
  <2> DEFINE n == Len(events) + 1
  <2>1. Of("APPROVED")' = Of("APPROVED") \cup {n}
    BY <1>3, <1>8 DEF Of, Entry
  <2>2. /\ events'[n].rev = cmd[p].rev /\ events'[n].hash = cmd[p].hash
        /\ events'[n].guard = cmd[p].guard
    BY <1>3, <1>8 DEF Entry
  <2>3. \A i \in Of("APPROVED") : events'[i] = events[i]
    BY <1>3 DEF Of
  <2>4. Owns(p)
    BY <1>1, <1>8 DEF Owns
  <2>5. HasContract(cmd[p].rev, cmd[p].hash, cmd[p].guard)
    BY <2>4 DEF StoreInv, OwnerInv
  <2>6. \A i \in Of("APPROVED") : events[i].rev # cmd[p].rev
    BY <2>4 DEF StoreInv, OwnerInv
  <2> HIDE DEF n
  <2>7. Named'
    <3>1. \A i \in Of("APPROVED") : HasContract(events[i].rev, events[i].hash, events[i].guard)
      BY DEF StoreInv, Named
    <3>2. \A i \in Of("APPROVED")' :
            HasContract(events'[i].rev, events'[i].hash, events'[i].guard)
      BY <2>1, <2>2, <2>3, <2>5, <3>1
    <3> QED
      BY <1>2, <3>2 DEF Named, HasContract
  <2>8. RevisionApprovedOnce'
    <3>1. \A i, j \in Of("APPROVED") : events[i].rev = events[j].rev => i = j
      BY DEF StoreInv, RevisionApprovedOnce
    <3>2. \A i, j \in Of("APPROVED")' : events'[i].rev = events'[j].rev => i = j
      BY <2>1, <2>2, <2>3, <2>6, <3>1
    <3> QED
      BY <3>2 DEF RevisionApprovedOnce
  <2>9. OwnerInv'
    <3>1. \A q \in Procs : Owns(q)' => cmd[q].rev # cmd[p].rev
      BY <1>6, <2>4 DEF StoreInv, OwnerInv
    <3>2. \A q \in Procs : Owns(q)' =>
            \A i \in Of("APPROVED")' : events'[i].rev # cmd'[q].rev
      BY <1>6, <2>1, <2>2, <2>3, <3>1 DEF StoreInv, OwnerInv
    <3>3. \A q, w \in Procs : Owns(q)' /\ Owns(w)' /\ cmd'[q].rev = cmd'[w].rev => q = w
      BY <1>6 DEF StoreInv, OwnerInv
    <3>4. \A q \in Procs : Owns(q)' => HasContract(cmd[q].rev, cmd[q].hash, cmd[q].guard)'
      BY <1>2, <1>6 DEF HasContract
    <3> QED
      BY <3>2, <3>3, <3>4 DEF OwnerInv
  <2> QED
    BY <2>7, <2>8, <2>9
<1> QED
  BY <1>7, <1>8

LEMMA NextStoreInv == StoreInv /\ [Next]_vars => StoreInv'
<1> SUFFICES ASSUME StoreInv, [Next]_vars PROVE StoreInv'
  OBVIOUS
<1> DEFINE Goal == Named /\ RevisionApprovedOnce /\ OwnerInv
<1>1. TypeInv'
  BY NextType DEF StoreInv
<1>2. cmd \in [Procs -> Command]
  BY DEF StoreInv, TypeInv, TypeOK
<1>3. ASSUME NEW p \in Procs,
             \/ BeginApprove(p) \/ BeginInvalidate(p) \/ Acquire(p) \/ NotAcquired(p)
             \/ Precheck(p) \/ Idempotency(p)
      PROVE  Goal'
  <2>1. \A q \in Procs \ {p} : cmd'[q] = cmd[q]
    BY <1>2, <1>3
    DEF BeginApprove, BeginInvalidate, Acquire, NotAcquired, Precheck, Idempotency,
        Exit
  <2>2. UNCHANGED <<events, stored>>
    BY <1>3
    DEF BeginApprove, BeginInvalidate, Acquire, NotAcquired, Precheck, Idempotency,
        ledger
  <2>3. \E phase \in {"idle", "lock", "precheck", "idempotency", "claim", "release"} :
          Goto(p, phase)
    BY <1>3
    DEF BeginApprove, BeginInvalidate, Acquire, NotAcquired, Precheck, Idempotency,
        Exit
  <2> QED
    BY <2>1, <2>2, <2>3, Disowning
<1>4. ASSUME NEW p \in Procs,
             \/ ContractExists(p) \/ Unreadable(p) \/ Fail(p)
             \/ Postcheck(p) \/ Release(p) \/ Crash(p)
      PROVE  Goal'
  <2>1. \A q \in Procs \ {p} : cmd'[q] = cmd[q]
    BY <1>2, <1>4
    DEF ContractExists, Unreadable, Fail, Postcheck, Release, Crash, Exit
  <2>2. UNCHANGED events /\ stored \subseteq stored'
    BY <1>4
    DEF ContractExists, Unreadable, Fail, Postcheck, Release, Crash, Interrupted,
        ledger
  <2>3. \E phase \in {"idle", "release"} : Goto(p, phase)
    BY <1>4 DEF ContractExists, Unreadable, Fail, Postcheck, Release, Crash, Exit
  <2> QED
    BY <2>1, <2>2, <2>3, Disowning
<1>5. ASSUME UNCHANGED <<events, stored, pc, cmd>> PROVE Goal'
  BY <1>5
  DEF StoreInv, Named, RevisionApprovedOnce, OwnerInv,
      Of, Owns, HasContract
<1>6. ASSUME BreakLock PROVE Goal'
  BY <1>5, <1>6 DEF BreakLock, ledger, local
<1>7. ASSUME UNCHANGED vars PROVE Goal'
  BY <1>5, <1>7 DEF vars, ledger, local
<1> QED
  BY <1>1, <1>3, <1>4, <1>6, <1>7, ClaimOwner, StoreOwner, WriteOwner
  DEF Next, StoreInv

\* Every approval names a contract stored before it, for the same hash and
\* guardrails, with or without the lock.
THEOREM ApprovalsHaveContracts == Spec => []ApprovalNamesStoredContract
<1>1. StoreInv => ApprovalNamesStoredContract
  BY DEF StoreInv, Named, HasContract, ApprovalNamesStoredContract, Approvals
<1> QED
  BY <1>1, InitStoreInv, NextStoreInv, PTL DEF Spec

\* No revision is approved twice, with or without the lock.
THEOREM ApprovedOnce == Spec => []RevisionApprovedOnce
<1>1. StoreInv => RevisionApprovedOnce
  BY DEF StoreInv
<1> QED
  BY <1>1, InitStoreInv, NextStoreInv, PTL DEF Spec

-----------------------------------------------------------------------------
(* What the lock protects: a ledger that can be read, and the approval in   *)
(* force.                                                                  *)

\* With the lock, a command that is about to write has just read the ledger, and
\* an approval is written only where none is in force.
Unapproved(p) ==
  /\ pc[p] \in {"claim", "read", "write", "contract"}
  /\ cmd[p].stage \in {"CREATED", "APPROVED"}
Holding(p) ==
  /\ pc[p] = "write" => readable
  /\ pc[p] = "idempotency" /\ Approving(p) => MayApprove(p)
  /\ Unapproved(p) => Effective = {}

LockInv ==
  /\ SeqInv
  /\ ~overlap => \A p \in Procs : Holding(p)

LEMMA InitLockInv == Init => LockInv
<1> SUFFICES ASSUME Init PROVE LockInv
  OBVIOUS
<1>1. \A p \in Procs : pc[p] = "idle"
  BY DEF Init
<1> QED
  BY <1>1, InitSeqInv DEF LockInv, Holding, Unapproved

\* With contiguous numbers, replay order is the order of the file.
LEMMA FileOrder ==
  ASSUME TypeInv, SeqContiguous, ~overlap
  PROVE  /\ \A i, j \in DOMAIN events : Before(i, j) <=> i < j
         /\ \A i, j \in LastOf("APPROVED") : i = j
<1>1. DOMAIN events \subseteq Nat
  BY DEF TypeInv, TypeOK
<1>2. \A i, j \in DOMAIN events : Before(i, j) <=> i < j
  BY <1>1 DEF SeqContiguous, Before
<1>3. ASSUME NEW i \in LastOf("APPROVED"), NEW j \in LastOf("APPROVED") PROVE i = j
  <2>1. i \in DOMAIN events /\ j \in DOMAIN events
    BY DEF LastOf, Of
  <2>2. i # j => Before(i, j) /\ Before(j, i)
    BY DEF LastOf
  <2> QED
    BY <1>1, <1>2, <2>1, <2>2
<1> QED
  BY <1>2, <1>3

\* An event that approves nothing leaves the approval in force or withdraws it.
LEMMA NothingApproved ==
  ASSUME SeqInv, SeqInv', ~overlap, ~overlap', NEW p \in Procs, Write(p),
         cmd[p].stage # "APPROVED"
  PROVE  /\ Effective' \subseteq Effective
         /\ Effective' # {} => Effective' = Effective
         /\ cmd[p].stage = "CREATED" => Effective' = Effective
<1>1. /\ events \in Seq(Event)
      /\ events' = Append(events, Entry(p))
      /\ Entry(p) \in Event
      /\ Entry(p).type = cmd[p].stage
  BY EntryIsEvent DEF SeqInv, TypeInv, TypeOK, Write, Entry
<1> DEFINE n == Len(events) + 1
<1>2. /\ DOMAIN events' = DOMAIN events \cup {n}
      /\ n \notin DOMAIN events
      /\ \A i \in DOMAIN events : events'[i] = events[i]
      /\ events'[n].type = cmd[p].stage
  BY <1>1
<1> HIDE DEF n
<1>3. Of("APPROVED")' = Of("APPROVED")
  BY <1>2 DEF Of
<1>4. /\ \A i, j \in DOMAIN events : Before(i, j) <=> i < j
      /\ \A i, j \in LastOf("APPROVED") : i = j
  BY FileOrder DEF SeqInv
<1>5. /\ (\A i, j \in DOMAIN events : Before(i, j) <=> i < j)'
      /\ (\A i, j \in LastOf("APPROVED") : i = j)'
  BY FileOrder, PTL DEF SeqInv
<1>6. LastOf("APPROVED")' = LastOf("APPROVED")
  BY <1>2, <1>3, <1>4, <1>5 DEF LastOf, Of
<1>7. ASSUME NEW i \in LastOf("APPROVED"), Withdrawn(i) PROVE Withdrawn(i)'
  <2>1. PICK j \in Of("INVALIDATED") \cup Of("SUPERSEDED") :
          Before(i, j) /\ events[j].rev = events[i].rev
    BY <1>7 DEF Withdrawn
  <2>2. i \in DOMAIN events /\ j \in DOMAIN events
    BY DEF LastOf, Of
  <2>3. j \in (Of("INVALIDATED") \cup Of("SUPERSEDED"))'
    BY <1>2, <2>2 DEF Of
  <2>4. Before(i, j)'
    BY <1>2, <1>4, <1>5, <2>1, <2>2
  <2>5. events'[j].rev = events'[i].rev
    BY <1>2, <2>1, <2>2
  <2> QED
    BY <2>3, <2>4, <2>5 DEF Withdrawn
<1>8. ASSUME NEW i \in LastOf("APPROVED"), Withdrawn(i)', cmd[p].stage = "CREATED"
      PROVE  Withdrawn(i)
  <2>1. PICK j \in (Of("INVALIDATED") \cup Of("SUPERSEDED"))' :
          Before(i, j)' /\ events'[j].rev = events'[i].rev
    BY <1>8 DEF Withdrawn
  <2>2. i \in DOMAIN events /\ j \in DOMAIN events
    BY <1>2, <1>8 DEF LastOf, Of
  <2>3. j \in Of("INVALIDATED") \cup Of("SUPERSEDED")
    BY <1>2, <2>2 DEF Of
  <2>4. Before(i, j)
    BY <1>2, <1>4, <1>5, <2>1, <2>2
  <2> QED
    BY <1>2, <2>1, <2>2, <2>3, <2>4 DEF Withdrawn
<1>9. \A i \in LastOf("APPROVED") : events'[i] = events[i]
  BY <1>2 DEF LastOf, Of
<1>10. Effective' \subseteq Effective
  BY <1>6, <1>7, <1>9 DEF Effective
<1>11. \A d, e \in Effective : d = e
  BY <1>4 DEF Effective
<1>12. cmd[p].stage = "CREATED" => Effective \subseteq Effective'
  BY <1>6, <1>8, <1>9 DEF Effective
<1> QED
  BY <1>10, <1>11, <1>12

LEMMA NextLockInv == LockInv /\ [Next]_vars => LockInv'
<1> SUFFICES ASSUME LockInv, [Next]_vars PROVE LockInv'
  OBVIOUS
<1>1. SeqInv /\ SeqInv' /\ TypeInv /\ TypeInv'
  BY NextSeqInv DEF LockInv, SeqInv
<1> SUFFICES ASSUME ~overlap' PROVE \A q \in Procs : Holding(q)'
  BY <1>1 DEF LockInv
<1>2. /\ pc \in [Procs -> Phases] /\ cmd \in [Procs -> Command]
      /\ \A q \in Procs : CommandFits(cmd[q], pc[q])
  BY <1>1 DEF TypeInv, TypeOK
<1>3. ~overlap
  <2>1. overlap' = overlap \/ (overlap' = (overlap \/ Live(lock)))
    BY DEF Next, vars, history, BeginApprove, BeginInvalidate, Acquire, NotAcquired,
           Precheck, Idempotency, Claim, ReadSeq, Write, StoreContract,
           ContractExists, Unreadable, Fail, Postcheck, Release, Crash, BreakLock
  <2> QED
    BY <2>1
<1>4. \A q \in Procs : Holding(q)
  BY <1>3 DEF LockInv
<1>e. UNCHANGED events => Effective' = Effective
  BY DEF Effective, LastOf, Of, Before, Withdrawn
\* a step that leaves the ledger alone and gives nobody anything new to keep
<1>5. ASSUME NEW p \in Procs,
             NEW phase \in {"idle", "lock", "precheck", "postcheck", "release"},
             Goto(p, phase), \A q \in Procs \ {p} : cmd'[q] = cmd[q],
             UNCHANGED <<events, readable>>
      PROVE  \A q \in Procs : Holding(q)'
  BY <1>2, <1>4, <1>5, <1>e
  DEF Goto, Holding, Unapproved, Approving, MayApprove, Covers
\* a step of the holder: nobody else keeps anything
<1>6. ASSUME NEW p \in Procs, Live(p), NEW phase, Goto(p, phase), Holding(p)'
      PROVE  \A q \in Procs : Holding(q)'
  <2>1. \A q \in Procs \ {p} : ~Live(q) /\ pc'[q] = pc[q]
    BY <1>1, <1>2, <1>3, <1>6 DEF SeqInv, OneHolder, Goto
  <2> QED
    BY <1>6, <2>1 DEF Live, Critical, Holding, Unapproved
<1>7. ASSUME NEW p \in Procs, Precheck(p) PROVE \A q \in Procs : Holding(q)'
  <2>1. CASE Exit(p, "release")
    <3>1. \A q \in Procs \ {p} : cmd'[q] = cmd[q]
      BY <1>2, <2>1 DEF Exit
    <3> QED
      BY <1>5, <1>7, <2>1, <3>1 DEF Precheck, Exit, ledger
  <2>2. CASE /\ IF Approving(p) THEN MayApprove(p) ELSE TRUE
             /\ Goto(p, "idempotency") /\ UNCHANGED cmd
    <3>1. pc'[p] = "idempotency" /\ UNCHANGED events
      BY <1>2, <1>7, <2>2 DEF Precheck, Goto, ledger
    <3>2. Holding(p)'
      BY <1>e, <2>2, <3>1 DEF Holding, Unapproved, Approving, MayApprove, Covers
    <3> QED
      BY <1>6, <1>7, <2>2, <3>2 DEF Precheck, Live, Critical
  <2> QED
    BY <1>7, <2>1, <2>2 DEF Precheck
<1>8. ASSUME NEW p \in Procs, Idempotency(p) PROVE \A q \in Procs : Holding(q)'
  <2>1. CASE Exit(p, "release")
    <3>1. \A q \in Procs \ {p} : cmd'[q] = cmd[q]
      BY <1>2, <2>1 DEF Exit
    <3> QED
      BY <1>5, <1>8, <2>1, <3>1 DEF Idempotency, Exit, ledger
  <2>2. CASE ~AlreadyApplied(p) /\ Goto(p, "claim") /\ UNCHANGED cmd
    <3>1. pc[p] = "idempotency" /\ pc'[p] = "claim" /\ UNCHANGED events
      BY <1>2, <1>8, <2>2 DEF Idempotency, Goto, ledger
    <3>2. cmd[p].stage \in {"CREATED", "APPROVED"} => Approving(p)
      BY <1>2 DEF CommandFits, Approving
    <3>3. Approving(p) => Effective = {}
      BY <1>4, <2>2, <3>1 DEF Holding, MayApprove, AlreadyApplied
    <3>4. Holding(p)'
      BY <1>e, <2>2, <3>1, <3>2, <3>3 DEF Holding, Unapproved
    <3> QED
      BY <1>6, <2>2, <3>1, <3>4 DEF Live, Critical
  <2> QED
    BY <1>8, <2>1, <2>2 DEF Idempotency
<1>9. ASSUME NEW p \in Procs, Claim(p) \/ ReadSeq(p) \/ StoreContract(p)
      PROVE  \A q \in Procs : Holding(q)'
  <2>1. cmd'[p].stage = cmd[p].stage
    <3>1. CASE Claim(p)
      <4>1. PICK r \in Nat \ {0}, h \in Hashes :
              cmd' = [cmd EXCEPT ![p] = [cmd[p] EXCEPT !.rev = r, !.prior = h]]
        BY <1>1, <3>1, Claimed
      <4> QED
        BY <1>2, <4>1 DEF Command
    <3>2. CASE ReadSeq(p)
      BY <1>2, <3>2 DEF ReadSeq, Command
    <3>3. CASE StoreContract(p)
      BY <3>3 DEF StoreContract
    <3> QED
      BY <1>9, <3>1, <3>2, <3>3
  <2>2. PICK phase \in {"read", "write"} :
          Goto(p, phase) /\ (phase = "write" => readable')
    BY <1>9 DEF Claim, ReadSeq, StoreContract, CanRead, ledger
  <2>3. pc[p] \in {"claim", "read", "contract"} /\ UNCHANGED events
    BY <1>9 DEF Claim, ReadSeq, StoreContract, ledger
  <2>4. pc'[p] = phase
    BY <1>2, <2>2 DEF Goto
  <2>5. Holding(p)'
    BY <1>4, <1>e, <2>1, <2>2, <2>3, <2>4 DEF Holding, Unapproved
  <2> QED
    BY <1>6, <2>2, <2>3, <2>5 DEF Live, Critical
<1>10. ASSUME NEW p \in Procs, Write(p) PROVE \A q \in Procs : Holding(q)'
  <2>1. PICK phase \in {"contract", "read", "postcheck"} : Goto(p, phase)
    BY <1>10 DEF Write
  <2>2. pc[p] = "write" /\ pc'[p] = phase
    BY <1>2, <1>10, <2>1 DEF Write, Goto
  <2>3. Unapproved(p)' => cmd[p].stage = "CREATED"
    BY <1>2, <1>10, <2>2 DEF Write, Unapproved, Goto, Command
  <2>4. Unapproved(p)' => Effective' = {}
    <3>1. cmd[p].stage = "CREATED" => Effective = {}
      BY <1>4, <2>2 DEF Holding, Unapproved
    <3>2. cmd[p].stage = "CREATED" => Effective' = Effective
      BY <1>1, <1>3, <1>10, NothingApproved
    <3> QED
      BY <2>3, <3>1, <3>2
  <2>5. Holding(p)'
    BY <2>2, <2>4 DEF Holding
  <2> QED
    BY <1>6, <2>1, <2>2, <2>5 DEF Live, Critical
<1>11. ASSUME NEW p \in Procs,
              \/ BeginApprove(p) \/ BeginInvalidate(p) \/ Acquire(p) \/ NotAcquired(p)
              \/ ContractExists(p) \/ Unreadable(p) \/ Postcheck(p) \/ Release(p)
       PROVE  \A q \in Procs : Holding(q)'
  <2>1. \A q \in Procs \ {p} : cmd'[q] = cmd[q]
    BY <1>2, <1>11
    DEF BeginApprove, BeginInvalidate, Acquire, NotAcquired, ContractExists,
        Unreadable, Postcheck, Release, Exit
  <2>2. UNCHANGED <<events, readable>>
    BY <1>11
    DEF BeginApprove, BeginInvalidate, Acquire, NotAcquired, ContractExists,
        Unreadable, Postcheck, Release, ledger
  <2>3. \E phase \in {"idle", "lock", "precheck", "release"} : Goto(p, phase)
    BY <1>11
    DEF BeginApprove, BeginInvalidate, Acquire, NotAcquired, ContractExists,
        Unreadable, Postcheck, Release, Exit
  <2> QED
    BY <1>5, <2>1, <2>2, <2>3
\* a write cut short: only the holder was about to write
<1>12. ASSUME NEW p \in Procs, Fail(p) \/ Crash(p)
       PROVE  \A q \in Procs : Holding(q)'
  <2>1. PICK phase \in {"idle", "release"} : Exit(p, phase)
    BY <1>12 DEF Fail, Crash
  <2>2. UNCHANGED events
    BY <1>12 DEF Fail, Crash, Interrupted, ledger
  <2>3. CASE Live(p)
    <3>1. pc'[p] = phase
      BY <1>2, <2>1 DEF Exit, Goto
    <3>2. Holding(p)'
      BY <3>1 DEF Holding, Unapproved
    <3> QED
      BY <1>6, <2>1, <2>3, <3>2 DEF Exit
  <2>4. CASE ~Live(p)
    <3>1. UNCHANGED readable
      BY <1>12, <2>4 DEF Fail, Crash, Interrupted, ledger, Live, Critical
    <3>2. \A q \in Procs \ {p} : cmd'[q] = cmd[q]
      BY <1>2, <2>1 DEF Exit
    <3> QED
      BY <1>5, <2>1, <2>2, <3>1, <3>2 DEF Exit
  <2> QED
    BY <2>3, <2>4
<1>13. ASSUME UNCHANGED <<events, readable, pc, cmd>>
       PROVE  \A q \in Procs : Holding(q)'
  BY <1>4, <1>e, <1>13 DEF Holding, Unapproved, Approving, MayApprove, Covers
<1>14. CASE BreakLock
  BY <1>13, <1>14 DEF BreakLock, local, ledger
<1>15. CASE UNCHANGED vars
  BY <1>13, <1>15 DEF vars, local, ledger
<1> QED
  BY <1>7, <1>8, <1>9, <1>10, <1>11, <1>12, <1>14, <1>15 DEF Next

\* Only an append changes the ledger's events.
LEMMA OnlyWriteAppends ==
  ASSUME [Next]_vars, events' # events
  PROVE  \E p \in Procs : Write(p)
  BY DEF Next, vars, ledger, local, BeginApprove, BeginInvalidate, Acquire, NotAcquired,
         Precheck, Idempotency, Claim, ReadSeq, StoreContract, ContractExists,
         Unreadable, Fail, Interrupted, Postcheck, Release, Crash, BreakLock

\* A ledger with a line cut short is written to no more, as long as no lock of a
\* live command was removed.
THEOREM CutShortStaysCut == Spec => UnreadableIsLeftAlone
<1>1. LockInv /\ [Next]_vars => [~overlap' /\ ~readable => events' = events]_vars
  <2> SUFFICES ASSUME LockInv, [Next]_vars, ~overlap', ~readable PROVE events' = events
    OBVIOUS
  <2>1. ASSUME NEW p \in Procs, Write(p) PROVE FALSE
    BY <2>1 DEF Write, history, LockInv, Holding
  <2> QED
    BY <2>1, OnlyWriteAppends
<1> QED
  BY <1>1, InitLockInv, NextLockInv, PTL DEF Spec, UnreadableIsLeftAlone

\* An approval never passes from one target to the next in one step.
THEOREM ApprovalsAreNotCarried == Spec => NeverCarriedForward
<1>1. LockInv /\ LockInv' /\ [Next]_vars
        => [~overlap' /\ Effective # {} /\ Effective' # {} => Effective' = Effective]_vars
  <2> SUFFICES ASSUME LockInv, LockInv', [Next]_vars, ~overlap',
                      Effective # {}, Effective' # {}
               PROVE  Effective' = Effective
    OBVIOUS
  <2>1. CASE events' = events
    BY <2>1 DEF Effective, LastOf, Of, Before, Withdrawn
  <2>2. CASE events' # events
    <3>1. PICK p \in Procs : Write(p)
      BY <2>2, OnlyWriteAppends
    <3>2. pc[p] = "write" /\ ~overlap
      BY <3>1 DEF Write, history
    <3>3. cmd[p].stage # "APPROVED"
      BY <3>2 DEF LockInv, Holding, Unapproved
    <3> QED
      BY <3>1, <3>2, <3>3, NothingApproved DEF LockInv
  <2> QED
    BY <2>1, <2>2
<1> QED
  BY <1>1, InitLockInv, NextLockInv, PTL DEF Spec, NeverCarriedForward

-----------------------------------------------------------------------------
(* Succession, and the contract of a revision reported as approved.        *)

Created(r) == \E i \in Of("CREATED") : events[i].rev = r
Approved(r) == \E i \in Of("APPROVED") : events[i].rev = r
Superseded(r) == \E i \in Of("SUPERSEDED") : events[i].rev = r

\* Every revision ever created was approved together with its succession, was
\* given up on the way, or is being approved.
Settled(r) ==
  \/ r \in torn
  \/ BeingApproved(r)
  \/ Approved(r) /\ (r > 1 => Superseded(r - 1))

\* What the ledger says of revisions, ...
Revisions ==
  /\ \A k \in Of("CREATED") : events[k].rev <= Len(events)
  /\ \A k \in Of("CREATED") : \A r \in 1..events[k].rev : Settled(r)
  /\ \A i \in LastOf("CREATED"), k \in Of("CREATED") : events[k].rev <= events[i].rev
  /\ \A i \in Of("APPROVED") : Created(events[i].rev)

\* ... and how far the approval of a command has come.
Progress(p) ==
  LET c == cmd[p] IN
  /\ pc[p] \notin Appending => c.rev = 0
  /\ pc[p] \in {"read", "write"} /\ c.stage = "CREATED" =>
       /\ c.rev <= Len(events) + 1
       /\ \A k \in Of("CREATED") : events[k].rev < c.rev
       /\ \A r \in 1..(c.rev - 1) : Settled(r)
  /\ pc[p] \in {"contract", "read", "write"} /\ c.stage = "APPROVED" => Created(c.rev)
  /\ \/ pc[p] \in {"read", "write"} /\ c.stage = "SUPERSEDED"
     \/ pc[p] = "postcheck" /\ Approving(p)
     => /\ Approved(c.rev)
        /\ \A i \in LastOf("APPROVED") : events[i].rev = c.rev
  /\ pc[p] = "postcheck" /\ Approving(p) /\ c.rev > 1 => Superseded(c.rev - 1)

KeptInv ==
  /\ SeqInv
  /\ ConfirmedContractKept
  /\ ~overlap => Revisions /\ \A p \in Procs : Progress(p)

LEMMA InitKeptInv == Init => KeptInv
<1> SUFFICES ASSUME Init PROVE KeptInv
  OBVIOUS
<1>1. /\ events = <<>> /\ confirmed = {}
      /\ \A p \in Procs : pc[p] = "idle" /\ cmd[p].rev = 0
  BY DEF Init, NoCommand
<1>2. \A type : Of(type) = {}
  BY <1>1 DEF Of
<1>3. Revisions
  BY <1>2 DEF Revisions, LastOf
<1>4. ConfirmedContractKept
  BY <1>1 DEF ConfirmedContractKept
<1>5. \A p \in Procs : Progress(p)
  BY <1>1 DEF Progress
<1> QED
  BY <1>3, <1>4, <1>5, InitSeqInv DEF KeptInv

\* The ledger of a step that appends at most.
Grows == \A i \in DOMAIN events : i \in DOMAIN events' /\ events'[i] = events[i]

LEMMA GrowthKeeps ==
  ASSUME Grows, NEW r
  PROVE  /\ Created(r) => Created(r)'
         /\ Approved(r) => Approved(r)'
         /\ Superseded(r) => Superseded(r)'
  BY DEF Grows, Created, Approved, Superseded, Of

\* A revision stays settled unless the command that is approving it leaves it.
LEMMA SettledStays ==
  ASSUME Grows, torn \subseteq torn', NEW p \in Procs,
         \A q \in Procs \ {p} : pc'[q] = pc[q] /\ cmd'[q] = cmd[q],
         NEW r, Settled(r),
         Live(p) /\ Approving(p) /\ cmd[p].rev = r => Settled(r)'
  PROVE  Settled(r)'
<1>1. CASE BeingApproved(r)
  <2>1. PICK q \in Procs : Live(q) /\ Approving(q) /\ cmd[q].rev = r
    BY <1>1 DEF BeingApproved
  <2>2. CASE q # p
    BY <2>1, <2>2 DEF Settled, BeingApproved, Live, Approving
  <2> QED
    BY <2>1, <2>2
<1> QED
  BY <1>1, GrowthKeeps DEF Settled

LEMMA EventRevisions == TypeInv => \A i \in DOMAIN events : events[i].rev \in Nat \ {0}
<1> SUFFICES ASSUME TypeInv, NEW i \in DOMAIN events PROVE events[i].rev \in Nat \ {0}
  OBVIOUS
<1>1. events[i] \in Event
  BY DEF TypeInv, TypeOK
<1> QED
  BY <1>1 DEF Event

\* A step that appends nothing and leaves what the ledger names settled.
InLedger(r) == \E k \in Of("CREATED") : r \in 1..events[k].rev

LEMMA RevisionsStay ==
  ASSUME TypeInv, Revisions, UNCHANGED events,
         \A r \in Nat \ {0} : InLedger(r) /\ Settled(r) => Settled(r)'
  PROVE  Revisions'
<1>1. \A type : Of(type)' = Of(type) /\ LastOf(type)' = LastOf(type)
  BY DEF Of, LastOf, Before
<1>2. \A k \in Of("CREATED") : \A r \in 1..events[k].rev : r \in Nat \ {0} /\ InLedger(r)
  BY EventRevisions DEF InLedger, Of
<1>3. ASSUME NEW k \in Of("CREATED"), NEW r \in 1..events[k].rev PROVE Settled(r)'
  <2>1. Settled(r)
    BY DEF Revisions
  <2>2. r \in Nat \ {0} /\ InLedger(r)
    BY <1>2
  <2> QED
    BY <2>1, <2>2
<1>4. ASSUME NEW i \in Of("APPROVED") PROVE Created(events[i].rev)'
  <2>1. PICK k \in Of("CREATED") : events[k].rev = events[i].rev
    BY DEF Revisions, Created
  <2>2. k \in Of("CREATED")' /\ events'[k].rev = events[i].rev
    BY <2>1 DEF Of
  <2> QED
    BY <2>2 DEF Created
<1>5. /\ Of("CREATED")' = Of("CREATED") /\ LastOf("CREATED")' = LastOf("CREATED")
      /\ Of("APPROVED")' = Of("APPROVED")
  BY <1>1
<1>6. (\A k \in Of("CREATED") : \A r \in 1..events[k].rev : Settled(r))'
  BY <1>3, <1>5
<1>7. (\A i \in Of("APPROVED") : Created(events[i].rev))'
  BY <1>4, <1>5
<1> QED
  BY <1>5, <1>6, <1>7 DEF Revisions

\* Progress depends on the ledger, on what is settled and on the command.
LEMMA ProgressStays ==
  ASSUME TypeInv, NEW q \in Procs, Progress(q), UNCHANGED events,
         pc'[q] = pc[q], cmd'[q] = cmd[q], \A r \in Nat \ {0} : Settled(r) => Settled(r)'
  PROVE  Progress(q)'
<1>1. \A type : Of(type)' = Of(type) /\ LastOf(type)' = LastOf(type)
  BY DEF Of, LastOf, Before
<1>2. cmd[q].rev \in Nat
  <2>1. cmd[q] \in Command
    BY DEF TypeInv, TypeOK
  <2> QED
    BY <2>1 DEF Command
<1>3. \A r \in 1..(cmd[q].rev - 1) : r \in Nat \ {0}
  BY <1>2
<1> QED
  BY <1>1, <1>3 DEF Progress, Created, Approved, Superseded, Approving

\* The others of a holder hold nothing.
LEMMA OthersIdle ==
  ASSUME TypeInv, OneHolder, ~overlap, \A q \in Procs : Progress(q),
         NEW p \in Procs, Live(p),
         \A q \in Procs \ {p} : pc'[q] = pc[q] /\ cmd'[q] = cmd[q]
  PROVE  \A q \in Procs \ {p} : Progress(q)'
<1>1. \A q \in Procs \ {p} : ~Live(q)
  BY DEF OneHolder
<1>2. \A q \in Procs \ {p} : pc[q] \notin Appending
  BY <1>1 DEF Live, Critical, Appending
<1> QED
  BY <1>2 DEF Progress, Appending

\* The command stays, or comes to be, one that has claimed no revision.
LEMMA NothingClaimed ==
  ASSUME TypeInv, OneHolder, ~overlap, Revisions, \A q \in Procs : Progress(q),
         NEW p \in Procs, UNCHANGED events, torn \subseteq torn',
         \A q \in Procs \ {p} : pc'[q] = pc[q] /\ cmd'[q] = cmd[q],
         pc'[p] \notin Appending, cmd'[p].rev = 0,
         pc[p] \in Appending =>
           \A r \in Nat \ {0} : Approving(p) /\ cmd[p].rev = r /\ InLedger(r) => Settled(r)'
  PROVE  Revisions' /\ \A q \in Procs : Progress(q)'
<1>1. Grows
  BY DEF Grows
<1>2. Progress(p)'
  BY DEF Progress, Appending
<1>3. ASSUME NEW r \in Nat \ {0}, Settled(r), InLedger(r) PROVE Settled(r)'
  <2>1. Approving(p) /\ cmd[p].rev = r => Settled(r)'
    BY <1>3 DEF Progress
  <2> QED
    BY <1>1, <1>3, <2>1, SettledStays
<1>4. Revisions'
  BY <1>3, RevisionsStay
<1>5. CASE Live(p)
  BY <1>2, <1>4, <1>5, OthersIdle
<1>6. CASE ~Live(p)
  <2>1. ASSUME NEW r \in Nat \ {0}, Settled(r) PROVE Settled(r)'
    BY <1>1, <1>6, <2>1, SettledStays
  <2> QED
    BY <1>2, <1>4, <2>1, ProgressStays
<1> QED
  BY <1>5, <1>6

\* A holder goes on with the revision it has, and appends nothing.
LEMMA GoesOn ==
  ASSUME TypeInv, OneHolder, ~overlap, Revisions, \A q \in Procs : Progress(q),
         NEW p \in Procs, UNCHANGED <<events, torn>>, Live(p), Live(p)',
         \A q \in Procs \ {p} : pc'[q] = pc[q] /\ cmd'[q] = cmd[q],
         cmd[p].rev # 0 => cmd'[p].rev = cmd[p].rev /\ cmd'[p].kind = cmd[p].kind
  PROVE  /\ Revisions'
         /\ \A q \in Procs \ {p} : Progress(q)'
         /\ \A r \in Nat \ {0} : Settled(r) => Settled(r)'
<1>1. Grows
  BY DEF Grows
<1>2. ASSUME NEW r \in Nat \ {0}, Settled(r) PROVE Settled(r)'
  <2>1. Live(p) /\ Approving(p) /\ cmd[p].rev = r => Settled(r)'
    BY DEF Settled, BeingApproved, Approving
  <2> QED
    BY <1>1, <1>2, <2>1, SettledStays
<1> QED
  BY <1>2, RevisionsStay, OthersIdle

LEMMA ClaimKept ==
  ASSUME TypeInv, OneHolder, ~overlap, Revisions, \A q \in Procs : Progress(q),
         NEW p \in Procs, Claim(p)
  PROVE  Revisions' /\ \A q \in Procs : Progress(q)'
<1>1. /\ pc \in [Procs -> Phases] /\ cmd \in [Procs -> Command]
      /\ CommandFits(cmd[p], "claim") /\ pc[p] = "claim"
  BY DEF TypeInv, TypeOK, Claim
<1>2. PICK s \in Nat \ {0}, h \in Hashes :
        cmd' = [cmd EXCEPT ![p] = [cmd[p] EXCEPT !.rev = s, !.prior = h]]
  BY Claimed
<1>3. /\ cmd'[p].rev = s /\ cmd'[p].stage = cmd[p].stage /\ cmd'[p].kind = cmd[p].kind
      /\ \A q \in Procs \ {p} : pc'[q] = pc[q] /\ cmd'[q] = cmd[q]
      /\ pc'[p] = "read"
  <2>1. Goto(p, "read")
    BY DEF Claim
  <2> QED
    BY <1>1, <1>2, <2>1 DEF Command, Goto
<1>4. cmd[p].rev = 0 /\ UNCHANGED <<events, torn>>
  <2>1. cmd[p].rev = 0
    BY <1>1 DEF Progress, Appending
  <2> QED
    BY <2>1 DEF Claim, ledger, history
<1>5. /\ Revisions'
      /\ \A q \in Procs \ {p} : Progress(q)'
      /\ \A r \in Nat \ {0} : Settled(r) => Settled(r)'
  BY <1>1, <1>3, <1>4, GoesOn DEF Live, Critical
<1>6. cmd[p].stage \in {"CREATED", "INVALIDATED"}
  BY <1>1 DEF CommandFits, Appending
<1>7. ASSUME cmd[p].stage = "CREATED"
      PROVE  /\ s <= Len(events) + 1
             /\ \A k \in Of("CREATED") : events[k].rev < s
             /\ \A r \in 1..(s - 1) : Settled(r)
  <2>1. Approving(p)
    BY <1>1, <1>7 DEF CommandFits, Approving
  <2>2. PICK last \in Latest :
          cmd' = [cmd EXCEPT ![p].rev = last.rev + 1, ![p].prior = last.hash]
    BY <2>1 DEF Claim
  <2>3. s = last.rev + 1
    BY <1>1, <1>3, <2>2 DEF Command
  <2>4. Len(events) \in Nat
    BY DEF TypeInv, TypeOK
  <2>5. CASE Of("CREATED") = {}
    <3>1. last.rev = 0
      BY <2>5 DEF Latest
    <3> QED
      BY <2>3, <2>4, <2>5, <3>1
  <2>6. CASE Of("CREATED") # {}
    <3>1. PICK i \in LastOf("CREATED") : last = [rev |-> events[i].rev, hash |-> events[i].hash]
      BY <2>6 DEF Latest
    <3>2. i \in Of("CREATED") /\ s = events[i].rev + 1
      BY <2>3, <3>1 DEF LastOf
    <3>3. \A k \in Of("CREATED") : events[k].rev \in Nat \ {0}
      BY EventRevisions DEF Of
    <3>4. /\ events[i].rev <= Len(events)
          /\ \A k \in Of("CREATED") : events[k].rev <= events[i].rev
          /\ \A r \in 1..events[i].rev : Settled(r)
      BY <3>1, <3>2 DEF Revisions
    <3> QED
      BY <2>4, <3>2, <3>3, <3>4
  <2> QED
    BY <2>5, <2>6
<1>8. cmd[p].stage = "CREATED" => /\ s <= Len(events)' + 1
                                  /\ (\A k \in Of("CREATED") : events[k].rev < s)'
                                  /\ \A r \in 1..(s - 1) : Settled(r)'
  <2>1. Of("CREATED")' = Of("CREATED")
    BY <1>4 DEF Of
  <2>2. \A r \in 1..(s - 1) : r \in Nat \ {0}
    OBVIOUS
  <2> QED
    BY <1>4, <1>5, <1>7, <2>1, <2>2
<1>9. Progress(p)'
  BY <1>3, <1>6, <1>8 DEF Progress, Appending
<1> QED
  BY <1>5, <1>9

LEMMA ReadKept ==
  ASSUME TypeInv, OneHolder, ~overlap, Revisions, \A q \in Procs : Progress(q),
         NEW p \in Procs, ReadSeq(p) \/ StoreContract(p)
  PROVE  Revisions' /\ \A q \in Procs : Progress(q)'
<1>1. /\ pc \in [Procs -> Phases] /\ cmd \in [Procs -> Command]
      /\ CommandFits(cmd[p], pc[p])
  BY DEF TypeInv, TypeOK
<1>2. /\ cmd'[p].rev = cmd[p].rev /\ cmd'[p].kind = cmd[p].kind
      /\ cmd'[p].stage = cmd[p].stage
      /\ \A q \in Procs \ {p} : pc'[q] = pc[q] /\ cmd'[q] = cmd[q]
      /\ UNCHANGED <<events, torn>>
  BY <1>1 DEF ReadSeq, StoreContract, Goto, Command, ledger, history
<1>3. \/ pc[p] = "read" /\ pc'[p] = "write"
      \/ pc[p] = "contract" /\ pc'[p] = "read" /\ cmd[p].stage = "APPROVED"
  BY <1>1 DEF ReadSeq, StoreContract, Goto, CommandFits
<1>4. /\ Revisions'
      /\ \A q \in Procs \ {p} : Progress(q)'
      /\ \A r \in Nat \ {0} : Settled(r) => Settled(r)'
  BY <1>2, <1>3, GoesOn DEF Live, Critical
<1>5. /\ Of("CREATED")' = Of("CREATED") /\ LastOf("APPROVED")' = LastOf("APPROVED")
      /\ Of("APPROVED")' = Of("APPROVED")
  BY <1>2 DEF Of, LastOf, Before
<1>6. cmd[p].rev \in Nat /\ \A r \in 1..(cmd[p].rev - 1) : r \in Nat \ {0}
  BY <1>1 DEF Command
<1>7. Progress(p)'
  BY <1>2, <1>3, <1>4, <1>5, <1>6 DEF Progress, Appending, Created, Approved, Approving
<1> QED
  BY <1>4, <1>7

\* An append under the next number makes its event the last of its type.
LEMMA Appended ==
  ASSUME SeqInv, SeqInv', ~overlap, ~overlap', NEW p \in Procs, Write(p)
  PROVE  /\ Grows
         /\ Len(events') = Len(events) + 1 /\ Len(events) \in Nat
         /\ events'[Len(events) + 1] = Entry(p)
         /\ \A type \in Types :
              IF type = cmd[p].stage
                THEN /\ Of(type)' = Of(type) \cup {Len(events) + 1}
                     /\ LastOf(type)' \subseteq {Len(events) + 1}
                ELSE Of(type)' = Of(type) /\ LastOf(type)' = LastOf(type)
<1>1. /\ events \in Seq(Event)
      /\ events' = Append(events, Entry(p))
      /\ Entry(p) \in Event
      /\ Entry(p).type = cmd[p].stage
  BY EntryIsEvent DEF SeqInv, TypeInv, TypeOK, Write, Entry
<1>n. PICK n \in Nat \cap {Len(events) + 1} : TRUE
  BY <1>1
<1>2. /\ DOMAIN events' = DOMAIN events \cup {n}
      /\ n \notin DOMAIN events
      /\ \A i \in DOMAIN events : events'[i] = events[i] /\ i < n
      /\ events'[n] = Entry(p)
      /\ Len(events') = n /\ Len(events) \in Nat
  BY <1>1
<1>3. \A i, j \in DOMAIN events : Before(i, j) <=> i < j
  BY FileOrder DEF SeqInv
<1>4. (\A i, j \in DOMAIN events : Before(i, j) <=> i < j)'
  BY FileOrder, PTL DEF SeqInv
<1>5. ASSUME NEW type \in Types, type # cmd[p].stage
      PROVE  Of(type)' = Of(type) /\ LastOf(type)' = LastOf(type)
  <2>1. Of(type)' = Of(type)
    BY <1>1, <1>2, <1>5 DEF Of
  <2> QED
    BY <1>2, <1>3, <1>4, <2>1 DEF LastOf, Of
<1>6. ASSUME NEW type \in Types \cap {cmd[p].stage} PROVE Of(type)' = Of(type) \cup {n}
  BY <1>1, <1>2, <1>6 DEF Of
<1>7. ASSUME NEW type \in Types \cap {cmd[p].stage}, NEW i \in LastOf(type)' PROVE i = n
  <2>1. i \in DOMAIN events' /\ n \in DOMAIN events'
    BY <1>2, <1>7 DEF LastOf, Of
  <2>2. i # n => Before(n, i)'
    BY <1>6, <1>7 DEF LastOf
  <2>3. i # n => i < n /\ n < i
    BY <1>2, <1>4, <2>1, <2>2
  <2>4. i \in Nat /\ n \in Nat
    BY <1>1, <1>2, <2>1
  <2> QED
    BY <2>3, <2>4
<1>8. Grows
  BY <1>2 DEF Grows
<1> QED
  BY <1>2, <1>5, <1>6, <1>7, <1>8

LEMMA WriteKept ==
  ASSUME SeqInv, SeqInv', ~overlap, ~overlap', Revisions, \A q \in Procs : Progress(q),
         NEW p \in Procs, Write(p)
  PROVE  Revisions' /\ \A q \in Procs : Progress(q)'
<1>1. /\ pc \in [Procs -> Phases] /\ cmd \in [Procs -> Command]
      /\ CommandFits(cmd[p], "write") /\ pc[p] = "write" /\ TypeInv /\ OneHolder
      /\ Entry(p) \in Event
  BY EntryIsEvent DEF SeqInv, TypeInv, TypeOK, Write
<1>a. cmd[p].stage \in Types /\ cmd[p].rev \in Nat
  BY <1>1 DEF Command
<1>b. PICK stage \in Types \cap {cmd[p].stage}, rev \in Nat \cap {cmd[p].rev} : TRUE
  BY <1>a
<1> DEFINE n == Len(events) + 1
<1>2. /\ Grows /\ Len(events') = n /\ n \in Nat
      /\ events'[n] = Entry(p)
      /\ \A type \in Types :
           IF type = stage THEN /\ Of(type)' = Of(type) \cup {n}
                                  /\ LastOf(type)' \subseteq {n}
             ELSE Of(type)' = Of(type) /\ LastOf(type)' = LastOf(type)
  BY Appended
<1>3. /\ cmd'[p].rev = rev /\ cmd'[p].kind = cmd[p].kind
      /\ \A q \in Procs \ {p} : pc'[q] = pc[q] /\ cmd'[q] = cmd[q]
      /\ UNCHANGED torn
      /\ \/ stage = "CREATED" /\ cmd'[p].stage = "APPROVED" /\ pc'[p] = "contract"
         \/ stage = "APPROVED" /\ cmd'[p].stage = "SUPERSEDED" /\ pc'[p] = "read"
         \/ stage = "APPROVED" /\ rev <= 1 /\ pc'[p] = "postcheck"
         \/ stage = "SUPERSEDED" /\ pc'[p] = "postcheck"
         \/ stage = "INVALIDATED" /\ pc'[p] = "postcheck"
  BY <1>1 DEF Write, Goto, Command, HasPredecessor, history
<1>4. Live(p) /\ Live(p)' /\ rev \in Nat \ {0} /\ (Approving(p) <=> stage # "INVALIDATED")
  BY <1>1, <1>3 DEF Live, Critical, Command, CommandFits, Appending, Approving
<1>5. \A q \in Procs \ {p} : Progress(q)'
  BY <1>1, <1>3, <1>4, OthersIdle
<1>6. ASSUME NEW r \in Nat \ {0}, Settled(r) PROVE Settled(r)'
  <2>1. Live(p) /\ Approving(p) /\ cmd[p].rev = r => Settled(r)'
    BY <1>3, <1>4 DEF Settled, BeingApproved, Approving
  <2> QED
    BY <1>2, <1>3, <1>6, <2>1, SettledStays
<1>7. /\ \A k \in Of("CREATED") : events[k].rev \in Nat \ {0} /\ events'[k] = events[k]
      /\ \A i \in Of("APPROVED") : events'[i] = events[i]
  BY <1>2, EventRevisions, <1>1 DEF Grows, Of
<1>8. \A k \in Of("CREATED") : \A r \in 1..events[k].rev : Settled(r)'
  <2> SUFFICES ASSUME NEW k \in Of("CREATED"), NEW r \in 1..events[k].rev PROVE Settled(r)'
    OBVIOUS
  <2>1. r \in Nat \ {0} /\ Settled(r)
    BY <1>7 DEF Revisions
  <2> QED
    BY <1>6, <2>1
<1>9. \A i \in Of("APPROVED") : Created(events[i].rev)'
  <2> SUFFICES ASSUME NEW i \in Of("APPROVED") PROVE Created(events[i].rev)'
    OBVIOUS
  <2>1. PICK k \in Of("CREATED") : events[k].rev = events[i].rev
    BY DEF Revisions, Created
  <2>2. k \in Of("CREATED")' /\ events'[k] = events[k] /\ events'[i] = events[i]
    BY <1>2 DEF Grows, Of
  <2> QED
    BY <2>1, <2>2 DEF Created
<1>10. n = Len(events) + 1 /\ Len(events) \in Nat
  BY <1>1 DEF TypeInv, TypeOK
<1> HIDE DEF n
<1>11. CASE stage = "CREATED"
  <2>1. Of("CREATED")' = Of("CREATED") \cup {n} /\ LastOf("CREATED")' \subseteq {n}
        /\ Of("APPROVED")' = Of("APPROVED")
    BY <1>2, <1>11 DEF Types
  <2>2. events'[n].rev = rev
    BY <1>2, <1>11 DEF Entry
  <2>3. /\ rev <= n
        /\ \A k \in Of("CREATED") : events[k].rev < rev
        /\ \A r \in 1..(rev - 1) : Settled(r)
    BY <1>1, <1>10, <1>11 DEF Progress
  <2>4. \A r \in 1..rev : Settled(r)'
    <3>1. Settled(rev)'
      BY <1>3, <1>4, <1>11 DEF Settled, BeingApproved, Approving
    <3>2. ASSUME NEW r \in 1..(rev - 1) PROVE Settled(r)'
      BY <1>4, <1>6, <2>3
    <3> QED
      BY <1>4, <3>1, <3>2
  <2>5. Revisions'
    <3>1. \A k \in Of("CREATED")' : events'[k].rev <= Len(events')
      BY <1>2, <1>4, <1>7, <1>10, <2>1, <2>2, <2>3 DEF Revisions
    <3>2. \A k \in Of("CREATED")' : \A r \in 1..events'[k].rev : Settled(r)'
      BY <1>7, <1>8, <2>1, <2>2, <2>4
    <3>3. \A i \in LastOf("CREATED")', k \in Of("CREATED")' : events'[k].rev <= events'[i].rev
      BY <1>4, <1>7, <2>1, <2>2, <2>3
    <3>4. (\A i \in Of("APPROVED") : Created(events[i].rev))'
      BY <1>7, <1>9, <2>1
    <3> QED
      BY <3>1, <3>2, <3>3, <3>4 DEF Revisions
  <2>6. Created(rev)'
    BY <2>1, <2>2 DEF Created
  <2>7. Progress(p)'
    BY <1>3, <1>11, <2>6 DEF Progress, Appending
  <2> QED
    BY <1>5, <2>5, <2>7
<1>12. CASE stage # "CREATED"
  <2>1. Of("CREATED")' = Of("CREATED") /\ LastOf("CREATED")' = LastOf("CREATED")
    BY <1>2, <1>12 DEF Types
  <2>2. \A k \in Of("CREATED")' : events'[k].rev <= Len(events')
    BY <1>2, <1>7, <1>10, <2>1 DEF Revisions
  <2>3. \A k \in Of("CREATED")' : \A r \in 1..events'[k].rev : Settled(r)'
    BY <1>7, <1>8, <2>1
  <2>4. \A i \in LastOf("CREATED")', k \in Of("CREATED")' : events'[k].rev <= events'[i].rev
    BY <1>7, <2>1 DEF Revisions, LastOf
  <2>5. CASE stage = "APPROVED"
    <3>1. Of("APPROVED")' = Of("APPROVED") \cup {n} /\ LastOf("APPROVED")' \subseteq {n}
      BY <1>2, <2>5 DEF Types
    <3>2. events'[n].rev = rev
      BY <1>2, <2>5 DEF Entry
    <3>3. Created(rev)'
      BY <1>1, <1>2, <2>5, GrowthKeeps DEF Progress
    <3>4. Approved(rev)' /\ (\A i \in LastOf("APPROVED") : events[i].rev = rev)'
      BY <1>3, <3>1, <3>2 DEF Approved
    <3>5. Revisions'
      BY <1>7, <1>9, <2>2, <2>3, <2>4, <3>1, <3>2, <3>3 DEF Revisions
    <3>6. Progress(p)'
      BY <1>3, <1>4, <2>5, <3>4 DEF Progress, Appending
    <3> QED
      BY <1>5, <3>5, <3>6
  <2>6. CASE stage # "APPROVED"
    <3>1. Of("APPROVED")' = Of("APPROVED") /\ LastOf("APPROVED")' = LastOf("APPROVED")
      BY <1>2, <2>6 DEF Types
    <3>2. Revisions'
      BY <1>7, <1>9, <2>2, <2>3, <2>4, <3>1 DEF Revisions
    <3>3. CASE stage = "SUPERSEDED"
      <4>1. Of("SUPERSEDED")' = Of("SUPERSEDED") \cup {n}
        BY <1>2, <3>3 DEF Types
      <4>2. events'[n].rev = rev - 1
        BY <1>2, <3>3 DEF Entry
      <4>3. Superseded(rev - 1)'
        BY <4>1, <4>2 DEF Superseded
      <4>4. Approved(rev)' /\ \A i \in LastOf("APPROVED")' : events'[i].rev = rev
        <5>1. Approved(rev) /\ \A i \in LastOf("APPROVED") : events[i].rev = rev
          BY <1>1, <3>3 DEF Progress
        <5> QED
          BY <1>2, <1>7, <3>1, <5>1, GrowthKeeps DEF LastOf
      <4>5. Progress(p)'
        BY <1>3, <3>3, <4>3, <4>4 DEF Progress, Appending
      <4> QED
        BY <1>5, <3>2, <4>5
    <3>4. CASE stage = "INVALIDATED"
      <4>1. ~Approving(p)' /\ pc'[p] = "postcheck"
        BY <1>3, <1>4, <3>4 DEF Approving
      <4>2. Progress(p)'
        BY <4>1 DEF Progress, Appending
      <4> QED
        BY <1>5, <3>2, <4>2
    <3> QED
      BY <1>3, <1>12, <2>6, <3>3, <3>4
  <2> QED
    BY <2>5, <2>6
<1> QED
  BY <1>11, <1>12

\* A command that ends its approval half-way gives the revision up; one that ends
\* it after its last event has settled it.
LEMMA LeavingKept ==
  ASSUME TypeInv, OneHolder, ~overlap, Revisions, \A q \in Procs : Progress(q),
         NEW p \in Procs,
         ContractExists(p) \/ Unreadable(p) \/ Fail(p) \/ Postcheck(p) \/ Crash(p)
  PROVE  Revisions' /\ \A q \in Procs : Progress(q)'
<1>1. /\ pc \in [Procs -> Phases] /\ cmd \in [Procs -> Command]
      /\ CommandFits(cmd[p], pc[p])
  BY DEF TypeInv, TypeOK
<1>2. \E phase \in {"idle", "release"} : Exit(p, phase)
  BY DEF ContractExists, Unreadable, Fail, Postcheck, Crash
<1>3. /\ pc'[p] \notin Appending /\ cmd'[p].rev = 0
      /\ \A q \in Procs \ {p} : pc'[q] = pc[q] /\ cmd'[q] = cmd[q]
  BY <1>1, <1>2 DEF Exit, Goto, Appending, NoCommand
<1>4. UNCHANGED events /\ torn \subseteq torn'
      /\ (pc[p] # "postcheck" => torn' = torn \cup Unfinished(p))
  BY DEF ContractExists, Unreadable, Fail, Postcheck, Crash, Interrupted, ledger
<1>5. ASSUME pc[p] \in Appending, NEW r \in (Nat \ {0}) \cap {cmd[p].rev}, Approving(p),
             InLedger(r)
      PROVE  Settled(r)'
  <2>1. cmd[p].rev \in Nat /\ cmd[p].stage \in {"CREATED", "APPROVED", "SUPERSEDED"}
    BY <1>1, <1>5 DEF Command, CommandFits, Approving, Types
  <2>2. CASE pc[p] = "postcheck"
    <3>1. Approved(cmd[p].rev) /\ (cmd[p].rev > 1 => Superseded(cmd[p].rev - 1))
      BY <1>5, <2>2 DEF Progress
    <3>2. Approved(r)' /\ (r > 1 => Superseded(r - 1)')
      BY <1>4, <1>5, <3>1 DEF Approved, Superseded, Of
    <3> QED
      BY <3>2 DEF Settled
  <2>3. CASE pc[p] # "postcheck" /\ cmd[p].stage = "CREATED"
    <3>1. pc[p] \in {"read", "write"}
      BY <1>1, <1>5, <2>3 DEF Appending, CommandFits
    <3>2. \A k \in Of("CREATED") : events[k].rev < cmd[p].rev /\ events[k].rev \in Nat
      BY <2>3, <3>1, EventRevisions DEF Progress, Of
    <3> QED
      BY <1>5, <2>1, <3>2 DEF InLedger
  <2>4. CASE pc[p] # "postcheck" /\ cmd[p].stage # "CREATED"
    <3>1. Unfinished(p) = {r}
      BY <1>5, <2>1, <2>4 DEF Unfinished, Appending
    <3> QED
      BY <1>4, <2>4, <3>1 DEF Settled
  <2> QED
    BY <2>2, <2>3, <2>4
<1> QED
  BY <1>3, <1>4, <1>5, NothingClaimed

\* A step outside the phases of M4.
LEMMA EarlyKept ==
  ASSUME TypeInv, OneHolder, ~overlap, Revisions, \A q \in Procs : Progress(q),
         NEW p \in Procs,
         \/ BeginApprove(p) \/ BeginInvalidate(p) \/ Acquire(p) \/ NotAcquired(p)
         \/ Precheck(p) \/ Idempotency(p) \/ Release(p)
  PROVE  Revisions' /\ \A q \in Procs : Progress(q)'
<1>1. pc \in [Procs -> Phases] /\ cmd \in [Procs -> Command]
  BY DEF TypeInv, TypeOK
<1>2. pc[p] \notin Appending
  BY DEF BeginApprove, BeginInvalidate, Acquire, NotAcquired, Precheck, Idempotency,
         Release, Appending
<1>3. cmd[p].rev = 0
  BY <1>2 DEF Progress
<1>4. \E phase \in Phases \ Appending : Goto(p, phase)
  BY DEF BeginApprove, BeginInvalidate, Acquire, NotAcquired, Precheck, Idempotency,
         Release, Exit, Phases, Critical, Appending
<1>5. cmd' = cmd \/ \E c \in Command : c.rev = 0 /\ cmd' = [cmd EXCEPT ![p] = c]
  <2>1. NoCommand \in Command /\ NoCommand.rev = 0
    BY NoCommandFits DEF NoCommand
  <2>2. ASSUME NEW h \in Contents, NEW g \in Guards
        PROVE  LET c == [NoCommand EXCEPT !.kind = "approve", !.hash = h,
                                          !.guard = g, !.stage = "CREATED"]
               IN  c \in Command /\ c.rev = 0
    BY DEF NoCommand, Command, Hashes, Types
  <2> QED
    BY <2>1, <2>2
    DEF BeginApprove, BeginInvalidate, Acquire, NotAcquired, Precheck, Idempotency,
        Release, Exit
<1>6. /\ pc'[p] \notin Appending /\ cmd'[p].rev = 0
      /\ \A q \in Procs \ {p} : pc'[q] = pc[q] /\ cmd'[q] = cmd[q]
  BY <1>1, <1>3, <1>4, <1>5 DEF Goto
<1>7. UNCHANGED <<events, torn>>
  BY DEF BeginApprove, BeginInvalidate, Acquire, NotAcquired, Precheck, Idempotency,
         Release, ledger, history
<1> QED
  BY <1>2, <1>6, <1>7, NothingClaimed

LEMMA ConfirmedStays ==
  ASSUME ~overlap => ConfirmedContractKept, ~overlap, Grows, stored \subseteq stored',
         UNCHANGED confirmed
  PROVE  ConfirmedContractKept'
<1> SUFFICES ASSUME NEW r \in confirmed
             PROVE  \E e \in Approvals', c \in stored' :
                      e.rev = r /\ c.rev = r /\ c.hash = e.hash /\ c.source = e.hash
  BY DEF ConfirmedContractKept
<1>1. PICK i \in Of("APPROVED"), c \in stored :
        events[i].rev = r /\ c.rev = r /\ c.hash = events[i].hash /\ c.source = events[i].hash
  BY DEF ConfirmedContractKept, Approvals
<1>2. i \in Of("APPROVED")' /\ events'[i] = events[i]
  BY <1>1 DEF Grows, Of
<1> QED
  BY <1>1, <1>2 DEF Approvals

\* The approval that the postcheck reads is the one of its own revision.
LEMMA PostcheckKept ==
  ASSUME ConfirmedContractKept, ~overlap, \A q \in Procs : Progress(q),
         NEW p \in Procs, Postcheck(p)
  PROVE  ConfirmedContractKept'
<1>1. UNCHANGED <<events, stored, overlap>>
  BY DEF Postcheck, ledger
<1>2. CASE UNCHANGED confirmed
  BY <1>1, <1>2, ConfirmedStays DEF Grows
<1>3. CASE ~UNCHANGED confirmed
  <2>1. PICK e \in Effective : Recoverable(e.rev, e.hash)
    BY <1>3 DEF Postcheck
  <2>2. pc[p] = "postcheck" /\ Approving(p) /\ confirmed' = confirmed \cup {cmd[p].rev}
    BY <1>3 DEF Postcheck
  <2>3. PICK i \in LastOf("APPROVED") : e = events[i]
    BY DEF Effective
  <2>4. e.rev = cmd[p].rev /\ e \in Approvals
    BY <2>2, <2>3 DEF Progress, Approvals, LastOf
  <2>5. PICK c \in stored : c.rev = e.rev /\ c.hash = e.hash /\ c.source = c.hash
    BY <2>1 DEF Recoverable
  <2>6. Approvals' = Approvals
    BY <1>1 DEF Approvals, Of
  <2> QED
    BY <1>1, <2>2, <2>4, <2>5, <2>6 DEF ConfirmedContractKept
<1> QED
  BY <1>2, <1>3

LEMMA NextKeptInv == KeptInv /\ [Next]_vars => KeptInv'
<1> SUFFICES ASSUME KeptInv, [Next]_vars PROVE KeptInv'
  OBVIOUS
<1>1. SeqInv /\ SeqInv' /\ TypeInv /\ OneHolder
  BY NextSeqInv DEF KeptInv, SeqInv
<1> DEFINE Goal == ConfirmedContractKept' /\ Revisions' /\ \A q \in Procs : Progress(q)'
<1>2. CASE overlap'
  BY <1>1, <1>2 DEF KeptInv, ConfirmedContractKept
<1>3. CASE ~overlap'
  <2>1. ~overlap
    <3>1. overlap' = overlap \/ (overlap' = (overlap \/ Live(lock)))
      BY DEF Next, vars, history, BeginApprove, BeginInvalidate, Acquire, NotAcquired,
             Precheck, Idempotency, Claim, ReadSeq, Write, StoreContract,
             ContractExists, Unreadable, Fail, Postcheck, Release, Crash, BreakLock
    <3> QED
      BY <1>3, <3>1
  <2>2. ConfirmedContractKept /\ Revisions /\ \A q \in Procs : Progress(q)
    BY <2>1 DEF KeptInv
  <2>3. ASSUME UNCHANGED <<events, stored, confirmed, torn, pc, cmd>> PROVE Goal
    <3>0. UNCHANGED events /\ \A q \in Procs : pc'[q] = pc[q] /\ cmd'[q] = cmd[q]
      BY <2>3
    <3>1. ConfirmedContractKept'
      BY <2>1, <2>2, <2>3, ConfirmedStays DEF Grows
    <3>2. ASSUME NEW r \in Nat \ {0}, Settled(r) PROVE Settled(r)'
      <4>1. BeingApproved(r) => BeingApproved(r)'
        BY <2>3 DEF BeingApproved, Live, Approving
      <4> QED
        BY <2>3, <3>2, <4>1, GrowthKeeps DEF Settled, Grows
    <3>3. Revisions'
      BY <1>1, <2>2, <3>0, <3>2, RevisionsStay
    <3>4. \A q \in Procs : Progress(q)'
      BY <1>1, <2>2, <3>0, <3>2, ProgressStays
    <3> QED
      BY <3>1, <3>3, <3>4
  <2>4. CASE BreakLock
    <3>1. UNCHANGED <<events, stored, confirmed, torn, pc, cmd>>
      BY <2>4 DEF BreakLock, ledger, local
    <3> QED
      BY <1>1, <2>3, <3>1 DEF KeptInv
  <2>5. CASE UNCHANGED vars
    <3>1. UNCHANGED <<events, stored, confirmed, torn, pc, cmd>>
      BY <2>5 DEF vars, ledger, local, history
    <3> QED
      BY <1>1, <2>3, <3>1 DEF KeptInv
  <2>6. ASSUME NEW p \in Procs,
               \/ BeginApprove(p) \/ BeginInvalidate(p) \/ Acquire(p) \/ NotAcquired(p)
               \/ Precheck(p) \/ Idempotency(p) \/ Release(p) \/ Claim(p) \/ ReadSeq(p)
        PROVE  Goal
    <3>1. UNCHANGED <<events, stored, confirmed>>
      BY <2>6
      DEF BeginApprove, BeginInvalidate, Acquire, NotAcquired, Precheck, Idempotency,
          Release, Claim, ReadSeq, ledger, history
    <3>2. ConfirmedContractKept'
      BY <2>1, <2>2, <3>1, ConfirmedStays DEF Grows
    <3> QED
      BY <1>1, <2>1, <2>2, <2>6, <3>2, EarlyKept, ClaimKept, ReadKept
  <2>7. ASSUME NEW p \in Procs,
               ContractExists(p) \/ Unreadable(p) \/ Fail(p) \/ Crash(p) \/ StoreContract(p)
        PROVE  Goal
    <3>1. UNCHANGED <<events, confirmed>> /\ stored \subseteq stored'
      BY <2>7
      DEF ContractExists, Unreadable, Fail, Crash, StoreContract, Interrupted, ledger,
          history
    <3>2. ConfirmedContractKept'
      BY <2>1, <2>2, <3>1, ConfirmedStays DEF Grows
    <3> QED
      BY <1>1, <2>1, <2>2, <2>7, <3>2, LeavingKept, ReadKept
  <2>8. ASSUME NEW p \in Procs, Postcheck(p) PROVE Goal
    BY <1>1, <2>1, <2>2, <2>8, PostcheckKept, LeavingKept
  <2>9. ASSUME NEW p \in Procs, Write(p) PROVE Goal
    <3>1. UNCHANGED <<stored, confirmed>> /\ Grows
      BY <1>1, <1>3, <2>1, <2>9, Appended DEF Write, history
    <3> QED
      BY <1>1, <1>3, <2>1, <2>2, <2>9, <3>1, ConfirmedStays, WriteKept
  <2> QED
    BY <1>1, <2>4, <2>5, <2>6, <2>7, <2>8, <2>9 DEF Next, KeptInv
<1> QED
  BY <1>2, <1>3

\* A revision reported as approved has the contract it was approved for, byte by
\* byte.
THEOREM ReportedIsRecoverable == Spec => []ConfirmedContractKept
<1>1. KeptInv => ConfirmedContractKept
  BY DEF KeptInv
<1> QED
  BY <1>1, InitKeptInv, NextKeptInv, PTL DEF Spec

\* Between two approved revisions the succession is recorded, unless an approval
\* in between stopped half-way or is still under way.
THEOREM Succession == Spec => []SuccessionRecorded
<1>1. KeptInv => SuccessionRecorded
  <2> SUFFICES ASSUME KeptInv, ~overlap, NEW i \in Of("APPROVED"), NEW j \in Of("APPROVED"),
                      events[i].rev < events[j].rev,
                      \A r \in events[i].rev..events[j].rev : r \notin torn /\ ~BeingApproved(r)
               PROVE  events[j].rev \in Chain(events[i].rev)
    BY DEF SuccessionRecorded, Approvals
  <2>1. Revisions /\ TypeInv
    BY DEF KeptInv, SeqInv
  <2>2. PICK k \in Of("CREATED") : events[k].rev = events[j].rev
    BY <2>1 DEF Revisions, Created
  <2>3. /\ events[i].rev \in Nat \ {0} /\ events[j].rev \in Nat \ {0}
        /\ events[j].rev <= Len(events) /\ Len(events) \in Nat
    BY <2>1, <2>2, EventRevisions DEF Revisions, Of, TypeInv, TypeOK
  <2>4. ASSUME NEW m \in events[i].rev..(events[j].rev - 1) PROVE Successor(m) # {}
    <3>1. m + 1 \in 1..events[k].rev /\ m + 1 \in events[i].rev..events[j].rev
      BY <2>2, <2>3
    <3>2. Settled(m + 1)
      BY <2>1, <3>1 DEF Revisions
    <3>3. Superseded(m)
      BY <2>3, <3>1, <3>2 DEF Settled
    <3> QED
      BY <3>3 DEF Superseded, Successor
  <2> QED
    BY <2>3, <2>4 DEF Chain
<1> QED
  BY <1>1, InitKeptInv, NextKeptInv, PTL DEF Spec

=============================================================================
