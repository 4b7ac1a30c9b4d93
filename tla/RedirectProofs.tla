--------------------------- MODULE RedirectProofs ---------------------------
(* The squash signal and the write-back slots of Redirect, for every       *)
(* program, width and horizon.                                             *)
EXTENDS Redirect, FiniteSetTheorems, TLAPS

-----------------------------------------------------------------------------
(* The squash signal. *)

Signals == [squash : BOOLEAN, squashedSeqNum : Nat, includeSquashInst : BOOLEAN]
Causes  == [seq : Nat, include : BOOLEAN]

\* The signal and what it answers to are well formed.
SignalOK == toCommit \in Signals /\ causes \subseteq Causes

Covers(sig, c) == \/ sig.squashedSeqNum < c.seq
                  \/ sig.squashedSeqNum = c.seq /\ (c.include => sig.includeSquashInst)

\* A signal that answers to the causes cs, and to no other.
Answers(sig, cs) ==
  /\ \A c \in cs : sig.squash /\ Covers(sig, c)
  /\ sig.squash => Cause(sig.squashedSeqNum, sig.includeSquashInst) \in cs

IInv == SignalOK /\ Answers(toCommit, causes)

\* Sequence numbers are naturals.
LEMMA InstsAreNat == Insts \subseteq Nat
BY RedirectAssumption DEF Insts, RedirectAssumption

\* A mispredicted branch, or a load whose data came with another PC, leaves
\* the signal right (SquashDueToBranch under the test of executeInsts).
LEMMA BranchCovered ==
  ASSUME NEW i \in Nat, IInv, Mispredicted(i)
  PROVE  IInv'
<1> DEFINE c == Cause(i, FALSE)
<1>1. c \in Causes
  BY DEF Cause, Causes
<1>2. CASE Considered(i) /\ (~toCommit.squash \/ i < toCommit.squashedSeqNum)
  <2>1. toCommit' = [squash |-> TRUE, squashedSeqNum |-> i, includeSquashInst |-> FALSE]
    BY <1>2 DEF Mispredicted, squashDueToBranch
  <2>2. \A d \in causes : Covers(toCommit', d)
    BY <1>2, <2>1 DEF IInv, Answers, SignalOK, Signals, Causes, Covers
  <2>3. causes' = causes \cup {c}
    BY DEF Mispredicted
  <2>4. Covers(toCommit', c)
    BY <2>1 DEF Covers, Cause
  <2>5. SignalOK'
    BY <1>1, <2>1, <2>3 DEF IInv, SignalOK, Signals
  <2>6. Answers(toCommit', causes')
    BY <2>1, <2>2, <2>3, <2>4 DEF Answers, Cause
  <2> QED
    BY <2>5, <2>6 DEF IInv
<1>3. CASE ~(Considered(i) /\ (~toCommit.squash \/ i < toCommit.squashedSeqNum))
  <2>1. toCommit' = toCommit
    BY <1>3 DEF Mispredicted, squashDueToBranch
  <2>2. toCommit.squash /\ toCommit.squashedSeqNum <= i
    BY <1>3 DEF Considered, IInv, SignalOK, Signals
  <2>3. Covers(toCommit, c)
    BY <2>2 DEF Covers, Cause, IInv, SignalOK, Signals
  <2> QED
    BY <1>1, <2>1, <2>2, <2>3 DEF IInv, Answers, SignalOK, Mispredicted
<1> QED
  BY <1>2, <1>3

\* So does a violated load, which is younger than the one that finds it
\* (SquashDueToMemOrder).
LEMMA ViolationCovered ==
  ASSUME NEW i \in Nat, NEW v \in Nat, v > i, IInv, Violation(i, v)
  PROVE  IInv'
<1> DEFINE c == Cause(v, TRUE)
<1>1. c \in Causes
  BY DEF Cause, Causes
<1>2. CASE Considered(i) /\ (~toCommit.squash \/ v <= toCommit.squashedSeqNum)
  <2>1. toCommit' = [squash |-> TRUE, squashedSeqNum |-> v, includeSquashInst |-> TRUE]
    BY <1>2 DEF Violation, squashDueToMemOrder
  <2>2. \A d \in causes : Covers(toCommit', d)
    BY <1>2, <2>1 DEF IInv, Answers, SignalOK, Signals, Causes, Covers
  <2>3. causes' = causes \cup {c}
    BY DEF Violation
  <2>4. Covers(toCommit', c)
    BY <2>1 DEF Covers, Cause
  <2>5. SignalOK'
    BY <1>1, <2>1, <2>3 DEF IInv, SignalOK, Signals
  <2>6. Answers(toCommit', causes')
    BY <2>1, <2>2, <2>3, <2>4 DEF Answers, Cause
  <2> QED
    BY <2>5, <2>6 DEF IInv
<1>3. CASE ~(Considered(i) /\ (~toCommit.squash \/ v <= toCommit.squashedSeqNum))
  <2>1. toCommit' = toCommit
    BY <1>3 DEF Violation, squashDueToMemOrder
  <2>2. toCommit.squash /\ toCommit.squashedSeqNum < v
    BY <1>3 DEF Considered, IInv, SignalOK, Signals
  <2>3. Covers(toCommit, c)
    BY <2>2 DEF Covers, Cause
  <2> QED
    BY <1>1, <2>1, <2>2, <2>3 DEF IInv, Answers, SignalOK, Violation
<1> QED
  BY <1>2, <1>3

\* What changes neither the signal nor its causes keeps the invariant.
LEMMA SignalKept ==
  ASSUME IInv, UNCHANGED <<toCommit, causes>>
  PROVE  IInv'
BY DEF IInv, SignalOK, Answers

LEMMA InitSignal == Init => IInv
BY DEF Init, NoSquash, IInv, SignalOK, Signals, Causes, Answers

LEMMA NextSignal == IInv /\ [Next]_vars => IInv'
<1> SUFFICES ASSUME IInv, [Next]_vars
             PROVE  IInv'
  OBVIOUS
<1>1. CASE BeginTick
  BY <1>1, SignalKept DEF BeginTick
<1>2. CASE EndTick
  BY <1>2 DEF EndTick, NoSquash, IInv, SignalOK, Signals, Causes, Answers
<1>3. ASSUME NEW i \in Insts, LoadWriteback(i)
      PROVE  IInv'
  BY <1>3, SignalKept, BranchCovered, InstsAreNat DEF LoadWriteback, NoRedirect
<1>4. ASSUME NEW i \in Insts, SkipSquashed(i)
      PROVE  IInv'
  BY <1>4, SignalKept DEF SkipSquashed
<1>5. ASSUME NEW i \in Insts, Violates(i)
      PROVE  IInv'
  BY <1>5, ViolationCovered, InstsAreNat DEF Violates
<1>6. ASSUME NEW i \in Insts, ExecuteLoad(i)
      PROVE  IInv'
  BY <1>5, <1>6, SignalKept DEF ExecuteLoad, NoRedirect
<1>7. ASSUME NEW i \in Insts, ExecuteStore(i)
      PROVE  IInv'
  BY <1>5, <1>7, SignalKept DEF ExecuteStore, NoRedirect
<1>8. ASSUME NEW i \in Insts, ExecuteBranch(i)
      PROVE  IInv'
  BY <1>8, SignalKept, BranchCovered, InstsAreNat DEF ExecuteBranch, NoRedirect
<1>9. ASSUME NEW sig \in squashSeqs, Squash(sig)
      PROVE  IInv'
  BY <1>9, SignalKept DEF Squash
<1>10. CASE UNCHANGED vars
  BY <1>10, SignalKept DEF vars
<1> QED
  BY <1>1, <1>2, <1>3, <1>4, <1>6, <1>7, <1>8, <1>9, <1>10 DEF Next, Halt

LEMMA SignalIsOldest == IInv => SquashIsOldest
BY DEF IInv, Answers, Covers, SquashIsOldest

\* Whatever the order in which branches and memory instructions execute, the
\* one squash of a cycle covers all that called for one and no more (iew.cc).
THEOREM SquashIsOldestCorrect == Spec => []SquashIsOldest
<1>1. Init => IInv
  BY InitSignal
<1>2. IInv /\ [Next]_vars => IInv'
  BY NextSignal
<1>3. IInv => SquashIsOldest
  BY SignalIsOldest
<1> QED
  BY <1>1, <1>2, <1>3, PTL DEF Spec

-----------------------------------------------------------------------------
(* The variables keep their types. *)

\* instToCommit takes a slot of the queue, or fails in the assertion.
LEMMA SlotType ==
  ASSUME TypeOK, NEW i \in Insts, instToCommit(i)
  PROVE  /\ iewQueue' \in [Cycles -> [Slots -> Insts \cup {0}]]
         /\ wbCycle' \in Cycles /\ wbNumInst' \in Slots
         /\ step' \in {"events", "execute", "abort"}
<1>1. CASE Overrun
  BY <1>1 DEF TypeOK, Overrun
<1>2. CASE \E p \in Cycles \X Slots : Write(i, p)
  BY <1>2 DEF TypeOK, Write
<1> QED
  BY <1>1, <1>2 DEF instToCommit, From

\* A redirect leaves a well-formed signal.
LEMMA SignalType ==
  ASSUME TypeOK, NEW i \in Insts, NEW v \in Insts,
         Mispredicted(i) \/ Violation(i, v) \/ NoRedirect
  PROVE  /\ fetchRedirect' \in BOOLEAN
         /\ toCommit' \in [squash : BOOLEAN, squashedSeqNum : Insts \cup {0},
                           includeSquashInst : BOOLEAN]
<1> DEFINE R == [squash : BOOLEAN, squashedSeqNum : Insts \cup {0},
                 includeSquashInst : BOOLEAN]
<1>0. /\ fetchRedirect \in BOOLEAN /\ toCommit \in R
      /\ \A j \in Insts, b \in BOOLEAN :
           [squash |-> TRUE, squashedSeqNum |-> j, includeSquashInst |-> b] \in R
  BY DEF TypeOK
<1> HIDE DEF R
<1>1. CASE Mispredicted(i)
  <2>1. toCommit' \in {toCommit, [squash |-> TRUE, squashedSeqNum |-> i,
                                 includeSquashInst |-> FALSE]}
    BY <1>1 DEF Mispredicted, squashDueToBranch
  <2>2. fetchRedirect' \in {TRUE, fetchRedirect}
    BY <1>1, Zenon DEF Mispredicted
  <2> QED
    BY <1>0, <2>1, <2>2 DEF R
<1>2. CASE Violation(i, v)
  <2>1. toCommit' \in {toCommit, [squash |-> TRUE, squashedSeqNum |-> v,
                                 includeSquashInst |-> TRUE]}
    BY <1>2 DEF Violation, squashDueToMemOrder
  <2>2. fetchRedirect' \in {TRUE, fetchRedirect}
    BY <1>2, Zenon DEF Violation
  <2> QED
    BY <1>0, <2>1, <2>2 DEF R
<1>3. CASE NoRedirect
  BY <1>0, <1>3 DEF NoRedirect, R
<1> QED
  BY <1>1, <1>2, <1>3

LEMMA InitTypes == Init => TypeOK
<1> SUFFICES ASSUME Init
             PROVE  TypeOK
  OBVIOUS
<1>1. 0 \in Cycles /\ 0 \in Slots
  BY RedirectAssumption DEF RedirectAssumption, Cycles, Slots
<1> QED
  BY <1>1 DEF Init, TypeOK, Where, NoSquash

LEMMA NextTypes == TypeOK /\ [Next]_vars => TypeOK'
<1> SUFFICES ASSUME TypeOK, [Next]_vars
             PROVE  TypeOK'
  OBVIOUS
<1>0. 0 \in Cycles /\ 0 \in Slots
  BY RedirectAssumption DEF RedirectAssumption, Cycles, Slots
<1>1. CASE BeginTick
  BY <1>0, <1>1 DEF BeginTick, TypeOK
<1>2. CASE EndTick
  <2>1. iewQueue' \in [Cycles -> [Slots -> Insts \cup {0}]]
    <3>1. \A c \in Cycles : c # Horizon => c + 1 \in Cycles
      BY RedirectAssumption DEF RedirectAssumption, Cycles
    <3> QED
      BY <1>2, <3>1 DEF EndTick, TypeOK
  <2>2. issued' \subseteq Insts
    BY <1>2 DEF EndTick
  <2> QED
    BY <1>0, <1>2, <2>1, <2>2 DEF EndTick, TypeOK, NoSquash, Where
<1>3. ASSUME NEW i \in Insts, LoadWriteback(i)
      PROVE  TypeOK'
  BY <1>3, SlotType, SignalType DEF LoadWriteback, TypeOK, Where
<1>4. ASSUME NEW i \in Insts, SkipSquashed(i)
      PROVE  TypeOK'
  BY <1>4 DEF SkipSquashed, Take, TypeOK
<1>5. ASSUME NEW i \in Insts, ExecuteLoad(i)
      PROVE  TypeOK'
  BY <1>5, SignalType DEF ExecuteLoad, Take, Violates, TypeOK, Where
<1>6. ASSUME NEW i \in Insts, ExecuteStore(i)
      PROVE  TypeOK'
  BY <1>6, SlotType, SignalType DEF ExecuteStore, Take, Violates, TypeOK, Where
<1>7. ASSUME NEW i \in Insts, ExecuteBranch(i)
      PROVE  TypeOK'
  BY <1>7, SlotType, SignalType DEF ExecuteBranch, Take, TypeOK, Where
<1>8. ASSUME NEW sig \in squashSeqs, Squash(sig)
      PROVE  TypeOK'
  BY <1>8 DEF Squash, TypeOK, Where
<1>9. CASE UNCHANGED vars
  BY <1>9 DEF vars, TypeOK
<1> QED
  BY <1>1, <1>2, <1>3, <1>4, <1>5, <1>6, <1>7, <1>8, <1>9 DEF Next, Halt

-----------------------------------------------------------------------------
(* The write-back slots. *)

\* The slots of a cycle are filled from the first, and those before the one
\* where the stage stands are taken.
InRow ==
  /\ \A c \in Cycles, m, n \in Slots :
       m < n /\ iewQueue[c][n] # 0 => iewQueue[c][m] # 0
  /\ \A n \in Slots : n < wbNumInst => iewQueue[wbCycle][n] # 0

\* No instruction has two slots, and none has one before it is finished.
Once ==
  /\ \A c, d \in Cycles, m, n \in Slots :
       iewQueue[c][m] # 0 /\ iewQueue[c][m] = iewQueue[d][n] => c = d /\ m = n
  /\ \A c \in Cycles, n \in Slots :
       iewQueue[c][n] # 0 => st[iewQueue[c][n]] \notin {"waiting", "memory"}

\* One that is finished has a slot.
Kept ==
  step # "abort" =>
    \A i \in Insts : st[i] = "written" =>
      \E c \in Cycles, n \in Slots : iewQueue[c][n] = i

\* What is scheduled has not executed.
Scheduled == \A i \in issued : st[i] \in {"waiting", "squashed"}

Slotted == InRow /\ Once /\ Kept /\ Scheduled

\* The first free slot from where the stage stands.
First(p) ==
  /\ p \in From(wbCycle, wbNumInst) /\ Free(p)
  /\ \A q \in From(wbCycle, wbNumInst) : Before(q, p) => ~Free(q)

\* An instruction that finishes takes the first free slot, ...
LEMMA SlotWritten ==
  ASSUME TypeOK, Slotted, step # "abort", NEW i \in Insts, st[i] \in {"waiting", "memory"},
         NEW p \in Cycles \X Slots, First(p), Write(i, p),
         st' = [st EXCEPT ![i] = "written"]
  PROVE  InRow' /\ Once' /\ Kept'
<1>1. /\ p \in From(wbCycle, wbNumInst) /\ Free(p)
      /\ \A q \in From(wbCycle, wbNumInst) : Before(q, p) => ~Free(q)
      /\ wbCycle' = p[1] /\ wbNumInst' = p[2]
      /\ iewQueue' = [iewQueue EXCEPT ![p[1]][p[2]] = i]
  BY DEF First, Write
<1> DEFINE e == p[1]
           k == p[2]
<1>2. /\ e \in Cycles /\ k \in Slots /\ p = <<e, k>>
      /\ e \in Nat /\ k \in Nat /\ wbCycle \in Nat /\ wbNumInst \in Nat
  BY <1>1 DEF TypeOK, Cycles, Slots
<1>3. iewQueue[e][k] = 0 /\ wbCycle' = e /\ wbNumInst' = k
  BY <1>1 DEF Free
<1>4. i # 0
  BY RedirectAssumption DEF Insts, RedirectAssumption
<1>5. /\ iewQueue'[e][k] = i
      /\ \A c \in Cycles, n \in Slots : c # e \/ n # k => iewQueue'[c][n] = iewQueue[c][n]
  BY <1>1, <1>2 DEF TypeOK
<1>6. \A n \in Slots : n < k => iewQueue[e][n] # 0
  <2> SUFFICES ASSUME NEW n \in Slots, n < k
               PROVE  iewQueue[e][n] # 0
    OBVIOUS
  <2>0. n \in Nat
    BY DEF Slots
  <2>1. CASE <<e, n>> \in From(wbCycle, wbNumInst)
    <3>1. Before(<<e, n>>, p)
      BY <1>2 DEF Before
    <3>2. ~Free(<<e, n>>)
      BY <1>1, <2>1, <3>1
    <3> QED
      BY <3>2 DEF Free
  <2>2. CASE <<e, n>> \notin From(wbCycle, wbNumInst)
    <3>1. ~(e > wbCycle) /\ ~(e = wbCycle /\ n >= wbNumInst)
      BY <1>2, <2>2 DEF From
    <3>2. e = wbCycle
      BY <1>1, <1>2, <3>1 DEF From
    <3>3. n < wbNumInst
      BY <1>2, <2>0, <3>1, <3>2
    <3> QED
      BY <3>2, <3>3 DEF Slotted, InRow
  <2> QED
    BY <2>1, <2>2
<1> HIDE DEF e, k
<1>7. \A j \in Insts : j # i => st'[j] = st[j]
  BY DEF TypeOK
<1>8. st'[i] = "written"
  BY DEF TypeOK
<1>9. \A c \in Cycles, n \in Slots : iewQueue[c][n] # i
  BY <1>4 DEF Slotted, Once
<1>10. InRow'
  <2>1. ASSUME NEW c \in Cycles, NEW m \in Slots, NEW n \in Slots, m < n, iewQueue'[c][n] # 0
        PROVE  iewQueue'[c][m] # 0
    <3>1. CASE c = e /\ n = k
      BY <1>2, <1>4, <1>5, <1>6, <2>1, <3>1
    <3>2. CASE ~(c = e /\ n = k)
      BY <1>2, <1>4, <1>5, <2>1, <3>2 DEF Slotted, InRow
    <3> QED
      BY <3>1, <3>2
  <2>2. \A n \in Slots : n < wbNumInst' => iewQueue'[wbCycle'][n] # 0
    BY <1>2, <1>3, <1>5, <1>6
  <2> QED
    BY <2>1, <2>2 DEF InRow
<1>11. Once'
  <2>1. ASSUME NEW c \in Cycles, NEW d \in Cycles, NEW m \in Slots, NEW n \in Slots,
               iewQueue'[c][m] # 0, iewQueue'[c][m] = iewQueue'[d][n]
        PROVE  c = d /\ m = n
    <3>1. CASE c = e /\ m = k
      BY <1>5, <1>9, <2>1, <3>1
    <3>2. CASE ~(c = e /\ m = k)
      <4>1. iewQueue'[c][m] = iewQueue[c][m]
        BY <1>5, <3>2
      <4>2. ~(d = e /\ n = k)
        <5> SUFFICES ASSUME d = e, n = k
                     PROVE  FALSE
          OBVIOUS
        <5>1. iewQueue'[d][n] = i
          BY <1>5
        <5>2. iewQueue[c][m] = i
          BY <2>1, <4>1, <5>1
        <5> QED
          BY <1>9, <5>2
      <4>3. iewQueue'[d][n] = iewQueue[d][n]
        BY <1>5, <4>2
      <4>4. iewQueue[c][m] # 0 /\ iewQueue[c][m] = iewQueue[d][n]
        BY <2>1, <4>1, <4>3
      <4> QED
        BY <4>4 DEF Slotted, Once
    <3> QED
      BY <3>1, <3>2
  <2>2. ASSUME NEW c \in Cycles, NEW n \in Slots, iewQueue'[c][n] # 0
        PROVE  st'[iewQueue'[c][n]] \notin {"waiting", "memory"}
    <3>1. CASE c = e /\ n = k
      BY <1>5, <1>8, <3>1
    <3>2. CASE ~(c = e /\ n = k)
      <4>1. iewQueue'[c][n] = iewQueue[c][n] /\ iewQueue[c][n] \in Insts \cup {0}
        BY <1>5, <3>2 DEF TypeOK
      <4>2. st'[iewQueue[c][n]] = st[iewQueue[c][n]]
        BY <1>7, <1>9, <2>2, <4>1
      <4> QED
        BY <2>2, <4>1, <4>2 DEF Slotted, Once
    <3> QED
      BY <3>1, <3>2
  <2> QED
    BY <2>1, <2>2 DEF Once
<1>12. Kept'
  <2> SUFFICES ASSUME NEW j \in Insts, st'[j] = "written"
               PROVE  \E c \in Cycles, n \in Slots : iewQueue'[c][n] = j
    BY DEF Kept
  <2>1. CASE j = i
    BY <1>2, <1>5, <2>1
  <2>2. CASE j # i
    <3>1. PICK c \in Cycles, n \in Slots : iewQueue[c][n] = j
      BY <1>7, <2>2 DEF Slotted, Kept
    <3>2. j # 0
      BY RedirectAssumption DEF Insts, RedirectAssumption
    <3>3. iewQueue'[c][n] = j
      BY <1>3, <1>5, <3>1, <3>2
    <3> QED
      BY <3>3
  <2> QED
    BY <2>1, <2>2
<1> QED
  BY <1>10, <1>11, <1>12

\* ... unless there is none, and then nothing goes on.
LEMMA SlotTaken ==
  ASSUME TypeOK, Slotted, step # "abort", NEW i \in Insts, st[i] \in {"waiting", "memory"},
         instToCommit(i), st' = [st EXCEPT ![i] = "written"]
  PROVE  InRow' /\ Once' /\ Kept'
<1>1. CASE Overrun
  <2>1. InRow' /\ Kept'
    BY <1>1 DEF Overrun, Slotted, InRow, Kept
  <2>2. Once'
    <3>1. ASSUME NEW c \in Cycles, NEW n \in Slots, iewQueue[c][n] # 0
          PROVE  st'[iewQueue[c][n]] \notin {"waiting", "memory"}
      <4>1. iewQueue[c][n] \in Insts
        BY <3>1 DEF TypeOK
      <4> QED
        BY <3>1, <4>1 DEF Slotted, Once, TypeOK
    <3> QED
      BY <1>1, <3>1 DEF Overrun, Slotted, Once
  <2> QED
    BY <2>1, <2>2
<1>2. CASE \E p \in From(wbCycle, wbNumInst) : First(p) /\ Write(i, p)
  <2>1. PICK p \in Cycles \X Slots : First(p) /\ Write(i, p)
    BY <1>2 DEF From
  <2> QED
    BY <2>1, SlotWritten
<1> QED
  BY <1>1, <1>2 DEF instToCommit, First

\* What leaves the slots alone and finishes nothing keeps them.
LEMMA SlotsKept ==
  ASSUME TypeOK, Slotted, UNCHANGED iewQueue,
         UNCHANGED <<wbCycle, wbNumInst>> \/ wbNumInst' = 0,
         step = "abort" => step' = "abort",
         \A i \in Insts : \/ st'[i] = st[i] \/ st'[i] = "squashed"
                          \/ st[i] = "waiting" /\ st'[i] = "memory"
  PROVE  InRow' /\ Once' /\ Kept'
<1>1. InRow'
  BY DEF Slotted, InRow, Slots
<1>2. Once'
  <2>1. ASSUME NEW c \in Cycles, NEW n \in Slots, iewQueue[c][n] # 0
        PROVE  st'[iewQueue[c][n]] \notin {"waiting", "memory"}
    <3>1. iewQueue[c][n] \in Insts
      BY <2>1 DEF TypeOK
    <3> QED
      BY <2>1, <3>1 DEF Slotted, Once
  <2> QED
    BY <2>1 DEF Slotted, Once
<1>3. Kept'
  BY DEF Slotted, Kept
<1> QED
  BY <1>1, <1>2, <1>3

\* writebackInsts reads every finished instruction of its cycle, so that the
\* advance of the queue drops none.
LEMMA SlotsAdvance ==
  ASSUME TypeOK, Slotted, EndTick
  PROVE  Slotted'
<1>1. /\ \A c \in Cycles, n \in Slots : c # Horizon =>
           c + 1 \in Cycles /\ iewQueue'[c][n] = iewQueue[c + 1][n]
      /\ \A n \in Slots : iewQueue'[Horizon][n] = 0
  BY RedirectAssumption DEF RedirectAssumption, EndTick, Cycles
<1>2. \A i \in Insts : \/ st'[i] = st[i] /\ ~(i \in Reached /\ st[i] = "written")
                       \/ st'[i] = "atCommit"
  BY DEF EndTick
<1>3. InRow'
  BY <1>1 DEF Slotted, InRow, EndTick, Slots, Cycles
<1>4. Once'
  <2>1. ASSUME NEW c \in Cycles, NEW d \in Cycles, NEW m \in Slots, NEW n \in Slots,
               iewQueue'[c][m] # 0, iewQueue'[c][m] = iewQueue'[d][n]
        PROVE  c = d /\ m = n
    <3>1. c # Horizon /\ d # Horizon
      BY <1>1, <2>1
    <3>2. c + 1 = d + 1 /\ m = n
      BY <1>1, <2>1, <3>1 DEF Slotted, Once
    <3> QED
      BY <3>2 DEF Cycles
  <2>2. ASSUME NEW c \in Cycles, NEW n \in Slots, iewQueue'[c][n] # 0
        PROVE  st'[iewQueue'[c][n]] \notin {"waiting", "memory"}
    <3>1. c # Horizon
      BY <1>1, <2>2
    <3>2. iewQueue'[c][n] = iewQueue[c + 1][n] /\ iewQueue[c + 1][n] \in Insts
      BY <1>1, <2>2, <3>1 DEF TypeOK
    <3> QED
      BY <1>1, <1>2, <2>2, <3>1, <3>2 DEF Slotted, Once
  <2> QED
    BY <2>1, <2>2 DEF Once
<1>5. Kept'
  <2> SUFFICES ASSUME NEW i \in Insts, st'[i] = "written"
               PROVE  \E c \in Cycles, n \in Slots : iewQueue'[c][n] = i
    BY DEF Kept
  <2>1. st[i] = "written" /\ i \notin Reached
    BY <1>2
  <2>2. PICK c \in Cycles, n \in Slots : iewQueue[c][n] = i
    BY <2>1 DEF Slotted, Kept, EndTick
  <2>3. i # 0
    BY RedirectAssumption DEF Insts, RedirectAssumption
  <2>4. c # 0
    <3> SUFFICES ASSUME c = 0
                 PROVE  FALSE
      OBVIOUS
    <3>1. \A k \in 0 .. n : k \in Slots /\ iewQueue[0][k] # 0
      <4> SUFFICES ASSUME NEW k \in 0 .. n
                   PROVE  k \in Slots /\ iewQueue[0][k] # 0
        OBVIOUS
      <4>1. k \in Slots /\ (k < n \/ k = n)
        BY RedirectAssumption DEF RedirectAssumption, Slots
      <4> QED
        BY <2>2, <2>3, <4>1 DEF Slotted, InRow
    <3>2. i \in Reached
      BY <2>2, <3>1 DEF Reached
    <3> QED
      BY <2>1, <3>2
  <2>5. c - 1 \in Cycles /\ c - 1 # Horizon /\ (c - 1) + 1 = c
    BY <2>4, RedirectAssumption DEF RedirectAssumption, Cycles
  <2>6. iewQueue'[c - 1][n] = i
    BY <1>1, <2>2, <2>5
  <2> QED
    BY <2>5, <2>6
<1>6. Scheduled'
  BY <1>2 DEF EndTick, Scheduled, Reached
<1> QED
  BY <1>3, <1>4, <1>5, <1>6 DEF Slotted

LEMMA InitSlotted == Init => Slotted
<1> SUFFICES ASSUME Init
             PROVE  Slotted
  OBVIOUS
<1>1. \A c \in Cycles, n \in Slots : iewQueue[c][n] = 0
  BY DEF Init
<1>2. InRow
  BY <1>1 DEF InRow, Init, Slots
<1>3. Once
  BY <1>1 DEF Once
<1>4. Kept /\ Scheduled
  BY DEF Init, Kept, Scheduled
<1> QED
  BY <1>2, <1>3, <1>4 DEF Slotted

LEMMA NextSlotted == TypeOK /\ Slotted /\ [Next]_vars => Slotted'
<1> SUFFICES ASSUME TypeOK, Slotted, [Next]_vars
             PROVE  Slotted'
  OBVIOUS
<1>1. CASE BeginTick
  BY <1>1, SlotsKept DEF BeginTick, Slotted, Scheduled
<1>2. CASE EndTick
  BY <1>2, SlotsAdvance
<1>3. ASSUME NEW i \in Insts, LoadWriteback(i)
      PROVE  Slotted'
  <2>1. Scheduled'
    BY <1>3 DEF LoadWriteback, Slotted, Scheduled, TypeOK
  <2> QED
    BY <1>3, <2>1, SlotTaken DEF LoadWriteback, Slotted
<1>4. ASSUME NEW i \in Insts, SkipSquashed(i)
      PROVE  Slotted'
  BY <1>4, SlotsKept DEF SkipSquashed, Take, Slotted, Scheduled
<1>5. ASSUME NEW i \in Insts, Take(i), st[i] # "squashed"
      PROVE  /\ st[i] = "waiting"
             /\ \A x \in Where : st' = [st EXCEPT ![i] = x] => Scheduled'
  BY <1>5 DEF Take, Slotted, Scheduled, TypeOK
<1>6. ASSUME NEW i \in Insts, ExecuteLoad(i)
      PROVE  Slotted'
  <2>1. st[i] = "waiting" /\ Scheduled'
    BY <1>5, <1>6 DEF ExecuteLoad, Where
  <2>2. \A j \in Insts : \/ st'[j] = st[j]
                         \/ st[j] = "waiting" /\ st'[j] = "memory"
    BY <1>6, <2>1 DEF ExecuteLoad, TypeOK
  <2> QED
    BY <1>6, <2>1, <2>2, SlotsKept DEF ExecuteLoad, Slotted
<1>7. ASSUME NEW i \in Insts, ExecuteStore(i)
      PROVE  Slotted'
  <2>1. st[i] = "waiting" /\ Scheduled'
    BY <1>5, <1>7 DEF ExecuteStore, Where
  <2> QED
    BY <1>7, <2>1, SlotTaken DEF ExecuteStore, Take, Slotted
<1>8. ASSUME NEW i \in Insts, ExecuteBranch(i)
      PROVE  Slotted'
  <2>1. st[i] = "waiting" /\ Scheduled'
    BY <1>5, <1>8 DEF ExecuteBranch, Where
  <2> QED
    BY <1>8, <2>1, SlotTaken DEF ExecuteBranch, Take, Slotted
<1>9. ASSUME NEW sig \in squashSeqs, Squash(sig)
      PROVE  Slotted'
  <2>1. \A i \in Insts : st'[i] = st[i] \/ st'[i] = "squashed"
    BY <1>9 DEF Squash
  <2>2. Scheduled'
    BY <1>9, <2>1 DEF Squash, Slotted, Scheduled, TypeOK
  <2> QED
    BY <1>9, <2>1, <2>2, SlotsKept DEF Squash, Slotted
<1>10. CASE UNCHANGED vars
  BY <1>10 DEF vars, Slotted, InRow, Once, Kept, Scheduled
<1> QED
  BY <1>1, <1>2, <1>3, <1>4, <1>6, <1>7, <1>8, <1>9, <1>10 DEF Next, Halt

LEMMA SlottedIsExact == TypeOK /\ Slotted => SlotsExact
<1> SUFFICES ASSUME TypeOK, Slotted
             PROVE  SlotsExact
  OBVIOUS
<1>1. ASSUME NEW i \in Insts, st[i] = "written", step # "abort"
      PROVE  Cardinality({p \in Written : iewQueue[p[1]][p[2]] = i}) = 1
  <2>1. PICK c \in Cycles, n \in Slots : iewQueue[c][n] = i
    BY <1>1 DEF Slotted, Kept
  <2>2. i # 0
    BY RedirectAssumption DEF Insts, RedirectAssumption
  <2>3. \A p \in Cycles \X Slots : iewQueue[p[1]][p[2]] = i => p = <<c, n>>
    BY <2>1, <2>2 DEF Slotted, Once
  <2>4. {p \in Written : iewQueue[p[1]][p[2]] = i} = {<<c, n>>}
    BY <2>1, <2>2, <2>3 DEF Written, Free
  <2> QED
    BY <2>4, FS_Singleton
<1>2. ASSUME NEW p \in Written, NEW q \in Cycles \X Slots,
             p[1] = 0, q[1] = 0, q[2] < p[2]
      PROVE  q \in Written
  BY <1>2 DEF Slotted, InRow, Written, Free
<1> QED
  BY <1>1, <1>2 DEF SlotsExact

\* A finished instruction holds exactly one write-back slot until
\* writebackInsts reads it, which an empty slot before it would prevent.
THEOREM SlotsAreExact == Spec => []SlotsExact
<1>1. Init => TypeOK /\ Slotted
  BY InitTypes, InitSlotted
<1>2. TypeOK /\ Slotted /\ [Next]_vars => TypeOK' /\ Slotted'
  BY NextTypes, NextSlotted
<1>3. TypeOK /\ Slotted => SlotsExact
  BY SlottedIsExact
<1> QED
  BY <1>1, <1>2, <1>3, PTL DEF Spec

-----------------------------------------------------------------------------
(* The search for a slot. *)

Full(c) == \A n \in Slots : iewQueue[c][n] # 0

\* In a tick the search starts from the first slot and passes by none that is
\* free.
Passed ==
  step = "execute" =>
    /\ \A c \in Cycles : c < wbCycle => Full(c)
    /\ wbCycle > 0 => iewQueue[wbCycle][0] # 0

\* At any time only one of the cycles behind it has free slots: the one where
\* the last tick's search stopped, which has at least one instruction.
OneGap ==
  step # "abort" =>
    \E r \in Cycles : \A c \in Cycles :
      c < wbCycle => (c # r => Full(c)) /\ iewQueue[c][0] # 0

Behind == Passed /\ OneGap /\ OverrunIsFull

\* What a search finds taken in a cycle, with the slots before the place
\* where the stage stands, is the whole cycle.
LEMMA SearchedIsFull ==
  ASSUME TypeOK, Slotted, NEW c \in Cycles, c >= wbCycle,
         \A n \in Slots : <<c, n>> \in From(wbCycle, wbNumInst) => ~Free(<<c, n>>)
  PROVE  Full(c)
<1> SUFFICES ASSUME NEW n \in Slots
             PROVE  iewQueue[c][n] # 0
  BY DEF Full
<1>1. c \in Nat /\ n \in Nat /\ wbCycle \in Nat /\ wbNumInst \in Nat
  BY DEF TypeOK, Cycles, Slots
<1>2. CASE <<c, n>> \in From(wbCycle, wbNumInst)
  BY <1>2 DEF Free
<1>3. CASE <<c, n>> \notin From(wbCycle, wbNumInst)
  <2>1. ~(c > wbCycle) /\ ~(c = wbCycle /\ n >= wbNumInst)
    BY <1>3 DEF From
  <2>2. c = wbCycle /\ n < wbNumInst
    BY <1>1, <2>1
  <2> QED
    BY <2>2 DEF Slotted, InRow
<1> QED
  BY <1>2, <1>3

\* All cycles but one full, and a slot of that one taken, are more than
\* Horizon cycles.
LEMMA ManyWritten ==
  ASSUME NEW r \in Cycles, \A c \in Cycles : c # r => Full(c), iewQueue[r][0] # 0
  PROVE  Cardinality(Written) > Horizon * wbWidth
<1> DEFINE A == (Cycles \ {r}) \X Slots
           B == A \cup {<<r, 0>>}
<1>0. Horizon \in Nat /\ wbWidth \in Nat \ {0}
  BY RedirectAssumption DEF RedirectAssumption
<1>1. IsFiniteSet(Cycles) /\ Cardinality(Cycles) = Horizon + 1
  BY <1>0, FS_Interval DEF Cycles
<1>2. IsFiniteSet(Slots) /\ Cardinality(Slots) = wbWidth /\ 0 \in Slots
  BY <1>0, FS_Interval DEF Slots
<1>3. IsFiniteSet(Cycles \ {r}) /\ Cardinality(Cycles \ {r}) = Horizon
  BY <1>0, <1>1, FS_RemoveElement
<1>4. IsFiniteSet(A) /\ Cardinality(A) = Horizon * wbWidth
  BY <1>2, <1>3, FS_Product
<1>5. <<r, 0>> \notin A
  OBVIOUS
<1>6. Cardinality(B) = Horizon * wbWidth + 1
  BY <1>4, <1>5, FS_AddElement
<1>7. B \in SUBSET Written
  BY <1>2 DEF Written, Free, Full
<1>8. IsFiniteSet(Written) /\ Cardinality(Written) \in Nat
  <2>1. IsFiniteSet(Cycles \X Slots)
    BY <1>1, <1>2, FS_Product
  <2>2. Written \in SUBSET (Cycles \X Slots)
    BY DEF Written
  <2> QED
    BY <2>1, <2>2, FS_Subset, FS_CardinalityType
<1>9. Cardinality(B) <= Cardinality(Written)
  BY <1>7, <1>8, FS_Subset
<1>10. Horizon * wbWidth \in Nat
  BY <1>0
<1> HIDE DEF A, B
<1> QED
  BY <1>6, <1>8, <1>9, <1>10

\* So the search runs off the queue only when that much is written.
LEMMA OverrunWritten ==
  ASSUME TypeOK, Slotted, Behind, step # "abort", Overrun
  PROVE  Cardinality(Written) > Horizon * wbWidth
<1>1. PICK r \in Cycles : \A c \in Cycles :
             c < wbCycle => (c # r => Full(c)) /\ iewQueue[c][0] # 0
  BY DEF Behind, OneGap
<1>2. ASSUME NEW c \in Cycles, c >= wbCycle
      PROVE  Full(c)
  BY <1>2, SearchedIsFull DEF Overrun
<1>3. 0 \in Slots
  BY RedirectAssumption DEF RedirectAssumption, Slots
<1>4. \A c \in Cycles : c < wbCycle \/ c >= wbCycle
  BY DEF TypeOK, Cycles
<1>5. (\A c \in Cycles : c # r => Full(c)) /\ iewQueue[r][0] # 0
  BY <1>1, <1>2, <1>3, <1>4 DEF Full
<1> QED
  BY <1>5, ManyWritten

\* A step that leaves the queue and the place of the stage alone.
LEMMA BehindKept ==
  ASSUME Behind, UNCHANGED <<iewQueue, wbCycle, step>>
  PROVE  Behind'
<1>1. Passed' /\ OneGap'
  BY DEF Behind, Passed, OneGap, Full
<1>2. OverrunIsFull'
  <2>1. Written' = Written
    BY DEF Written, Free
  <2> QED
    BY <2>1 DEF Behind, OverrunIsFull
<1> QED
  BY <1>1, <1>2 DEF Behind

\* An instruction that finishes passes by no free slot, or finds none.
LEMMA BehindSearch ==
  ASSUME TypeOK, Slotted, Behind, step \in {"events", "execute"},
         NEW i \in Insts, instToCommit(i)
  PROVE  Behind'
<1>1. CASE Overrun
  <2>1. step' = "abort" /\ Written' = Written
    BY <1>1 DEF Overrun, Written, Free
  <2>2. Cardinality(Written) > Horizon * wbWidth
    BY <1>1, OverrunWritten
  <2>3. OverrunIsFull'
    BY <2>1, <2>2 DEF OverrunIsFull
  <2> QED
    BY <2>1, <2>3 DEF Behind, Passed, OneGap
<1>2. CASE \E p \in From(wbCycle, wbNumInst) : First(p) /\ Write(i, p)
  <2>1. PICK p \in Cycles \X Slots : First(p) /\ Write(i, p)
    BY <1>2 DEF From
  <2> DEFINE e == p[1]
             k == p[2]
  <2>2. /\ e \in Cycles /\ k \in Slots /\ p = <<e, k>> /\ wbCycle \in Cycles
        /\ e \in Nat /\ k \in Nat /\ wbCycle \in Nat /\ wbNumInst \in Nat
    BY DEF TypeOK, Cycles, Slots
  <2>3. e >= wbCycle /\ wbCycle' = e /\ step' = step
    BY <2>1, <2>2 DEF First, Write, From
  <2>4. \A c \in Cycles, n \in Slots :
          /\ iewQueue'[c][n] \in {i, iewQueue[c][n]}
          /\ c = e /\ n = k => iewQueue'[c][n] = i
    BY <2>1, <2>2 DEF Write, TypeOK
  <2>5. i # 0 /\ 0 \in Slots
    BY RedirectAssumption DEF Insts, Slots, RedirectAssumption
  <2>6. ASSUME NEW c \in Cycles, c < e, c >= wbCycle
        PROVE  Full(c)
    <3>1. ASSUME NEW n \in Slots
          PROVE  Before(<<c, n>>, p)
      BY <2>2, <2>6 DEF Before
    <3>2. \A n \in Slots : <<c, n>> \in From(wbCycle, wbNumInst) => ~Free(<<c, n>>)
      BY <2>1, <3>1 DEF First
    <3> QED
      BY <2>6, <3>2, SearchedIsFull
  <2>7. \A c \in Cycles : c \in Nat
    BY DEF Cycles
  <2> HIDE DEF e, k
  <2>8. Passed'
    <3> SUFFICES ASSUME step = "execute"
                 PROVE  /\ \A c \in Cycles : c < e => Full(c)'
                        /\ e > 0 => iewQueue'[e][0] # 0
      BY <2>3 DEF Passed
    <3>1. ASSUME NEW c \in Cycles, c < e
          PROVE  Full(c)
      <4>1. c < wbCycle => Full(c)
        BY DEF Behind, Passed
      <4> QED
        BY <2>2, <2>6, <2>7, <3>1, <4>1
    <3>2. iewQueue'[e][0] # 0
      <4>1. CASE k = 0
        BY <2>2, <2>4, <2>5, <4>1
      <4>2. CASE k > 0
        <5>1. CASE <<e, 0>> \in From(wbCycle, wbNumInst)
          <6>1. Before(<<e, 0>>, p)
            BY <2>2, <4>2 DEF Before
          <6>2. iewQueue[e][0] # 0
            BY <2>1, <5>1, <6>1 DEF First, Free
          <6> QED
            BY <2>2, <2>4, <2>5, <6>2
        <5>2. CASE <<e, 0>> \notin From(wbCycle, wbNumInst)
          <6>1. e = wbCycle /\ 0 < wbNumInst
            BY <2>2, <2>3, <2>5, <5>2 DEF From
          <6>2. iewQueue[e][0] # 0
            BY <2>5, <6>1 DEF Slotted, InRow
          <6> QED
            BY <2>2, <2>4, <2>5, <6>2
        <5> QED
          BY <5>1, <5>2
      <4> QED
        BY <2>2, <4>1, <4>2
    <3>3. \A c \in Cycles : c < e => Full(c)'
      BY <2>4, <2>5, <3>1 DEF Full
    <3> QED
      BY <3>2, <3>3
  <2>9. OneGap'
    <3>1. PICK r \in Cycles : \A c \in Cycles :
                 c < wbCycle => (c # r => Full(c)) /\ iewQueue[c][0] # 0
      BY DEF Behind, OneGap
    <3>2. \A c \in Cycles : c < e => (c # r => Full(c)) /\ iewQueue[c][0] # 0
      BY <2>2, <2>5, <2>6, <2>7, <3>1 DEF Full
    <3>3. \A c \in Cycles : c < e => (c # r => Full(c)') /\ iewQueue'[c][0] # 0
      BY <2>4, <2>5, <3>2 DEF Full
    <3> QED
      BY <2>3, <3>3 DEF OneGap
  <2>10. OverrunIsFull'
    BY <2>3 DEF OverrunIsFull
  <2> QED
    BY <2>8, <2>9, <2>10 DEF Behind
<1> QED
  BY <1>1, <1>2 DEF instToCommit, First

\* The advance of the queue leaves behind the stage the cycles its search has
\* passed by and the one where it stopped.
LEMMA BehindAdvance ==
  ASSUME TypeOK, Behind, EndTick
  PROVE  Behind'
<1>1. step = "execute" /\ step' = "events" /\ wbCycle' = wbCycle
  BY DEF EndTick
<1>2. \A c \in Cycles, n \in Slots : c < wbCycle =>
        c + 1 \in Cycles /\ c + 1 <= wbCycle /\ iewQueue'[c][n] = iewQueue[c + 1][n]
  BY RedirectAssumption DEF RedirectAssumption, EndTick, Cycles, TypeOK
<1>3. 0 \in Slots /\ 0 \in Cycles
  BY RedirectAssumption DEF RedirectAssumption, Slots, Cycles
<1>4. wbCycle \in Cycles /\ wbCycle \in Nat /\ \A c \in Cycles : c \in Nat
  BY DEF TypeOK, Cycles
<1>5. ASSUME NEW c \in Cycles, c < wbCycle
      PROVE  (c + 1 # wbCycle => Full(c)') /\ iewQueue'[c][0] # 0
  <2>1. CASE c + 1 < wbCycle
    <3>1. Full(c + 1)
      BY <1>1, <1>2, <1>3, <1>5, <2>1 DEF Behind, Passed
    <3> QED
      BY <1>2, <1>3, <1>5, <3>1 DEF Full
  <2>2. CASE c + 1 = wbCycle
    <3>1. wbCycle > 0
      BY <1>4, <1>5
    <3>2. iewQueue[wbCycle][0] # 0
      BY <1>1, <3>1 DEF Behind, Passed
    <3>3. iewQueue'[c][0] = iewQueue[wbCycle][0]
      BY <1>2, <1>3, <1>5, <2>2
    <3>4. iewQueue'[c][0] # 0
      BY <3>2, <3>3
    <3> QED
      BY <2>2, <3>4
  <2>3. c + 1 < wbCycle \/ c + 1 = wbCycle
    BY <1>4, <1>5
  <2> QED
    BY <2>1, <2>2, <2>3
<1>6. \E r \in Cycles : \A c \in Cycles : c < wbCycle => (c # r => c + 1 # wbCycle)
  <2>1. CASE wbCycle = 0
    BY <1>3, <1>4, <2>1
  <2>2. CASE wbCycle > 0
    <3>1. wbCycle - 1 \in Cycles
      BY <2>2, RedirectAssumption DEF RedirectAssumption, Cycles, TypeOK
    <3>2. \A c \in Cycles : c # wbCycle - 1 => c + 1 # wbCycle
      BY <1>4
    <3> QED
      BY <3>1, <3>2
  <2> QED
    BY <1>4, <2>1, <2>2
<1>7. OneGap'
  BY <1>1, <1>5, <1>6 DEF OneGap
<1> QED
  BY <1>1, <1>7 DEF Behind, Passed, OverrunIsFull

LEMMA InitBehind == Init => Behind
<1> SUFFICES ASSUME Init
             PROVE  Behind
  OBVIOUS
<1>1. 0 \in Cycles /\ \A c \in Cycles : ~(c < 0)
  BY RedirectAssumption DEF RedirectAssumption, Cycles
<1> QED
  BY <1>1 DEF Init, Behind, Passed, OneGap, OverrunIsFull

LEMMA NextBehind == TypeOK /\ Slotted /\ Behind /\ [Next]_vars => Behind'
<1> SUFFICES ASSUME TypeOK, Slotted, Behind, [Next]_vars
             PROVE  Behind'
  OBVIOUS
<1>1. CASE BeginTick
  <2>1. 0 \in Cycles /\ \A c \in Cycles : ~(c < 0)
    BY RedirectAssumption DEF RedirectAssumption, Cycles
  <2>2. step' = "execute" /\ wbCycle' = 0
    BY <1>1 DEF BeginTick
  <2> QED
    BY <2>1, <2>2 DEF Behind, Passed, OneGap, OverrunIsFull
<1>2. CASE EndTick
  BY <1>2, BehindAdvance
<1>3. ASSUME NEW i \in Insts, LoadWriteback(i)
      PROVE  Behind'
  BY <1>3, BehindSearch DEF LoadWriteback
<1>4. ASSUME NEW i \in Insts, SkipSquashed(i)
      PROVE  Behind'
  BY <1>4, BehindKept DEF SkipSquashed
<1>5. ASSUME NEW i \in Insts, ExecuteLoad(i)
      PROVE  Behind'
  BY <1>5, BehindKept DEF ExecuteLoad
<1>6. ASSUME NEW i \in Insts, ExecuteStore(i)
      PROVE  Behind'
  BY <1>6, BehindSearch DEF ExecuteStore, Take
<1>7. ASSUME NEW i \in Insts, ExecuteBranch(i)
      PROVE  Behind'
  BY <1>7, BehindSearch DEF ExecuteBranch, Take
<1>8. ASSUME NEW sig \in squashSeqs, Squash(sig)
      PROVE  Behind'
  BY <1>8, BehindKept DEF Squash
<1>9. CASE UNCHANGED vars
  BY <1>9, BehindKept DEF vars
<1> QED
  BY <1>1, <1>2, <1>3, <1>4, <1>5, <1>6, <1>7, <1>8, <1>9 DEF Next, Halt

\* The search of instToCommit, which has no bound of its own, leaves the queue
\* only when more than Horizon cycles' worth of its slots are taken.
THEOREM OverrunIsFullCorrect == Spec => []OverrunIsFull
<1>1. Init => TypeOK /\ Slotted /\ Behind
  BY InitTypes, InitSlotted, InitBehind
<1>2. TypeOK /\ Slotted /\ Behind /\ [Next]_vars => TypeOK' /\ Slotted' /\ Behind'
  BY NextTypes, NextSlotted, NextBehind
<1>3. Behind => OverrunIsFull
  BY DEF Behind
<1> QED
  BY <1>1, <1>2, <1>3, PTL DEF Spec

\* The slots hold different instructions, none of them the one that looks for
\* a slot: the queue overruns only with enough instructions in flight.
LEMMA OverrunNeeds ==
  ASSUME TypeOK, Slotted, Behind, step # "abort", Overrun,
         NEW i \in Insts, st[i] \in {"waiting", "memory"}
  PROVE  Len(Program) > Horizon * wbWidth + 1
<1> DEFINE f == [p \in Written |-> iewQueue[p[1]][p[2]]]
<1>1. Insts = 1 .. Len(Program) /\ Len(Program) \in Nat
  BY RedirectAssumption DEF RedirectAssumption, Insts
<1>2. IsFiniteSet(Insts) /\ Cardinality(Insts) = Len(Program)
  <2>1. \A n \in Nat : IsFiniteSet(1 .. n) /\ Cardinality(1 .. n) = n
    BY FS_Interval
  <2> QED
    BY <1>1, <2>1
<1>3. IsFiniteSet(Insts \ {i}) /\ Cardinality(Insts \ {i}) = Len(Program) - 1
  BY <1>2, FS_RemoveElement
<1>4. f \in [Written -> Insts \ {i}]
  <2> SUFFICES ASSUME NEW p \in Written
               PROVE  iewQueue[p[1]][p[2]] \in Insts \ {i}
    OBVIOUS
  <2>1. p[1] \in Cycles /\ p[2] \in Slots /\ iewQueue[p[1]][p[2]] # 0
    BY DEF Written, Free
  <2>2. iewQueue[p[1]][p[2]] \in Insts
    BY <2>1 DEF TypeOK
  <2>3. st[iewQueue[p[1]][p[2]]] \notin {"waiting", "memory"}
    BY <2>1 DEF Slotted, Once
  <2> QED
    BY <2>2, <2>3
<1>5. IsInjective(f)
  <2> SUFFICES ASSUME NEW p \in Written, NEW q \in Written,
                      iewQueue[p[1]][p[2]] = iewQueue[q[1]][q[2]]
               PROVE  p = q
    BY DEF IsInjective
  <2>1. /\ p \in Cycles \X Slots /\ q \in Cycles \X Slots
        /\ iewQueue[p[1]][p[2]] # 0
    BY DEF Written, Free
  <2>2. p[1] = q[1] /\ p[2] = q[2]
    BY <2>1 DEF Slotted, Once
  <2> QED
    BY <2>1, <2>2
<1>6. f \in Injection(Written, Insts \ {i})
  BY <1>4, <1>5 DEF Injection
<1> HIDE DEF f
<1>7. IsFiniteSet(Written) /\ Cardinality(Written) <= Len(Program) - 1
  BY <1>3, <1>6, FS_Injection
<1>8. Cardinality(Written) \in Nat
  BY <1>7, FS_CardinalityType
<1>9. Horizon * wbWidth \in Nat
  BY RedirectAssumption DEF RedirectAssumption
<1>10. Cardinality(Written) > Horizon * wbWidth
  BY OverrunWritten
<1> QED
  BY <1>1, <1>7, <1>8, <1>9, <1>10

\* No assertion has failed.
Goes == step # "abort"

\* With no more than that in flight the search stays in the queue, and its
\* assertion never fails.
THEOREM QueueIsEnough ==
  ASSUME Len(Program) <= Horizon * wbWidth + 1
  PROVE  Spec => []Goes
<1>1. Init => TypeOK /\ Slotted /\ Behind /\ Goes
  BY InitTypes, InitSlotted, InitBehind DEF Init, Goes
<1>2. TypeOK /\ Slotted /\ Behind /\ Goes /\ [Next]_vars => Goes'
  <2> SUFFICES ASSUME TypeOK, Slotted, Behind, Goes, [Next]_vars
               PROVE  Goes'
    OBVIOUS
  <2>1. ASSUME NEW i \in Insts, st[i] \in {"waiting", "memory"}, instToCommit(i)
        PROVE  Goes'
    <3>1. ~(Len(Program) > Horizon * wbWidth + 1)
      BY RedirectAssumption DEF RedirectAssumption
    <3>2. ~Overrun
      BY <2>1, <3>1, OverrunNeeds DEF Goes
    <3> QED
      BY <2>1, <3>2 DEF instToCommit, Write, Goes
  <2>2. ASSUME NEW i \in Insts, LoadWriteback(i)
        PROVE  Goes'
    BY <2>1, <2>2 DEF LoadWriteback
  <2>3. ASSUME NEW i \in Insts, Take(i), st[i] # "squashed"
        PROVE  st[i] = "waiting"
    BY <2>3 DEF Take, Slotted, Scheduled
  <2>4. ASSUME NEW i \in Insts, ExecuteStore(i) \/ ExecuteBranch(i)
        PROVE  Goes'
    <3>1. st[i] = "waiting" /\ instToCommit(i)
      BY <2>3, <2>4 DEF ExecuteStore, ExecuteBranch
    <3> QED
      BY <2>1, <3>1
  <2>5. ASSUME NEW i \in Insts, SkipSquashed(i) \/ ExecuteLoad(i)
        PROVE  Goes'
    BY <2>5 DEF SkipSquashed, ExecuteLoad, Goes
  <2>6. CASE BeginTick \/ EndTick \/ \E sig \in squashSeqs : Squash(sig)
    BY <2>6 DEF BeginTick, EndTick, Squash, Goes
  <2>7. CASE UNCHANGED vars
    BY <2>7 DEF vars, Goes
  <2> QED
    BY <2>2, <2>4, <2>5, <2>6, <2>7 DEF Next, Halt
<1>3. TypeOK /\ Slotted /\ Behind /\ [Next]_vars => TypeOK' /\ Slotted' /\ Behind'
  BY NextTypes, NextSlotted, NextBehind
<1> QED
  BY <1>1, <1>2, <1>3, PTL DEF Spec
=============================================================================
