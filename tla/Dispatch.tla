------------------------------ MODULE Dispatch ------------------------------
(* The dispatch part of the O3 CPU's IEW stage (cpu/o3/iew.cc), one        *)
(* thread: instructions come from rename over a delayed wire, go to the    *)
(* instruction queue in order, and wait in the skid buffer while a queue   *)
(* is full or the ROB squashes.  A cycle is four steps, taken in turn:     *)
(* commit's signals, rename, checkSignalsAndUpdate and dispatch.  Commit,  *)
(* rename and the queues are outside src/; they do what iew.cc relies on.  *)
EXTENDS Integers, Sequences, FiniteSets, SequencesExt

CONSTANTS Program,          \* the kinds of the instructions rename may send
          renameWidth, dispatchWidth, renameToIEWDelay,
          Refill,           \* cycles a squash keeps rename without instructions
          Squashes          \* squashes that commit may signal

Kinds == {"load", "store", "other"}     \* an atomic counts as a store
NumInsts == Len(Program)
skidBufferMax == (renameToIEWDelay + 1) * renameWidth

ASSUME DispatchAssumption ==
  /\ Program \in Seq(Kinds) /\ Squashes \in Nat /\ Refill \in Nat \ {0}
  /\ renameWidth \in Nat \ {0} /\ dispatchWidth \in Nat \ {0}
  /\ renameToIEWDelay \in Nat \ {0}

VARIABLES
  turn,                  \* the step of the cycle that is next
  iew,                   \* the stage: dispatchStatus, insts, skidBuffer, and
                         \* toRename, its signals of this cycle
  wire,                  \* what rename sent in the last cycles, oldest first
  fromCommit,            \* commit's signals of this cycle
  stalled,               \* rename: stalls[tid].iew
  inProgress,            \* rename: instsInProgress, loads-, storesInProgress
  refill, next,          \* cycles without instructions; next sequence number
  lastSquashed,          \* every number up to it has been squashed
  lastDispatched,        \* history: the last one to enter a queue
  squashes

renameVars == <<stalled, inProgress, refill, next>>
commitVars == <<fromCommit, lastSquashed, squashes>>
vars == <<turn, iew, wire, renameVars, commitVars, lastDispatched>>

Credits == {"all", "load", "store"}
None  == [c \in Credits |-> 0]
Quiet == [iewBlock |-> FALSE, iewUnblock |-> FALSE, dispatched |-> None]

\* How many instructions of a sequence count towards each credit.
CountIn(s) ==
  [c \in Credits |-> IF c = "all" THEN Len(s)
                     ELSE Cardinality({k \in DOMAIN s : s[k].kind = c})]
Plus(a, b)  == [c \in Credits |-> a[c] + b[c]]
Minus(a, b) == [c \in Credits |-> a[c] - b[c]]

Init ==
  /\ turn = "commit"
  /\ iew = [dispatchStatus |-> "Running", insts |-> <<>>, skidBuffer |-> <<>>,
            toRename |-> Quiet]
  /\ wire = [c \in 1 .. renameToIEWDelay |-> <<>>]
  /\ fromCommit = [squash |-> FALSE, robSquashing |-> FALSE]
  /\ stalled = FALSE /\ inProgress = None /\ refill = 0 /\ next = 1
  /\ lastSquashed = 0 /\ lastDispatched = 0 /\ squashes = 0

-----------------------------------------------------------------------------
(* Around IEW. *)

\* A squash removes whatever has not been dispatched, and the ROB may need
\* more cycles to mark all of it.
Commit ==
  /\ turn = "commit" /\ turn' = "rename"
  /\ \/ /\ squashes < Squashes
        /\ fromCommit' = [squash |-> TRUE, robSquashing |-> TRUE]
        /\ squashes' = squashes + 1 /\ lastSquashed' = next - 1
     \/ /\ \E b \in {FALSE, fromCommit.robSquashing} :
             fromCommit' = [squash |-> FALSE, robSquashing |-> b]
        /\ UNCHANGED <<squashes, lastSquashed>>
  /\ UNCHANGED <<iew, wire, renameVars, lastDispatched>>

\* Rename takes the signals of IEW's cycle before and sends what it may.
Rename ==
  LET sig     == iew.toRename
      blocked == (stalled \/ sig.iewBlock) /\ ~sig.iewUnblock
      most    == IF blocked \/ refill > 0 \/ fromCommit.squash THEN 0
                 ELSE Min({renameWidth, NumInsts + 1 - next}) IN
  /\ turn = "rename" /\ turn' = "check"
  /\ \E n \in 0 .. most :
       LET sent == [k \in 1 .. n |-> [seq |-> next + k - 1, kind |-> Program[next + k - 1]]] IN
       /\ wire' = Append(wire, sent) /\ next' = next + n
       /\ inProgress' = Minus(Plus(inProgress, CountIn(sent)), sig.dispatched)
  /\ stalled' = blocked
  /\ refill' = IF fromCommit.squash THEN Refill ELSE Max({0, refill - 1})
  /\ iew' = [iew EXCEPT !.toRename = Quiet]
  /\ UNCHANGED <<commitVars, lastDispatched>>

-----------------------------------------------------------------------------
(* The methods of the stage: each takes it in one value to the next. *)

Credit(s, gone) == [s EXCEPT !.toRename.dispatched = Plus(@, CountIn(gone))]

\* Mutant: what arrives goes before what waits.
skidInsert_front(s) == [s EXCEPT !.skidBuffer = s.insts \o @, !.insts = <<>>]

skidInsert(s) == [s EXCEPT !.skidBuffer = @ \o s.insts, !.insts = <<>>]

\* Mutant: a stage that is squashing does not tell rename to stop.
block_running(s) ==
  [skidInsert(s) EXCEPT !.toRename.iewBlock = @ \/ s.dispatchStatus = "Running",
                        !.dispatchStatus = "Blocked"]

\* Rename is told, unless it has been told before.
block(s) ==
  [skidInsert(s) EXCEPT
     !.toRename.iewBlock = @ \/ s.dispatchStatus \notin {"Blocked", "Unblocking"},
     !.dispatchStatus = "Blocked"]

\* Mutant: rename is told to go on before the skid buffer is empty.
unblock_early(s) ==
  [s EXCEPT !.toRename.iewUnblock = TRUE,
            !.dispatchStatus = IF s.skidBuffer = <<>> THEN "Running" ELSE @]

unblock(s) ==
  IF s.skidBuffer = <<>>
  THEN [s EXCEPT !.toRename.iewUnblock = TRUE, !.dispatchStatus = "Running"] ELSE s

\* Mutant: the instructions that are thrown away are not reported.
emptyRenameInsts_silent(s) == [s EXCEPT !.insts = <<>>]

emptyRenameInsts(s) == [Credit(s, s.insts) EXCEPT !.insts = <<>>]

\* Mutant: rename is told to go on whether or not it waits.
squash_always(s) ==
  [emptyRenameInsts([Credit(s, s.skidBuffer) EXCEPT !.skidBuffer = <<>>]) EXCEPT
     !.toRename.iewUnblock = TRUE, !.dispatchStatus = "Squashing"]

\* Mutant: rename is not told that there is nothing to wait for any more.
squash_silent(s) ==
  [emptyRenameInsts([Credit(s, s.skidBuffer) EXCEPT !.skidBuffer = <<>>]) EXCEPT
     !.dispatchStatus = "Squashing"]

\* squash, and what checkSignalsAndUpdate does after it.
squash(s) ==
  [emptyRenameInsts([Credit(s, s.skidBuffer) EXCEPT !.skidBuffer = <<>>]) EXCEPT
     !.toRename.iewUnblock = @ \/ s.dispatchStatus \in {"Blocked", "Unblocking"},
     !.dispatchStatus = "Squashing"]

\* dispatchInsts: n instructions leave the sequence from; the next one found
\* its queue full, or the width is used up, or there are no more.
dispatchInsts(s, from, n) ==
  LET s1 == Credit([s EXCEPT ![from] = SubSeq(@, n + 1, Len(@))], SubSeq(s[from], 1, n)) IN
  IF s1[from] = <<>> THEN s1 ELSE [block(s1) EXCEPT !.toRename.iewUnblock = FALSE]

-----------------------------------------------------------------------------
(* IEW::tick. *)

\* sortInsts and checkSignalsAndUpdate; full is what checkStall hears from
\* the instruction queue.
checkSignalsAndUpdate ==
  LET s  == [iew EXCEPT !.insts = @ \o Head(wire)]
      s1 == IF fromCommit.robSquashing
            THEN [emptyRenameInsts(s) EXCEPT !.dispatchStatus = "Squashing"] ELSE s IN
  /\ turn = "check" /\ turn' = "dispatch"
  /\ wire' = Tail(wire)
  /\ \/ fromCommit.squash /\ iew' = squash(s)
     \/ /\ ~fromCommit.squash
        /\ \E full \in BOOLEAN :
             iew' = IF full \/ fromCommit.robSquashing THEN block(s1)
                    ELSE IF s1.dispatchStatus = "Blocked"
                    THEN unblock([s1 EXCEPT !.dispatchStatus = "Unblocking"])
                    ELSE IF s1.dispatchStatus = "Squashing"
                    THEN [s1 EXCEPT !.dispatchStatus = "Running"] ELSE s1
  /\ UNCHANGED <<renameVars, commitVars, lastDispatched>>

\* The sequences that dispatchInsts may take from s[from], by their length.
Possible(s, from) ==
  {n \in 0 .. Min({Len(s[from]), dispatchWidth}) :
     n < Min({Len(s[from]), dispatchWidth}) => s[from][n + 1].seq > lastSquashed}

Entered(taken) ==
  lastDispatched' = Max({lastDispatched} \cup
                        {taken[k].seq : k \in {m \in DOMAIN taken :
                                                 taken[m].seq > lastSquashed}})

dispatch ==
  /\ turn = "dispatch" /\ turn' = "commit"
  /\ \/ /\ iew.dispatchStatus = "Running"
        /\ \E n \in Possible(iew, "insts") :
             iew' = dispatchInsts(iew, "insts", n) /\ Entered(SubSeq(iew.insts, 1, n))
     \/ /\ iew.dispatchStatus = "Unblocking"
        /\ \E n \in Possible(iew, "skidBuffer") :
             /\ iew' = unblock(skidInsert(dispatchInsts(iew, "skidBuffer", n)))
             /\ Entered(SubSeq(iew.skidBuffer, 1, n))
     \/ /\ iew.dispatchStatus \in {"Blocked", "Squashing"}
        /\ UNCHANGED <<iew, lastDispatched>>
  /\ UNCHANGED <<wire, renameVars, commitVars>>

Next == Commit \/ Rename \/ checkSignalsAndUpdate \/ dispatch

Spec == Init /\ [][Next]_vars

(* Cycles follow one another, the ROB ends its squash, and the queues are  *)
(* not full every time the stage looks (issue and commit free entries).    *)
FairSpec ==
  /\ Spec /\ WF_vars(Next)
  /\ SF_vars(Commit /\ ~fromCommit'.robSquashing)
  /\ SF_vars(checkSignalsAndUpdate /\ iew'.dispatchStatus # "Blocked")
  /\ SF_vars(dispatch /\ Len(iew'.skidBuffer) < Len(iew.skidBuffer))

-----------------------------------------------------------------------------
(* Properties. *)

Seqs   == 1 .. NumInsts
Queued == iew.skidBuffer \o iew.insts \o FlattenSeq(wire)   \* in order of age
Waiting == {Queued[k].seq : k \in DOMAIN Queued}

\* Every variable keeps its type.
TypeOK ==
  /\ turn \in {"commit", "rename", "check", "dispatch"}
  /\ iew.dispatchStatus \in {"Running", "Blocked", "Unblocking", "Squashing"}
  /\ \A k \in DOMAIN Queued : Queued[k].seq \in Seqs /\ Queued[k].kind \in Kinds
  /\ Len(wire) = renameToIEWDelay + (IF turn = "check" THEN 1 ELSE 0)
  /\ fromCommit \in [squash : BOOLEAN, robSquashing : BOOLEAN]
  /\ stalled \in BOOLEAN /\ inProgress \in [Credits -> 0 .. NumInsts]
  /\ refill \in 0 .. Refill /\ next \in 1 .. NumInsts + 1
  /\ lastSquashed \in 0 .. NumInsts /\ lastDispatched \in 0 .. NumInsts
  /\ squashes \in 0 .. Squashes

\* The skid buffer holds what was on its way when rename was told to stop
\* (the assertion of skidInsert).
SkidFits == Len(iew.skidBuffer) <= skidBufferMax

\* Rename's counts of what it sent and IEW has not reported are exact, in
\* all, for loads and for stores, through squashes (toRename->iewInfo).
CreditsExact == Minus(inProgress, iew.toRename.dispatched) = CountIn(Queued)

\* Instructions enter the queues in program order: nothing is dispatched
\* while an older one waits in the skid buffer.
InOrder ==
  /\ \A j, k \in DOMAIN Queued : j < k => Queued[j].seq < Queued[k].seq
  /\ \A q \in Waiting : q > lastDispatched \/ q <= lastSquashed

\* Rename is released only when it has been stopped (its assertion), and the
\* stage that unblocks has something to dispatch (the assertion of dispatch).
SignalsPaired ==
  /\ iew.toRename.iewUnblock => stalled /\ ~iew.toRename.iewBlock
  /\ turn = "dispatch" /\ iew.dispatchStatus = "Unblocking" => iew.skidBuffer # <<>>

\* An instruction leaves the stage undispatched only when it is squashed:
\* what emptyRenameInsts throws away is never of the new path.
NoneLost ==
  [][\A q \in Waiting : \/ q \in Waiting' \/ q <= lastDispatched' \/ q <= lastSquashed']_vars

\* Rename is not left stopped.
StallEnds == stalled ~> ~stalled
=============================================================================
