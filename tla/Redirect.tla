------------------------------ MODULE Redirect ------------------------------
(* What the execution half of the O3 CPU's IEW stage (cpu/o3/iew.cc) tells *)
(* commit: the instructions that finished, in the write-back slots of the  *)
(* IEW queue, and the one squash of a cycle, out of all the mispredicted   *)
(* branches and violated loads of that cycle, whatever order they execute  *)
(* in.  The queues and commit are outside src/.                            *)
EXTENDS Naturals, FiniteSets, Sequences

CONSTANTS Program,                  \* kinds of the instructions, by age
          issueWidth, wbWidth,
          Horizon                   \* cycles ahead that the IEW queue reaches

Kinds == {"load", "store", "branch"}
ASSUME RedirectAssumption ==
  /\ Program \in Seq(Kinds)
  /\ issueWidth \in Nat \ {0} /\ wbWidth \in Nat \ {0} /\ Horizon \in Nat

VARIABLES
  step,                   \* "events" between two ticks, "execute" in one,
                          \* "abort" after a failed assertion
  st,                     \* where each instruction is
  issued,                 \* what the instruction queue has scheduled
  fetchRedirect,
  toCommit,               \* the squash signal of this cycle
  iewQueue,               \* slots of this and the next cycles, 0 when empty
  wbCycle, wbNumInst,
  causes,                 \* history: what called for a squash in this cycle
  squashSeqs              \* squash signals on their way through commit

vars == <<step, st, issued, fetchRedirect, toCommit, iewQueue, wbCycle, wbNumInst,
          causes, squashSeqs>>

Insts   == DOMAIN Program
Cycles  == 0 .. Horizon
Slots   == 0 .. wbWidth - 1
NoSquash == [squash |-> FALSE, squashedSeqNum |-> 0, includeSquashInst |-> FALSE]
Where == {"waiting", "memory", "written", "atCommit", "squashed"}

Init ==
  /\ step = "events" /\ st = [i \in Insts |-> "waiting"] /\ issued = {}
  /\ fetchRedirect = FALSE /\ toCommit = NoSquash /\ causes = {} /\ squashSeqs = {}
  /\ iewQueue = [c \in Cycles |-> [n \in Slots |-> 0]]
  /\ wbCycle = 0 /\ wbNumInst = 0

-----------------------------------------------------------------------------
(* The signals to commit. *)

squashDueToBranch(sig, i) ==
  IF ~sig.squash \/ i < sig.squashedSeqNum
  THEN [squash |-> TRUE, squashedSeqNum |-> i, includeSquashInst |-> FALSE] ELSE sig

\* Mutant: a violator that is itself mispredicted stays out of the squash.
squashDueToMemOrder_younger(sig, i) ==
  IF ~sig.squash \/ i < sig.squashedSeqNum
  THEN [squash |-> TRUE, squashedSeqNum |-> i, includeSquashInst |-> TRUE] ELSE sig

squashDueToMemOrder(sig, i) ==
  IF ~sig.squash \/ i <= sig.squashedSeqNum
  THEN [squash |-> TRUE, squashedSeqNum |-> i, includeSquashInst |-> TRUE] ELSE sig

\* A redirect of i is looked at, unless an older one has been sent.
Considered(i) == ~fetchRedirect \/ ~toCommit.squash \/ toCommit.squashedSeqNum > i

Cause(i, incl) == [seq |-> i, include |-> incl]

Mispredicted(i) ==
  /\ causes' = causes \cup {Cause(i, FALSE)}
  /\ IF Considered(i)
     THEN fetchRedirect' = TRUE /\ toCommit' = squashDueToBranch(toCommit, i)
     ELSE UNCHANGED <<fetchRedirect, toCommit>>

\* i finds that the younger load v has read too early.
Violation(i, v) ==
  /\ causes' = causes \cup {Cause(v, TRUE)}
  /\ IF Considered(i)
     THEN fetchRedirect' = TRUE /\ toCommit' = squashDueToMemOrder(toCommit, v)
     ELSE UNCHANGED <<fetchRedirect, toCommit>>

NoRedirect == UNCHANGED <<fetchRedirect, toCommit, causes>>

\* The slots from where the stage stands on, in order. From one tick's end to
\* the next tick that is the cycle at which the last search stopped.
From(c, n) == {p \in Cycles \X Slots : p[1] > c \/ (p[1] = c /\ p[2] >= n)}
Before(p, q) == p[1] < q[1] \/ (p[1] = q[1] /\ p[2] < q[2])
Free(p) == iewQueue[p[1]][p[2]] = 0

Write(i, p) ==
  /\ wbCycle' = p[1] /\ wbNumInst' = p[2]
  /\ iewQueue' = [iewQueue EXCEPT ![p[1]][p[2]] = i]
  /\ UNCHANGED step

\* The search has no bound of its own: behind the last slot it asks the queue
\* for a cycle the queue does not have, which TimeBuffer asserts.
Overrun ==
  /\ \A p \in From(wbCycle, wbNumInst) : ~Free(p)
  /\ step' = "abort" /\ UNCHANGED <<iewQueue, wbCycle, wbNumInst>>

\* Mutant: the slots of a cycle are not searched.
instToCommit_blind(i) == Write(i, <<wbCycle, wbNumInst>>)

instToCommit(i) ==
  \/ \E p \in From(wbCycle, wbNumInst) :
       /\ Free(p) /\ \A q \in From(wbCycle, wbNumInst) : Before(q, p) => ~Free(q)
       /\ Write(i, p)
  \/ Overrun

-----------------------------------------------------------------------------
(* Between two ticks. *)

\* A load's data arrives: it goes to commit, and may have changed the PC
\* (checkMisprediction).
LoadWriteback(i) ==
  /\ step = "events" /\ st[i] = "memory"
  /\ st' = [st EXCEPT ![i] = "written"]
  /\ instToCommit(i)
  /\ Mispredicted(i) \/ NoRedirect
  /\ UNCHANGED <<issued, squashSeqs>>

\* Commit's squash has marked the instructions of the ROB.
Squash(sig) ==
  /\ step = "events" /\ sig \in squashSeqs
  /\ squashSeqs' = squashSeqs \ {sig}
  /\ st' = [i \in Insts |-> IF i > sig.squashedSeqNum
                                 \/ (sig.includeSquashInst /\ i = sig.squashedSeqNum)
                            THEN "squashed" ELSE st[i]]
  /\ UNCHANGED <<step, issued, fetchRedirect, toCommit, iewQueue, wbCycle, wbNumInst, causes>>

\* Mutant: the search goes on where that of the last cycle stopped.
BeginTick_kept ==
  /\ step = "events" /\ step' = "execute"
  /\ wbNumInst' = 0 /\ fetchRedirect' = FALSE
  /\ UNCHANGED <<st, issued, toCommit, iewQueue, wbCycle, causes, squashSeqs>>

BeginTick ==
  /\ step = "events" /\ step' = "execute"
  /\ wbCycle' = 0 /\ wbNumInst' = 0 /\ fetchRedirect' = FALSE
  /\ UNCHANGED <<st, issued, toCommit, iewQueue, causes, squashSeqs>>

-----------------------------------------------------------------------------
(* executeInsts, one instruction at a time, in the order of issue. *)

Take(i) == step = "execute" /\ i \in issued /\ issued' = issued \ {i}

SkipSquashed(i) ==
  /\ Take(i) /\ st[i] = "squashed"
  /\ UNCHANGED <<step, st, fetchRedirect, toCommit, iewQueue, wbCycle, wbNumInst, causes,
                 squashSeqs>>

\* A store, or under TSO a load, may find a load that overtook it.
Violates(i) == \E v \in Insts : /\ v > i /\ Program[v] = "load"
                                /\ st[v] \in {"memory", "written", "atCommit"}
                                /\ Violation(i, v)

ExecuteLoad(i) ==
  /\ Take(i) /\ Program[i] = "load" /\ st[i] # "squashed"
  /\ st' = [st EXCEPT ![i] = "memory"]
  /\ Violates(i) \/ NoRedirect
  /\ UNCHANGED <<step, iewQueue, wbCycle, wbNumInst, squashSeqs>>

ExecuteStore(i) ==
  /\ Take(i) /\ Program[i] = "store" /\ st[i] # "squashed"
  /\ st' = [st EXCEPT ![i] = "written"]
  /\ instToCommit(i)
  /\ Violates(i) \/ NoRedirect
  /\ UNCHANGED squashSeqs

ExecuteBranch(i) ==
  /\ Take(i) /\ Program[i] = "branch" /\ st[i] # "squashed"
  /\ st' = [st EXCEPT ![i] = "written"]
  /\ instToCommit(i)
  /\ Mispredicted(i) \/ NoRedirect
  /\ UNCHANGED squashSeqs

\* The slots that writebackInsts reaches: up to the first empty one.
Reached == {iewQueue[0][n] : n \in {m \in Slots : \A k \in 0 .. m : iewQueue[0][k] # 0}}

\* writebackInsts, scheduleReadyInsts and the advance of the time buffers.
EndTick ==
  /\ step = "execute" /\ issued = {} /\ step' = "events"
  /\ st' = [i \in Insts |-> IF i \in Reached /\ st[i] = "written" THEN "atCommit" ELSE st[i]]
  /\ iewQueue' = [c \in Cycles |-> IF c = Horizon THEN [n \in Slots |-> 0]
                                   ELSE iewQueue[c + 1]]
  /\ wbNumInst' = 0
  /\ squashSeqs' = squashSeqs \cup (IF toCommit.squash THEN {toCommit} ELSE {})
  /\ toCommit' = NoSquash /\ causes' = {}
  /\ \E g \in SUBSET {i \in Insts : st[i] = "waiting"} :
       Cardinality(g) <= issueWidth /\ issued' = g
  /\ UNCHANGED <<fetchRedirect, wbCycle>>

\* The simulator has stopped.
Halt == step = "abort" /\ UNCHANGED vars

Next ==
  \/ BeginTick \/ EndTick \/ Halt
  \/ \E i \in Insts : \/ LoadWriteback(i) \/ SkipSquashed(i)
                      \/ ExecuteLoad(i) \/ ExecuteStore(i) \/ ExecuteBranch(i)
  \/ \E sig \in squashSeqs : Squash(sig)

Spec == Init /\ [][Next]_vars

-----------------------------------------------------------------------------
(* Properties. *)

Written == {p \in Cycles \X Slots : ~Free(p)}

\* Every variable keeps its type.
TypeOK ==
  /\ step \in {"events", "execute", "abort"} /\ st \in [Insts -> Where] /\ issued \subseteq Insts
  /\ fetchRedirect \in BOOLEAN
  /\ toCommit \in [squash : BOOLEAN, squashedSeqNum : Insts \cup {0},
                   includeSquashInst : BOOLEAN]
  /\ iewQueue \in [Cycles -> [Slots -> Insts \cup {0}]]
  /\ wbCycle \in Cycles /\ wbNumInst \in Slots

\* The one squash of a cycle covers everything that called for one, and goes
\* no further back than the oldest of these (squashDueToMemOrder: "the memory
\* violator should take precedence over the branch misprediction").
SquashIsOldest ==
  LET covers(c) == \/ toCommit.squashedSeqNum < c.seq
                   \/ toCommit.squashedSeqNum = c.seq
                      /\ (c.include => toCommit.includeSquashInst) IN
  /\ \A c \in causes : toCommit.squash /\ covers(c)
  /\ toCommit.squash => Cause(toCommit.squashedSeqNum, toCommit.includeSquashInst) \in causes

\* Each finished instruction holds exactly one slot until writebackInsts
\* reads it, and reads are not cut short: the slots of the cycle that is
\* written back are filled from the first.
SlotsExact ==
  /\ \A i \in Insts : st[i] = "written" /\ step # "abort" =>
       Cardinality({p \in Written : iewQueue[p[1]][p[2]] = i}) = 1
  /\ \A p \in Written : \A q \in Cycles \X Slots :
       p[1] = 0 /\ q[1] = 0 /\ q[2] < p[2] => q \in Written

\* The search for a slot leaves the queue only when fewer than wbWidth of all
\* its slots are free: neither the search of the next tick, which starts over,
\* nor a load between ticks, which goes on where the last one stopped, passes
\* by more (wbCycle, instToCommit).
OverrunIsFull == step = "abort" => Cardinality(Written) > Horizon * wbWidth
=============================================================================
