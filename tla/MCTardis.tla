------------------------------- MODULE MCTardis -------------------------------
(***************************************************************************)
(* Instances of the system for TLC. The counter trees are prefixes of the  *)
(* shapes getParentAddr builds: lines of one chunk share their level-1     *)
(* counter, lines further apart do not.                                    *)
(***************************************************************************)
EXTENDS Coherence, Integrity

CONSTANTS c1, c2, a1, a2, a3, k1, k2

(* What the cores issue: plain loads and stores; those and their fenced    *)
(* forms and instruction fetches, whose mark the CPU does not set: it may  *)
(* hold anything; stores only.                                             *)
Op(kind, barrier) == [kind |-> kind, barrier |-> barrier]
Stores == {Op("ST", FALSE)}
Plain == {Op("LD", FALSE), Op("ST", FALSE)}
Fences == Plain \cup {Op("LD", TRUE), Op("ST", TRUE)}
AllOps == Fences \cup {Op("IFETCH", FALSE), Op("IFETCH", TRUE)}

(* Neighbouring lines: one counter, whose parent is on chip. *)
OneLevel == [a \in Addr |-> IF a \in Data THEN <<k1>> ELSE <<>>]
(* Neighbouring lines below a chain of two counters. *)
TwoLevels ==
  [a \in Addr |-> IF a \in Data THEN <<k1, k2>> ELSE IF a = k1 THEN <<k2>> ELSE <<>>]
(* Distant lines, each below a counter of its own. *)
TwoRoots ==
  [a \in Addr |-> IF a = a1 THEN <<k1>> ELSE IF a \in Data THEN <<k2>> ELSE <<>>]

Slot0 == [a \in Addr |-> 0]

(* Cores are interchangeable, and so are neighbouring lines: no definition *)
(* names one, and OneLevel and TwoLevels treat the lines alike.            *)
Cores == Permutations(Caches)
Lines == Permutations(Data)
CoresAndLines == Cores \cup Lines
=============================================================================
