----------------------------- MODULE MCTreeMath -----------------------------
(***************************************************************************)
(* A walk from a block to the root, the way getFirstMissingParent and the  *)
(* MRU chains of the directory climb. The start blocks are the neighbours  *)
(* of every boundary of the geometry and a coarse grid between them.       *)
(***************************************************************************)
EXTENDS TreeMath

CONSTANTS MemoryBlocks,          \* blocks of physical memory holding data
          GridStep               \* distance of the grid points

ASSUME WalkAssumption == MemoryBlocks \in Nat /\ GridStep \in Nat \ {0}

VARIABLES start, at, steps

Boundaries == {0, Arity, 225, 3375, 50625, 759375, L6Span, 2 * L6Span,
               L1Base, MetadataEnd}
Starts == { b \in { s + d : s \in Boundaries, d \in -1 .. 1 }
                  \cup { g * GridStep : g \in 0 .. (MemoryBlocks \div GridStep) } :
              0 <= b /\ b < MemoryBlocks }

Init == start \in Starts /\ at = start /\ steps = 0

Climb ==
  /\ getParentAddr(at) # NoParent
  /\ at' = getParentAddr(at)
  /\ steps' = steps + 1
  /\ UNCHANGED start

Spec == Init /\ [][Climb]_<<start, at, steps>>

(* Every block a walk reaches sits on the level counted by its steps: data *)
(* has an L1 parent, and each getParentAddr climbs exactly one level.      *)
OneLevelPerStep == Level(at) = steps

(* The walk of a data block ends after six counters, in the level-6        *)
(* counter whose root slot getL6Index selects for the block.               *)
RootSlotOfWalk ==
  getParentAddr(at) = NoParent =>
    /\ steps = 6
    /\ at - L6Base = getL6Index(start)
    /\ getL6Index(start) \in 0 .. 2
=============================================================================
