---------------------------- MODULE TreeMathProofs ----------------------------
(***************************************************************************)
(* The geometry of the TEC-Tree for every data block below 0x80000000: its *)
(* counters, and the walk from the block to its root slot. This is what    *)
(* Path stands for in TardisNet.                                           *)
(***************************************************************************)
EXTENDS MCTreeMath, TLAPS

isDataBlock(b) == b \in Int /\ 0 <= b /\ b < L1Base

(* Blocks of the counter levels 1 to 6. *)
isCounterBlock(b) == b \in Int /\ L1Base <= b /\ b < L7Base

(* One step of getParentAddr from a counter reaches the next level; from   *)
(* level 6 the parent is on chip.                                          *)
LEMMA CounterClimbs ==
  ASSUME NEW b, isCounterBlock(b)
  PROVE  /\ Level(b) \in 1 .. 6
         /\ Level(b) = 6 => getParentAddr(b) = NoParent
         /\ Level(b) # 6 => /\ isCounterBlock(getParentAddr(b))
                            /\ Level(getParentAddr(b)) = Level(b) + 1
  BY SMT DEF isCounterBlock, getParentAddr, calcUpper, Level, isMetadataAddr, NoParent,
     L1Base, L2Base, L3Base, L4Base, L5Base, L6Base, L7Base, MetadataEnd, Arity

(* Every data block below 0x80000000 is authenticated by a level-1 counter *)
(* ("Dati -> L1"), stored among the level-1 chunks and never below data.   *)
THEOREM DataParent ==
  ASSUME NEW b, isDataBlock(b)
  PROVE  /\ getParentAddr(b) = L1Base + b \div Arity
         /\ isCounterBlock(getParentAddr(b))
         /\ Level(getParentAddr(b)) = 1
  BY SMT DEF isDataBlock, isCounterBlock, getParentAddr, calcCounterAddr, Level, isMetadataAddr,
         L1Base, L2Base, L3Base, L4Base, L5Base, L6Base, L7Base, MetadataEnd, Arity

(* Dividing by Arity level by level is dividing once by its power.         *)
LEMMA NestedDivision ==
  ASSUME NEW b \in Int, 0 <= b
  PROVE  /\ (b \div 15) \div 15 = b \div 225
         /\ (b \div 225) \div 15 = b \div 3375
         /\ (b \div 3375) \div 15 = b \div 50625
         /\ (b \div 50625) \div 15 = b \div 759375
         /\ (b \div 759375) \div 15 = b \div 11390625
  <1>1. (b \div 15) \div 15 = b \div 225
    BY SMT
  <1>2. (b \div 225) \div 15 = b \div 3375
    BY SMT
  <1>3. (b \div 3375) \div 15 = b \div 50625
    BY SMT
  <1>4. (b \div 50625) \div 15 = b \div 759375
    BY SMT
  <1>5. (b \div 759375) \div 15 = b \div 11390625
    BY SMT
  <1>6. QED
    BY <1>1, <1>2, <1>3, <1>4, <1>5, SMT

(* The counter above a counter whose offset in its level is d.             *)
LEMMA ParentOffset ==
  ASSUME NEW b, isCounterBlock(b), NEW d \in Int
  PROVE  /\ Level(b) = 1 /\ b = L1Base + d => getParentAddr(b) = L2Base + d \div 15
         /\ Level(b) = 2 /\ b = L2Base + d => getParentAddr(b) = L3Base + d \div 15
         /\ Level(b) = 3 /\ b = L3Base + d => getParentAddr(b) = L4Base + d \div 15
         /\ Level(b) = 4 /\ b = L4Base + d => getParentAddr(b) = L5Base + d \div 15
         /\ Level(b) = 5 /\ b = L5Base + d => getParentAddr(b) = L6Base + d \div 15
  BY SMT DEF getParentAddr, calcUpper, isCounterBlock, Arity, L1Base, L2Base, L3Base,
     L4Base, L5Base, L6Base

(* The six counters above a data block and the root slot: six steps of     *)
(* getParentAddr stay on consecutive levels, the seventh finds no parent   *)
(* in memory, and the level-6 counter is the one of the slot getL6Index    *)
(* selects, which is 0, 1 or 2 and so has a root counter of its own.       *)
THEOREM SixLevels ==
  ASSUME NEW b, isDataBlock(b)
  PROVE  LET p1 == getParentAddr(b)
             p2 == getParentAddr(p1)
             p3 == getParentAddr(p2)
             p4 == getParentAddr(p3)
             p5 == getParentAddr(p4)
             p6 == getParentAddr(p5)
         IN /\ Level(p1) = 1 /\ Level(p2) = 2 /\ Level(p3) = 3
            /\ Level(p4) = 4 /\ Level(p5) = 5 /\ Level(p6) = 6
            /\ getParentAddr(p6) = NoParent
            /\ p6 - L6Base = getL6Index(b)
            /\ getL6Index(b) \in 0 .. 2
  <1> DEFINE p1 == getParentAddr(b)
             p2 == getParentAddr(p1)
             p3 == getParentAddr(p2)
             p4 == getParentAddr(p3)
             p5 == getParentAddr(p4)
             p6 == getParentAddr(p5)
  <1>0. b \in Int /\ 0 <= b /\ b < L1Base
    BY SMT DEF isDataBlock
  <1>1. isCounterBlock(p1) /\ Level(p1) = 1 /\ p1 = L1Base + b \div 15
    BY DataParent, SMT DEF Arity
  <1> HIDE DEF p1
  <1>2. isCounterBlock(p2) /\ Level(p2) = 2 /\ p2 = L2Base + b \div 225
    <2>1. isCounterBlock(p2) /\ Level(p2) = 2
      BY <1>1, CounterClimbs, SMT
    <2>2. p2 = L2Base + (b \div 15) \div 15
      BY <1>0, <1>1, ParentOffset, SMT
    <2>3. QED
      BY <1>0, <2>1, <2>2, NestedDivision, SMT
  <1> HIDE DEF p2
  <1>3. isCounterBlock(p3) /\ Level(p3) = 3 /\ p3 = L3Base + b \div 3375
    <2>1. isCounterBlock(p3) /\ Level(p3) = 3
      BY <1>2, CounterClimbs, SMT
    <2>2. p3 = L3Base + (b \div 225) \div 15
      BY <1>0, <1>2, ParentOffset, SMT
    <2>3. QED
      BY <1>0, <2>1, <2>2, NestedDivision, SMT
  <1> HIDE DEF p3
  <1>4. isCounterBlock(p4) /\ Level(p4) = 4 /\ p4 = L4Base + b \div 50625
    <2>1. isCounterBlock(p4) /\ Level(p4) = 4
      BY <1>3, CounterClimbs, SMT
    <2>2. p4 = L4Base + (b \div 3375) \div 15
      BY <1>0, <1>3, ParentOffset, SMT
    <2>3. QED
      BY <1>0, <2>1, <2>2, NestedDivision, SMT
  <1> HIDE DEF p4
  <1>5. isCounterBlock(p5) /\ Level(p5) = 5 /\ p5 = L5Base + b \div 759375
    <2>1. isCounterBlock(p5) /\ Level(p5) = 5
      BY <1>4, CounterClimbs, SMT
    <2>2. p5 = L5Base + (b \div 50625) \div 15
      BY <1>0, <1>4, ParentOffset, SMT
    <2>3. QED
      BY <1>0, <2>1, <2>2, NestedDivision, SMT
  <1> HIDE DEF p5
  <1>6. isCounterBlock(p6) /\ Level(p6) = 6 /\ p6 = L6Base + b \div 11390625
    <2>1. isCounterBlock(p6) /\ Level(p6) = 6
      BY <1>5, CounterClimbs, SMT
    <2>2. p6 = L6Base + (b \div 759375) \div 15
      BY <1>0, <1>5, ParentOffset, SMT
    <2>3. QED
      BY <1>0, <2>1, <2>2, NestedDivision, SMT
  <1> HIDE DEF p6
  <1>7. getParentAddr(p6) = NoParent
    BY <1>6, CounterClimbs, SMT
  <1>8. getL6Index(b) = b \div 11390625
    BY <1>0, SMT DEF getL6Index, L6Span
  <1>9. b \div 11390625 \in 0 .. 2
    BY <1>0, SMT DEF L1Base
  <1>10. p6 - L6Base = b \div 11390625
    BY <1>0, <1>6, SMT DEF L6Base, L1Base
  <1>11. QED
    BY <1>1, <1>2, <1>3, <1>4, <1>5, <1>6, <1>7, <1>8, <1>9, <1>10, SMT
    DEF p1, p2, p3, p4, p5, p6

(* A counter chunk authenticates at most 15 blocks: the data blocks with   *)
(* one level-1 counter as parent lie in one run of Arity blocks.           *)
THEOREM AtMostFifteenChildren ==
  ASSUME NEW b, isDataBlock(b), NEW c, isDataBlock(c),
         getParentAddr(b) = getParentAddr(c)
  PROVE  b - c < Arity /\ c - b < Arity
  <1>1. b \div Arity = c \div Arity
    BY DataParent, SMT DEF isDataBlock, L1Base, Arity
  <1>2. QED
    BY <1>1, SMT DEF isDataBlock, Arity

-----------------------------------------------------------------------------
(* The walk. *)

(* Where a walk from b is after k steps: the counter on level k whose      *)
(* offset in its level is b divided by the k-th power of Arity.            *)
On(k, base, offset) ==
  steps = k /\ isCounterBlock(at) /\ Level(at) = k /\ at = base + offset

OnWay ==
  /\ isDataBlock(start)
  /\ \/ steps = 0 /\ at = start
     \/ On(1, L1Base, start \div 15)
     \/ On(2, L2Base, start \div 225)
     \/ On(3, L3Base, start \div 3375)
     \/ On(4, L4Base, start \div 50625)
     \/ On(5, L5Base, start \div 759375)
     \/ On(6, L6Base, start \div 11390625)

(* The powers of Arity divide a block number into a natural one.           *)
LEMMA Offsets ==
  ASSUME NEW b, isDataBlock(b)
  PROVE  /\ b \div 15 \in Int /\ b \div 225 \in Int /\ b \div 3375 \in Int
         /\ b \div 50625 \in Int /\ b \div 759375 \in Int /\ b \div 11390625 \in Int
  BY SMT DEF isDataBlock

(* Only data blocks below the counters are walked from.                    *)
LEMMA StartsAreData ==
  ASSUME MemoryBlocks <= L1Base, NEW b \in Starts
  PROVE  isDataBlock(b)
<1>1. 0 <= b /\ b < MemoryBlocks
  BY DEF Starts
<1>2. \A s \in Boundaries : s \in Int
  BY DEF Boundaries, Arity, L6Span, L1Base, MetadataEnd
<1>3. b \in { s + d : s \in Boundaries, d \in -1 .. 1 }
        \/ b \in { g * GridStep : g \in 0 .. (MemoryBlocks \div GridStep) }
  BY DEF Starts
<1>4. b \in Int
  <2>1. CASE b \in { s + d : s \in Boundaries, d \in -1 .. 1 }
    <3>1. PICK s \in Boundaries, d \in -1 .. 1 : b = s + d
      BY <2>1
    <3> QED
      BY <1>2, <3>1
  <2>2. CASE b \in { g * GridStep : g \in 0 .. (MemoryBlocks \div GridStep) }
    <3>1. PICK g \in 0 .. (MemoryBlocks \div GridStep) : b = g * GridStep
      BY <2>2
    <3> QED
      BY <3>1, WalkAssumption DEF WalkAssumption
  <2> QED
    BY <1>3, <2>1, <2>2
<1> QED
  BY <1>1, <1>4, WalkAssumption DEF isDataBlock, WalkAssumption, L1Base

(* A data block is on level 0. *)
LEMMA DataLevel == \A b : isDataBlock(b) => Level(b) = 0
  BY SMT DEF isDataBlock, Level, isMetadataAddr, L1Base, MetadataEnd

(* One step of a walk.                                                     *)
LEMMA ClimbStays == OnWay /\ [Climb]_<<start, at, steps>> => OnWay'
<1> SUFFICES ASSUME OnWay, [Climb]_<<start, at, steps>>
             PROVE  OnWay'
  OBVIOUS
<1> DEFINE next == getParentAddr(at)
<1>1. CASE UNCHANGED <<start, at, steps>>
  BY <1>1 DEF OnWay, On
<1>2. CASE Climb
  <2>1. next # NoParent /\ at' = next /\ steps' = steps + 1 /\ start' = start /\ isDataBlock(start)
    BY <1>2 DEF Climb, OnWay
  <2>2. start \in Int /\ 0 <= start
    BY <2>1 DEF isDataBlock
  <2> HIDE DEF next
  <2>3. CASE steps = 0 /\ at = start
    <3>1. On(1, L1Base, start \div 15)'
      BY <2>1, <2>3, DataParent DEF On, Arity, next
    <3> QED
      BY <2>1, <3>1 DEF OnWay
  <2>4. CASE On(1, L1Base, start \div 15)
    <3>1. isCounterBlock(next) /\ Level(next) = 2
      BY <2>4, CounterClimbs DEF On, next
    <3>2. next = L2Base + start \div 225
      BY <2>1, <2>2, <2>4, ParentOffset, NestedDivision, Offsets DEF On, next
    <3>3. On(2, L2Base, start \div 225)'
      BY <2>1, <2>4, <3>1, <3>2 DEF On
    <3> QED
      BY <2>1, <3>3 DEF OnWay
  <2>5. CASE On(2, L2Base, start \div 225)
    <3>1. isCounterBlock(next) /\ Level(next) = 3
      BY <2>5, CounterClimbs DEF On, next
    <3>2. next = L3Base + start \div 3375
      BY <2>1, <2>2, <2>5, ParentOffset, NestedDivision, Offsets DEF On, next
    <3>3. On(3, L3Base, start \div 3375)'
      BY <2>1, <2>5, <3>1, <3>2 DEF On
    <3> QED
      BY <2>1, <3>3 DEF OnWay
  <2>6. CASE On(3, L3Base, start \div 3375)
    <3>1. isCounterBlock(next) /\ Level(next) = 4
      BY <2>6, CounterClimbs DEF On, next
    <3>2. next = L4Base + start \div 50625
      BY <2>1, <2>2, <2>6, ParentOffset, NestedDivision, Offsets DEF On, next
    <3>3. On(4, L4Base, start \div 50625)'
      BY <2>1, <2>6, <3>1, <3>2 DEF On
    <3> QED
      BY <2>1, <3>3 DEF OnWay
  <2>7. CASE On(4, L4Base, start \div 50625)
    <3>1. isCounterBlock(next) /\ Level(next) = 5
      BY <2>7, CounterClimbs DEF On, next
    <3>2. next = L5Base + start \div 759375
      BY <2>1, <2>2, <2>7, ParentOffset, NestedDivision, Offsets DEF On, next
    <3>3. On(5, L5Base, start \div 759375)'
      BY <2>1, <2>7, <3>1, <3>2 DEF On
    <3> QED
      BY <2>1, <3>3 DEF OnWay
  <2>8. CASE On(5, L5Base, start \div 759375)
    <3>1. isCounterBlock(next) /\ Level(next) = 6
      BY <2>8, CounterClimbs DEF On, next
    <3>2. next = L6Base + start \div 11390625
      BY <2>1, <2>2, <2>8, ParentOffset, NestedDivision, Offsets DEF On, next
    <3>3. On(6, L6Base, start \div 11390625)'
      BY <2>1, <2>8, <3>1, <3>2 DEF On
    <3> QED
      BY <2>1, <3>3 DEF OnWay
  <2>9. CASE On(6, L6Base, start \div 11390625)
    BY <2>1, <2>9, CounterClimbs DEF On, next
  <2> QED
    BY <2>3, <2>4, <2>5, <2>6, <2>7, <2>8, <2>9 DEF OnWay
<1> QED
  BY <1>1, <1>2

(* A block with a parent is no counter of level 6, and the others have one. *)
LEMMA ParentOfOthers ==
  ASSUME NEW b, isDataBlock(b) \/ (isCounterBlock(b) /\ Level(b) # 6)
  PROVE  getParentAddr(b) # NoParent
  BY DataParent, CounterClimbs DEF isCounterBlock, L1Base, NoParent

LEMMA OnWaySuffices == OnWay => OneLevelPerStep /\ RootSlotOfWalk
<1> SUFFICES ASSUME OnWay
             PROVE  OneLevelPerStep /\ RootSlotOfWalk
  OBVIOUS
<1>1. OneLevelPerStep
  BY DataLevel DEF OnWay, On, OneLevelPerStep
<1>2. ASSUME getParentAddr(at) = NoParent
      PROVE  On(6, L6Base, start \div 11390625)
  BY <1>2, ParentOfOthers DEF OnWay, On
<1>3. isDataBlock(start)
  BY DEF OnWay
<1>4. getL6Index(start) = start \div 11390625
  BY <1>3 DEF getL6Index, L6Span, isDataBlock
<1>5. start \div 11390625 \in 0 .. 2
  BY <1>3, SMT DEF isDataBlock, L1Base
<1>6. RootSlotOfWalk
  BY <1>2, <1>4, <1>5 DEF RootSlotOfWalk, On, L6Base, L1Base
<1> QED
  BY <1>1, <1>6

(* However much memory below the counter region is in use, a walk from one *)
(* of its blocks climbs exactly one level with each getParentAddr.         *)
THEOREM OneLevelCorrect ==
  ASSUME MemoryBlocks <= L1Base
  PROVE  Spec => []OneLevelPerStep
<1>1. Init => OnWay
  BY StartsAreData DEF Init, OnWay
<1> QED
  BY <1>1, ClimbStays, OnWaySuffices, PTL DEF Spec

(* The six counters a walk visits end in the level-6 counter of the slot   *)
(* getL6Index names for the block, one of the three root counters.         *)
THEOREM RootSlotCorrect ==
  ASSUME MemoryBlocks <= L1Base
  PROVE  Spec => []RootSlotOfWalk
<1>1. Init => OnWay
  BY StartsAreData DEF Init, OnWay
<1> QED
  BY <1>1, ClimbStays, OnWaySuffices, PTL DEF Spec
=============================================================================
