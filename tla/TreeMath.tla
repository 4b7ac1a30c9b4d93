------------------------------ MODULE TreeMath ------------------------------
(***************************************************************************)
(* Address arithmetic of the TEC-Tree: which memory block holds the        *)
(* counter that authenticates a block, up to the on-chip root counters.    *)
(* Translated from RubySlicc_Util.hh (getParentAddr and its helpers) and   *)
(* from getL6Index of the directory controller.                            *)
(*                                                                         *)
(* Addresses are counted in 64-byte blocks: every address these functions  *)
(* see in the directory is line aligned, and addr/960*64 on aligned        *)
(* addresses is exactly block/15 in blocks.                                *)
(***************************************************************************)
EXTENDS Integers

Arity == 15                      \* counters per 64-byte chunk: 960 = 15 * 64

(* First block of each level; Base(7) is the end of the tree. *)
L1Base == 33554432               \* 0x80000000 / 64
L2Base == L1Base + 2236963
L3Base == L1Base + 2386094
L4Base == L1Base + 2396037
L5Base == L1Base + 2396700
L6Base == L1Base + 2396745
L7Base == L1Base + 2396748
MetadataEnd == 50331648          \* 0xC0000000 / 64
AddressEnd == 67108864           \* 2^32 / 64: addressToInt asserts below this

Block == 0 .. AddressEnd - 1
NoParent == 0                    \* the code's 0: the parent lives on chip

isMetadataAddr(b) == L1Base <= b /\ b < MetadataEnd

(* Mutants of calcUpper: rounding up to the next chunk, and a wrong arity. *)
calcUpper_rounded(b, from, to) == to + (b - from + Arity - 1) \div Arity
calcUpper_skewed(b, from, to) == to + (b - from) \div (Arity + 1)

calcCounterAddr(b) == L1Base + b \div Arity
calcUpper(b, from, to) == to + (b - from) \div Arity

(* 0 for data, k for a counter of level k, 7 for the part of the metadata  *)
(* region above the tree, which no level owns.                             *)
Level(b) ==
  IF ~isMetadataAddr(b) THEN 0
  ELSE IF b < L2Base THEN 1
  ELSE IF b < L3Base THEN 2
  ELSE IF b < L4Base THEN 3
  ELSE IF b < L5Base THEN 4
  ELSE IF b < L6Base THEN 5
  ELSE IF b < L7Base THEN 6
  ELSE 7

getParentAddr(b) ==
  CASE Level(b) = 0 -> calcCounterAddr(b)
    [] Level(b) = 1 -> calcUpper(b, L1Base, L2Base)
    [] Level(b) = 2 -> calcUpper(b, L2Base, L3Base)
    [] Level(b) = 3 -> calcUpper(b, L3Base, L4Base)
    [] Level(b) = 4 -> calcUpper(b, L4Base, L5Base)
    [] Level(b) = 5 -> calcUpper(b, L5Base, L6Base)
    [] OTHER        -> NoParent

(* addressToInt narrows to a 32-bit int, so a block at or above 2 GB       *)
(* becomes negative; C++ division then truncates towards zero.             *)
L6Span == 11390625               \* 15^6 data blocks below one level-6 counter
getL6Index(b) ==
  IF b < L1Base THEN b \div L6Span ELSE -((AddressEnd - b) \div L6Span)

(* The chain of counters above a block, nearest first. *)
Ancestor[n \in Nat] ==
  [b \in Block |-> IF n = 0 THEN b ELSE getParentAddr(Ancestor[n - 1][b])]
PathOf(b) == [k \in 1 .. 6 |-> Ancestor[k][b]]
=============================================================================
