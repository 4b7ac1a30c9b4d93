---------------------------- MODULE MCCacheMemory ----------------------------
(* An instance of CacheMemory: two sets, one of them contended. *)
EXTENDS CacheMemory, TLC

CONSTANTS a1, a2, a3, a4, a5, b1, s1, s2

Six   == {a1, a2, a3, a4, a5, b1}
SetOfSix == [a \in Six |-> IF a = b1 THEN s2 ELSE s1]
Same  == Permutations({a1, a2, a3, a4, a5})
=============================================================================
