-------------------------------- MODULE Integrity --------------------------------
(***************************************************************************)
(* What the TEC-Tree half of the directory promises: the fetches of        *)
(* counters, the evictions suspended on them, the requests stalled on      *)
(* them, and the marking of the counter branch of every write-back.        *)
(***************************************************************************)
EXTENDS TardisSystem

Count(a, type) == Cardinality({i \in DOMAIN memQ[a] : memQ[a][i].type = type})

(* MSHR coalescing: a counter is being read from memory once exactly while *)
(* it has an AuthTBE, and never while it is in the LLC (fetchCounterIfNeeded, *)
(* fetchCounterForEviction, resumeEvictions, checkRecursionAndWakeUp).     *)
EachFetchOnce ==
  \A k \in Counters :
    /\ Count(k, "MEMORY_READ") = IF k \in fetching THEN 1 ELSE 0
    /\ k \in fetching => k \notin resident

(* A suspended eviction waits in exactly one slot, of a counter of its own *)
(* branch that is being fetched: resumeEvictions will find it.             *)
WaitingSlots(a) == {s \in Counters \X Slot : waiters[s[1]][s[2]] = a}
SuspendedIsAwaited ==
  \A a \in Addr :
    IF dirState[a] \in InEvictAuth
    THEN \E s \in WaitingSlots(a) :
           /\ WaitingSlots(a) = {s}
           /\ s[1] \in fetching /\ s[1] \in ToSet(Path[a])
    ELSE WaitingSlots(a) = {}

(* The directory and memory agree on what is going on for a line: one      *)
(* write-back while an Evicting state waits for its acknowledgement, and   *)
(* for data one read while a fill is pending and never both, so that a     *)
(* read cannot pass a write-back it should see.                            *)
MemoryAgrees ==
  \A a \in Addr :
    /\ Count(a, "MEMORY_WB") = IF dirState[a] \in InEvicting THEN 1 ELSE 0
    /\ a \in Data =>
         Count(a, "MEMORY_READ") = IF dirState[a] \in {"IS", "IE", "SE"} THEN 1 ELSE 0

(* Nothing that is dirty in the LLC is dropped: a block, or a counter that *)
(* a write-back has marked, loses its mark only when it is sent to memory  *)
(* or its write-back is put off (allocateTBE_Eviction keeps its data).     *)
DirtyIsWrittenBack ==
  [][\A b \in dirty \ dirty' :
       \/ Count(b, "MEMORY_WB")' > Count(b, "MEMORY_WB")
       \/ dirState'[b] \in InEvictAuth
       \/ dirState'[b] = "E_Evict_Flush"]_vars

(* When the write-back of a data block leaves for memory, every counter of *)
(* its branch is in the LLC and marked dirty with it (incrementCounter and *)
(* the marking in resumeEvictions).                                        *)
WholeBranchCounted ==
  [][\A a \in Data :
       Count(a, "MEMORY_WB")' > Count(a, "MEMORY_WB")
         => ToSet(Path[a]) \subseteq dirty']_vars

(* A request that stall_and_wait has put aside is woken when a counter of  *)
(* its branch arrives, so one is being fetched.                            *)
StalledIsAwaited ==
  \A m \in stalled : \E k \in ToSet(Path[m.addr]) : k \in fetching

(* A dirty counter in the LLC is in state C_M, so its eviction takes the   *)
(* counters' transitions and is not counted in the tree a second time.     *)
DirtyCounterIsModified ==
  \A k \in Counters \cap dirty : dirState[k] = "C_M"

(* Counter_Data finds the counter's directory entry in state I.            *)
CounterArrivesInI ==
  \A k \in Counters : DataReady(k) /\ ~NoRoom(k) => dirState[k] = "I"

(* The eviction of a victim in a transient state is stalled.               *)
TransientVictimStalls == \A v \in resident : ~UndefinedVictim(v)

(* A response that waits for a transient victim does not wait for itself:  *)
(* the block whose return would end the transient state is not queued      *)
(* behind it.                                                              *)
StalledEvictionEnds ==
  \A m \in responses : \A v \in resident :
    ResponseNeedsRoom(m) /\ Victim(v) /\ dirState[v] \in {"ES", "EE"} /\ atHead.response = m
      => \A r \in responses : r.addr # v

(* A response that finds its line in a Fetch_Auth state bounces the        *)
(* request that is queued behind it.                                       *)
BounceHasRequest == \A m \in responses : ~RecycledNothing(m)

(* In state I of the directory the line is invalid in every cache.         *)
InvalidInCaches ==
  \A a \in Data : dirState[a] = "I" => \A c \in Caches : l1State[c][a] \in {"I", "IS", "IE"}

(* The LRU order of the LLC ranks exactly the blocks it holds, once each,  *)
(* and the LLC never holds more than it has room for.                      *)
RecencyExact ==
  /\ ToSet(recency) = resident /\ Len(recency) = Cardinality(resident)
  /\ Cardinality(resident) <= LLCSize
=============================================================================
