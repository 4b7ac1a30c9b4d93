----------------------------- MODULE IntegrityProofs -----------------------------
(***************************************************************************)
(* Where the newest version of a line is and what the directory waits for, *)
(* for any numbers of caches, lines, counters, LLC lines and waiter slots. *)
(*                                                                         *)
(* The books (Accounted): the queue to memory of every block holds exactly *)
(* the read and the write-back its entry and the AuthTBEs account for, the *)
(* blocks of the LLC are in the states of a block that is there, and every *)
(* suspended eviction waits in one slot. On top of them the newest version *)
(* (Current): it is with the token of the line while there is one, and at  *)
(* home otherwise.                                                         *)
(*                                                                         *)
(* On the books rest also that the LRU order ranks the blocks of the LLC   *)
(* (LLCOrder), and that a suspended eviction has found a slot (Waited).    *)
(***************************************************************************)
EXTENDS CoherenceProofs, Integrity, FiniteSetTheorems
-----------------------------------------------------------------------------
(* What the directory waits for from memory: the data of a line or a       *)
(* counter, the acknowledgement of a write-back. The queue to memory holds *)
(* exactly that.                                                           *)
Reading(a) == a \in fetching \/ dirState[a] \in {"IS", "IE", "SE"}
Writing(a) == dirState[a] \in InEvicting
Write(a) == WB(tbe[a].data)
InMemory(a) ==
  /\ ~Reading(a) /\ ~Writing(a) => memQ[a] = <<>>
  /\ Reading(a) /\ ~Writing(a) => memQ[a] = <<READ>>
  /\ ~Reading(a) /\ Writing(a) => memQ[a] = <<Write(a)>>
  /\ Reading(a) /\ Writing(a) => memQ[a] \in {<<READ, Write(a)>>, <<Write(a), READ>>}

(* The states an entry can be in while its block is in the LLC. *)
AtHome == Stable \cup InFetchAuth \cup {"C_M", "ES", "EE"}
InLLC ==
  /\ dirty \subseteq resident /\ fetching \cap resident = {}
  /\ \A a \in resident : dirState[a] \in AtHome

(* Who waits for a counter is suspended, and waits once. *)
Suspended ==
  /\ \A k \in Counters, i \in Slot :
       waiters[k][i] # None => dirState[waiters[k][i]] \in InEvictAuth
  /\ \A k, l \in Counters, i, j \in Slot :
       waiters[k][i] # None /\ waiters[k][i] = waiters[l][j] => k = l /\ i = j

Accounted == (\A a \in Addr : InMemory(a)) /\ InLLC /\ Suspended

-----------------------------------------------------------------------------
(* Sequences of one and of two elements, ... *)
LEMMA Pairs ==
  ASSUME NEW S, NEW x \in S, NEW y \in S
  PROVE  /\ <<x>> \in Seq(S) /\ Len(<<x>>) = 1 /\ <<x>>[1] = x
         /\ <<x, y>> \in Seq(S) /\ Len(<<x, y>>) = 2 /\ <<x, y>>[1] = x /\ <<x, y>>[2] = y
  OBVIOUS

(* ... which are known by their elements, ... *)
LEMMA TwoElements ==
  ASSUME NEW S, NEW s \in Seq(S), NEW x \in S, NEW y \in S,
         Len(s) = 2, s[1] = x, s[2] = y
  PROVE  s = <<x, y>>
<1> DEFINE t == <<x, y>>
<1>1. t \in Seq(S) /\ Len(t) = 2 /\ t[1] = x /\ t[2] = y
  BY Pairs
<1> HIDE DEF t
<1>2. \A i \in 1 .. Len(s) : s[i] = t[i]
  BY <1>1
<1>3. s = t
  BY ONLY <1>1, <1>2, s \in Seq(S), Len(s) = 2, SeqEqual
<1>. QED  BY <1>3 DEF t

(* ... or by the only one, ... *)
LEMMA OneElement ==
  ASSUME NEW S, NEW s \in Seq(S), NEW x \in S,
         Len(s) = 1, s[1] = x
  PROVE  s = <<x>>
<1> DEFINE t == <<x>>
<1>1. t \in Seq(S) /\ Len(t) = 1 /\ t[1] = x
  BY Pairs
<1> HIDE DEF t
<1>2. \A i \in 1 .. Len(s) : s[i] = t[i]
  BY <1>1
<1>3. s = t
  BY ONLY <1>1, <1>2, s \in Seq(S), Len(s) = 1, SeqEqual
<1>. QED  BY <1>3 DEF t

(* ... how they grow, ... *)
LEMMA AppendedTo ==
  ASSUME NEW S, NEW u \in Seq(S), NEW x \in S, NEW y \in S, Len(u) = 1, u[1] = x
  PROVE  Append(u, y) = <<x, y>>
<1>1. Append(u, y) \in Seq(S) /\ Len(Append(u, y)) = Len(u) + 1
  BY ONLY u \in Seq(S), y \in S
<1>2. \A i \in 1 .. Len(u) : Append(u, y)[i] = u[i]
  BY ONLY u \in Seq(S), y \in S
<1>3. Append(u, y)[Len(u) + 1] = y
  BY AppendProperties, Zenon
<1> DEFINE s == Append(u, y)
<1> HIDE DEF s
<1>4. Len(s) = 2 /\ s[1] = x /\ s[2] = y
  BY <1>1, <1>2, <1>3 DEF s
<1>5. s = <<x, y>>
  BY <1>1, <1>4, TwoElements DEF s
<1>. QED  BY <1>5 DEF s

(* ... from none to two, ... *)
LEMMA Appended ==
  ASSUME NEW x, NEW y
  PROVE  Append(<<>>, x) = <<x>> /\ Append(<<x>>, y) = <<x, y>>
<1> DEFINE S == {x, y}
<1>0. x \in S /\ y \in S
  OBVIOUS
<1> HIDE DEF S
<1>1. Append(<<>>, x) = <<x>>
  OBVIOUS
<1>2. <<x>> \in Seq(S) /\ Len(<<x>>) = 1 /\ <<x>>[1] = x
  BY <1>0, Pairs
<1>3. Append(<<x>>, y) = <<x, y>>
  BY <1>0, <1>2, AppendedTo, Zenon
<1>. QED  BY <1>1, <1>3

(* ... and how they shrink. *)
LEMMA Removed ==
  ASSUME NEW x, NEW y
  PROVE  /\ RemoveAt(<<x>>, 1) = <<>>
         /\ RemoveAt(<<x, y>>, 1) = <<y>> /\ RemoveAt(<<x, y>>, 2) = <<x>>
<1> DEFINE S == {x, y}
<1>0. x \in S /\ y \in S
  OBVIOUS
<1> HIDE DEF S
<1>1. RemoveAt(<<x>>, 1) = <<>>
  <2>1. SubSeq(<<x>>, 1, 0) = <<>> /\ SubSeq(<<x>>, 2, 1) = <<>>
    OBVIOUS
  <2>2. <<>> \o <<>> = <<>>
    OBVIOUS
  <2>. QED  BY <2>1, <2>2 DEF RemoveAt
<1> DEFINE v == <<x, y>>
<1>2. v \in Seq(S) /\ Len(v) = 2 /\ v[1] = x /\ v[2] = y
  BY <1>0, Pairs
<1> HIDE DEF v
<1>3. SubSeq(v, 1, 0) = <<>> /\ SubSeq(v, 3, 2) = <<>>
  BY SubSeqEmpty
<1>4. SubSeq(v, 1, 1) = <<x>>
  <2>1. \A i \in 1 .. 1 : v[i] \in S
    BY <1>0, <1>2
  <2>2. SubSeq(v, 1, 1) \in Seq(S) /\ Len(SubSeq(v, 1, 1)) = 1
        /\ \A i \in 1 .. 1 : SubSeq(v, 1, 1)[i] = v[1 + i - 1]
    BY <2>1, SubSeqProperties
  <2>3. SubSeq(v, 1, 1)[1] = x
    BY <1>2, <2>2
  <2>. QED  BY <1>0, <2>2, <2>3, OneElement
<1>5. SubSeq(v, 2, 2) = <<y>>
  <2>1. \A i \in 2 .. 2 : v[i] \in S
    BY <1>0, <1>2
  <2>2. SubSeq(v, 2, 2) \in Seq(S) /\ Len(SubSeq(v, 2, 2)) = 1
        /\ \A i \in 1 .. 1 : SubSeq(v, 2, 2)[i] = v[2 + i - 1]
    BY <2>1, SubSeqProperties
  <2>3. SubSeq(v, 2, 2)[1] = y
    BY <1>2, <2>2
  <2>. QED  BY <1>0, <2>2, <2>3, OneElement
<1>6. <<>> \o <<y>> = <<y>> /\ <<x>> \o <<>> = <<x>>
  BY <1>0, Pairs, ConcatEmptySeq
<1>7. RemoveAt(v, 1) = <<y>> /\ RemoveAt(v, 2) = <<x>>
  <2>1. /\ RemoveAt(v, 1) = SubSeq(v, 1, 1 - 1) \o SubSeq(v, 1 + 1, Len(v))
        /\ RemoveAt(v, 2) = SubSeq(v, 1, 2 - 1) \o SubSeq(v, 2 + 1, Len(v))
    BY Zenon DEF RemoveAt
  <2>2. 1 - 1 = 0 /\ 1 + 1 = 2 /\ 2 - 1 = 1 /\ 2 + 1 = 3 /\ Len(v) = 2
    BY <1>2
  <2>. QED  BY <2>1, <2>2, <1>3, <1>4, <1>5, <1>6, Zenon
<1>. QED  BY <1>1, <1>7 DEF v

-----------------------------------------------------------------------------
(* A block whose chain is not missing a counter has all of it in the LLC. *)
LEMMA NothingMissing ==
  ASSUME NEW a \in Addr, NEW T
  PROVE  FirstMissingIn(a, T) = None <=> ToSet(Path[a]) \subseteq T
<1>1. Missing(a, T) = {} <=> ToSet(Path[a]) \subseteq T
  BY DEF Missing, ToSet
<1>2. Missing(a, T) # {} => FirstMissingIn(a, T) # None
  BY FirstMissingType, AddressAssumption DEF Addr
<1>3. Missing(a, T) = {} => FirstMissingIn(a, T) = None
  BY DEF FirstMissingIn
<1>. QED  BY <1>1, <1>2, <1>3

(* What is missing is not there. *)
LEMMA MissingOutside ==
  ASSUME NEW a \in Addr, NEW T, FirstMissingIn(a, T) # None
  PROVE  FirstMissingIn(a, T) \in Counters \ T
<1>1. Missing(a, T) # {}
  BY DEF FirstMissingIn
<1>2. Min(Missing(a, T)) \in Missing(a, T)
  <2>1. Missing(a, T) \in SUBSET Nat
    BY PathType DEF Missing
  <2>. QED  BY <1>1, <2>1, MinOfNaturals
<1>. QED  BY <1>1, <1>2, FirstMissingType DEF FirstMissingIn, Missing

(* The present part of a chain is in the LLC. *)
LEMMA ChainPresent ==
  ASSUME NEW a \in Addr
  PROVE  ToSet(PresentChain(a)) \subseteq resident
<1>1. CASE Missing(a, resident) = {}
  BY <1>1 DEF PresentChain, Missing, ToSet
<1>2. CASE Missing(a, resident) # {}
  <2> DEFINE n == Min(Missing(a, resident))
  <2>1. Missing(a, resident) \in SUBSET Nat /\ Missing(a, resident) \subseteq 1 .. Len(Path[a])
    BY PathType DEF Missing
  <2>2. n \in 1 .. Len(Path[a]) /\ \A i \in Missing(a, resident) : n =< i
    BY <1>2, <2>1, MinOfNaturals
  <2> HIDE DEF n
  <2>3. Len(Path[a]) \in Nat /\ n \in Nat /\ n - 1 \in Nat
    BY <2>2, PathType
  <2>4. \A i \in 1 .. n - 1 : Path[a][i] \in resident /\ Path[a][i] \in Counters
    BY <2>2, <2>3, PathType DEF Missing
  <2>5. /\ SubSeq(Path[a], 1, n - 1) \in Seq(Counters)
        /\ Len(SubSeq(Path[a], 1, n - 1)) = n - 1
        /\ \A i \in 1 .. n - 1 : SubSeq(Path[a], 1, n - 1)[i] = Path[a][i]
    <3>1. \A i \in 1 .. n - 1 : Path[a][i] \in Counters
      BY <2>4
    <3>2. /\ SubSeq(Path[a], 1, n - 1) \in Seq(Counters)
          /\ Len(SubSeq(Path[a], 1, n - 1)) = IF 1 =< n - 1 THEN n - 1 - 1 + 1 ELSE 0
          /\ \A i \in 1 .. n - 1 - 1 + 1 : SubSeq(Path[a], 1, n - 1)[i] = Path[a][1 + i - 1]
      BY <2>3, <3>1, SubSeqProperties
    <3>. QED  BY <2>3, <3>2
  <2>6. DOMAIN SubSeq(Path[a], 1, n - 1) = 1 .. n - 1
    BY <2>5
  <2>7. ToSet(SubSeq(Path[a], 1, n - 1)) \subseteq resident
    BY <2>4, <2>5, <2>6 DEF ToSet
  <2>. QED  BY <1>2, <2>7 DEF PresentChain, n
<1>. QED  BY <1>1, <1>2

(* No two slots have as many slots before them. *)
LEMMA BeforeExact ==
  ASSUME NEW S \in SUBSET Slot, NEW i \in S, NEW j \in S, Before(S, i) = Before(S, j)
  PROVE  i = j
<1>1. Slot \in SUBSET Nat /\ IsFiniteSet(Slot)
  BY FS_Interval, DirectoryAssumption DEF Slot
<1>2. ASSUME NEW k \in S, NEW l \in S, k < l
      PROVE  Before(S, k) < Before(S, l)
  <2> DEFINE A == {x \in S : x < k}
             B == {x \in S : x < l}
  <2>1. B \subseteq Slot
    OBVIOUS
  <2>2. k \in B /\ k \notin A
    BY <1>1, <1>2
  <2>3. A \subseteq B
    <3>1. \A x \in S : x < k => x < l
      BY <1>1, <1>2
    <3>. QED  BY <3>1
  <2> HIDE DEF A, B
  <2>4. IsFiniteSet(B)
    BY <1>1, <2>1, FS_Subset
  <2>5. IsFiniteSet(A) /\ Cardinality(A) =< Cardinality(B) /\ Cardinality(A) # Cardinality(B)
    BY <2>2, <2>3, <2>4, FS_Subset
  <2>6. Cardinality(A) \in Nat /\ Cardinality(B) \in Nat
    BY <2>4, <2>5, FS_CardinalityType
  <2>7. Cardinality(A) < Cardinality(B)
    BY <2>5, <2>6
  <2>. QED  BY <2>7 DEF Before, A, B
<1>3. Before(S, i) \in Nat /\ Before(S, j) \in Nat
  <2>1. IsFiniteSet({x \in S : x < i}) /\ IsFiniteSet({x \in S : x < j})
    BY <1>1, FS_Subset
  <2>. QED  BY <2>1, FS_CardinalityType DEF Before
<1>. QED  BY <1>1, <1>2, <1>3

(* What Enter leaves in the slots: what was there, or in a free slot one of *)
(* the waiters that moved, each in one slot.                                *)
LEMMA EnterExact ==
  ASSUME NEW to \in [Slot -> Addr \cup {None}], NEW from, NEW moved \in SUBSET Slot
  PROVE  /\ \A i \in Slot : to[i] # None => Enter(to, from, moved)[i] = to[i]
         /\ \A i \in Slot : to[i] = None /\ Enter(to, from, moved)[i] # None
              => \E j \in moved : Enter(to, from, moved)[i] = from[j]
         /\ \A i, k \in Slot :
              to[i] = None /\ to[k] = None
              /\ Enter(to, from, moved)[i] # None
              /\ Enter(to, from, moved)[i] = Enter(to, from, moved)[k]
              /\ (\A j, l \in moved : from[j] = from[l] => j = l)
              => i = k
<1> DEFINE free == {i \in Slot : to[i] = None}
           Meets(i, j) == Before(moved, j) = Before(free, i)
           E == Enter(to, from, moved)
           pick(i) == CHOOSE j \in moved : Meets(i, j)
<1>1. \A i \in Slot : E[i] = IF i \in free /\ \E j \in moved : Meets(i, j)
                              THEN from[pick(i)] ELSE to[i]
  BY Zenon DEF Enter
<1>2. \A i \in Slot : (\E j \in moved : Meets(i, j)) => pick(i) \in moved /\ Meets(i, pick(i))
  BY Zenon
<1>3. \A i, k \in free, j \in moved : Meets(i, j) /\ Meets(k, j) => i = k
  <2>1. free \in SUBSET Slot
    OBVIOUS
  <2>. QED  BY <2>1, BeforeExact
<1> HIDE DEF free, Meets, E, pick
<1>4. \A i \in Slot : i \in free <=> to[i] = None
  BY DEF free
<1>5. \A i \in Slot : to[i] # None => E[i] = to[i]
  BY <1>1, <1>4
<1>6. \A i \in Slot : to[i] = None /\ E[i] # None =>
         /\ \E j \in moved : Meets(i, j)
         /\ pick(i) \in moved /\ Meets(i, pick(i)) /\ E[i] = from[pick(i)]
  BY <1>1, <1>2, <1>4
<1>7. ASSUME NEW i \in Slot, NEW k \in Slot, to[i] = None, to[k] = None, E[i] # None, E[i] = E[k],
             \A j, l \in moved : from[j] = from[l] => j = l
      PROVE  i = k
  <2>1. pick(i) = pick(k)
    BY <1>6, <1>7
  <2>. QED  BY <1>3, <1>4, <1>6, <1>7, <2>1
<1>. QED  BY <1>5, <1>6, <1>7 DEF E

(* A single waiter, and the first free slot it takes, if there is one. *)
One(w) == [i \in {1} |-> w]

(* It keeps who was there, and comes in once. *)
LEMMA EnterOne ==
  ASSUME NEW to \in [Slot -> Addr \cup {None}], NEW w
  PROVE  /\ \A i \in Slot : to[i] # None => Enter(to, One(w), {1})[i] = to[i]
         /\ \A i \in Slot :
              to[i] = None /\ Enter(to, One(w), {1})[i] # None
              => Enter(to, One(w), {1})[i] = w
         /\ \A i, k \in Slot :
              /\ to[i] = None /\ to[k] = None
              /\ Enter(to, One(w), {1})[i] # None
              /\ Enter(to, One(w), {1})[i] = Enter(to, One(w), {1})[k]
              => i = k
<1> DEFINE from == One(w)
           moved == {1}
           E == Enter(to, from, moved)
<1>1. moved \in SUBSET Slot
  BY DirectoryAssumption DEF Slot
<1>2. from[1] = w /\ \A j \in moved : j = 1
  BY DEF One
<1> HIDE DEF from, moved
<1>3. \A i \in Slot : to[i] # None => E[i] = to[i]
  BY <1>1, EnterExact
<1>4. \A i \in Slot : to[i] = None /\ E[i] # None => \E j \in moved : E[i] = from[j]
  BY <1>1, EnterExact
<1>5. \A i, k \in Slot :
        to[i] = None /\ to[k] = None /\ E[i] # None /\ E[i] = E[k] => i = k
  <2>1. \A j, l \in moved : from[j] = from[l] => j = l
    BY <1>2
  <2>. QED  BY <1>1, <2>1, EnterExact
<1> HIDE DEF E
<1>6. \A i \in Slot : to[i] = None /\ E[i] # None => E[i] = w
  BY <1>2, <1>4
<1>. QED  BY <1>3, <1>5, <1>6 DEF E, from, moved

-----------------------------------------------------------------------------
(* The two kinds of messages. *)
LEMMA MemMsgs ==
  /\ READ.type = "MEMORY_READ"
  /\ \A d : WB(d).type = "MEMORY_WB" /\ WB(d).data = d
BY DEF READ, WB

(* The queue has one message for each thing the directory waits for. *)
LEMMA CountsExact ==
  ASSUME NEW a, InMemory(a)
  PROVE  /\ Count(a, "MEMORY_READ") = IF Reading(a) THEN 1 ELSE 0
         /\ Count(a, "MEMORY_WB") = IF Writing(a) THEN 1 ELSE 0
<1> DEFINE Places(type) == {i \in DOMAIN memQ[a] : memQ[a][i].type = type}
<1>0. READ.type = "MEMORY_READ" /\ Write(a).type = "MEMORY_WB"
  BY MemMsgs DEF Write
<1>1. /\ IF Reading(a) THEN \E i : Places("MEMORY_READ") = {i} ELSE Places("MEMORY_READ") = {}
      /\ IF Writing(a) THEN \E i : Places("MEMORY_WB") = {i} ELSE Places("MEMORY_WB") = {}
  <2>1. CASE ~Reading(a) /\ ~Writing(a)
    BY <2>1, <1>0 DEF InMemory
  <2>2. CASE Reading(a) /\ ~Writing(a)
    <3>1. memQ[a] = <<READ>>
      BY <2>2 DEF InMemory
    <3>2. Places("MEMORY_READ") = {1} /\ Places("MEMORY_WB") = {}
      BY <3>1, <1>0
    <3>. QED  BY <2>2, <3>2
  <2>3. CASE ~Reading(a) /\ Writing(a)
    <3>1. memQ[a] = <<Write(a)>>
      BY <2>3 DEF InMemory
    <3>2. Places("MEMORY_READ") = {} /\ Places("MEMORY_WB") = {1}
      BY <3>1, <1>0
    <3>. QED  BY <2>3, <3>2
  <2>4. CASE Reading(a) /\ Writing(a)
    <3>1. CASE memQ[a] = <<READ, Write(a)>>
      <4>1. Places("MEMORY_READ") = {1} /\ Places("MEMORY_WB") = {2}
        BY <3>1, <1>0
      <4>. QED  BY <2>4, <4>1
    <3>2. CASE memQ[a] = <<Write(a), READ>>
      <4>1. Places("MEMORY_READ") = {2} /\ Places("MEMORY_WB") = {1}
        BY <3>2, <1>0
      <4>. QED  BY <2>4, <4>1
    <3>. QED  BY <2>4, <3>1, <3>2 DEF InMemory
  <2>. QED  BY <2>1, <2>2, <2>3, <2>4
<1>2. Cardinality({}) = 0 /\ \A i : Cardinality({i}) = 1
  BY FS_EmptySet, FS_Singleton
<1>. QED  BY <1>1, <1>2 DEF Count

-----------------------------------------------------------------------------
(* What a step does to the queue of a. *)

(* Nothing. *)
LEMMA MemoryQuiet ==
  ASSUME NEW a, InMemory(a), memQ'[a] = memQ[a],
         Reading(a)' <=> Reading(a), Writing(a)' <=> Writing(a),
         Writing(a) => tbe'[a].data = tbe[a].data
  PROVE  InMemory(a)'
<1>1. Writing(a) => Write(a)' = Write(a)
  BY DEF Write, WB
<1>. QED  BY <1>1 DEF InMemory

(* A read is sent. *)
LEMMA ReadSent ==
  ASSUME NEW a, InMemory(a), memQ'[a] = Append(memQ[a], READ),
         ~Reading(a), Reading(a)', Writing(a)' <=> Writing(a),
         Writing(a) => tbe'[a].data = tbe[a].data
  PROVE  InMemory(a)'
<1>1. CASE Writing(a)
  <2>1. Write(a)' = Write(a) /\ memQ[a] = <<Write(a)>>
    BY <1>1 DEF Write, WB, InMemory
  <2>2. memQ'[a] = <<Write(a), READ>>
    BY <2>1, Appended
  <2>. QED  BY <1>1, <2>1, <2>2 DEF InMemory
<1>2. CASE ~Writing(a)
  <2>1. memQ'[a] = <<READ>>
    BY <1>2, Appended DEF InMemory
  <2>. QED  BY <1>2, <2>1 DEF InMemory
<1>. QED  BY <1>1, <1>2

(* A write-back is sent. *)
LEMMA WriteSent ==
  ASSUME NEW a, InMemory(a), NEW d, memQ'[a] = Append(memQ[a], WB(d)), tbe'[a].data = d,
         ~Writing(a), Writing(a)', Reading(a)' <=> Reading(a)
  PROVE  InMemory(a)'
<1>1. Write(a)' = WB(d)
  BY DEF Write
<1>2. CASE Reading(a)
  <2>1. memQ'[a] = <<READ, WB(d)>>
    BY <1>2, Appended DEF InMemory
  <2>. QED  BY <1>1, <1>2, <2>1 DEF InMemory
<1>3. CASE ~Reading(a)
  <2>1. memQ'[a] = <<WB(d)>>
    BY <1>3, Appended DEF InMemory
  <2>. QED  BY <1>1, <1>3, <2>1 DEF InMemory
<1>. QED  BY <1>2, <1>3

(* Both are sent, the read first. *)
LEMMA BothSent ==
  ASSUME NEW a, InMemory(a), NEW d, memQ'[a] = Append(Append(memQ[a], READ), WB(d)),
         tbe'[a].data = d, ~Writing(a), Writing(a)', ~Reading(a), Reading(a)'
  PROVE  InMemory(a)'
<1>1. memQ[a] = <<>> /\ Append(<<>>, READ) = <<READ>>
  BY Appended DEF InMemory
<1>2. memQ'[a] = <<READ, WB(d)>>
  BY <1>1, Appended
<1>. QED  BY <1>2 DEF InMemory, Write

(* Data that is ready is awaited, and unless a write-back is under way the *)
(* read was the only message.                                              *)
LEMMA DataAwaited ==
  ASSUME NEW a, InMemory(a), DataReady(a), ~Writing(a)
  PROVE  Reading(a) /\ memQ[a] = <<READ>> /\ Tail(memQ[a]) = <<>>
<1>0. Write(a).type # "MEMORY_READ"
  BY MemMsgs DEF Write
<1>1. Reading(a)
  BY DEF DataReady, InMemory
<1>2. memQ[a] = <<READ>>
  BY <1>1 DEF InMemory
<1>3. Tail(<<READ>>) = <<>>
  OBVIOUS
<1>. QED  BY <1>1, <1>2, <1>3

(* An acknowledgement is for the block that is written back, and takes its *)
(* message off the queue.                                                  *)
LEMMA AckAwaited ==
  ASSUME NEW a, InMemory(a), NEW i \in DOMAIN memQ[a], AckReady(a, i)
  PROVE  /\ Writing(a) /\ memQ[a][i].data = tbe[a].data
         /\ RemoveAt(memQ[a], i) = IF Reading(a) THEN <<READ>> ELSE <<>>
<1> DEFINE w == Write(a)
<1>0. /\ READ.type = "MEMORY_READ" /\ memQ[a][i].type = "MEMORY_WB"
      /\ w.type = "MEMORY_WB" /\ w.data = tbe[a].data
  BY MemMsgs DEF AckReady, Write
<1>1. Writing(a)
  <2>1. SUFFICES ASSUME ~Writing(a)  PROVE FALSE
    OBVIOUS
  <2>2. memQ[a] = <<READ>> \/ memQ[a] = <<>>
    BY <2>1 DEF InMemory
  <2>3. memQ[a] = <<READ>> => i = 1 /\ memQ[a][1] = READ
    OBVIOUS
  <2>. QED  BY <2>2, <2>3, <1>0
<1> HIDE DEF w
<1>2. CASE ~Reading(a)
  <2>1. memQ[a] = <<w>>
    BY <1>1, <1>2 DEF InMemory, w
  <2>2. i = 1 /\ memQ[a][i] = w
    BY <2>1
  <2>. QED  BY <1>0, <1>1, <1>2, <2>1, <2>2, Removed
<1>3. CASE Reading(a)
  <2>1. CASE memQ[a] = <<READ, w>>
    <3>1. i = 2 /\ memQ[a][i] = w
      BY <2>1, <1>0
    <3>. QED  BY <1>0, <1>1, <1>3, <2>1, <3>1, Removed
  <2>2. CASE memQ[a] = <<w, READ>>
    <3>1. i = 1 /\ memQ[a][i] = w
      BY <2>2, <1>0
    <3>2. RemoveAt(<<w, READ>>, 1) = <<READ>>
      BY Removed, Zenon
    <3>. QED  BY <1>0, <1>1, <1>3, <2>2, <3>1, <3>2
  <2>. QED  BY <1>1, <1>3, <2>1, <2>2 DEF InMemory, w
<1>. QED  BY <1>2, <1>3

-----------------------------------------------------------------------------
(* What a step does to all of the book-keeping. *)

(* No state of a block in the LLC waits for memory or for a counter. *)
LEMMA HomeStates ==
  \A s \in AtHome : s \notin {"IS", "IE", "SE"} \cup InEvicting \cup InEvictAuth
BY DEF AtHome, Stable, InFetchAuth, InEvicting, InEvictAuth

(* The entry of b stays, or a block of the LLC becomes modified. *)
EntryKept(b) ==
  dirState'[b] = dirState[b] \/ (dirState[b] \in AtHome /\ dirState'[b] = "C_M")

(* The queues of the other blocks. *)
LEMMA OthersInMemory ==
  ASSUME Accounted, NEW b \in Addr, memQ'[b] = memQ[b], tbe'[b] = tbe[b],
         b \in fetching' <=> b \in fetching,
         EntryKept(b)
  PROVE  InMemory(b)'
<1>1. Reading(b)' <=> Reading(b)
  BY HomeStates DEF Reading, EntryKept
<1>2. Writing(b)' <=> Writing(b)
  BY HomeStates DEF Writing, InEvicting, EntryKept
<1>. QED  BY <1>1, <1>2, MemoryQuiet DEF Accounted

(* A step that changes the entry of a, and marks counters of the LLC, but  *)
(* starts no fetch and suspends or resumes nothing.                        *)
LEMMA LineChanged ==
  ASSUME TypeOK, Accounted, NEW a \in Addr, UNCHANGED <<fetching, waiters>>,
         \A b \in Addr : b # a =>
           /\ memQ'[b] = memQ[b] /\ tbe'[b] = tbe[b]
           /\ EntryKept(b),
         InMemory(a)', dirState[a] \notin InEvictAuth,
         resident' \ {a} \subseteq resident, dirty' \subseteq resident',
         a \in resident' => a \notin fetching /\ dirState'[a] \in AtHome
  PROVE  Accounted'
<1>1. ASSUME NEW b \in Addr
      PROVE  InMemory(b)'
  BY <1>1, OthersInMemory
<1>2. InLLC'
  <2>1. fetching' \cap resident' = {}
    BY DEF Accounted, InLLC
  <2>2. \A b \in resident' : dirState'[b] \in AtHome
    <3>1. "C_M" \in AtHome /\ resident \subseteq Addr
      BY DEF AtHome, TypeOK, DirTypeOK
    <3>. QED  BY <3>1 DEF Accounted, InLLC, EntryKept
  <2>. QED  BY <2>1, <2>2 DEF InLLC, AtHome
<1>3. Suspended'
  <2>1. \A b \in Addr : dirState[b] \in InEvictAuth => dirState'[b] = dirState[b]
    BY HomeStates DEF EntryKept
  <2>2. \A k \in Counters, i \in Slot : waiters[k][i] \in Addr \cup {None}
    BY DEF TypeOK, DirTypeOK
  <2>. QED  BY <2>1, <2>2 DEF Accounted, Suspended
<1>. QED  BY <1>1, <1>2, <1>3 DEF Accounted

(* The read of a counter that is not in the LLC, sent or under way. *)
LEMMA CounterFetched ==
  ASSUME TypeOK, Accounted, NEW c \in Counters, fetching' = fetching \cup {c},
         ReadOnce(c), dirState'[c] = dirState[c], tbe'[c] = tbe[c]
  PROVE  /\ InMemory(c)'
         /\ \A b \in Addr : b # c => memQ'[b] = memQ[b] /\ (b \in fetching' <=> b \in fetching)
<1>0. c \in Addr /\ InMemory(c) /\ memQ \in [Addr -> Seq(MemMsg)]
  BY DEF Accounted, Addr, TypeOK, DirTypeOK
<1>1. dirState[c] \notin {"IS", "IE", "SE"}
  BY DEF TypeOK, DirTypeOK, EntriesOK, CounterState
<1>2. Reading(c)' /\ (Writing(c)' <=> Writing(c))
  BY DEF Reading, Writing
<1>3. CASE c \in fetching
  <2>1. memQ' = memQ
    BY <1>3 DEF ReadOnce
  <2>2. Reading(c)
    BY <1>3 DEF Reading
  <2>. QED  BY <1>0, <1>2, <2>1, <2>2, MemoryQuiet
<1>4. CASE c \notin fetching
  <2>1. memQ' = [memQ EXCEPT ![c] = Append(@, READ)]
    BY <1>4 DEF ReadOnce, SendMem
  <2>2. ~Reading(c)
    BY <1>1, <1>4 DEF Reading
  <2>3. memQ'[c] = Append(memQ[c], READ)
    BY <1>0, <2>1
  <2>4. \A b \in Addr : b # c => memQ'[b] = memQ[b]
    BY <1>0, <2>1
  <2>5. InMemory(c)'
    BY <1>0, <1>2, <2>2, <2>3, ReadSent
  <2>. QED  BY <2>4, <2>5
<1>. QED  BY <1>3, <1>4

(* A block that is evicted is suspended on a missing counter. *)
LEMMA Suspends ==
  ASSUME TypeOK, Accounted, NEW a \in Addr, NEW c \in Counters, c \notin resident, c # a,
         fetching' = fetching \cup {c}, ReadOnce(c),
         waiters' = [waiters EXCEPT ![c] = Enter(@, One(a), {1})],
         \A b \in Addr : b # a => dirState'[b] = dirState[b] /\ tbe'[b] = tbe[b],
         dirState[a] \notin {"IS", "IE", "SE"} \cup InEvicting \cup InEvictAuth,
         dirState'[a] \in InEvictAuth,
         resident' \subseteq resident \ {a}, dirty' \subseteq resident'
  PROVE  Accounted'
<1>0. c \in Addr
  BY DEF Addr
<1>1. /\ InMemory(c)'
      /\ \A b \in Addr : b # c => memQ'[b] = memQ[b] /\ (b \in fetching' <=> b \in fetching)
  BY <1>0, CounterFetched
<1>2. ASSUME NEW b \in Addr
      PROVE  InMemory(b)'
  <2>1. CASE b = c
    BY <1>1, <2>1
  <2>2. CASE b = a
    <3>1. Writing(a)' <=> Writing(a)
      BY DEF Writing, InEvicting, InEvictAuth
    <3>2. Reading(a)' <=> Reading(a)
      BY <1>1 DEF Reading, InEvictAuth
    <3>3. ~Writing(a) /\ InMemory(a)
      BY DEF Writing, Accounted
    <3>4. memQ'[a] = memQ[a]
      BY <1>1
    <3>. QED  BY <2>2, <3>1, <3>2, <3>3, <3>4, MemoryQuiet
  <2>3. CASE b # a /\ b # c
    <3>1. memQ'[b] = memQ[b] /\ (b \in fetching' <=> b \in fetching)
      BY <1>1, <2>3
    <3>2. dirState'[b] = dirState[b] /\ tbe'[b] = tbe[b]
      BY <2>3
    <3>3. (Reading(b)' <=> Reading(b)) /\ (Writing(b)' <=> Writing(b)) /\ InMemory(b)
      BY <3>1, <3>2 DEF Reading, Writing, Accounted
    <3>. QED  BY <3>1, <3>2, <3>3, MemoryQuiet
  <2>. QED  BY <2>1, <2>2, <2>3
<1>3. InLLC'
  <2>1. resident \subseteq Addr /\ \A b \in resident' : b \in resident /\ b # a
    BY DEF TypeOK, DirTypeOK
  <2>2. \A b \in resident' : dirState'[b] \in AtHome
    BY <2>1 DEF Accounted, InLLC
  <2>3. fetching' \cap resident' = {}
    BY <2>1 DEF Accounted, InLLC
  <2>. QED  BY <2>2, <2>3 DEF InLLC, AtHome
<1>4. Suspended'
  <2> DEFINE to == waiters[c]
             E == Enter(to, One(a), {1})
  <2>1. /\ waiters \in [Counters -> [Slot -> Addr \cup {None}]]
        /\ to \in [Slot -> Addr \cup {None}] /\ {1} \in SUBSET Slot
    BY DirectoryAssumption, SMTT(30) DEF TypeOK, DirTypeOK, Slot
  <2>3. \A k \in Counters : waiters'[k] = IF k = c THEN E ELSE waiters[k]
    BY <2>1
  <2>4. /\ \A i \in Slot : to[i] # None => E[i] = to[i]
        /\ \A i \in Slot : to[i] = None /\ E[i] # None => E[i] = a
        /\ \A i, k \in Slot : to[i] = None /\ to[k] = None /\ E[i] # None /\ E[i] = E[k] => i = k
    <3>1. \A i \in Slot : to[i] # None => E[i] = to[i]
      BY <2>1, EnterOne
    <3>2. \A i \in Slot : to[i] = None /\ E[i] # None => E[i] = a
      BY <2>1, EnterOne
    <3>3. \A i, k \in Slot : to[i] = None /\ to[k] = None /\ E[i] # None /\ E[i] = E[k] => i = k
      BY <2>1, EnterOne
    <3>. QED  BY <3>1, <3>2, <3>3
  <2> HIDE DEF to, E
  <2>5. \A k \in Counters, i \in Slot : waiters[k][i] # None =>
           /\ waiters[k][i] \in Addr /\ waiters[k][i] # a
           /\ dirState[waiters[k][i]] \in InEvictAuth
    BY <2>1 DEF Accounted, Suspended
  <2>6. \A k \in Counters, i \in Slot : waiters'[k][i] # None =>
           waiters'[k][i] = waiters[k][i] \/ (k = c /\ to[i] = None /\ waiters'[k][i] = a)
    BY <2>3, <2>4 DEF to
  <2>7. \A k \in Counters, i \in Slot :
           waiters'[k][i] # None => dirState'[waiters'[k][i]] \in InEvictAuth
    BY <2>5, <2>6
  <2>8. ASSUME NEW k \in Counters, NEW l \in Counters, NEW i \in Slot, NEW j \in Slot,
               waiters'[k][i] # None, waiters'[k][i] = waiters'[l][j]
        PROVE  k = l /\ i = j
    <3>1. CASE waiters'[k][i] = waiters[k][i]
      <4>1. waiters'[l][j] = waiters[l][j]
        BY <2>5, <2>6, <2>8, <3>1
      <4>. QED  BY <2>8, <3>1, <4>1 DEF Accounted, Suspended
    <3>2. CASE waiters'[k][i] = a
      <4>1. k = c /\ to[i] = None
        BY <2>5, <2>6, <2>8, <3>2
      <4>2. l = c /\ to[j] = None
        BY <2>5, <2>6, <2>8, <3>2
      <4>. QED  BY <2>3, <2>4, <2>8, <4>1, <4>2
    <3>. QED  BY <2>6, <2>8, <3>1, <3>2
  <2>. QED  BY <2>7, <2>8 DEF Suspended
<1>. QED  BY <1>2, <1>3, <1>4 DEF Accounted

(* A step that changes nothing of all this. *)
LEMMA AccountedStays ==
  ASSUME Accounted,
         UNCHANGED <<dirState, tbe, fetching, waiters, memQ, resident, dirty>>
  PROVE  Accounted'
BY DEF Accounted, InMemory, Reading, Writing, Write, InLLC, Suspended

(* A step that only moves the entry of a from one of the states of a block *)
(* in the LLC to another.                                                  *)
LEMMA LineQuiet ==
  ASSUME TypeOK, Accounted, NEW a \in Addr,
         UNCHANGED <<fetching, waiters, memQ, resident, dirty>>,
         \A b \in Addr : b # a => tbe'[b] = tbe[b] /\ dirState'[b] = dirState[b],
         dirState[a] \in AtHome, dirState'[a] \in AtHome
  PROVE  Accounted'
<1>1. ~Writing(a) /\ ~Writing(a)' /\ (Reading(a)' <=> Reading(a))
  BY HomeStates DEF Writing, Reading
<1>2. InMemory(a)'
  BY <1>1, MemoryQuiet DEF Accounted
<1>3. dirState[a] \notin InEvictAuth
  BY HomeStates
<1>4. dirty \subseteq resident /\ fetching \cap resident = {}
  BY DEF Accounted, InLLC
<1>5. \A b \in Addr : b # a =>
           /\ memQ'[b] = memQ[b] /\ tbe'[b] = tbe[b]
           /\ EntryKept(b)
  BY DEF EntryKept
<1>6. /\ resident' \ {a} \subseteq resident /\ dirty' \subseteq resident'
      /\ a \in resident' => a \notin fetching /\ dirState'[a] \in AtHome
  BY <1>4
<1>. QED  BY <1>2, <1>3, <1>5, <1>6, LineChanged

(* A read of the line a is sent to memory. *)
LEMMA LineFetched ==
  ASSUME TypeOK, Accounted, NEW a \in Data, a \notin resident,
         UNCHANGED <<fetching, waiters, resident, dirty>>,
         \A b \in Addr : b # a => tbe'[b] = tbe[b] /\ dirState'[b] = dirState[b],
         dirState[a] \in {"I", "S"}, dirState'[a] \in {"IS", "IE", "SE"}, SendMem(a, READ)
  PROVE  Accounted'
<1>0. a \in Addr /\ a \notin fetching /\ memQ \in [Addr -> Seq(MemMsg)]
  BY AddressAssumption DEF Addr, TypeOK, DirTypeOK
<1>1. ~Writing(a) /\ ~Writing(a)' /\ ~Reading(a) /\ Reading(a)'
  BY <1>0 DEF Writing, Reading, InEvicting
<1>2. memQ'[a] = Append(memQ[a], READ) /\ \A b \in Addr : b # a => memQ'[b] = memQ[b]
  BY <1>0 DEF SendMem
<1>3. InMemory(a)'
  BY <1>0, <1>1, <1>2, ReadSent DEF Accounted
<1>4. dirState[a] \notin InEvictAuth
  BY DEF InEvictAuth
<1>5. dirty \subseteq resident
  BY DEF Accounted, InLLC
<1>6. \A b \in Addr : b # a =>
           /\ memQ'[b] = memQ[b] /\ tbe'[b] = tbe[b]
           /\ EntryKept(b)
  BY <1>2 DEF EntryKept
<1>7. /\ resident' \ {a} \subseteq resident /\ dirty' \subseteq resident'
      /\ a \in resident' => a \notin fetching /\ dirState'[a] \in AtHome
  BY <1>5
<1>. QED  BY <1>0, <1>3, <1>4, <1>6, <1>7, LineChanged

-----------------------------------------------------------------------------
(* The states the entry of an accepted request can be in are those of a    *)
(* block in the LLC.                                                       *)
LEMMA AtHomeStates ==
  /\ {"I", "S", "E", "ES", "EE", "C_M"} \subseteq AtHome
  /\ Stable \subseteq AtHome /\ InFetchAuth \subseteq AtHome
BY DEF AtHome, Stable

(* A request keeps the books. *)
LEMMA RequestStepAccounted ==
  ASSUME TypeOK, Accounted, NEW m \in requests, OnRequest(m)
  PROVE  Accounted'
<1> DEFINE a == m.addr
<1>t. /\ dirState \in [Addr -> DirState] /\ tbe \in [Addr -> TBE]
      /\ a \in Addr /\ a \in Data
  BY RequestType DEF TypeOK, DirTypeOK
<1> HIDE DEF a
<1>1. CASE GrantSharedFromLLC(m) \/ GrantExclusiveFromLLC(m) \/ GrantUpgrade(m)
  <2>1. UNCHANGED <<fetching, waiters, memQ, resident, dirty, tbe>>
    BY <1>1 DEF GrantSharedFromLLC, GrantExclusiveFromLLC, GrantUpgrade, authVars, memVars, llcVars
  <2>2. dirState[a] \in {"I", "S"}
    BY <1>1 DEF GrantSharedFromLLC, GrantExclusiveFromLLC, GrantUpgrade, Accept, a
  <2>3. \E s \in {"S", "E"} : dirState' = [dirState EXCEPT ![a] = s]
    BY <1>1 DEF GrantSharedFromLLC, GrantExclusiveFromLLC, GrantUpgrade, a
  <2>4. dirState'[a] \in {"S", "E"} /\ \A b \in Addr : b # a => dirState'[b] = dirState[b]
    BY <1>t, <2>3
  <2>. QED  BY <1>t, <2>1, <2>2, <2>4, AtHomeStates, LineQuiet
<1>2. CASE FetchShared(m) \/ FetchExclusive(m)
  <2>1. UNCHANGED <<fetching, waiters, resident, dirty>> /\ SendMem(a, READ)
    BY <1>2 DEF FetchShared, FetchExclusive, authVars, a
  <2>2. dirState[a] \in {"I", "S"} /\ a \notin resident
    BY <1>2 DEF FetchShared, FetchExclusive, Accept, Event, a
  <2>3. /\ \E s \in {"IS", "IE", "SE"} : dirState' = [dirState EXCEPT ![a] = s]
        /\ \E e : tbe' = [tbe EXCEPT ![a] = e]
    BY <1>2 DEF FetchShared, FetchExclusive, allocateTBE_ReqIn, a
  <2>4. /\ dirState'[a] \in {"IS", "IE", "SE"}
        /\ \A b \in Addr : b # a => dirState'[b] = dirState[b] /\ tbe'[b] = tbe[b]
    BY <1>t, <2>3
  <2>. QED  BY <1>t, <2>1, <2>2, <2>4, LineFetched
<1>3. CASE RecallForShared(m) \/ RecallForExclusive(m)
  <2>1. UNCHANGED <<fetching, waiters, memQ, resident, dirty>>
    BY <1>3 DEF RecallForShared, RecallForExclusive, authVars, memVars
  <2>2. dirState[a] = "E"
    BY <1>3 DEF RecallForShared, RecallForExclusive, Accept, a
  <2>3. /\ \E s \in {"ES", "EE"} : dirState' = [dirState EXCEPT ![a] = s]
        /\ \E e : tbe' = [tbe EXCEPT ![a] = e]
    BY <1>3 DEF RecallForShared, RecallForExclusive, allocateTBE_ReqIn, a
  <2>4. /\ dirState'[a] \in {"ES", "EE"}
        /\ \A b \in Addr : b # a => dirState'[b] = dirState[b] /\ tbe'[b] = tbe[b]
    BY <1>t, <2>3
  <2>. QED  BY <1>t, <2>1, <2>2, <2>4, AtHomeStates, LineQuiet
<1>4. CASE FetchCounter(m)
  <2> DEFINE c == Parent(a)
  <2>1. c \in Counters /\ c \notin resident
    BY <1>4, AuthMissType DEF FetchCounter, Accept, Event, ParentMissing, Parent, a
  <2>2. c # a /\ c \in Addr
    BY <1>t, <2>1, AddressAssumption DEF Addr
  <2>3. /\ fetching' = fetching \cup {c} /\ ReadOnce(c)
        /\ UNCHANGED <<waiters, resident, dirty, tbe>>
    BY <1>4 DEF FetchCounter, llcVars, a
  <2>4. dirState[a] \in Stable /\ dirState' = [dirState EXCEPT ![a] = FetchAuth[@]]
    BY <1>4 DEF FetchCounter, Accept, a
  <2>5. /\ dirState'[a] \in InFetchAuth
        /\ \A b \in Addr : b # a => dirState'[b] = dirState[b]
    BY <1>t, <2>4, StateMaps
  <2> HIDE DEF c
  <2>6. dirState'[c] = dirState[c] /\ tbe'[c] = tbe[c]
    BY <2>2, <2>3, <2>5
  <2>7. /\ InMemory(c)'
        /\ \A b \in Addr : b # c => memQ'[b] = memQ[b] /\ (b \in fetching' <=> b \in fetching)
    BY <2>1, <2>3, <2>6, CounterFetched
  <2>8. ASSUME NEW b \in Addr, b # c
        PROVE  InMemory(b)'
    <3>1. Writing(b)' <=> Writing(b)
      BY <2>4, <2>5, <1>t, HomeStates, AtHomeStates DEF Writing
    <3>2. b \in fetching' <=> b \in fetching
      BY <2>7, <2>8
    <3>3. dirState[b] \in {"IS", "IE", "SE"} <=> dirState'[b] \in {"IS", "IE", "SE"}
      BY <2>4, <2>5, <1>t, HomeStates, AtHomeStates
    <3>4. Reading(b)' <=> Reading(b)
      BY <3>2, <3>3 DEF Reading
    <3>5. memQ'[b] = memQ[b] /\ tbe'[b] = tbe[b] /\ InMemory(b)
      BY <2>3, <2>7, <2>8 DEF Accounted
    <3>. QED  BY <3>1, <3>4, <3>5, MemoryQuiet
  <2>9. InLLC'
    BY <2>1, <2>3, <2>5, AtHomeStates DEF InLLC, Accounted, TypeOK, DirTypeOK
  <2>10. Suspended'
    <3>1. \A b \in Addr : dirState[b] \in InEvictAuth => dirState'[b] = dirState[b]
      BY <2>4, <2>5, HomeStates, AtHomeStates
    <3>2. \A k \in Counters, i \in Slot : waiters[k][i] \in Addr \cup {None}
      BY DEF TypeOK, DirTypeOK
    <3>. QED  BY <2>3, <3>1, <3>2 DEF Accounted, Suspended
  <2>. QED  BY <2>7, <2>8, <2>9, <2>10 DEF Accounted
<1>5. CASE WaitForCounter(m) \/ StallRequest(m)
  BY <1>5, AccountedStays DEF WaitForCounter, StallRequest, llcVars, authVars, memVars
<1>6. CASE Bounce(m)
  <2>1. UNCHANGED <<fetching, waiters, memQ, resident, dirty, tbe>>
    BY <1>6 DEF Bounce, authVars, memVars
  <2>2. dirState[a] \in InFetchAuth /\ dirState' = [dirState EXCEPT ![a] = Base[@]]
    BY <1>6 DEF Bounce, a
  <2>3. dirState'[a] \in Stable /\ \A b \in Addr : b # a => dirState'[b] = dirState[b]
    BY <1>t, <2>2, StateMaps
  <2>. QED  BY <1>t, <2>1, <2>2, <2>3, AtHomeStates, LineQuiet
<1>. QED  BY <1>1, <1>2, <1>3, <1>4, <1>5, <1>6 DEF OnRequest

-----------------------------------------------------------------------------
(* The data of a line arrives. *)
LEMMA DataArrived ==
  ASSUME TypeOK, Accounted, NEW a \in Addr, DataReady(a),
         dirState[a] \in {"IS", "IE", "SE"}, UNCHANGED <<fetching, waiters>>,
         memQ' = [memQ EXCEPT ![a] = Tail(@)],
         \A b \in Addr : b # a => tbe'[b] = tbe[b] /\ dirState'[b] = dirState[b],
         dirState'[a] \in {"S", "E"}, resident' \subseteq resident \cup {a},
         resident \subseteq resident', dirty' \subseteq dirty
  PROVE  Accounted'
<1>1. a \notin fetching /\ memQ \in [Addr -> Seq(MemMsg)]
  BY PendingData DEF Pending, TypeOK, DirTypeOK
<1>2. ~Writing(a) /\ InMemory(a)
  BY DEF Writing, InEvicting, Accounted
<1>3. memQ'[a] = <<>> /\ \A b \in Addr : b # a => memQ'[b] = memQ[b]
  BY <1>1, <1>2, DataAwaited
<1>4. ~Reading(a)' /\ ~Writing(a)'
  BY <1>1 DEF Reading, Writing, InEvicting
<1>5. InMemory(a)'
  BY <1>3, <1>4 DEF InMemory
<1>6. \A b \in Addr : b # a => memQ'[b] = memQ[b] /\ tbe'[b] = tbe[b] /\ EntryKept(b)
  BY <1>3 DEF EntryKept
<1>7. /\ resident' \ {a} \subseteq resident /\ dirty' \subseteq resident'
      /\ a \in resident' => a \notin fetching /\ dirState'[a] \in AtHome
  BY <1>1, AtHomeStates DEF Accounted, InLLC
<1>8. dirState[a] \notin InEvictAuth
  BY DEF InEvictAuth
<1>. QED  BY <1>5, <1>6, <1>7, <1>8, LineChanged

(* A write-back is acknowledged. *)
LEMMA WritebackAccounted ==
  ASSUME TypeOK, Accounted, NEW a \in Addr, NEW i \in DOMAIN memQ[a], WritebackDone(a, i)
  PROVE  Accounted'
<1>1. /\ AckReady(a, i) /\ dirState[a] \in InEvicting
      /\ dirState' = [dirState EXCEPT ![a] = Base[@]]
      /\ memQ' = [memQ EXCEPT ![a] = RemoveAt(@, i)]
      /\ tbe' = [tbe EXCEPT ![a] = NoTBE]
      /\ UNCHANGED <<fetching, waiters, resident, dirty>>
  BY DEF WritebackDone, authVars, llcVars
<1>2. /\ memQ \in [Addr -> Seq(MemMsg)] /\ dirState \in [Addr -> DirState]
      /\ tbe \in [Addr -> TBE]
  BY DEF TypeOK, DirTypeOK
<1>3. /\ dirState'[a] \in Stable /\ memQ'[a] = RemoveAt(memQ[a], i)
      /\ \A b \in Addr : b # a =>
           dirState'[b] = dirState[b] /\ memQ'[b] = memQ[b] /\ tbe'[b] = tbe[b]
  BY <1>1, <1>2, StateMaps
<1>4. memQ'[a] = IF Reading(a) THEN <<READ>> ELSE <<>>
  BY <1>1, <1>3, AckAwaited DEF Accounted
<1>5. ~Writing(a)' /\ (Reading(a)' <=> Reading(a))
  BY <1>1, <1>3 DEF Reading, Writing, InEvicting, Stable
<1>6. InMemory(a)'
  BY <1>4, <1>5 DEF InMemory
<1>7. \A b \in Addr : b # a => memQ'[b] = memQ[b] /\ tbe'[b] = tbe[b] /\ EntryKept(b)
  BY <1>3 DEF EntryKept
<1>8. a \notin resident /\ dirState[a] \notin InEvictAuth
  BY <1>1, HomeStates DEF Accounted, InLLC, InEvicting, InEvictAuth
<1>9. /\ resident' \ {a} \subseteq resident /\ dirty' \subseteq resident'
      /\ a \in resident' => a \notin fetching /\ dirState'[a] \in AtHome
  BY <1>1, <1>8 DEF Accounted, InLLC
<1>. QED  BY <1>1, <1>6, <1>7, <1>8, <1>9, LineChanged

(* The parts of the arrival of c: the tags with c, the slots that are      *)
(* filled and the counter each misses next, those that are ready and whom  *)
(* they write back, the counters that marks, the counter above c, and the  *)
(* fetches that start.                                                     *)
Here(c) == resident \cup {c}
Filled(c) == {i \in Slot : waiters[c][i] # None}
NextMissing(c, i) == FirstMissingIn(waiters[c][i], Here(c))
Ready(c) == {i \in Filled(c) : NextMissing(c, i) = None}
Written(c) == {waiters[c][i] : i \in Ready(c)}
Marked(c) == UNION {ToSet(Path[w]) : w \in Written(c)}
Above(c) == IF ParentMissing(c, Here(c)) THEN {Parent(c)} ELSE {}
Started(c) == ({NextMissing(c, i) : i \in Filled(c) \ Ready(c)} \cup Above(c)) \ fetching

MovedTo(c, p) == {i \in Filled(c) : NextMissing(c, i) = p}

(* Data that arrives in state I is that of a counter with an AuthTBE, so   *)
(* the orphan's part of Counter_Data is not taken.                         *)
LEMMA CounterAwaited ==
  ASSUME TypeOK, Accounted, NEW c \in Addr, CounterData(c)
  PROVE  /\ c \in fetching /\ c \in Counters /\ c \notin resident /\ dirState[c] = "I"
         /\ Tail(memQ[c]) = <<>>
         /\ resident' = Here(c)
         /\ dirty' = (dirty \ {c}) \cup Marked(c)
         /\ dirState' = [a \in Addr |->
              CASE a = c -> "I"
                [] a # c /\ a \in Marked(c) -> "C_M"
                [] a # c /\ a \notin Marked(c) /\ a \in Written(c) /\ dirState[a] \in InEvictAuth ->
                     Resumed[dirState[a]]
                [] OTHER -> dirState[a]]
         /\ fetching' = (fetching \cup Started(c)) \ {c}
         /\ waiters' = [p \in Counters |->
              IF p = c THEN NoWaiters
              ELSE Enter(waiters[p], waiters[c], {i \in Filled(c) : NextMissing(c, i) = p})]
         /\ memQ' = [a \in Addr |->
              IF a = c THEN Tail(memQ[c])
              ELSE memQ[a] \o (IF a \in Started(c) THEN <<READ>> ELSE <<>>)
                           \o (IF a \in Written(c) THEN <<WB(tbe[a].data)>> ELSE <<>>)]
         /\ UNCHANGED <<tbe, memory>>
<1>1. dirState[c] = "I" /\ DataReady(c)
  BY DEF CounterData, Answer
<1>2. ~Writing(c) /\ InMemory(c)
  BY <1>1 DEF Writing, InEvicting, Accounted
<1>3. c \in fetching /\ Tail(memQ[c]) = <<>>
  BY <1>1, <1>2, DataAwaited DEF Reading
<1>4. c \in Counters /\ c \notin resident
  BY <1>3 DEF TypeOK, DirTypeOK, Accounted, InLLC
<1>5. resident' = Here(c) /\ UNCHANGED <<tbe, memory>>
  BY DEF CounterData, Here
<1>6. dirty' = (dirty \ {c}) \cup Marked(c)
  BY <1>3 DEF CounterData, Marked, Written, Ready, Filled, NextMissing, Here
<1>7. dirState' = [a \in Addr |->
              CASE a = c -> "I"
                [] a # c /\ a \in Marked(c) -> "C_M"
                [] a # c /\ a \notin Marked(c) /\ a \in Written(c) /\ dirState[a] \in InEvictAuth ->
                     Resumed[dirState[a]]
                [] OTHER -> dirState[a]]
  BY <1>3 DEF CounterData, Marked, Written, Ready, Filled, NextMissing, Here
<1>8. fetching' = (fetching \cup Started(c)) \ {c}
  BY <1>3 DEF CounterData, Started, Above, Ready, Filled, NextMissing, Here
<1>9. waiters' = [p \in Counters |->
              IF p = c THEN NoWaiters
              ELSE Enter(waiters[p], waiters[c], {i \in Filled(c) : NextMissing(c, i) = p})]
  BY <1>3 DEF CounterData, Filled, NextMissing, Here
<1>10. memQ' = [a \in Addr |->
              IF a = c THEN Tail(memQ[c])
              ELSE memQ[a] \o (IF a \in Started(c) THEN <<READ>> ELSE <<>>)
                           \o (IF a \in Written(c) THEN <<WB(tbe[a].data)>> ELSE <<>>)]
  BY <1>3 DEF CounterData, Started, Above, Written, Ready, Filled, NextMissing, Here
<1>. QED  BY <1>1, <1>3, <1>4, <1>5, <1>6, <1>7, <1>8, <1>9, <1>10

(* Those written back are not in the LLC, the counters marked are, and     *)
(* those whose fetch is started are neither there nor being fetched.       *)
LEMMA CounterSets ==
  ASSUME TypeOK, Accounted, NEW c \in Counters
  PROVE  /\ \A i \in Filled(c) : waiters[c][i] \in Addr /\ dirState[waiters[c][i]] \in InEvictAuth
         /\ \A w \in Written(c) :
              w \in Addr /\ dirState[w] \in InEvictAuth /\ w \notin resident
         /\ Marked(c) \subseteq Here(c) /\ Marked(c) \subseteq Counters
         /\ \A k \in Started(c) : k \in Counters /\ k \notin Here(c) /\ k \notin fetching
<1>0. c \in Addr
  BY DEF Addr
<1>1. \A i \in Filled(c) : waiters[c][i] \in Addr /\ dirState[waiters[c][i]] \in InEvictAuth
  BY DEF Filled, TypeOK, DirTypeOK, Accounted, Suspended
<1>2. \A w \in Written(c) : w \in Addr /\ dirState[w] \in InEvictAuth /\ w \notin resident
  <2>1. \A w \in Written(c) : w \in Addr /\ dirState[w] \in InEvictAuth
    BY <1>1 DEF Written, Ready
  <2>. QED  BY <2>1, HomeStates DEF Accounted, InLLC
<1>3. \A w \in Written(c) : ToSet(Path[w]) \subseteq Here(c) /\ ToSet(Path[w]) \subseteq Counters
  <2> SUFFICES ASSUME NEW i \in Ready(c)
               PROVE  /\ ToSet(Path[waiters[c][i]]) \subseteq Here(c)
                      /\ ToSet(Path[waiters[c][i]]) \subseteq Counters
    BY DEF Written
  <2>1. i \in Filled(c) /\ FirstMissingIn(waiters[c][i], Here(c)) = None
    BY DEF Ready, NextMissing
  <2>. QED  BY <1>1, <2>1, NothingMissing, PathType
<1>4. Marked(c) \subseteq Here(c) /\ Marked(c) \subseteq Counters
  BY <1>3 DEF Marked
<1>5. \A i \in Filled(c) \ Ready(c) : NextMissing(c, i) \in Counters \ Here(c)
  BY <1>1, MissingOutside DEF Ready, NextMissing
<1>6. \A k \in Above(c) : k \in Counters /\ k \notin Here(c)
  BY <1>0, ParentType DEF Above, ParentMissing, Parent
<1>7. \A k \in Started(c) : k \in Counters /\ k \notin Here(c) /\ k \notin fetching
  BY <1>5, <1>6 DEF Started
<1>. QED  BY <1>1, <1>2, <1>4, <1>7

(* The arrival of a counter keeps the books: the evictions it resumes are  *)
(* written back once, those that go on waiting wait in one slot again, and *)
(* nothing that is fetched already is fetched again.                       *)
LEMMA CounterAccounted ==
  ASSUME TypeOK, Accounted, NEW c \in Addr, CounterData(c)
  PROVE  Accounted'
<1>c. /\ c \in fetching /\ c \in Counters /\ c \notin resident /\ dirState[c] = "I"
      /\ Tail(memQ[c]) = <<>> /\ resident' = Here(c)
      /\ dirty' = (dirty \ {c}) \cup Marked(c)
      /\ fetching' = (fetching \cup Started(c)) \ {c} /\ UNCHANGED tbe
  BY CounterAwaited
<1>w. \A w \in Written(c) :
        w \in Addr /\ dirState[w] \in InEvictAuth /\ w \notin resident /\ w # c /\ w \notin Marked(c)
  <2>1. \A w \in Written(c) : w \in Addr /\ dirState[w] \in InEvictAuth /\ w \notin resident
    BY <1>c, CounterSets
  <2>2. \A w \in Written(c) : w # c
    BY <1>c, <2>1 DEF InEvictAuth
  <2>3. Marked(c) \subseteq Here(c)
    BY <1>c, CounterSets
  <2>. QED  BY <2>1, <2>2, <2>3 DEF Here
<1>m. Marked(c) \subseteq Here(c) /\ Marked(c) \subseteq Counters
  BY <1>c, CounterSets
<1>s. \A k \in Started(c) : k \in Counters /\ k \notin Here(c) /\ k \notin fetching /\ k # c
  <2>1. \A k \in Started(c) : k \in Counters /\ k \notin Here(c) /\ k \notin fetching
    BY <1>c, CounterSets
  <2>. QED  BY <2>1 DEF Here
<1>d. \A b \in Addr :
        /\ b = c => dirState'[b] = "I"
        /\ b \in Marked(c) /\ b # c => dirState'[b] = "C_M" /\ b \in resident
        /\ b \in Written(c) => dirState'[b] \in InEvicting
        /\ b # c /\ b \notin Marked(c) /\ b \notin Written(c) => dirState'[b] = dirState[b]
  <2>1. dirState' = [a \in Addr |->
              CASE a = c -> "I"
                [] a # c /\ a \in Marked(c) -> "C_M"
                [] a # c /\ a \notin Marked(c) /\ a \in Written(c) /\ dirState[a] \in InEvictAuth ->
                     Resumed[dirState[a]]
                [] OTHER -> dirState[a]]
    BY CounterAwaited
  <2>2. ASSUME NEW b \in Addr, b = c PROVE dirState'[b] = "I"
    BY <2>1, <2>2
  <2>3. ASSUME NEW b \in Addr, b \in Marked(c), b # c
        PROVE  dirState'[b] = "C_M" /\ b \in resident
    BY <1>m, <2>1, <2>3 DEF Here
  <2>4. ASSUME NEW b \in Addr, b \in Written(c) PROVE dirState'[b] \in InEvicting
    <3>1. dirState'[b] = Resumed[dirState[b]]
      BY <1>w, <2>1, <2>4
    <3>. QED  BY <1>w, <2>4, <3>1, StateMaps
  <2>5. ASSUME NEW b \in Addr, b # c, b \notin Marked(c), b \notin Written(c)
        PROVE  dirState'[b] = dirState[b]
    BY <2>1, <2>5
  <2>. QED  BY <2>2, <2>3, <2>4, <2>5
<1>h. \A b \in resident : dirState[b] \in AtHome /\ b \in Addr
  BY DEF Accounted, InLLC, TypeOK, DirTypeOK
<1>q. \A b \in Addr :
        /\ b = c => memQ'[b] = <<>>
        /\ b # c /\ b \notin Started(c) /\ b \notin Written(c) => memQ'[b] = memQ[b]
        /\ b # c /\ b \in Started(c) /\ b \notin Written(c) => memQ'[b] = Append(memQ[b], READ)
        /\ b # c /\ b \notin Started(c) /\ b \in Written(c) =>
             memQ'[b] = Append(memQ[b], WB(tbe[b].data))
        /\ b # c /\ b \in Started(c) /\ b \in Written(c) =>
             memQ'[b] = Append(Append(memQ[b], READ), WB(tbe[b].data))
  <2>1. memQ' = [a \in Addr |->
              IF a = c THEN Tail(memQ[c])
              ELSE memQ[a] \o (IF a \in Started(c) THEN <<READ>> ELSE <<>>)
                           \o (IF a \in Written(c) THEN <<WB(tbe[a].data)>> ELSE <<>>)]
    BY CounterAwaited
  <2>2. ASSUME NEW b \in Addr
        PROVE  /\ memQ[b] \in Seq(MemMsg) /\ READ \in MemMsg /\ WB(tbe[b].data) \in MemMsg
               /\ Append(memQ[b], READ) \in Seq(MemMsg)
    <3>1. memQ[b] \in Seq(MemMsg)
      BY DEF TypeOK, DirTypeOK
    <3>2. READ \in MemMsg
      BY DEF READ, MemMsg
    <3>3. WB(tbe[b].data) \in MemMsg
      <4>1. tbe[b].data \in Nat
        BY DEF TypeOK, DirTypeOK, TBE
      <4>. QED  BY <4>1 DEF WB, MemMsg
    <3>. QED  BY <3>1, <3>2, <3>3, AppendProperties
  <2>3. ASSUME NEW b \in Addr
        PROVE  /\ memQ[b] \o <<READ>> = Append(memQ[b], READ) /\ memQ[b] \o <<>> = memQ[b]
               /\ memQ[b] \o <<WB(tbe[b].data)>> = Append(memQ[b], WB(tbe[b].data))
               /\ Append(memQ[b], READ) \o <<>> = Append(memQ[b], READ)
               /\ Append(memQ[b], READ) \o <<WB(tbe[b].data)>>
                    = Append(Append(memQ[b], READ), WB(tbe[b].data))
    BY <2>2, AppendIsConcat, ConcatEmptySeq
  <2>. QED  BY <1>c, <2>1, <2>3
<1>1. ASSUME NEW b \in Addr
      PROVE  InMemory(b)'
  <2>0. InMemory(b) /\ tbe'[b].data = tbe[b].data
    BY <1>c DEF Accounted
  <2>1. CASE b = c
    <3>1. ~Reading(b)' /\ ~Writing(b)'
      BY <1>c, <1>d, <2>1 DEF Reading, Writing, InEvicting
    <3>. QED  BY <1>q, <2>1, <3>1 DEF InMemory
  <2>2. CASE b \in Written(c)
    <3>1. b # c /\ ~Writing(b) /\ Writing(b)'
      BY <1>w, <1>d, <2>2 DEF Writing, InEvicting, InEvictAuth
    <3>2. dirState[b] \notin {"IS", "IE", "SE"} /\ dirState'[b] \notin {"IS", "IE", "SE"}
      BY <1>w, <1>d, <2>2 DEF InEvicting, InEvictAuth
    <3>3. CASE b \in Started(c)
      <4>1. ~Reading(b) /\ Reading(b)'
        BY <1>c, <1>s, <3>2, <3>3 DEF Reading
      <4>2. memQ'[b] = Append(Append(memQ[b], READ), WB(tbe[b].data))
        BY <1>q, <2>2, <3>1, <3>3
      <4>. QED  BY <2>0, <3>1, <4>1, <4>2, BothSent
    <3>4. CASE b \notin Started(c)
      <4>1. Reading(b)' <=> Reading(b)
        BY <1>c, <3>1, <3>2, <3>4 DEF Reading
      <4>2. memQ'[b] = Append(memQ[b], WB(tbe[b].data))
        BY <1>q, <2>2, <3>1, <3>4
      <4>. QED  BY <2>0, <3>1, <4>1, <4>2, WriteSent
    <3>. QED  BY <3>3, <3>4
  <2>3. CASE b # c /\ b \notin Written(c)
    <3>1. EntryKept(b)
      BY <1>d, <1>h, <2>3 DEF EntryKept
    <3>2. CASE b \in Started(c)
      <4>1. dirState[b] \notin {"IS", "IE", "SE"} /\ dirState'[b] \notin {"IS", "IE", "SE"}
        BY <1>s, <3>1, <3>2, HomeStates DEF EntryKept, TypeOK, DirTypeOK, EntriesOK, CounterState
      <4>2. ~Reading(b) /\ Reading(b)'
        BY <1>c, <1>s, <3>2, <4>1 DEF Reading
      <4>3. Writing(b)' <=> Writing(b)
        BY <3>1, HomeStates DEF EntryKept, Writing, InEvicting
      <4>4. memQ'[b] = Append(memQ[b], READ)
        BY <1>q, <2>3, <3>2
      <4>. QED  BY <2>0, <4>2, <4>3, <4>4, ReadSent
    <3>3. CASE b \notin Started(c)
      <4>1. memQ'[b] = memQ[b]
        BY <1>q, <2>3, <3>3
      <4>2. b \in fetching' <=> b \in fetching
        BY <1>c, <2>3, <3>3
      <4>3. Reading(b)' <=> Reading(b)
        BY <3>1, <4>2, HomeStates DEF EntryKept, Reading
      <4>4. Writing(b)' <=> Writing(b)
        BY <3>1, HomeStates DEF EntryKept, Writing, InEvicting
      <4>. QED  BY <2>0, <4>1, <4>3, <4>4, MemoryQuiet
    <3>. QED  BY <3>2, <3>3
  <2>. QED  BY <2>1, <2>2, <2>3
<1>2. InLLC'
  <2>1. dirty' \subseteq resident' /\ fetching' \cap resident' = {}
    BY <1>c, <1>m, <1>s DEF Here, Accounted, InLLC
  <2>2. ASSUME NEW b \in resident'
        PROVE  dirState'[b] \in AtHome
    <3>1. b = c \/ b \in resident
      BY <1>c DEF Here
    <3>2. b \in Addr /\ b \notin Written(c)
      BY <1>h, <1>w, <3>1
    <3>. QED  BY <1>d, <1>h, <3>1, <3>2, AtHomeStates
  <2>. QED  BY <2>1, <2>2 DEF InLLC
<1>3. Suspended'
  <2> DEFINE E(p) == Enter(waiters[p], waiters[c], MovedTo(c, p))
             New(p, i) == /\ waiters[p][i] = None
                          /\ \E j \in MovedTo(c, p) : waiters'[p][i] = waiters[c][j]
             Old(p, i) == waiters[p][i] # None /\ waiters'[p][i] = waiters[p][i]
  <2>1. \A p \in Counters : p # c => waiters'[p] = E(p)
    BY CounterAwaited, ZenonT(30) DEF MovedTo
  <2>2. \A i \in Slot : waiters'[c][i] = None
    <3>1. waiters'[c] = NoWaiters
      BY <1>c, CounterAwaited
    <3>. QED  BY <3>1 DEF NoWaiters
  <2>3. \A j \in Filled(c) : j \in Slot /\ waiters[c][j] # None
    BY DEF Filled
  <2>4. \A k, l \in Counters, i, j \in Slot :
          waiters[k][i] # None /\ waiters[k][i] = waiters[l][j] => k = l /\ i = j
    BY DEF Accounted, Suspended
  <2>5. \A p \in Counters : \A j \in MovedTo(c, p) : j \in Filled(c) /\ NextMissing(c, j) = p
    BY DEF MovedTo
  <2>6. ASSUME NEW p \in Counters, p # c
        PROVE  /\ \A i \in Slot : waiters'[p][i] # None => Old(p, i) \/ New(p, i)
               /\ \A i, k \in Slot : New(p, i) /\ New(p, k) /\ waiters'[p][i] # None
                     /\ waiters'[p][i] = waiters'[p][k] => i = k
    <3> DEFINE to == waiters[p]
               from == waiters[c]
               moved == MovedTo(c, p)
    <3>1. to \in [Slot -> Addr \cup {None}] /\ moved \in SUBSET Slot
      BY DEF TypeOK, DirTypeOK, MovedTo, Filled
    <3>2. \A j, l \in moved : from[j] = from[l] => j = l
      BY <1>c, <2>3, <2>4, <2>5
    <3>3. waiters'[p] = Enter(to, from, moved)
      BY <2>1, <2>6
    <3> HIDE DEF from, moved, to
    <3>4. \A i \in Slot : to[i] # None => Enter(to, from, moved)[i] = to[i]
      BY <3>1, EnterExact
    <3>5. \A i \in Slot : to[i] = None /\ Enter(to, from, moved)[i] # None
              => \E j \in moved : Enter(to, from, moved)[i] = from[j]
      BY <3>1, EnterExact
    <3>6. \A i, k \in Slot :
              to[i] = None /\ to[k] = None
              /\ Enter(to, from, moved)[i] # None
              /\ Enter(to, from, moved)[i] = Enter(to, from, moved)[k]
              => i = k
      BY <3>1, <3>2, EnterExact
    <3>7. \A i \in Slot : waiters'[p][i] # None => Old(p, i) \/ New(p, i)
      BY <3>3, <3>4, <3>5 DEF to, from, moved
    <3>8. \A i, k \in Slot : New(p, i) /\ New(p, k) /\ waiters'[p][i] # None
                     /\ waiters'[p][i] = waiters'[p][k] => i = k
      BY <3>3, <3>6 DEF to
    <3>. QED  BY <3>7, <3>8
  <2>7. \A w \in Written(c) : \E j \in Ready(c) : w = waiters[c][j]
    BY DEF Written
  <2>8. \A j \in Ready(c) : j \in Filled(c) /\ NextMissing(c, j) = None
    BY DEF Ready
  <2>9. None \notin Counters
    BY AddressAssumption DEF Addr
  <2> HIDE DEF E
  <2>10. ASSUME NEW p \in Counters, NEW i \in Slot, waiters'[p][i] # None
         PROVE  dirState'[waiters'[p][i]] \in InEvictAuth
    <3>1. p # c /\ (Old(p, i) \/ New(p, i))
      BY <2>2, <2>6, <2>10
    <3>2. waiters'[p][i] \in Addr /\ dirState[waiters'[p][i]] \in InEvictAuth
      <4>1. CASE Old(p, i)
        BY <4>1 DEF Accounted, Suspended, TypeOK, DirTypeOK
      <4>2. CASE New(p, i)
        BY <1>c, <2>5, <4>2, CounterSets
      <4>. QED  BY <3>1, <4>1, <4>2
    <3>3. waiters'[p][i] \notin Written(c)
      <4>1. CASE Old(p, i)
        BY <1>c, <2>3, <2>4, <2>7, <2>8, <3>1, <4>1
      <4>2. CASE New(p, i)
        BY <1>c, <2>3, <2>4, <2>5, <2>7, <2>8, <2>9, <4>2
      <4>. QED  BY <3>1, <4>1, <4>2
    <3>4. waiters'[p][i] # c /\ waiters'[p][i] \notin resident
      BY <1>c, <1>h, <3>2, HomeStates DEF InEvictAuth
    <3>5. waiters'[p][i] \notin Marked(c)
      BY <1>m, <3>4 DEF Here
    <3>. QED  BY <1>d, <3>2, <3>3, <3>4, <3>5
  <2>11. ASSUME NEW k \in Counters, NEW l \in Counters, NEW i \in Slot, NEW j \in Slot,
                waiters'[k][i] # None, waiters'[k][i] = waiters'[l][j]
         PROVE  k = l /\ i = j
    <3>1. k # c /\ l # c /\ (Old(k, i) \/ New(k, i)) /\ (Old(l, j) \/ New(l, j))
      BY <2>2, <2>6, <2>11
    <3>2. CASE Old(k, i) /\ Old(l, j)
      <4>1. waiters[k][i] # None /\ waiters[k][i] = waiters[l][j]
        BY <2>11, <3>2
      <4> HIDE DEF Old, New
      <4>. QED  BY ONLY <2>4, <4>1, k \in Counters, l \in Counters, i \in Slot, j \in Slot
    <3>3. CASE Old(k, i) /\ New(l, j)
      BY <1>c, <2>3, <2>4, <2>5, <2>11, <3>1, <3>3
    <3>4. CASE New(k, i) /\ Old(l, j)
      BY <1>c, <2>3, <2>4, <2>5, <2>11, <3>1, <3>4
    <3>5. CASE New(k, i) /\ New(l, j)
      <4>1. k = l
        <5>1. PICK m \in MovedTo(c, k) : waiters'[k][i] = waiters[c][m]
          BY <3>5
        <5>2. PICK n \in MovedTo(c, l) : waiters'[l][j] = waiters[c][n]
          BY <3>5
        <5>3. /\ m \in Slot /\ n \in Slot /\ waiters[c][m] # None
              /\ waiters[c][m] = waiters[c][n] /\ NextMissing(c, m) = k /\ NextMissing(c, n) = l
          BY <2>3, <2>5, <2>11, <5>1, <5>2
        <5>4. m = n
          BY <1>c, <2>4, <5>3
        <5>. QED  BY <5>3, <5>4
      <4>. QED  BY <2>6, <2>11, <3>1, <3>5, <4>1
    <3>. QED  BY <3>1, <3>2, <3>3, <3>4, <3>5
  <2>. QED  BY <2>10, <2>11 DEF Suspended
<1>. QED  BY <1>1, <1>2, <1>3 DEF Accounted

(* An answer or an acknowledgement of memory keeps the books. *)
LEMMA MemoryStepAccounted ==
  ASSUME TypeOK, Accounted, NEW a \in Addr, OnMemory(a)
  PROVE  Accounted'
<1>t. dirState \in [Addr -> DirState] /\ tbe \in [Addr -> TBE]
  BY DEF TypeOK, DirTypeOK
<1>1. CASE DataForShared(a) \/ DataForExclusive(a) \/ DataForUpgrade(a)
  <2>1. DataReady(a) /\ dirState[a] \in {"IS", "IE", "SE"}
    BY <1>1 DEF DataForShared, DataForExclusive, DataForUpgrade, Answer
  <2>2. UNCHANGED <<fetching, waiters>> /\ memQ' = [memQ EXCEPT ![a] = Tail(@)]
    BY <1>1 DEF DataForShared, DataForExclusive, DataForUpgrade, GrantFromMemory, PopMemory, authVars
  <2>3. /\ \E s \in {"S", "E"} : dirState' = [dirState EXCEPT ![a] = s]
        /\ tbe' = [tbe EXCEPT ![a] = NoTBE]
    BY <1>1 DEF DataForShared, DataForExclusive, DataForUpgrade, GrantFromMemory
  <2>4. /\ dirState'[a] \in {"S", "E"}
        /\ \A b \in Addr : b # a => tbe'[b] = tbe[b] /\ dirState'[b] = dirState[b]
    BY <1>t, <2>3
  <2>5. resident' \subseteq resident \cup {a} /\ resident \subseteq resident' /\ dirty' \subseteq dirty
    BY <1>1 DEF DataForShared, DataForExclusive, DataForUpgrade, llcVars
  <2>. QED  BY <2>1, <2>2, <2>4, <2>5, DataArrived
<1>. QED  BY <1>1, CounterAccounted, WritebackAccounted DEF OnMemory

-----------------------------------------------------------------------------
(* A block that comes back enters the LLC; the line of a victim that comes *)
(* back is written back, or suspended on the counter it misses.            *)
LEMMA ResponseStepAccounted ==
  ASSUME TypeOK, Accounted, NEW m \in responses, OnResponse(m)
  PROVE  Accounted'
<1> DEFINE a == m.addr
<1>t. /\ dirState \in [Addr -> DirState] /\ tbe \in [Addr -> TBE] /\ m.data \in Nat
      /\ memQ \in [Addr -> Seq(MemMsg)] /\ a \in Addr /\ a \in Data /\ a \notin fetching
  BY ResponseType, PendingData, AddressAssumption DEF TypeOK, DirTypeOK, Addr
<1>d. dirty \subseteq resident /\ fetching \cap resident = {}
  BY DEF Accounted, InLLC
<1> HIDE DEF a
<1>1. CASE PutBlock(m) \/ FlushForShared(m) \/ FlushForExclusive(m)
  <2>1. /\ UNCHANGED <<fetching, waiters, memQ>>
        /\ resident' = resident \cup {a} /\ dirty' = dirty \cup {a}
    BY <1>1 DEF PutBlock, FlushForShared, FlushForExclusive, TakeBlock, authVars, memVars, a
  <2>2. dirState[a] \in {"E", "ES", "EE"}
    BY <1>1 DEF PutBlock, FlushForShared, FlushForExclusive, FlushRep, a
  <2>3. /\ \E s \in {"S", "E"} : dirState' = [dirState EXCEPT ![a] = s]
        /\ tbe' = tbe \/ tbe' = [tbe EXCEPT ![a] = NoTBE]
    BY <1>1 DEF PutBlock, FlushForShared, FlushForExclusive, a
  <2>4. /\ dirState'[a] \in {"S", "E"}
        /\ \A b \in Addr : b # a => dirState'[b] = dirState[b] /\ tbe'[b] = tbe[b]
    BY <1>t, <2>3
  <2>5. /\ ~Writing(a) /\ ~Writing(a)' /\ (Reading(a)' <=> Reading(a))
        /\ dirState[a] \notin InEvictAuth
    BY <2>1, <2>2, <2>4 DEF Writing, Reading, InEvicting, InEvictAuth
  <2>6. InMemory(a)'
    BY <1>t, <2>1, <2>5, MemoryQuiet DEF Accounted
  <2>7. \A b \in Addr : b # a => memQ'[b] = memQ[b] /\ tbe'[b] = tbe[b] /\ EntryKept(b)
    BY <2>1, <2>4 DEF EntryKept
  <2>8. /\ resident' \ {a} \subseteq resident /\ dirty' \subseteq resident'
        /\ a \in resident' => a \notin fetching /\ dirState'[a] \in AtHome
    BY <1>t, <1>d, <2>1, <2>4, AtHomeStates
  <2>. QED  BY <1>t, <2>1, <2>5, <2>6, <2>7, <2>8, LineChanged
<1>2. CASE BounceResponse(m)
  <2>1. UNCHANGED <<fetching, waiters, memQ, resident, dirty, tbe>>
    BY <1>2 DEF BounceResponse, authVars, memVars, llcVars
  <2>2. dirState[a] \in InFetchAuth /\ dirState' = [dirState EXCEPT ![a] = Base[@]]
    BY <1>2 DEF BounceResponse, FlushRep, a
  <2>3. dirState'[a] \in Stable /\ \A b \in Addr : b # a => dirState'[b] = dirState[b]
    BY <1>t, <2>2, StateMaps
  <2>. QED  BY <1>t, <2>1, <2>2, <2>3, AtHomeStates, LineQuiet
<1>3. CASE FlushDirect(m)
  <2> DEFINE chain == PresentChain(a)
  <2>1. /\ dirState[a] = "E_Evict_Flush" /\ UNCHANGED <<fetching, waiters, resident>>
        /\ tbe' = [tbe EXCEPT ![a].data = m.data]
        /\ memQ' = [memQ EXCEPT ![a] = Append(@, WB(m.data))]
        /\ dirty' = (dirty \cup ToSet(chain)) \ {a}
        /\ dirState' = [b \in Addr |-> IF b = a THEN "I_Evicting"
                                       ELSE IF b \in ToSet(chain) THEN "C_M" ELSE dirState[b]]
    BY <1>3 DEF FlushDirect, IncrementTo, SendMem, authVars, a
  <2>2. ToSet(chain) \subseteq resident
    BY <1>t, ChainPresent
  <2> HIDE DEF chain
  <2>3. /\ tbe'[a].data = m.data /\ memQ'[a] = Append(memQ[a], WB(m.data))
        /\ \A b \in Addr : b # a => memQ'[b] = memQ[b] /\ tbe'[b] = tbe[b]
    BY <1>t, <2>1 DEF TBE
  <2>4. ~Writing(a) /\ Writing(a)' /\ (Reading(a)' <=> Reading(a))
    BY <1>t, <2>1 DEF Writing, Reading, InEvicting
  <2>5. InMemory(a)'
    BY <1>t, <2>3, <2>4, WriteSent DEF Accounted
  <2>6. ASSUME NEW b \in Addr, b # a
        PROVE  EntryKept(b)
    BY <2>1, <2>2, <2>6 DEF Accounted, InLLC, EntryKept
  <2>7. a \notin resident /\ dirState[a] \notin InEvictAuth
    BY <2>1 DEF Accounted, InLLC, AtHome, Stable, InFetchAuth, InEvictAuth
  <2>8. /\ resident' \ {a} \subseteq resident /\ dirty' \subseteq resident'
        /\ a \in resident' => a \notin fetching /\ dirState'[a] \in AtHome
    BY <1>d, <2>1, <2>2, <2>7
  <2>. QED  BY <1>t, <2>1, <2>3, <2>5, <2>6, <2>7, <2>8, LineChanged
<1>4. CASE FlushSuspended(m)
  <2> DEFINE c == getFirstMissingParent(a)
  <2>1. /\ dirState[a] = "E_Evict_Flush" /\ UNCHANGED <<resident, dirty>>
        /\ tbe' = [tbe EXCEPT ![a].data = m.data]
        /\ dirState' = [dirState EXCEPT ![a] = "I_Evict_Auth"]
        /\ fetching' = fetching \cup {c} /\ ReadOnce(c)
        /\ waiters' = [waiters EXCEPT ![c] = Enter(@, One(a), {1})]
    BY <1>4 DEF FlushSuspended, fetchCounterForEviction, llcVars, One, a
  <2>2. c \in Counters /\ c \notin resident
    <3>1. c # None
      BY <1>4, <1>t, FlushMissType, AddressAssumption DEF FlushSuspended, a, Addr
    <3>. QED  BY <1>t, <3>1, MissingOutside DEF getFirstMissingParent
  <2>3. c # a
    BY <1>t, <2>2, AddressAssumption
  <2> HIDE DEF c
  <2>4. /\ dirState'[a] \in InEvictAuth
        /\ \A b \in Addr : b # a => dirState'[b] = dirState[b] /\ tbe'[b] = tbe[b]
    BY <1>t, <2>1 DEF InEvictAuth
  <2>5. a \notin resident /\ dirState[a] \notin {"IS", "IE", "SE"} \cup InEvicting \cup InEvictAuth
    BY <2>1 DEF Accounted, InLLC, AtHome, Stable, InFetchAuth, InEvictAuth, InEvicting
  <2>6. resident' \subseteq resident \ {a} /\ dirty' \subseteq resident'
    BY <1>d, <2>1, <2>5
  <2>. QED  BY <1>t, <2>1, <2>2, <2>3, <2>4, <2>5, <2>6, Suspends
<1>. QED  BY <1>1, <1>2, <1>3, <1>4 DEF OnResponse

(* A victim leaves the LLC: dropped, written back, recalled or suspended.  *)
LEMMA VictimStepAccounted ==
  ASSUME TypeOK, Accounted, NEW v \in resident, OnVictim(v)
  PROVE  Accounted'
<1>t. /\ dirState \in [Addr -> DirState] /\ tbe \in [Addr -> TBE] /\ v \in Addr
      /\ memQ \in [Addr -> Seq(MemMsg)]
  BY DEF TypeOK, DirTypeOK
<1>d. dirty \subseteq resident /\ fetching \cap resident = {} /\ dirState[v] \in AtHome
  BY DEF Accounted, InLLC
<1>0. /\ dirState[v] \notin InEvictAuth /\ dirState[v] \notin {"IS", "IE", "SE"}
      /\ ~Writing(v) /\ ~Reading(v)
  BY <1>d, HomeStates DEF Writing, Reading
<1>1. CASE DropClean(v)
  <2>1. /\ UNCHANGED <<fetching, waiters, memQ, tbe, dirState, dirty>>
        /\ resident' = resident \ {v} /\ v \notin dirty
    BY <1>1 DEF DropClean, deallocateLLC, authVars, memVars, entryVars
  <2>2. InMemory(v)'
    <3>1. Reading(v)' <=> Reading(v)
      BY <2>1 DEF Reading
    <3>2. Writing(v)' <=> Writing(v)
      BY <2>1 DEF Writing
    <3>. QED  BY <1>t, <2>1, <3>1, <3>2, MemoryQuiet DEF Accounted
  <2>3. \A b \in Addr : b # v => memQ'[b] = memQ[b] /\ tbe'[b] = tbe[b] /\ EntryKept(b)
    BY <2>1 DEF EntryKept
  <2>4. /\ resident' \ {v} \subseteq resident /\ dirty' \subseteq resident'
        /\ v \in resident' => v \notin fetching /\ dirState'[v] \in AtHome
    BY <1>d, <2>1
  <2>. QED  BY <1>t, <1>0, <2>1, <2>2, <2>3, <2>4, LineChanged
<1>2. CASE WriteBackVictim(v)
  <2> DEFINE chain == IF dirState[v] = "C_M" THEN <<>> ELSE PresentChain(v)
  <2>1. /\ dirState[v] \in {"I", "S", "C_M"} /\ UNCHANGED <<fetching, waiters>>
        /\ resident' = resident \ {v} /\ dirty' = (dirty \cup ToSet(chain)) \ {v}
        /\ memQ' = [memQ EXCEPT ![v] = Append(@, WB(llcData[v]))]
        /\ tbe' = [tbe EXCEPT ![v] = [requestor |-> None, data |-> llcData[v],
                                      wts |-> dirWts[v], lts |-> 0]]
        /\ dirState' = [b \in Addr |-> IF b = v THEN Evicting[dirState[v]]
                                       ELSE IF b \in ToSet(chain) THEN "C_M" ELSE dirState[b]]
    BY <1>2 DEF WriteBackVictim, IncrementTo, Park, SendMem, deallocateLLC, authVars
  <2>2. ToSet(chain) \subseteq resident
    <3>1. ToSet(<<>>) = {}
      BY DEF ToSet
    <3>. QED  BY <1>t, <3>1, ChainPresent
  <2> HIDE DEF chain
  <2>3. /\ tbe'[v].data = llcData[v] /\ memQ'[v] = Append(memQ[v], WB(llcData[v]))
        /\ \A b \in Addr : b # v => memQ'[b] = memQ[b] /\ tbe'[b] = tbe[b]
    BY <1>t, <2>1
  <2>4. dirState'[v] \in InEvicting
    BY <1>t, <2>1, StateMaps
  <2>5. Writing(v)' /\ ~Reading(v)'
    BY <1>0, <2>1, <2>4 DEF Writing, Reading, InEvicting
  <2>6. InMemory(v)'
    BY <1>t, <1>0, <2>3, <2>5, WriteSent DEF Accounted
  <2>7. ASSUME NEW b \in Addr, b # v
        PROVE  EntryKept(b)
    BY <2>1, <2>2, <2>7 DEF Accounted, InLLC, EntryKept
  <2>8. /\ resident' \ {v} \subseteq resident /\ dirty' \subseteq resident'
        /\ v \in resident' => v \notin fetching /\ dirState'[v] \in AtHome
    BY <1>d, <2>1, <2>2
  <2>. QED  BY <1>t, <1>0, <2>1, <2>3, <2>6, <2>7, <2>8, LineChanged
<1>3. CASE RecallVictim(v)
  <2>1. /\ UNCHANGED <<fetching, waiters, memQ>> /\ dirState[v] = "E"
        /\ dirState' = [dirState EXCEPT ![v] = "E_Evict_Flush"]
        /\ tbe' = [tbe EXCEPT ![v] = [requestor |-> None, data |-> llcData[v],
                                      wts |-> dirWts[v], lts |-> 0]]
        /\ resident' = resident \ {v} /\ dirty' = dirty \ {v}
    BY <1>3 DEF RecallVictim, Park, deallocateLLC, authVars, memVars
  <2>2. /\ dirState'[v] = "E_Evict_Flush"
        /\ \A b \in Addr : b # v => dirState'[b] = dirState[b] /\ tbe'[b] = tbe[b]
    BY <1>t, <2>1
  <2>3. ~Reading(v)' /\ ~Writing(v)'
    BY <1>0, <2>1, <2>2 DEF Reading, Writing, InEvicting
  <2>4. InMemory(v)'
    BY <1>t, <1>0, <2>1, <2>3, MemoryQuiet DEF Accounted
  <2>5. \A b \in Addr : b # v => memQ'[b] = memQ[b] /\ tbe'[b] = tbe[b] /\ EntryKept(b)
    BY <2>1, <2>2 DEF EntryKept
  <2>6. /\ resident' \ {v} \subseteq resident /\ dirty' \subseteq resident'
        /\ v \in resident' => v \notin fetching /\ dirState'[v] \in AtHome
    BY <1>d, <2>1
  <2>. QED  BY <1>t, <1>0, <2>1, <2>4, <2>5, <2>6, LineChanged
<1>4. CASE SuspendVictim(v)
  <2> DEFINE c == getFirstMissingParent(v)
  <2>1. /\ dirState[v] \in {"I", "S", "C_M"} /\ c # None
        /\ resident' = resident \ {v} /\ dirty' = dirty \ {v}
        /\ tbe' = [tbe EXCEPT ![v] = [requestor |-> None, data |-> llcData[v],
                                      wts |-> dirWts[v], lts |-> 0]]
        /\ dirState' = [dirState EXCEPT ![v] = EvictAuth[@]]
        /\ fetching' = fetching \cup {c} /\ ReadOnce(c)
        /\ waiters' = [waiters EXCEPT ![c] = Enter(@, One(v), {1})]
    BY <1>4 DEF SuspendVictim, fetchCounterForEviction, Park, deallocateLLC, One
  <2>2. c \in Counters /\ c \notin resident /\ c # v
    BY <1>t, <2>1, MissingOutside DEF getFirstMissingParent
  <2> HIDE DEF c
  <2>3. /\ dirState'[v] \in InEvictAuth
        /\ \A b \in Addr : b # v => dirState'[b] = dirState[b] /\ tbe'[b] = tbe[b]
    BY <1>t, <2>1, StateMaps
  <2>4. dirState[v] \notin {"IS", "IE", "SE"} \cup InEvicting \cup InEvictAuth
    BY <1>d, HomeStates
  <2>5. resident' \subseteq resident \ {v} /\ dirty' \subseteq resident'
    BY <1>d, <2>1
  <2>. QED  BY <1>t, <2>1, <2>2, <2>3, <2>4, <2>5, Suspends
<1>5. CASE StallVictim(v)
  BY <1>5, AccountedStays DEF StallVictim, llcVars, authVars, memVars, entryVars
<1>. QED  BY <1>1, <1>2, <1>3, <1>4, <1>5 DEF OnVictim

-----------------------------------------------------------------------------
(* Where the newest version of a line is: with the token while there is    *)
(* one, and at home otherwise, where a clean copy in the LLC is also what  *)
(* memory has.                                                             *)
InTransfer(a) ==
  /\ \A c \in Holders(a) : l1Data[c][a] = latest[a]
  /\ \A m \in Granted(a) : m.type = "EX_REP" => m.data = latest[a]
  /\ \A m \in Returned(a) : m.data = latest[a]
InEvict == InEvictAuth \cup InEvicting
AtRest(a) ==
  dirState[a] \notin Exclusive =>
    /\ a \in resident => llcData[a] = latest[a]
    /\ a \notin resident /\ dirState[a] \in InEvict => tbe[a].data = latest[a]
    /\ a \notin resident /\ dirState[a] \notin InEvict => memory[a] = latest[a]
    /\ a \in resident \ dirty => memory[a] = latest[a]
Current == \A a \in Data : InTransfer(a) /\ AtRest(a)

(* The three cases of HomeVersion. *)
LEMMA HomeCases ==
  ASSUME NEW a
  PROVE  /\ a \in resident => HomeVersion(a) = llcData[a]
         /\ a \notin resident /\ dirState[a] \in InEvict => HomeVersion(a) = tbe[a].data
         /\ a \notin resident /\ dirState[a] \notin InEvict => HomeVersion(a) = memory[a]
<1>1. a \in resident => HomeVersion(a) = llcData[a]
  BY DEF HomeVersion
<1>2. a \notin resident /\ dirState[a] \in InEvict => HomeVersion(a) = tbe[a].data
  BY DEF HomeVersion, InEvict
<1>3. a \notin resident /\ dirState[a] \notin InEvict => HomeVersion(a) = memory[a]
  BY DEF HomeVersion, InEvict
<1>. QED  BY <1>1, <1>2, <1>3

(* Which gives the two properties, as a line without a token is not        *)
(* exclusive.                                                              *)
LEMMA CurrentGives ==
  ASSUME OneWriter, Current
  PROVE  TransferIsCurrent /\ HomeIsCurrent
<1>1. TransferIsCurrent
  BY DEF TransferIsCurrent, Current, InTransfer
<1>2. ASSUME NEW a \in Data, NoToken(a)
      PROVE  HomeVersion(a) = latest[a]
  <2>1. dirState[a] \notin Exclusive
    <3>1. ~OneToken(a)
      BY <1>2 DEF NoToken, OneToken
    <3>. QED  BY <3>1 DEF OneWriter, Recorded
  <2>2. AtRest(a)
    BY DEF Current
  <2>3. /\ a \in resident => llcData[a] = latest[a]
        /\ a \notin resident /\ dirState[a] \in InEvict => tbe[a].data = latest[a]
        /\ a \notin resident /\ dirState[a] \notin InEvict => memory[a] = latest[a]
    BY <2>1, <2>2 DEF AtRest
  <2>. QED  BY <2>3, HomeCases
<1>. QED  BY <1>1, <1>2 DEF HomeIsCurrent

(* A step of a cache that neither stores nor gives a line back. *)
LEMMA CacheQuiet ==
  ASSUME TypeOK, Current, NEW c \in Caches, NEW x \in Data, UNCHANGED <<dirVars, latest>>,
         \A d \in Caches, a \in Data : d # c \/ a # x =>
           l1State'[d][a] = l1State[d][a] /\ l1Data'[d][a] = l1Data[d][a],
         l1State'[c][x] # "E", replies' \subseteq replies, responses' \subseteq responses
  PROVE  Current'
<1> SUFFICES ASSUME NEW a \in Data
             PROVE  InTransfer(a)' /\ AtRest(a)'
  BY DEF Current
<1>1. AtRest(a)'
  BY DEF Current, AtRest, dirVars, entryVars, llcVars, memVars
<1>2. \A d \in Holders(a)' : d \in Holders(a) /\ l1Data'[d][a] = l1Data[d][a]
  BY DEF Holders
<1>3. Granted(a)' \subseteq Granted(a) /\ Returned(a)' \subseteq Returned(a)
  BY DEF Granted, Returned
<1>. QED  BY <1>1, <1>2, <1>3 DEF Current, InTransfer

(* A store: the cache has the only token. *)
LEMMA StoreCurrent ==
  ASSUME TypeOK, OneWriter', Current, NEW c \in Caches, NEW x \in Data, UNCHANGED dirVars,
         \A d \in Caches, a \in Data : d # c \/ a # x =>
           l1State'[d][a] = l1State[d][a] /\ l1Data'[d][a] = l1Data[d][a],
         \A a \in Data : a # x => latest'[a] = latest[a],
         l1State'[c][x] = "E", l1Data'[c][x] = latest'[x],
         replies' \subseteq replies, responses' = responses
  PROVE  Current'
<1> SUFFICES ASSUME NEW a \in Data
             PROVE  InTransfer(a)' /\ AtRest(a)'
  BY DEF Current
<1>1. CASE a # x
  <2>1. AtRest(a)'
    BY <1>1 DEF Current, AtRest, dirVars, entryVars, llcVars, memVars
  <2>2. \A d \in Holders(a)' : d \in Holders(a) /\ l1Data'[d][a] = l1Data[d][a]
    BY <1>1 DEF Holders
  <2>3. Granted(a)' \subseteq Granted(a) /\ Returned(a)' \subseteq Returned(a)
    BY DEF Granted, Returned
  <2>. QED  BY <1>1, <2>1, <2>2, <2>3 DEF Current, InTransfer
<1>2. CASE a = x
  <2>1. Recorded(a)' /\ c \in Holders(a)'
    BY <1>2 DEF OneWriter, Holders
  <2>2. Holders(a)' # {}
    BY <2>1
  <2>3. dirState'[a] \in Exclusive /\ OneToken(a)'
    BY <2>1, <2>2 DEF Recorded, NoToken
  <2>4. Holders(a)' = {c} /\ Granted(a)' = {} /\ Returned(a)' = {}
    BY <2>1, <2>3 DEF OneToken
  <2>5. AtRest(a)'
    BY <2>3 DEF AtRest
  <2>. QED  BY <1>2, <2>4, <2>5 DEF InTransfer
<1>. QED  BY <1>1, <1>2

(* A block is given back with the newest version. *)
LEMMA GivenBackCurrent ==
  ASSUME TypeOK, Current, NEW c \in Caches, NEW x \in Data, UNCHANGED <<dirVars, latest, l1Data, replies>>,
         \A d \in Caches, a \in Data : d # c \/ a # x => l1State'[d][a] = l1State[d][a],
         l1State[c][x] = "E",
         NEW r, r.addr = x, r.data = l1Data[c][x], responses' = responses \cup {r}
  PROVE  Current'
<1> SUFFICES ASSUME NEW a \in Data
             PROVE  InTransfer(a)' /\ AtRest(a)'
  BY DEF Current
<1>1. AtRest(a)'
  BY DEF Current, AtRest, dirVars, entryVars, llcVars, memVars
<1>2. \A d \in Holders(a)' : d \in Holders(a)
  BY DEF Holders
<1>3. Granted(a)' = Granted(a) /\ Returned(a)' \subseteq Returned(a) \cup {r}
  BY DEF Granted, Returned
<1>4. r \in Returned(a)' => r.data = latest[a]
  BY DEF Returned, Current, InTransfer, Holders
<1>. QED  BY <1>1, <1>2, <1>3, <1>4 DEF Current, InTransfer

(* What EXCEPT changes of an array over caches and lines. *)
LEMMA OnlyAt ==
  ASSUME NEW S, NEW f \in [Caches -> [Data -> S]], NEW c \in Caches, NEW x \in Data, NEW v,
         NEW g, g = [f EXCEPT ![c][x] = v]
  PROVE  /\ g[c][x] = v
         /\ \A d \in Caches, a \in Data : d # c \/ a # x => g[d][a] = f[d][a]
  OBVIOUS

(* A cache stores only on a line it may write, and sends nothing but its   *)
(* copy of it.                                                             *)
LEMMA L1StepCurrent ==
  ASSUME TypeOK, OneWriter', Current, NEW c \in Caches, L1Step(c), UNCHANGED dirVars
  PROVE  Current'
<1>t. /\ l1State \in [Caches -> [Data -> L1State]] /\ l1Data \in [Caches -> [Data -> Nat]]
      /\ latest \in [Data -> Nat]
  BY DEF TypeOK, L1TypeOK
<1>h. mandatory[c] # None => Line(c) \in Data
  BY HeadType
<1>r. /\ \A m \in replies : m.addr \in Data
      /\ \A m \in forwards : m.addr \in Data
  BY DEF TypeOK, NetTypeOK, Reply, Forward
<1>q. ASSUME UNCHANGED <<latest, l1State, l1Data, replies, responses>>
      PROVE  Current'
  <2> SUFFICES ASSUME NEW a \in Data
               PROVE  InTransfer(a)' /\ AtRest(a)'
    BY DEF Current
  <2>. QED
    BY <1>q DEF Current, InTransfer, AtRest, Holders, Granted, Returned, dirVars, entryVars,
      llcVars, memVars
<1>1. CASE Issue(c) \/ LoadHit(c) \/ LoadExclusive(c) \/ StallMandatory(c)
  BY <1>1, <1>q DEF Issue, LoadHit, LoadExclusive, StallMandatory, readCallback, cacheVars,
    historyVars, netVars
<1>2. ASSUME NEW x \in Data, NEW s, s # "E", UNCHANGED latest,
             l1State' = [l1State EXCEPT ![c][x] = s],
             l1Data' = l1Data \/ \E d : l1Data' = [l1Data EXCEPT ![c][x] = d],
             replies' \subseteq replies, responses' \subseteq responses
      PROVE  Current'
  <2>1. \A d \in Caches, a \in Data : d # c \/ a # x => l1State'[d][a] = l1State[d][a]
    BY <1>t, <1>2, OnlyAt
  <2>2. \A d \in Caches, a \in Data : d # c \/ a # x => l1Data'[d][a] = l1Data[d][a]
    <3>1. CASE l1Data' = l1Data
      BY <3>1
    <3>2. CASE \E d : l1Data' = [l1Data EXCEPT ![c][x] = d]
      <4>1. PICK v : l1Data' = [l1Data EXCEPT ![c][x] = v]
        BY <3>2
      <4>. QED  BY <1>t, <4>1, OnlyAt
    <3>. QED  BY <1>2, <3>1, <3>2
  <2>3. l1State'[c][x] # "E"
    BY <1>t, <1>2
  <2>. QED  BY <1>2, <2>1, <2>2, <2>3, CacheQuiet
<1>3. CASE LoadMiss(c) \/ StoreMiss(c) \/ RenewLease(c) \/ RequestUpgrade(c)
  <2>1. /\ Line(c) \in Data /\ UNCHANGED <<latest, l1Data, replies, responses>>
        /\ \E s \in {"IS", "IE", "S_EXP", "SE"} : l1State' = [l1State EXCEPT ![c][Line(c)] = s]
    BY <1>3, <1>h DEF LoadMiss, StoreMiss, RenewLease, RequestUpgrade, Head1, historyVars
  <2>. QED  BY <1>2, <2>1
<1>4. CASE EvictShared(c)
  <2>1. /\ UNCHANGED <<latest, replies, responses>>
        /\ \E v \in Data : /\ l1State' = [l1State EXCEPT ![c][v] = "I"]
                           /\ l1Data' = [l1Data EXCEPT ![c][v] = 0]
    BY <1>4 DEF EvictShared, ResetLine, historyVars, netVars
  <2>. QED  BY <1>2, <2>1
<1>5. CASE FillShared(c)
  <2>1. /\ UNCHANGED <<latest, responses>>
        /\ \E m \in replies : /\ l1State' = [l1State EXCEPT ![c][m.addr] = "S_LSD"]
                              /\ l1Data' = [l1Data EXCEPT ![c][m.addr] = m.data]
                              /\ replies' = replies \ {m}
    BY <1>5 DEF FillShared, readCallback
  <2>2. PICK m \in replies : /\ l1State' = [l1State EXCEPT ![c][m.addr] = "S_LSD"]
                             /\ l1Data' = [l1Data EXCEPT ![c][m.addr] = m.data]
                             /\ replies' = replies \ {m}
    BY <2>1
  <2>. QED  BY <1>2, <1>r, <2>1, <2>2
<1>6. CASE ExtendLease(c)
  <2>1. /\ UNCHANGED <<latest, responses, l1Data>>
        /\ \E m \in replies : /\ l1State' = [l1State EXCEPT ![c][m.addr] = "S_LSD"]
                              /\ replies' = replies \ {m}
    BY <1>6 DEF ExtendLease, readCallback
  <2>. QED  BY <1>2, <1>r, <2>1
<1>7. CASE PutAcknowledged(c)
  <2>1. /\ UNCHANGED <<latest, responses>>
        /\ \E m \in replies : /\ l1State' = [l1State EXCEPT ![c][m.addr] = "I"]
                              /\ l1Data' = [l1Data EXCEPT ![c][m.addr] = 0]
                              /\ replies' = replies \ {m}
    BY <1>7 DEF PutAcknowledged, ResetLine, historyVars
  <2>. QED  BY <1>2, <1>r, <2>1
<1>8. CASE GivenBackAlready(c)
  <2>1. /\ UNCHANGED <<latest, responses, replies>>
        /\ \E m \in forwards : /\ l1State' = [l1State EXCEPT ![c][m.addr] = "I"]
                               /\ l1Data' = [l1Data EXCEPT ![c][m.addr] = 0]
    BY <1>8 DEF GivenBackAlready, ResetLine, historyVars
  <2>. QED  BY <1>2, <1>r, <2>1
<1>9. ASSUME NEW x \in Data, NEW ts, NEW rts, PerformStore(c, x, ts, rts),
             \/ l1State[c][x] = "E" /\ UNCHANGED l1State
             \/ l1State' = [l1State EXCEPT ![c][x] = "E"],
             replies' \subseteq replies, responses' = responses
      PROVE  Current'
  <2>1. /\ l1Data' = [l1Data EXCEPT ![c][x] = latest[x] + 1]
        /\ latest' = [latest EXCEPT ![x] = latest[x] + 1]
    BY <1>9 DEF PerformStore, writeCallback
  <2>2. /\ l1Data'[c][x] = latest[x] + 1
        /\ \A d \in Caches, a \in Data : d # c \/ a # x => l1Data'[d][a] = l1Data[d][a]
    BY <1>t, <2>1, OnlyAt
  <2>3. latest'[x] = latest[x] + 1 /\ \A a \in Data : a # x => latest'[a] = latest[a]
    BY <1>t, <2>1
  <2>4. /\ l1State'[c][x] = "E"
        /\ \A d \in Caches, a \in Data : d # c \/ a # x => l1State'[d][a] = l1State[d][a]
    <3>1. CASE l1State[c][x] = "E" /\ UNCHANGED l1State
      BY <3>1
    <3>2. CASE l1State' = [l1State EXCEPT ![c][x] = "E"]
      BY <1>t, <3>2, OnlyAt
    <3>. QED  BY <1>9, <3>1, <3>2
  <2>. QED  BY <1>9, <2>2, <2>3, <2>4, StoreCurrent
<1>10. CASE StoreExclusive(c)
  <2>1. /\ Line(c) \in Data /\ l1State[c][Line(c)] = "E" /\ UNCHANGED <<l1State, replies, responses>>
        /\ PerformStore(c, Line(c), fencedSts(c), l1Rts[c][Line(c)])
    BY <1>10, <1>h DEF StoreExclusive, Head1, netVars
  <2>. QED  BY <1>9, <2>1
<1>11. CASE FillExclusive(c)
  <2>1. PICK m \in replies :
          /\ l1State' = [l1State EXCEPT ![c][m.addr] = "E"]
          /\ PerformStore(c, m.addr, sts[c], IF l1State[c][m.addr] = "IE" THEN m.rts ELSE l1Rts[c][m.addr])
          /\ replies' = replies \ {m} /\ responses' = responses
    BY <1>11 DEF FillExclusive
  <2>. QED  BY <1>9, <1>r, <2>1
<1>12. CASE Upgrade(c)
  <2>1. PICK m \in replies :
          /\ l1State' = [l1State EXCEPT ![c][m.addr] = "E"]
          /\ PerformStore(c, m.addr, sts[c], m.rts)
          /\ replies' = replies \ {m} /\ responses' = responses
    BY <1>12 DEF Upgrade
  <2>. QED  BY <1>9, <1>r, <2>1
<1>13. ASSUME NEW x \in Data, NEW s, NEW r, UNCHANGED <<latest, l1Data, replies>>,
              l1State[c][x] = "E", l1State' = [l1State EXCEPT ![c][x] = s],
              r.addr = x, r.data = l1Data[c][x], responses' = responses \cup {r}
       PROVE  Current'
  <2>1. \A d \in Caches, a \in Data : d # c \/ a # x => l1State'[d][a] = l1State[d][a]
    BY <1>t, <1>13, OnlyAt
  <2>. QED  BY <1>13, <2>1, GivenBackCurrent
<1>14. CASE EvictExclusive(c)
  <2>1. PICK v \in Data :
          /\ l1State[c][v] = "E" /\ l1State' = [l1State EXCEPT ![c][v] = "EI"]
          /\ responses' = responses \cup
               {[type |-> "PUT_REP", addr |-> v, from |-> c, data |-> l1Data[c][v],
                 wts |-> l1Wts[c][v], rts |-> l1Rts[c][v]]}
    BY <1>14 DEF EvictExclusive
  <2> DEFINE r == [type |-> "PUT_REP", addr |-> v, from |-> c, data |-> l1Data[c][v],
                   wts |-> l1Wts[c][v], rts |-> l1Rts[c][v]]
  <2>2. r.addr = v /\ r.data = l1Data[c][v] /\ responses' = responses \cup {r}
    BY <2>1
  <2>3. UNCHANGED <<latest, l1Data, replies>>
    BY <1>14 DEF EvictExclusive, historyVars
  <2> HIDE DEF r
  <2>. QED  BY <1>13, <2>1, <2>2, <2>3
<1>15. CASE GiveBack(c)
  <2>1. PICK m \in forwards :
          /\ l1State[c][m.addr] = "E" /\ l1State' = [l1State EXCEPT ![c][m.addr] = "S_LSD"]
          /\ responses' = responses \cup
               {[type |-> "WB_REP", addr |-> m.addr, from |-> c, data |-> l1Data[c][m.addr],
                 wts |-> l1Wts[c][m.addr],
                 rts |-> max3(l1Rts[c][m.addr], l1Wts[c][m.addr] + Lease, m.rts)]}
    BY <1>15 DEF GiveBack
  <2> DEFINE r == [type |-> "WB_REP", addr |-> m.addr, from |-> c, data |-> l1Data[c][m.addr],
                 wts |-> l1Wts[c][m.addr],
                 rts |-> max3(l1Rts[c][m.addr], l1Wts[c][m.addr] + Lease, m.rts)]
  <2>2. r.addr = m.addr /\ r.data = l1Data[c][m.addr] /\ responses' = responses \cup {r}
    BY <2>1
  <2>3. UNCHANGED <<latest, l1Data, replies>>
    BY <1>15 DEF GiveBack, historyVars
  <2> HIDE DEF r
  <2>. QED  BY <1>13, <1>r, <2>1, <2>2, <2>3
<1>. QED
  BY <1>1, <1>3, <1>4, <1>5, <1>6, <1>7, <1>8, <1>10, <1>11, <1>12, <1>14, <1>15
  DEF L1Step, OnMandatory, OnReply, OnForward

-----------------------------------------------------------------------------
(* The steps of the directory. It sends no EX_REP but with the newest      *)
(* version, ...                                                            *)
LEMMA TransferKept ==
  ASSUME NEW a \in Data, InTransfer(a), UNCHANGED l1Vars,
         \A m \in replies' : m \in replies \/ m.addr # a \/ m.type # "EX_REP" \/ m.data = latest[a],
         responses' \subseteq responses
  PROVE  InTransfer(a)'
<1>0. UNCHANGED <<l1State, l1Data, latest>>
  BY DEF l1Vars, cacheVars, historyVars
<1>1. Holders(a)' = Holders(a)
  BY <1>0 DEF Holders
<1>2. \A m \in Granted(a)' : m \in Granted(a) \/ m.type # "EX_REP" \/ m.data = latest[a]
  BY DEF Granted
<1>3. Returned(a)' \subseteq Returned(a)
  BY DEF Returned
<1>. QED  BY <1>0, <1>1, <1>2, <1>3 DEF InTransfer

(* ... it leaves a line alone, ... *)
LEMMA RestKept ==
  ASSUME NEW a \in Data, AtRest(a), UNCHANGED l1Vars,
         dirState'[a] = dirState[a], tbe'[a] = tbe[a],
         a \in resident' <=> a \in resident, a \in dirty' <=> a \in dirty,
         llcData'[a] = llcData[a], memory'[a] = memory[a]
  PROVE  AtRest(a)'
<1>0. UNCHANGED latest
  BY DEF l1Vars, historyVars
<1>. QED  BY <1>0 DEF AtRest

(* ... or moves its entry among the states of an exclusive line, or among  *)
(* those of a line that is neither exclusive nor being evicted.            *)
LEMMA EntryMoved ==
  ASSUME NEW a \in Data, AtRest(a), UNCHANGED l1Vars,
         UNCHANGED <<resident, dirty, llcData, memory>>,
         \/ dirState'[a] \in Exclusive
         \/ dirState[a] \notin Exclusive \cup InEvict /\ dirState'[a] \notin InEvict
  PROVE  AtRest(a)'
<1>0. UNCHANGED latest
  BY DEF l1Vars, historyVars
<1>. QED  BY <1>0 DEF AtRest

(* The states of a line in terms of these sets. *)
LEMMA EvictStates ==
  /\ {"I", "S", "IS", "IE", "SE"} \cap (Exclusive \cup InEvict) = {}
  /\ {"E", "ES", "EE", "E_Fetch_Auth", "E_Evict_Flush"} \subseteq Exclusive
  /\ {"I_Fetch_Auth", "S_Fetch_Auth"} \cap (Exclusive \cup InEvict) = {}
  /\ Exclusive \cap InEvict = {} /\ InFetchAuth \cap InEvict = {}
BY DEF Exclusive, Owned, InEvict, InEvictAuth, InEvicting, InFetchAuth

(* A request is granted from the LLC only while the copy there is the      *)
(* newest.                                                                 *)
LEMMA RequestStepCurrent ==
  ASSUME TypeOK, Current, NEW m \in requests, OnRequest(m), UNCHANGED l1Vars
  PROVE  Current'
<1> DEFINE a == m.addr
<1>t. dirState \in [Addr -> DirState] /\ tbe \in [Addr -> TBE] /\ a \in Addr /\ a \in Data
  BY RequestType DEF TypeOK, DirTypeOK
<1> HIDE DEF a
<1>0. ASSUME UNCHANGED <<resident, dirty, llcData, memory>>, responses' \subseteq responses,
             \/ dirState'[a] \in Exclusive
             \/ dirState[a] \notin Exclusive \cup InEvict /\ dirState'[a] \notin InEvict
             \/ dirState'[a] = dirState[a] /\ tbe'[a] = tbe[a],
             \A b \in Data : b # a => dirState'[b] = dirState[b] /\ tbe'[b] = tbe[b],
             \A r \in replies' : r \in replies \/ r.type # "EX_REP"
                                 \/ (r.addr = a /\ r.data = latest[a])
      PROVE  Current'
  <2> SUFFICES ASSUME NEW b \in Data
               PROVE  InTransfer(b)' /\ AtRest(b)'
    BY DEF Current
  <2>1. InTransfer(b) /\ AtRest(b)
    BY DEF Current
  <2>2. \A r \in replies' : r \in replies \/ r.addr # b \/ r.type # "EX_REP" \/ r.data = latest[b]
    BY <1>0
  <2>3. InTransfer(b)'
    BY <1>0, <2>1, <2>2, TransferKept
  <2>4. CASE dirState'[b] = dirState[b] /\ tbe'[b] = tbe[b]
    BY <1>0, <2>1, <2>3, <2>4, RestKept
  <2>5. CASE ~(dirState'[b] = dirState[b] /\ tbe'[b] = tbe[b])
    <3>1. b = a
      BY <1>0, <2>5
    <3>2. CASE dirState'[b] \in Exclusive
      BY <1>0, <2>1, <3>2, EntryMoved, <2>3
    <3>3. CASE dirState[b] \notin Exclusive \cup InEvict /\ dirState'[b] \notin InEvict
      BY <1>0, <2>1, <3>3, EntryMoved, <2>3
    <3>. QED  BY <1>0, <2>5, <3>1, <3>2, <3>3
  <2>. QED  BY <2>4, <2>5
<1>1. CASE GrantSharedFromLLC(m)
  <2>1. /\ UNCHANGED <<resident, dirty, llcData, memory, responses, tbe>>
        /\ dirState[a] \in {"I", "S"} /\ dirState' = [dirState EXCEPT ![a] = "S"]
    BY <1>1 DEF GrantSharedFromLLC, Accept, memVars, a
  <2>2. dirState'[a] = "S" /\ \A b \in Data : b # a => dirState'[b] = dirState[b]
    BY <1>t, <2>1 DEF Addr
  <2>3. \A r \in replies' : r \in replies \/ r.type # "EX_REP"
    BY <1>1 DEF GrantSharedFromLLC, Reply1
  <2>4. dirState[a] \notin Exclusive \cup InEvict /\ dirState'[a] \notin InEvict
    BY <2>1, <2>2, EvictStates
  <2>. QED  BY <1>0, <2>1, <2>2, <2>3, <2>4
<1>2. CASE GrantExclusiveFromLLC(m)
  <2>1. /\ UNCHANGED <<resident, dirty, llcData, memory, responses, tbe>>
        /\ dirState[a] \in {"I", "S"} /\ dirState' = [dirState EXCEPT ![a] = "E"]
        /\ Event(m) = "ExReq_Hit" /\ Reply1("EX_REP", a, m.from, llcData[a], mts, mts)
    BY <1>2 DEF GrantExclusiveFromLLC, Accept, memVars, a
  <2>2. dirState'[a] = "E" /\ \A b \in Data : b # a => dirState'[b] = dirState[b]
    BY <1>t, <2>1 DEF Addr
  <2>3. a \in resident
    BY <2>1 DEF Event, a
  <2>4. llcData[a] = latest[a]
    BY <1>t, <2>1, <2>3, EvictStates DEF Current, AtRest
  <2>5. \A r \in replies' : r \in replies \/ r.type # "EX_REP" \/ (r.addr = a /\ r.data = latest[a])
    BY <2>1, <2>4 DEF Reply1
  <2>6. dirState'[a] \in Exclusive
    BY <2>2, EvictStates
  <2>. QED  BY <1>0, <2>1, <2>2, <2>5, <2>6
<1>3. CASE GrantUpgrade(m)
  <2>1. /\ UNCHANGED <<resident, dirty, llcData, memory, responses, tbe>>
        /\ dirState' = [dirState EXCEPT ![a] = "E"]
    BY <1>3 DEF GrantUpgrade, memVars, llcVars, a
  <2>2. dirState'[a] = "E" /\ \A b \in Data : b # a => dirState'[b] = dirState[b]
    BY <1>t, <2>1 DEF Addr
  <2>3. \A r \in replies' : r \in replies \/ r.type # "EX_REP"
    BY <1>3 DEF GrantUpgrade, Reply1
  <2>4. dirState'[a] \in Exclusive
    BY <2>2, EvictStates
  <2>. QED  BY <1>0, <2>1, <2>2, <2>3, <2>4
<1>4. CASE FetchShared(m) \/ FetchExclusive(m)
  <2>1. /\ UNCHANGED <<resident, dirty, llcData, memory, responses, replies>>
        /\ dirState[a] \in {"I", "S"}
        /\ \E s \in {"IS", "IE", "SE"} : dirState' = [dirState EXCEPT ![a] = s]
        /\ \E e : tbe' = [tbe EXCEPT ![a] = e]
    BY <1>4 DEF FetchShared, FetchExclusive, Accept, allocateTBE_ReqIn, a
  <2>2. /\ dirState'[a] \in {"IS", "IE", "SE"}
        /\ \A b \in Data : b # a => dirState'[b] = dirState[b] /\ tbe'[b] = tbe[b]
    BY <1>t, <2>1 DEF Addr
  <2>3. dirState[a] \notin Exclusive \cup InEvict /\ dirState'[a] \notin InEvict
    BY <2>1, <2>2, EvictStates
  <2>. QED  BY <1>0, <2>1, <2>2, <2>3
<1>5. CASE RecallForShared(m) \/ RecallForExclusive(m)
  <2>1. /\ UNCHANGED <<resident, dirty, llcData, memory, responses, replies>>
        /\ \E s \in {"ES", "EE"} : dirState' = [dirState EXCEPT ![a] = s]
        /\ \E e : tbe' = [tbe EXCEPT ![a] = e]
    BY <1>5 DEF RecallForShared, RecallForExclusive, allocateTBE_ReqIn, memVars, a
  <2>2. /\ dirState'[a] \in {"ES", "EE"}
        /\ \A b \in Data : b # a => dirState'[b] = dirState[b] /\ tbe'[b] = tbe[b]
    BY <1>t, <2>1 DEF Addr
  <2>3. dirState'[a] \in Exclusive
    BY <2>2, EvictStates
  <2>. QED  BY <1>0, <2>1, <2>2, <2>3
<1>6. CASE FetchCounter(m)
  <2>1. /\ UNCHANGED <<resident, dirty, llcData, memory, responses, replies, tbe>>
        /\ dirState[a] \in Stable /\ dirState' = [dirState EXCEPT ![a] = FetchAuth[@]]
    BY <1>6 DEF FetchCounter, Accept, llcVars, a
  <2>2. /\ dirState'[a] = FetchAuth[dirState[a]]
        /\ \A b \in Data : b # a => dirState'[b] = dirState[b]
    BY <1>t, <2>1 DEF Addr
  <2>3. /\ dirState'[a] \in InFetchAuth
        /\ dirState[a] = "E" => dirState'[a] = "E_Fetch_Auth"
    BY <2>1, <2>2, StateMaps
  <2>4. \/ dirState'[a] \in Exclusive
        \/ dirState[a] \notin Exclusive \cup InEvict /\ dirState'[a] \notin InEvict
    BY <2>1, <2>3, EvictStates DEF Stable
  <2>. QED  BY <1>0, <2>1, <2>2, <2>4
<1>7. CASE WaitForCounter(m) \/ StallRequest(m)
  <2>1. UNCHANGED <<resident, dirty, llcData, memory, responses, replies, tbe, dirState>>
    BY <1>7 DEF WaitForCounter, StallRequest, llcVars, memVars, netVars
  <2>. QED  BY <1>0, <2>1
<1>8. CASE Bounce(m)
  <2>1. /\ UNCHANGED <<resident, dirty, llcData, memory, responses, replies, tbe>>
        /\ dirState[a] \in InFetchAuth /\ dirState' = [dirState EXCEPT ![a] = Base[@]]
    BY <1>8 DEF Bounce, memVars, netVars, a
  <2>2. /\ dirState'[a] = Base[dirState[a]]
        /\ \A b \in Data : b # a => dirState'[b] = dirState[b]
    BY <1>t, <2>1 DEF Addr
  <2>3. /\ dirState'[a] \in Stable
        /\ dirState[a] = "E_Fetch_Auth" => dirState'[a] = "E"
    BY <2>1, <2>2, StateMaps
  <2>4. \/ dirState'[a] \in Exclusive
        \/ dirState[a] \notin Exclusive \cup InEvict /\ dirState'[a] \notin InEvict
    BY <2>1, <2>3, EvictStates DEF Stable, InFetchAuth
  <2>. QED  BY <1>0, <2>1, <2>2, <2>4
<1>. QED  BY <1>1, <1>2, <1>3, <1>4, <1>5, <1>6, <1>7, <1>8 DEF OnRequest

(* A step about a that leaves the other lines alone. *)
Untouched(b) ==
  /\ dirState'[b] = dirState[b] /\ tbe'[b] = tbe[b]
  /\ (b \in resident' <=> b \in resident) /\ (b \in dirty' <=> b \in dirty)
  /\ llcData'[b] = llcData[b] /\ memory'[b] = memory[b]

(* So only the line itself, and the EX_REP for it, have to be looked at.   *)
LEMMA OthersCurrent ==
  ASSUME Current, UNCHANGED l1Vars, NEW a \in Addr,
         \A b \in Data : b # a => Untouched(b), a \in Data => AtRest(a)',
         \A r \in replies' : r \in replies \/ r.type # "EX_REP"
                             \/ (r.addr = a /\ r.data = latest[a]),
         responses' \subseteq responses
  PROVE  Current'
<1> SUFFICES ASSUME NEW b \in Data
             PROVE  InTransfer(b)' /\ AtRest(b)'
  BY DEF Current
<1>1. InTransfer(b) /\ AtRest(b)
  BY DEF Current
<1>2. \A r \in replies' : r \in replies \/ r.addr # b \/ r.type # "EX_REP" \/ r.data = latest[b]
  OBVIOUS
<1>3. InTransfer(b)'
  BY <1>1, <1>2, TransferKept
<1>4. CASE b = a
  BY <1>3, <1>4
<1>5. CASE b # a
  <2>1. Untouched(b)
    BY <1>5
  <2>2. /\ dirState'[b] = dirState[b] /\ tbe'[b] = tbe[b]
        /\ llcData'[b] = llcData[b] /\ memory'[b] = memory[b]
    BY <2>1 DEF Untouched
  <2>3. b \in resident' <=> b \in resident
    BY <2>1 DEF Untouched
  <2>4. b \in dirty' <=> b \in dirty
    BY <2>1 DEF Untouched
  <2>. QED  BY <1>1, <1>3, <2>2, <2>3, <2>4, RestKept
<1>. QED  BY <1>4, <1>5

(* What memory answers is the newest version, as the line was at home      *)
(* there; and a write-back brings it there.                                *)
LEMMA MemoryStepCurrent ==
  ASSUME TypeOK, Accounted, Current, NEW a \in Addr, OnMemory(a), UNCHANGED l1Vars
  PROVE  Current'
<1>t. /\ dirState \in [Addr -> DirState] /\ tbe \in [Addr -> TBE] /\ memQ \in [Addr -> Seq(MemMsg)]
      /\ llcData \in [Addr -> Nat] /\ memory \in [Addr -> Nat] /\ Data \subseteq Addr
  BY DEF TypeOK, DirTypeOK, Addr
<1>l. UNCHANGED latest
  BY DEF l1Vars, historyVars
<1>1. CASE DataForShared(a) \/ DataForExclusive(a) \/ DataForUpgrade(a)
  <2>1. dirState[a] \in {"IS", "IE", "SE"} /\ a \in Data
    <3>1. dirState[a] \in {"IS", "IE", "SE"}
      BY <1>1 DEF DataForShared, DataForExclusive, DataForUpgrade, Answer
    <3>. QED  BY <3>1, PendingData DEF Pending
  <2>2. a \notin resident /\ a \notin dirty
    BY <2>1, HomeStates DEF Accounted, InLLC
  <2>3. memory[a] = latest[a]
    BY <2>1, <2>2, EvictStates DEF Current, AtRest
  <2>4. /\ UNCHANGED <<memory, responses>> /\ dirty' = dirty
        /\ tbe' = [tbe EXCEPT ![a] = NoTBE]
        /\ \E s \in {"S", "E"} : dirState' = [dirState EXCEPT ![a] = s]
    BY <1>1, <2>2 DEF DataForShared, DataForExclusive, DataForUpgrade, GrantFromMemory, llcVars
  <2>5. \/ resident' = resident \cup {a} /\ llcData' = [llcData EXCEPT ![a] = memory[a]]
        \/ UNCHANGED <<resident, llcData>>
    BY <1>1 DEF DataForShared, DataForExclusive, DataForUpgrade, llcVars
  <2>6. \A b \in Data : b # a => Untouched(b)
    <3>1. \A b \in Data : b # a => dirState'[b] = dirState[b] /\ tbe'[b] = tbe[b]
      BY <1>t, <2>4
    <3>2. \A b \in Data : b # a => (b \in resident' <=> b \in resident) /\ llcData'[b] = llcData[b]
      <4>1. CASE resident' = resident \cup {a} /\ llcData' = [llcData EXCEPT ![a] = memory[a]]
        BY <1>t, <4>1
      <4>2. CASE UNCHANGED <<resident, llcData>>
        BY <4>2
      <4>. QED  BY <2>5, <4>1, <4>2
    <3>. QED  BY <2>4, <3>1, <3>2 DEF Untouched
  <2>7. AtRest(a)'
    <3>1. CASE resident' = resident \cup {a} /\ llcData' = [llcData EXCEPT ![a] = memory[a]]
      <4>1. a \in resident' /\ llcData'[a] = latest'[a] /\ memory'[a] = latest'[a]
        BY <1>t, <1>l, <2>3, <2>4, <3>1
      <4>. QED  BY <4>1 DEF AtRest
    <3>2. CASE UNCHANGED <<resident, llcData>>
      <4>1. a \notin resident' /\ memory'[a] = latest'[a]
        BY <1>l, <2>2, <2>3, <2>4, <3>2
      <4>2. dirState'[a] \in {"S", "E"}
        BY <1>t, <2>4
      <4>3. dirState'[a] \notin InEvict
        BY <4>2, EvictStates
      <4>. QED  BY <4>1, <4>3 DEF AtRest
    <3>. QED  BY <2>5, <3>1, <3>2
  <2>8. \A r \in replies' : r \in replies \/ r.type # "EX_REP" \/ (r.addr = a /\ r.data = latest[a])
    BY <1>1, <2>3 DEF DataForShared, DataForExclusive, DataForUpgrade, GrantFromMemory, Reply1
  <2>. QED  BY <2>4, <2>6, <2>7, <2>8, OthersCurrent
<1>2. CASE CounterData(a)
  <2>1. /\ a \in Counters /\ a \notin resident /\ UNCHANGED <<tbe, memory>>
        /\ resident' = Here(a) /\ dirty' = (dirty \ {a}) \cup Marked(a)
    BY <1>2, CounterAwaited
  <2>2. UNCHANGED <<replies, responses>> /\ llcData' = [llcData EXCEPT ![a] = memory[a]]
    BY <1>2 DEF CounterData
  <2>3. /\ \A w \in Written(a) :
             w \in Addr /\ dirState[w] \in InEvictAuth /\ w \notin resident
        /\ Marked(a) \subseteq Counters
    BY <2>1, CounterSets
  <2>4. dirState' = [b \in Addr |->
              CASE b = a -> "I"
                [] b # a /\ b \in Marked(a) -> "C_M"
                [] b # a /\ b \notin Marked(a) /\ b \in Written(a) /\ dirState[b] \in InEvictAuth ->
                     Resumed[dirState[b]]
                [] OTHER -> dirState[b]]
    BY <1>2, CounterAwaited
  <2>5. a \notin Data /\ Marked(a) \cap Data = {}
    BY <2>1, <2>3, AddressAssumption
  <2> SUFFICES ASSUME NEW b \in Data
               PROVE  InTransfer(b)' /\ AtRest(b)'
    BY DEF Current
  <2>6. InTransfer(b) /\ AtRest(b) /\ b # a /\ b \in Addr
    BY <1>t, <2>5 DEF Current
  <2>7. InTransfer(b)'
    BY <2>2, <2>6, TransferKept
  <2>8. (b \in resident' <=> b \in resident) /\ (b \in dirty' <=> b \in dirty) /\ llcData'[b] = llcData[b]
    BY <1>t, <2>1, <2>2, <2>5, <2>6 DEF Here
  <2>9. CASE b \in Written(a)
    <3>1. dirState'[b] = Resumed[dirState[b]] /\ dirState[b] \in InEvictAuth /\ b \notin resident
      BY <2>3, <2>4, <2>5, <2>6, <2>9
    <3>2. dirState'[b] \in InEvicting
      BY <3>1, StateMaps
    <3>3. dirState'[b] \in InEvict /\ dirState[b] \in InEvict /\ dirState[b] \notin Exclusive
      BY <3>1, <3>2, EvictStates DEF InEvict
    <3>4. tbe'[b].data = latest'[b] /\ b \notin resident'
      BY <1>l, <2>1, <2>6, <2>8, <3>1, <3>3 DEF AtRest
    <3>. QED  BY <2>7, <3>3, <3>4 DEF AtRest
  <2>10. CASE b \notin Written(a)
    <3>1. dirState'[b] = dirState[b]
      BY <2>4, <2>5, <2>6, <2>10
    <3>2. b \in resident' <=> b \in resident
      BY <2>8
    <3>3. b \in dirty' <=> b \in dirty
      BY <2>8
    <3>4. llcData'[b] = llcData[b] /\ memory'[b] = memory[b] /\ tbe'[b] = tbe[b]
      BY <2>1, <2>8
    <3>5. AtRest(b)'
      BY <2>6, <3>1, <3>2, <3>3, <3>4, RestKept
    <3>. QED  BY <2>7, <3>5
  <2>. QED  BY <2>9, <2>10
<1>3. ASSUME NEW i \in DOMAIN memQ[a], WritebackDone(a, i)
      PROVE  Current'
  <2>1. /\ AckReady(a, i) /\ dirState[a] \in InEvicting
        /\ dirState' = [dirState EXCEPT ![a] = Base[@]]
        /\ memory' = [memory EXCEPT ![a] = memQ[a][i].data]
        /\ tbe' = [tbe EXCEPT ![a] = NoTBE]
        /\ UNCHANGED <<resident, dirty, llcData, replies, responses>>
    BY <1>3 DEF WritebackDone, llcVars
  <2>2. /\ dirState'[a] \in Stable /\ memory'[a] = memQ[a][i].data /\ dirState'[a] # "E"
        /\ \A b \in Data : b # a =>
             dirState'[b] = dirState[b] /\ memory'[b] = memory[b] /\ tbe'[b] = tbe[b]
    BY <1>t, <2>1, StateMaps
  <2>3. memory'[a] = tbe[a].data
    BY <2>1, <2>2, AckAwaited DEF Accounted
  <2>4. a \notin resident
    BY <2>1, HomeStates DEF Accounted, InLLC
  <2>5. ASSUME a \in Data
        PROVE  AtRest(a)'
    <3>1. dirState[a] \in InEvict /\ dirState[a] \notin Exclusive /\ dirState'[a] \notin InEvict
      <4>1. dirState'[a] \in {"I", "S"}
        BY <2>2 DEF Stable
      <4>. QED  BY <2>1, <4>1, EvictStates DEF InEvict
    <3>2. tbe[a].data = latest[a]
      BY <2>4, <2>5, <3>1 DEF Current, AtRest
    <3>. QED  BY <1>l, <2>1, <2>3, <2>4, <3>1, <3>2 DEF AtRest
  <2>6. \A b \in Data : b # a => Untouched(b)
    BY <2>1, <2>2 DEF Untouched
  <2>. QED  BY <2>1, <2>5, <2>6, OthersCurrent
<1>. QED  BY <1>1, <1>2, <1>3 DEF OnMemory

(* A block that comes back is the newest version, and stays in the LLC or  *)
(* goes on to memory.                                                      *)
LEMMA ResponseStepCurrent ==
  ASSUME TypeOK, OneWriter, Accounted, Current, NEW m \in responses, OnResponse(m), UNCHANGED l1Vars
  PROVE  Current'
<1> DEFINE a == m.addr
<1>t. /\ dirState \in [Addr -> DirState] /\ tbe \in [Addr -> TBE] /\ a \in Addr /\ a \in Data
      /\ llcData \in [Addr -> Nat] /\ Data \subseteq Addr
  BY ResponseType DEF TypeOK, DirTypeOK, Addr
<1>l. UNCHANGED latest
  BY DEF l1Vars, historyVars
<1>m. m.data = latest[a] /\ dirState[a] \in Exclusive
  <2>1. m \in Returned(a)
    BY DEF Returned
  <2>. QED  BY <1>t, <2>1, ReturnedAlone DEF Current, InTransfer, OneWriter
<1> HIDE DEF a
<1>1. CASE PutBlock(m) \/ FlushForShared(m) \/ FlushForExclusive(m)
  <2>1. /\ UNCHANGED memory /\ responses' \subseteq responses
        /\ resident' = resident \cup {a} /\ dirty' = dirty \cup {a}
        /\ llcData' = [llcData EXCEPT ![a] = m.data]
    BY <1>1 DEF PutBlock, FlushForShared, FlushForExclusive, TakeBlock, memVars, PopResponse, a
  <2>2. /\ \E s \in {"S", "E"} : dirState' = [dirState EXCEPT ![a] = s]
        /\ tbe' = tbe \/ tbe' = [tbe EXCEPT ![a] = NoTBE]
    BY <1>1 DEF PutBlock, FlushForShared, FlushForExclusive, a
  <2>3. \A r \in replies' : r \in replies \/ r.type # "EX_REP" \/ (r.addr = a /\ r.data = latest[a])
    BY <1>1, <1>m DEF PutBlock, FlushForShared, FlushForExclusive, Reply1, a
  <2>4. \A b \in Data : b # a => Untouched(b)
    <3>1. \A b \in Data : b # a => dirState'[b] = dirState[b] /\ tbe'[b] = tbe[b]
      BY <1>t, <2>2
    <3>. QED  BY <1>t, <2>1, <3>1 DEF Untouched
  <2>5. AtRest(a)'
    <3>1. llcData'[a] = latest'[a] /\ a \in resident' /\ a \in dirty'
      BY <1>t, <1>l, <1>m, <2>1
    <3>. QED  BY <3>1 DEF AtRest
  <2>. QED  BY <1>t, <2>1, <2>3, <2>4, <2>5, OthersCurrent
<1>2. CASE BounceResponse(m)
  <2>1. /\ UNCHANGED <<resident, dirty, llcData, memory, responses, replies, tbe>>
        /\ dirState[a] \in InFetchAuth /\ dirState' = [dirState EXCEPT ![a] = Base[@]]
    BY <1>2 DEF BounceResponse, FlushRep, memVars, netVars, llcVars, a
  <2>2. /\ dirState'[a] = Base[dirState[a]]
        /\ \A b \in Data : b # a => dirState'[b] = dirState[b]
    BY <1>t, <2>1
  <2>3. dirState[a] = "E_Fetch_Auth"
    BY <1>m, <2>1, EvictStates DEF InFetchAuth
  <2>4. dirState'[a] \in Exclusive
    BY <2>1, <2>2, <2>3, StateMaps, EvictStates
  <2>5. \A b \in Data : b # a => Untouched(b)
    BY <2>1, <2>2 DEF Untouched
  <2>6. AtRest(a)'
    BY <2>4 DEF AtRest
  <2>. QED  BY <1>t, <2>1, <2>5, <2>6, OthersCurrent
<1>3. CASE FlushDirect(m) \/ FlushSuspended(m)
  <2> DEFINE chain == PresentChain(a)
  <2>1. /\ dirState[a] = "E_Evict_Flush" /\ UNCHANGED <<resident, llcData, memory, replies>>
        /\ tbe' = [tbe EXCEPT ![a].data = m.data] /\ responses' \subseteq responses
    BY <1>3 DEF FlushDirect, FlushSuspended, PopResponse, llcVars, a
  <2>2. \/ /\ dirty' = (dirty \cup ToSet(chain)) \ {a}
           /\ dirState' = [b \in Addr |-> IF b = a THEN "I_Evicting"
                                          ELSE IF b \in ToSet(chain) THEN "C_M" ELSE dirState[b]]
        \/ dirty' = dirty /\ dirState' = [dirState EXCEPT ![a] = "I_Evict_Auth"]
    BY <1>3 DEF FlushDirect, FlushSuspended, IncrementTo, llcVars, a
  <2>3. a \notin resident /\ ToSet(chain) \cap Data = {}
    <3>1. a \notin resident
      BY <2>1 DEF Accounted, InLLC, AtHome, Stable, InFetchAuth
    <3>2. ToSet(chain) \subseteq Counters
      BY <1>t, ChainType
    <3>. QED  BY <3>1, <3>2, AddressAssumption
  <2> HIDE DEF chain
  <2>4. dirState'[a] \in InEvict
    BY <1>t, <2>2 DEF InEvict, InEvictAuth, InEvicting
  <2>5. tbe'[a].data = latest'[a]
    BY <1>t, <1>l, <1>m, <2>1 DEF TBE
  <2>6. AtRest(a)'
    BY <2>1, <2>3, <2>4, <2>5 DEF AtRest
  <2>7. ASSUME NEW b \in Data, b # a
        PROVE  Untouched(b)
    <3>1. dirState'[b] = dirState[b] /\ (b \in dirty' <=> b \in dirty)
      BY <1>t, <2>2, <2>3, <2>7
    <3>2. tbe'[b] = tbe[b]
      BY <1>t, <2>1, <2>7
    <3>. QED  BY <2>1, <3>1, <3>2 DEF Untouched
  <2>. QED  BY <1>t, <2>1, <2>6, <2>7, OthersCurrent
<1>. QED  BY <1>1, <1>2, <1>3 DEF OnResponse

(* A clean victim is what memory has, and a dirty one goes with its TBE.   *)
LEMMA VictimStepCurrent ==
  ASSUME TypeOK, Accounted, Current, NEW v \in resident, OnVictim(v), UNCHANGED l1Vars
  PROVE  Current'
<1>t. /\ dirState \in [Addr -> DirState] /\ tbe \in [Addr -> TBE] /\ v \in Addr
      /\ llcData \in [Addr -> Nat] /\ Data \subseteq Addr
  BY DEF TypeOK, DirTypeOK, Addr
<1>l. UNCHANGED latest
  BY DEF l1Vars, historyVars
<1>0. ASSUME resident' = resident \ {v}, llcData' = [llcData EXCEPT ![v] = 0],
             UNCHANGED <<memory, responses, replies>>,
             \A b \in Data : b # v =>
               dirState'[b] = dirState[b] /\ tbe'[b] = tbe[b] /\ (b \in dirty' <=> b \in dirty),
             v \in Data =>
               \/ dirState'[v] \in Exclusive
               \/ dirState[v] \notin Exclusive /\ dirState'[v] \in InEvict /\ tbe'[v].data = llcData[v]
               \/ dirState'[v] = dirState[v] /\ dirState[v] \notin InEvict /\ v \notin dirty
      PROVE  Current'
  <2>1. ASSUME NEW b \in Data, b # v
        PROVE  Untouched(b)
    <3>1. (b \in resident' <=> b \in resident) /\ llcData'[b] = llcData[b]
      BY <1>t, <1>0, <2>1
    <3>. QED  BY <1>0, <2>1, <3>1 DEF Untouched
  <2>2. ASSUME v \in Data
        PROVE  AtRest(v)'
    <3>1. CASE dirState'[v] \in Exclusive
      BY <3>1 DEF AtRest
    <3>2. CASE dirState[v] \notin Exclusive /\ dirState'[v] \in InEvict /\ tbe'[v].data = llcData[v]
      <4>1. llcData[v] = latest[v] /\ v \notin resident'
        BY <1>0, <2>2, <3>2 DEF Current, AtRest
      <4>. QED  BY <1>l, <3>2, <4>1 DEF AtRest
    <3>3. CASE dirState'[v] \notin Exclusive /\ dirState'[v] = dirState[v]
               /\ dirState[v] \notin InEvict /\ v \notin dirty
      <4>1. memory[v] = latest[v] /\ v \notin resident'
        BY <1>0, <2>2, <3>3 DEF Current, AtRest
      <4>. QED  BY <1>0, <1>l, <3>3, <4>1 DEF AtRest
    <3>. QED  BY <1>0, <2>2, <3>1, <3>2, <3>3
  <2>. QED  BY <1>t, <1>0, <2>1, <2>2, OthersCurrent
<1>1. CASE DropClean(v)
  <2>1. /\ resident' = resident \ {v} /\ llcData' = [llcData EXCEPT ![v] = 0]
        /\ UNCHANGED <<memory, responses, replies, tbe, dirState, dirty>>
        /\ v \notin dirty /\ dirState[v] \in Stable
    BY <1>1 DEF DropClean, deallocateLLC, memVars, netVars, entryVars
  <2>2. dirState[v] \notin InEvict
    BY <2>1 DEF Stable, InEvict, InEvictAuth, InEvicting
  <2>. QED  BY <1>0, <2>1, <2>2
<1>2. CASE WriteBackVictim(v)
  <2> DEFINE chain == IF dirState[v] = "C_M" THEN <<>> ELSE PresentChain(v)
  <2>1. /\ resident' = resident \ {v} /\ llcData' = [llcData EXCEPT ![v] = 0]
        /\ UNCHANGED <<memory, responses, replies>>
        /\ dirState[v] \in {"I", "S", "C_M"} /\ dirty' = (dirty \cup ToSet(chain)) \ {v}
        /\ tbe' = [tbe EXCEPT ![v] = [requestor |-> None, data |-> llcData[v],
                                      wts |-> dirWts[v], lts |-> 0]]
        /\ dirState' = [b \in Addr |-> IF b = v THEN Evicting[dirState[v]]
                                       ELSE IF b \in ToSet(chain) THEN "C_M" ELSE dirState[b]]
    BY <1>2 DEF WriteBackVictim, IncrementTo, Park, deallocateLLC, netVars
  <2>2. ToSet(chain) \cap Data = {}
    <3>1. ToSet(<<>>) = {}
      BY DEF ToSet
    <3>2. ToSet(chain) \subseteq Counters
      BY <1>t, <3>1, ChainType
    <3>. QED  BY <3>2, AddressAssumption
  <2> HIDE DEF chain
  <2>3. /\ dirState'[v] \in InEvict /\ dirState[v] \notin Exclusive /\ tbe'[v].data = llcData[v]
    <3>1. dirState'[v] = Evicting[dirState[v]] /\ tbe'[v].data = llcData[v]
      BY <1>t, <2>1
    <3>. QED  BY <2>1, <3>1, StateMaps DEF InEvict, Exclusive, Owned
  <2>4. \A b \in Data : b # v =>
          dirState'[b] = dirState[b] /\ tbe'[b] = tbe[b] /\ (b \in dirty' <=> b \in dirty)
    BY <1>t, <2>1, <2>2
  <2>. QED  BY <1>0, <2>1, <2>3, <2>4
<1>3. CASE RecallVictim(v)
  <2>1. /\ resident' = resident \ {v} /\ llcData' = [llcData EXCEPT ![v] = 0]
        /\ UNCHANGED <<memory, responses, replies>> /\ dirty' = dirty \ {v}
        /\ tbe' = [tbe EXCEPT ![v] = [requestor |-> None, data |-> llcData[v],
                                      wts |-> dirWts[v], lts |-> 0]]
        /\ dirState' = [dirState EXCEPT ![v] = "E_Evict_Flush"]
    BY <1>3 DEF RecallVictim, Park, deallocateLLC, memVars
  <2>2. dirState'[v] \in Exclusive
    BY <1>t, <2>1, EvictStates
  <2>3. \A b \in Data : b # v =>
          dirState'[b] = dirState[b] /\ tbe'[b] = tbe[b] /\ (b \in dirty' <=> b \in dirty)
    BY <1>t, <2>1
  <2>. QED  BY <1>0, <2>1, <2>2, <2>3
<1>4. CASE SuspendVictim(v)
  <2>1. /\ resident' = resident \ {v} /\ llcData' = [llcData EXCEPT ![v] = 0]
        /\ UNCHANGED <<memory, responses, replies>> /\ dirty' = dirty \ {v}
        /\ dirState[v] \in {"I", "S", "C_M"}
        /\ tbe' = [tbe EXCEPT ![v] = [requestor |-> None, data |-> llcData[v],
                                      wts |-> dirWts[v], lts |-> 0]]
        /\ dirState' = [dirState EXCEPT ![v] = EvictAuth[@]]
    BY <1>4 DEF SuspendVictim, Park, deallocateLLC, netVars
  <2>2. /\ dirState'[v] \in InEvict /\ dirState[v] \notin Exclusive /\ tbe'[v].data = llcData[v]
    <3>1. dirState'[v] = EvictAuth[dirState[v]] /\ tbe'[v].data = llcData[v]
      BY <1>t, <2>1
    <3>. QED  BY <2>1, <3>1, StateMaps DEF InEvict, Exclusive, Owned
  <2>3. \A b \in Data : b # v =>
          dirState'[b] = dirState[b] /\ tbe'[b] = tbe[b] /\ (b \in dirty' <=> b \in dirty)
    BY <1>t, <2>1
  <2>. QED  BY <1>0, <2>1, <2>2, <2>3
<1>5. CASE StallVictim(v)
  <2>1. UNCHANGED <<dirState, tbe, resident, dirty, llcData, memory, replies, responses>>
    BY <1>5 DEF StallVictim, llcVars, memVars, entryVars, netVars
  <2>2. AtRest(v)' \/ v \notin Data
    BY <1>l, <2>1 DEF Current, AtRest
  <2>3. \A b \in Data : Untouched(b)
    BY <2>1 DEF Untouched
  <2>. QED  BY <1>t, <2>1, <2>2, <2>3, OthersCurrent
<1>. QED  BY <1>1, <1>2, <1>3, <1>4, <1>5 DEF OnVictim

-----------------------------------------------------------------------------
(* The system. *)

(* A fresh memory has everything, and nothing is on its way. *)
LEMMA InitKept ==
  ASSUME Init
  PROVE  Accounted /\ Current
<1>1. \A a \in Addr : dirState[a] = "I" /\ memQ[a] = <<>> /\ memory[a] = 0
  BY DEF Init, DirInit
<1>2. /\ fetching = {} /\ resident = {} /\ dirty = {} /\ replies = {} /\ responses = {}
      /\ \A k \in Counters, i \in Slot : waiters[k][i] = None
  BY DEF Init, DirInit, NetInit, NoWaiters
<1>3. \A a \in Addr : InMemory(a)
  BY <1>1, <1>2 DEF InMemory, Reading, Writing, InEvicting
<1>4. InLLC /\ Suspended
  BY <1>2 DEF InLLC, Suspended
<1>5. \A a \in Data : latest[a] = 0 /\ Holders(a) = {}
  BY DEF Init, L1Init, Holders
<1>6. ASSUME NEW a \in Data
      PROVE  InTransfer(a) /\ AtRest(a)
  <2>1. a \in Addr /\ dirState[a] \notin InEvict
    BY <1>1 DEF Addr, InEvict, InEvictAuth, InEvicting
  <2>. QED  BY <1>1, <1>2, <1>5, <2>1 DEF InTransfer, AtRest, Granted, Returned
<1>. QED  BY <1>3, <1>4, <1>6 DEF Accounted, Current

(* A directory that does nothing keeps its books. *)
LEMMA DirUnchanged ==
  ASSUME UNCHANGED dirVars
  PROVE  UNCHANGED <<dirState, tbe, fetching, waiters, memQ, resident, dirty>>
BY DEF dirVars, entryVars, llcVars, authVars, memVars

(* Every step of the system keeps the books and the newest version; the    *)
(* books do not depend on the caches, the version depends on both.         *)
LEMMA NextKept ==
  ASSUME TypeOK, OneWriter, OneWriter', Accounted, Current, [Next]_vars
  PROVE  Accounted' /\ Current'
<1>1. ASSUME NEW c \in Caches, L1Step(c), UNCHANGED dirVars
      PROVE  Accounted' /\ Current'
  BY <1>1, DirUnchanged, AccountedStays, L1StepCurrent
<1>2. ASSUME DirStep, UNCHANGED l1Vars
      PROVE  Accounted' /\ Current'
  <2>1. ASSUME NEW m \in requests, OnRequest(m)
        PROVE  Accounted' /\ Current'
    BY <1>2, <2>1, RequestStepAccounted, RequestStepCurrent
  <2>2. ASSUME NEW a \in Addr, OnMemory(a)
        PROVE  Accounted' /\ Current'
    BY <1>2, <2>2, MemoryStepAccounted, MemoryStepCurrent
  <2>3. ASSUME NEW m \in responses, OnResponse(m)
        PROVE  Accounted' /\ Current'
    BY <1>2, <2>3, ResponseStepAccounted, ResponseStepCurrent
  <2>4. ASSUME NEW v \in resident, OnVictim(v)
        PROVE  Accounted' /\ Current'
    BY <1>2, <2>4, VictimStepAccounted, VictimStepCurrent
  <2>. QED  BY <1>2, <2>1, <2>2, <2>3, <2>4 DEF DirStep
<1>3. ASSUME UNCHANGED <<l1Vars, dirVars, netVars>>
      PROVE  Accounted' /\ Current'
  <2>1. Accounted'
    BY <1>3, DirUnchanged, AccountedStays
  <2>2. UNCHANGED <<latest, l1State, l1Data, replies, responses, llcData, memory>>
    BY <1>3 DEF l1Vars, cacheVars, historyVars, dirVars, llcVars, memVars, netVars
  <2>3. ASSUME NEW a \in Data
        PROVE  InTransfer(a)' /\ AtRest(a)'
    BY <1>3, <2>2, DirUnchanged DEF Current, InTransfer, AtRest, Holders, Granted, Returned
  <2>. QED  BY <2>1, <2>3 DEF Current
<1>4. CASE L1Undefined /\ UNCHANGED dirVars
  BY <1>3, <1>4 DEF L1Undefined
<1>5. CASE DirUndefined /\ UNCHANGED l1Vars
  BY <1>3, <1>5 DEF DirUndefined
<1>6. CASE UNCHANGED vars
  BY <1>3, <1>6 DEF vars
<1>. QED  BY <1>1, <1>2, <1>4, <1>5, <1>6 DEF Next, Halt

(* The inductive invariant, with the two it rests on. *)
LEMMA Kept == Spec => [](TypeOK /\ OneWriter /\ Accounted /\ Current)
<1>1. Spec => [](TypeOK /\ OneWriter)
  BY InitCorrect, NextCorrect, PTL DEF Spec
<1>2. Init => Accounted /\ Current
  BY InitKept
<1>3. TypeOK /\ OneWriter /\ OneWriter' /\ Accounted /\ Current /\ [Next]_vars
        => Accounted' /\ Current'
  BY NextKept
<1>. QED  BY <1>1, <1>2, <1>3, PTL DEF Spec

(* An EX_REP, the block a cache gives back and the copy of a cache that    *)
(* may write the line are the newest version of it.                        *)
THEOREM TransferIsCurrentCorrect == Spec => []TransferIsCurrent
<1>1. OneWriter /\ Current => TransferIsCurrent
  BY CurrentGives
<1>. QED  BY <1>1, Kept, PTL

(* While no cache may write a line, its newest version is in the LLC, on   *)
(* its way to memory, or there.                                            *)
THEOREM HomeIsCurrentCorrect == Spec => []HomeIsCurrent
<1>1. OneWriter /\ Current => HomeIsCurrent
  BY CurrentGives
<1>. QED  BY <1>1, Kept, PTL

(* A counter is read from memory once while it has an AuthTBE, and never   *)
(* while it is in the LLC.                                                 *)
THEOREM EachFetchOnceCorrect == Spec => []EachFetchOnce
<1>1. ASSUME TypeOK, Accounted
      PROVE  EachFetchOnce
  <2> SUFFICES ASSUME NEW k \in Counters
               PROVE  /\ Count(k, "MEMORY_READ") = IF k \in fetching THEN 1 ELSE 0
                      /\ k \in fetching => k \notin resident
    BY DEF EachFetchOnce
  <2>1. k \in Addr /\ dirState[k] \notin {"IS", "IE", "SE"}
    BY <1>1 DEF Addr, TypeOK, DirTypeOK, EntriesOK, CounterState
  <2>2. InMemory(k) /\ (k \in fetching => k \notin resident)
    BY <1>1, <2>1 DEF Accounted, InLLC
  <2>. QED  BY <2>1, <2>2, CountsExact DEF Reading
<1>2. TypeOK /\ Accounted => EachFetchOnce
  BY <1>1
<1>. QED  BY <1>2, Kept, PTL

(* A write-back of a line is under way exactly in its Evicting states, and *)
(* a read of it exactly while a request waits for its data.                *)
THEOREM MemoryAgreesCorrect == Spec => []MemoryAgrees
<1>1. ASSUME TypeOK, Accounted
      PROVE  MemoryAgrees
  <2>1. ASSUME NEW a \in Addr
        PROVE  Count(a, "MEMORY_WB") = IF dirState[a] \in InEvicting THEN 1 ELSE 0
    BY <1>1, CountsExact DEF Accounted, Writing
  <2>2. ASSUME NEW a \in Data
        PROVE  Count(a, "MEMORY_READ") = IF dirState[a] \in {"IS", "IE", "SE"} THEN 1 ELSE 0
    <3>1. a \in Addr /\ a \notin fetching
      BY <1>1, AddressAssumption DEF Addr, TypeOK, DirTypeOK
    <3>. QED  BY <1>1, <3>1, CountsExact DEF Accounted, Reading
  <2>. QED  BY <2>1, <2>2 DEF MemoryAgrees
<1>2. TypeOK /\ Accounted => MemoryAgrees
  BY <1>1
<1>. QED  BY <1>2, Kept, PTL

-----------------------------------------------------------------------------
(* What a step that takes a mark off a block of the LLC does with it. *)
Unmarked ==
  \A b \in dirty \ dirty' :
    \/ Count(b, "MEMORY_WB")' > Count(b, "MEMORY_WB")
    \/ dirState'[b] \in InEvictAuth
    \/ dirState'[b] = "E_Evict_Flush"

(* Only a victim loses its mark: what arrives from memory or is flushed    *)
(* was not in the LLC.                                                     *)
LEMMA MarksKept ==
  ASSUME TypeOK, Accounted, Next
  PROVE  Unmarked
<1>k. ASSUME dirty \subseteq dirty'
      PROVE  Unmarked
  BY <1>k DEF Unmarked
<1>d. /\ dirty \subseteq resident /\ fetching \cap resident = {}
      /\ \A a \in resident : dirState[a] \in AtHome
  BY DEF Accounted, InLLC
<1>u. UNCHANGED dirVars => Unmarked
  BY <1>k DEF dirVars, llcVars
<1>1. ASSUME NEW m \in requests, OnRequest(m)
      PROVE  Unmarked
  <2>1. dirty' = dirty
    BY <1>1 DEF OnRequest, GrantSharedFromLLC, GrantExclusiveFromLLC, GrantUpgrade,
      FetchShared, FetchExclusive, RecallForShared, RecallForExclusive, FetchCounter,
      WaitForCounter, Bounce, StallRequest, llcVars
  <2>. QED  BY <1>k, <2>1
<1>2. ASSUME NEW a \in Addr, OnMemory(a)
      PROVE  Unmarked
  <2>1. CASE DataForShared(a) \/ DataForExclusive(a) \/ DataForUpgrade(a)
    <3>1. a \notin dirty
      BY <1>d, <2>1, HomeStates DEF DataForShared, DataForExclusive, DataForUpgrade, Answer
    <3>. QED  BY <1>k, <2>1, <3>1 DEF DataForShared, DataForExclusive, DataForUpgrade, llcVars
  <2>2. CASE CounterData(a)
    <3>1. a \notin dirty /\ dirty' = (dirty \ {a}) \cup Marked(a)
      BY <1>d, <2>2, CounterAwaited
    <3>. QED  BY <1>k, <3>1
  <2>3. ASSUME NEW i \in DOMAIN memQ[a], WritebackDone(a, i)
        PROVE  Unmarked
    BY <1>k, <2>3 DEF WritebackDone, llcVars
  <2>. QED  BY <1>2, <2>1, <2>2, <2>3 DEF OnMemory
<1>3. ASSUME NEW m \in responses, OnResponse(m)
      PROVE  Unmarked
  <2>1. CASE PutBlock(m) \/ FlushForShared(m) \/ FlushForExclusive(m)
    BY <1>k, <2>1 DEF PutBlock, FlushForShared, FlushForExclusive, TakeBlock
  <2>2. CASE BounceResponse(m) \/ FlushSuspended(m)
    BY <1>k, <2>2 DEF BounceResponse, FlushSuspended, llcVars
  <2>3. CASE FlushDirect(m)
    <3>1. m.addr \notin dirty
      BY <1>d, <2>3 DEF FlushDirect, AtHome, Stable, InFetchAuth
    <3>. QED  BY <1>k, <2>3, <3>1 DEF FlushDirect, IncrementTo
  <2>. QED  BY <1>3, <2>1, <2>2, <2>3 DEF OnResponse
<1>4. ASSUME NEW v \in resident, OnVictim(v)
      PROVE  Unmarked
  <2>t. dirState \in [Addr -> DirState] /\ memQ \in [Addr -> Seq(MemMsg)] /\ v \in Addr
    BY DEF TypeOK, DirTypeOK
  <2>1. CASE DropClean(v) \/ StallVictim(v)
    BY <1>k, <2>1 DEF DropClean, StallVictim, llcVars
  <2>2. CASE WriteBackVictim(v)
    <3>1. /\ memQ' = [memQ EXCEPT ![v] = Append(@, WB(llcData[v]))]
          /\ \A b \in dirty \ dirty' : b = v
      BY <2>2 DEF WriteBackVictim, IncrementTo, SendMem
    <3>2. memQ[v] = <<>>
      <4>1. ~Reading(v) /\ ~Writing(v)
        BY <1>d, HomeStates DEF Reading, Writing
      <4>. QED  BY <2>t, <4>1 DEF Accounted, InMemory
    <3>3. memQ'[v] = <<WB(llcData[v])>>
      BY <2>t, <3>1, <3>2, Appended
    <3> DEFINE w == WB(llcData[v])
    <3>4. w.type = "MEMORY_WB"
      BY MemMsgs
    <3> HIDE DEF w
    <3>5. {i \in DOMAIN <<w>> : <<w>>[i].type = "MEMORY_WB"} = {1}
      BY <3>4
    <3>6. Count(v, "MEMORY_WB")' = 1
      <4>1. Count(v, "MEMORY_WB")' = Cardinality({i \in DOMAIN <<w>> : <<w>>[i].type = "MEMORY_WB"})
        BY <3>3 DEF Count, w
      <4>. QED  BY <3>5, <4>1, FS_Singleton
    <3>7. Count(v, "MEMORY_WB") = 0
      <4>1. {i \in DOMAIN memQ[v] : memQ[v][i].type = "MEMORY_WB"} = {}
        BY <3>2
      <4>. QED  BY <4>1, FS_EmptySet DEF Count
    <3>. QED  BY <3>1, <3>6, <3>7 DEF Unmarked
  <2>3. CASE RecallVictim(v)
    <3>1. dirState'[v] = "E_Evict_Flush" /\ \A b \in dirty \ dirty' : b = v
      BY <2>t, <2>3 DEF RecallVictim
    <3>. QED  BY <3>1 DEF Unmarked
  <2>4. CASE SuspendVictim(v)
    <3>1. /\ dirState[v] \in {"I", "S", "C_M"} /\ dirState'[v] = EvictAuth[dirState[v]]
          /\ \A b \in dirty \ dirty' : b = v
      BY <2>t, <2>4 DEF SuspendVictim
    <3>2. dirState'[v] \in InEvictAuth
      BY <3>1, StateMaps
    <3>. QED  BY <3>1, <3>2 DEF Unmarked
  <2>. QED  BY <1>4, <2>1, <2>2, <2>3, <2>4 DEF OnVictim
<1>. QED
  BY <1>u, <1>1, <1>2, <1>3, <1>4 DEF Next, Halt, DirStep, DirUndefined, vars

(* No step drops a dirty block: it loses its mark only as its write-back   *)
(* leaves for memory, waits for a counter, or is recalled from its owner.  *)
THEOREM DirtyIsWrittenBackCorrect == Spec => DirtyIsWrittenBack
<1>1. TypeOK /\ Accounted /\ [Next]_vars => [Unmarked]_vars
  BY MarksKept
<1>2. DirtyIsWrittenBack <=> [][Unmarked]_vars
  BY PTL DEF DirtyIsWrittenBack, Unmarked
<1>. QED  BY <1>1, <1>2, Kept, PTL DEF Spec
-----------------------------------------------------------------------------
(* The LRU order. *)

(* order ranks the elements of S, once each. *)
Ranks(order, S) ==
  /\ order \in Seq(S)
  /\ \A x \in S : \E i \in 1 .. Len(order) : order[i] = x
  /\ \A i, j \in 1 .. Len(order) : order[i] = order[j] => i = j

(* What holds of 0 and passes from each natural to the next holds of all. *)
LEMMA Induct ==
  ASSUME NEW T, 0 \in T, \A n \in Nat : n \in T => n + 1 \in T
  PROVE  Nat \subseteq T
<1> SUFFICES ASSUME Nat \ T # {}
             PROVE  FALSE
  OBVIOUS
<1> DEFINE m == Min(Nat \ T)
<1>1. m \in Nat \ T /\ \A n \in Nat \ T : m <= n
  BY MinOfNaturals
<1> HIDE DEF m
<1>2. m # 0 /\ m - 1 \in Nat
  BY <1>1
<1>3. m - 1 \in T
  BY <1>1, <1>2
<1>4. (m - 1) + 1 \in T
  BY <1>2, <1>3
<1>. QED  BY <1>1, <1>4

(* Taking an element from its position keeps the order of the others. *)
LEMMA RemovedAt ==
  ASSUME NEW S, NEW q \in Seq(S), NEW i \in 1 .. Len(q)
  PROVE  /\ RemoveAt(q, i) \in Seq(S) /\ Len(RemoveAt(q, i)) = Len(q) - 1
         /\ \A k \in 1 .. Len(q) - 1 : RemoveAt(q, i)[k] = IF k < i THEN q[k] ELSE q[k + 1]
<1> DEFINE f == SubSeq(q, 1, i - 1)
           g == SubSeq(q, i + 1, Len(q))
<1>1. f \in Seq(S) /\ Len(f) = i - 1 /\ \A k \in 1 .. i - 1 : f[k] = q[k]
  OBVIOUS
<1>2. g \in Seq(S) /\ Len(g) = Len(q) - i /\ \A k \in 1 .. Len(q) - i : g[k] = q[i + k]
  OBVIOUS
<1>3. RemoveAt(q, i) = f \o g
  BY DEF RemoveAt
<1> HIDE DEF f, g
<1> DEFINE m == Len(q)
<1>0. m \in Nat /\ i \in 1 .. m
  OBVIOUS
<1> HIDE DEF m
<1>4. /\ f \o g \in Seq(S) /\ Len(f \o g) = m - 1
      /\ \A k \in 1 .. m - 1 : (f \o g)[k] = IF k <= i - 1 THEN f[k] ELSE g[k - (i - 1)]
  <2>1. /\ f \o g \in Seq(S) /\ Len(f \o g) = Len(f) + Len(g)
        /\ \A k \in 1 .. Len(f) + Len(g) :
             (f \o g)[k] = IF k <= Len(f) THEN f[k] ELSE g[k - Len(f)]
    BY <1>1, <1>2, ConcatProperties
  <2>2. Len(f) + Len(g) = m - 1 /\ Len(f) = i - 1
    BY <1>0, <1>1, <1>2 DEF m
  <2>. QED  BY <2>1, <2>2
<1>5. ASSUME NEW k \in 1 .. Len(q) - 1
      PROVE  (f \o g)[k] = IF k < i THEN q[k] ELSE q[k + 1]
  <2>1. k \in 1 .. m - 1 /\ (f \o g)[k] = IF k <= i - 1 THEN f[k] ELSE g[k - (i - 1)]
    BY <1>4 DEF m
  <2>2. CASE k < i
    <3>1. k \in 1 .. i - 1
      BY <1>0, <2>1, <2>2
    <3>. QED  BY <1>1, <2>1, <2>2, <3>1
  <2>3. CASE k >= i
    <3>1. k - (i - 1) \in 1 .. Len(q) - i /\ i + (k - (i - 1)) = k + 1
      BY <2>3
    <3>2. ~(k <= i - 1)
      BY <1>0, <2>1, <2>3
    <3>. QED  BY <1>2, <2>1, <2>3, <3>1, <3>2
  <2>. QED  BY <1>0, <2>1, <2>2, <2>3
<1>. QED  BY <1>3, <1>4, <1>5 DEF m

(* RemoveFirst takes an element that is there from one position, ... *)
LEMMA RemovedFirst ==
  ASSUME NEW S, NEW q \in Seq(S), NEW a, \E i \in 1 .. Len(q) : q[i] = a
  PROVE  \E i \in 1 .. Len(q) : q[i] = a /\ RemoveFirst(q, a) = RemoveAt(q, i)
<1> DEFINE I == {i \in 1 .. Len(q) : q[i] = a}
<1>1. I # {} /\ I \in SUBSET Nat
  OBVIOUS
<1>2. Min(I) \in I
  <2> HIDE DEF I
  <2>. QED  BY <1>1, MinOfNaturals
<1>3. RemoveFirst(q, a) = RemoveAt(q, Min(I))
  BY <1>1 DEF RemoveFirst, SelectInSeq
<1>. QED  BY <1>2, <1>3

(* ... and leaves the others ranked. *)
LEMMA RanksRemoved ==
  ASSUME NEW S, NEW order, Ranks(order, S), NEW a
  PROVE  Ranks(RemoveFirst(order, a), S \ {a})
<1> DEFINE r == RemoveFirst(order, a)
<1>0. /\ order \in Seq(S)
      /\ \A x \in S : \E i \in 1 .. Len(order) : order[i] = x
      /\ \A i, j \in 1 .. Len(order) : order[i] = order[j] => i = j
  BY DEF Ranks
<1>1. CASE \A i \in 1 .. Len(order) : order[i] # a
  <2>1. r = order
    BY <1>1 DEF RemoveFirst
  <2>2. a \notin S
    BY <1>0, <1>1
  <2>3. S \ {a} = S
    BY <2>2
  <2>. QED  BY <2>1, <2>3
<1>2. CASE \E i \in 1 .. Len(order) : order[i] = a
  <2>1. PICK i \in 1 .. Len(order) : order[i] = a /\ r = RemoveAt(order, i)
    BY <1>0, <1>2, RemovedFirst
  <2> HIDE DEF r
  <2>2. /\ r \in Seq(S) /\ Len(r) = Len(order) - 1
        /\ \A k \in 1 .. Len(order) - 1 : r[k] = IF k < i THEN order[k] ELSE order[k + 1]
    <3>1. order \in Seq(S)
      BY <1>0
    <3>2. /\ RemoveAt(order, i) \in Seq(S) /\ Len(RemoveAt(order, i)) = Len(order) - 1
          /\ \A k \in 1 .. Len(order) - 1 :
               RemoveAt(order, i)[k] = IF k < i THEN order[k] ELSE order[k + 1]
      BY ONLY <3>1, i \in 1 .. Len(order), RemovedAt
    <3>. QED  BY <2>1, <3>2
  <2> DEFINE old(k) == IF k < i THEN k ELSE k + 1
             new(k) == IF k < i THEN k ELSE k - 1
  <2>n. Len(order) \in Nat /\ Len(r) \in Nat /\ i \in Nat
    <3>1. Len(order) \in Nat /\ Len(r) \in Nat
      BY <1>0, <2>2, SMTT(30)
    <3>. QED  BY <3>1
  <2>3. \A k \in 1 .. Len(r) : old(k) \in 1 .. Len(order) /\ old(k) # i /\ r[k] = order[old(k)]
    BY <2>2, <2>n
  <2>4. \A k \in 1 .. Len(order) : k # i => new(k) \in 1 .. Len(r) /\ order[k] = r[new(k)]
    BY <2>2, <2>n
  <2>5. \A k, l \in Nat : old(k) = old(l) => k = l
    BY <2>n
  <2> HIDE DEF old, new
  <2>i. \A j, l \in 1 .. Len(order) : order[j] = order[l] => j = l
    BY <1>0
  <2>s. \A j \in 1 .. Len(order) : order[j] \in S
    BY <1>0
  <2>6. ASSUME NEW k \in 1 .. Len(r)
        PROVE  r[k] \in S \ {a}
    <3>1. old(k) \in 1 .. Len(order) /\ old(k) # i /\ r[k] = order[old(k)]
      BY <2>3
    <3>2. order[old(k)] # order[i] /\ order[old(k)] \in S
      BY <2>i, <2>s, <3>1
    <3>. QED  BY <2>1, <3>1, <3>2
  <2>7. r \in Seq(S \ {a})
    BY <2>2, <2>6
  <2>8. ASSUME NEW x \in S \ {a}
        PROVE  \E k \in 1 .. Len(r) : r[k] = x
    <3>1. PICK k \in 1 .. Len(order) : order[k] = x
      BY <1>0
    <3>2. k # i
      BY <2>1, <3>1
    <3>. QED  BY <2>4, <3>1, <3>2
  <2>9. ASSUME NEW k \in 1 .. Len(r), NEW l \in 1 .. Len(r), r[k] = r[l]
        PROVE  k = l
    <3>1. order[old(k)] = order[old(l)] /\ old(k) \in 1 .. Len(order) /\ old(l) \in 1 .. Len(order)
      BY <2>3, <2>9
    <3>2. old(k) = old(l) /\ k \in Nat /\ l \in Nat
      <4>1. old(k) = old(l)
        BY ONLY <2>i, <3>1
      <4>2. k \in Nat /\ l \in Nat
        BY <2>n
      <4>. QED  BY <4>1, <4>2
    <3>. QED  BY <2>5, <3>2
  <2>10. Ranks(r, S \ {a})
    BY <2>7, <2>8, <2>9 DEF Ranks
  <2>. QED  BY <2>10 DEF r
<1>. QED  BY <1>1, <1>2

(* What is touched is ranked last. *)
LEMMA RanksNewest ==
  ASSUME NEW S, NEW order, Ranks(order, S), NEW a
  PROVE  Ranks(Newest(order, a), S \cup {a})
<1> DEFINE r == RemoveFirst(order, a)
           n == Append(r, a)
           N == Len(r)
<1>1. Ranks(r, S \ {a})
  BY RanksRemoved
<1> HIDE DEF r
<1>2. /\ r \in Seq(S \cup {a})
      /\ \A x \in S \ {a} : \E i \in 1 .. N : r[i] = x
      /\ \A i, j \in 1 .. N : r[i] = r[j] => i = j
      /\ \A i \in 1 .. N : r[i] # a
      /\ N \in Nat
  BY <1>1 DEF Ranks
<1>3. /\ n \in Seq(S \cup {a}) /\ Len(n) = N + 1 /\ n[N + 1] = a
      /\ \A i \in 1 .. N : n[i] = r[i]
  BY <1>2
<1> HIDE DEF n, N
<1>4. \A i \in 1 .. N + 1 : i \in 1 .. N \/ i = N + 1
  BY <1>2
<1>5. N + 1 \in 1 .. N + 1 /\ \A i \in 1 .. N : i \in 1 .. N + 1
  BY <1>2
<1>6. \A x \in S \cup {a} : \E i \in 1 .. N + 1 : n[i] = x
  BY <1>2, <1>3, <1>5
<1>7. \A i, j \in 1 .. N + 1 : n[i] = n[j] => i = j
  BY <1>2, <1>3, <1>4
<1>8. Ranks(n, S \cup {a})
  BY <1>3, <1>6, <1>7 DEF Ranks
<1>. QED  BY <1>8 DEF n, r, Newest

(* A new order, in which S and what has been touched is ranked. *)
Touched(touched, n) == {touched[i] : i \in 1 .. n}
Stepwise(f, order, touched, n) ==
  f = [i \in 0 .. n |-> IF i = 0 THEN order ELSE Newest(f[i - 1], touched[i])]

(* There are such sequences of orders, ... *)
LEMMA SomeStepwise ==
  ASSUME NEW order, NEW touched
  PROVE  \A n \in Nat : \E f : Stepwise(f, order, touched, n)
<1> DEFINE T == {n \in Nat : \E f : Stepwise(f, order, touched, n)}
<1>1. 0 \in T
  <2> DEFINE f == [i \in 0 .. 0 |-> order]
  <2>1. f = [i \in 0 .. 0 |-> IF i = 0 THEN order ELSE Newest(f[i - 1], touched[i])]
    OBVIOUS
  <2>. QED  BY <2>1 DEF Stepwise
<1>2. ASSUME NEW n \in Nat, n \in T
      PROVE  n + 1 \in T
  <2>1. PICK f : Stepwise(f, order, touched, n)
    BY <1>2
  <2> DEFINE g == [i \in 0 .. n + 1 |-> IF i = 0 THEN order ELSE Newest(f[i - 1], touched[i])]
  <2>2. ASSUME NEW i \in 0 .. n
        PROVE  g[i] = f[i]
    <3>1. i \in 0 .. n + 1
      OBVIOUS
    <3>2. g[i] = IF i = 0 THEN order ELSE Newest(f[i - 1], touched[i])
      BY <3>1
    <3>3. f[i] = IF i = 0 THEN order ELSE Newest(f[i - 1], touched[i])
      BY <2>1 DEF Stepwise
    <3>. QED  BY <3>2, <3>3
  <2>3. ASSUME NEW i \in 0 .. n + 1
        PROVE  g[i] = IF i = 0 THEN order ELSE Newest(g[i - 1], touched[i])
    <3>1. CASE i = 0
      BY <3>1
    <3>2. CASE i # 0
      <4>1. i - 1 \in 0 .. n
        BY <3>2
      <4>2. g[i - 1] = f[i - 1]
        BY <2>2, <4>1
      <4>. QED  BY <3>2, <4>2
    <3>. QED  BY <3>1, <3>2
  <2> DEFINE h == [i \in 0 .. n + 1 |-> IF i = 0 THEN order ELSE Newest(g[i - 1], touched[i])]
  <2>4. \A i \in 0 .. n + 1 : g[i] = h[i]
    BY <2>3
  <2>5. g = h
    BY <2>4
  <2>6. Stepwise(g, order, touched, n + 1)
    BY <2>5 DEF Stepwise
  <2> HIDE DEF g
  <2>. QED  BY <2>6
<1> HIDE DEF T
<1>3. Nat \subseteq T
  BY <1>1, <1>2, Induct
<1>. QED  BY <1>3 DEF T

(* ... each of which ranks what has been touched so far too, ... *)
LEMMA StepwiseRanks ==
  ASSUME NEW S, NEW order, Ranks(order, S), NEW touched, NEW n \in Nat,
         NEW f, Stepwise(f, order, touched, n)
  PROVE  Ranks(f[n], S \cup Touched(touched, n))
<1> DEFINE T == {i \in Nat : i <= n => Ranks(f[i], S \cup Touched(touched, i))}
<1>0. \A i \in 0 .. n : f[i] = IF i = 0 THEN order ELSE Newest(f[i - 1], touched[i])
  BY DEF Stepwise
<1>1. 0 \in T
  <2>1. S \cup Touched(touched, 0) = S
    BY DEF Touched
  <2>2. f[0] = order
    BY <1>0
  <2>. QED  BY <2>1, <2>2
<1>2. ASSUME NEW i \in Nat, i \in T
      PROVE  i + 1 \in T
  <2> SUFFICES ASSUME i + 1 <= n
               PROVE  Ranks(f[i + 1], S \cup Touched(touched, i + 1))
    OBVIOUS
  <2> DEFINE R == S \cup Touched(touched, i)
  <2>1. Ranks(f[i], R)
    BY <1>2
  <2>2. f[i + 1] = Newest(f[i], touched[i + 1])
    <3>1. i + 1 \in 0 .. n /\ i + 1 # 0 /\ (i + 1) - 1 = i
      OBVIOUS
    <3>. QED  BY <1>0, <3>1
  <2>3. S \cup Touched(touched, i + 1) = R \cup {touched[i + 1]}
    <3>1. 1 .. i + 1 = (1 .. i) \cup {i + 1}
      OBVIOUS
    <3>. QED  BY <3>1 DEF Touched
  <2> HIDE DEF R
  <2>4. Ranks(Newest(f[i], touched[i + 1]), R \cup {touched[i + 1]})
    BY <2>1, RanksNewest
  <2>. QED  BY <2>2, <2>3, <2>4
<1> HIDE DEF T
<1>3. Nat \subseteq T
  BY <1>1, <1>2, Induct
<1>. QED  BY <1>3 DEF T

(* ... and so does the last. *)
LEMMA RanksTouched ==
  ASSUME NEW S, NEW order, Ranks(order, S), NEW P, NEW touched \in Seq(P)
  PROVE  Ranks(Touch(order, touched), S \cup ToSet(touched))
<1> DEFINE n == Len(touched)
           f == CHOOSE g : Stepwise(g, order, touched, n)
<1>1. n \in Nat /\ DOMAIN touched = 1 .. n
  OBVIOUS
<1>2. Stepwise(f, order, touched, n)
  BY <1>1, SomeStepwise
<1>3. f = CHOOSE g : g = [i \in 0 .. n |-> IF i = 0 THEN order
                                           ELSE Newest(g[i - 1], touched[i])]
  BY DEF Stepwise
<1>4. Touch(order, touched) = f[n]
  BY <1>3 DEF Touch
<1> HIDE DEF f
<1>5. Ranks(f[n], S \cup Touched(touched, n))
  BY <1>1, <1>2, StepwiseRanks
<1>6. Touched(touched, n) = ToSet(touched)
  BY <1>1 DEF Touched, ToSet
<1>. QED  BY <1>4, <1>5, <1>6

-----------------------------------------------------------------------------
(* Sequences in a row. *)

(* f[i] is the first i sequences of w in a row. *)
Flat(f, w, n) ==
  f = [i \in 1 .. n |-> IF i = 1 THEN w[i] ELSE f[i - 1] \o w[i]]

(* There are such sequences, ... *)
LEMMA SomeFlat == \A w : \A n \in Nat : \E f : Flat(f, w, n)
<1> SUFFICES ASSUME NEW w
             PROVE  \A n \in Nat : \E f : Flat(f, w, n)
  OBVIOUS
<1> DEFINE T == {n \in Nat : \E f : Flat(f, w, n)}
<1>1. 0 \in T
  <2> DEFINE f == [i \in 1 .. 0 |-> w[i]]
  <2>1. f = [i \in 1 .. 0 |-> IF i = 1 THEN w[i] ELSE f[i - 1] \o w[i]]
    OBVIOUS
  <2>. QED  BY <2>1 DEF Flat
<1>2. ASSUME NEW n \in Nat, n \in T
      PROVE  n + 1 \in T
  <2>1. PICK f : Flat(f, w, n)
    BY <1>2
  <2> DEFINE g == [i \in 1 .. n + 1 |-> IF i = 1 THEN w[i] ELSE f[i - 1] \o w[i]]
  <2>2. ASSUME NEW i \in 1 .. n
        PROVE  g[i] = f[i]
    <3>1. i \in 1 .. n + 1
      OBVIOUS
    <3>2. g[i] = IF i = 1 THEN w[i] ELSE f[i - 1] \o w[i]
      BY <3>1
    <3>3. f[i] = IF i = 1 THEN w[i] ELSE f[i - 1] \o w[i]
      BY <2>1 DEF Flat
    <3>. QED  BY <3>2, <3>3
  <2>3. ASSUME NEW i \in 1 .. n + 1
        PROVE  g[i] = IF i = 1 THEN w[i] ELSE g[i - 1] \o w[i]
    <3>1. CASE i = 1
      BY <3>1
    <3>2. CASE i # 1
      <4>1. i - 1 \in 1 .. n
        BY <3>2
      <4>. QED  BY <2>2, <3>2, <4>1
    <3>. QED  BY <3>1, <3>2
  <2> DEFINE h == [i \in 1 .. n + 1 |-> IF i = 1 THEN w[i] ELSE g[i - 1] \o w[i]]
  <2>4. \A i \in 1 .. n + 1 : g[i] = h[i]
    BY <2>3
  <2>5. g = h
    BY <2>4
  <2>6. Flat(g, w, n + 1)
    BY <2>5 DEF Flat
  <2> HIDE DEF g
  <2>. QED  BY <2>6
<1> HIDE DEF T
<1>3. Nat \subseteq T
  BY <1>1, <1>2, Induct
<1>. QED  BY <1>3 DEF T

(* ... one step of which appends one sequence, ... *)
Appends(f, w, n) == /\ n > 0 => f[1] = w[1]
                    /\ \A i \in 1 .. n - 1 : f[i + 1] = f[i] \o w[i + 1]

LEMMA FlatStep ==
  ASSUME NEW f, NEW w, NEW n \in Nat, Flat(f, w, n)
  PROVE  Appends(f, w, n)
<1>1. \A i \in 1 .. n : f[i] = IF i = 1 THEN w[i] ELSE f[i - 1] \o w[i]
  BY DEF Flat
<1>2. ASSUME NEW i \in 1 .. n - 1
      PROVE  f[i + 1] = f[i] \o w[i + 1]
  <2>1. i + 1 \in 1 .. n /\ i + 1 # 1 /\ (i + 1) - 1 = i
    OBVIOUS
  <2>. QED  BY <1>1, <2>1
<1>3. n > 0 => 1 \in 1 .. n
  OBVIOUS
<1>. QED  BY <1>1, <1>2, <1>3 DEF Appends

(* ... and FlattenSeq is the last. *)
LEMMA FlattenIs ==
  ASSUME NEW S, NEW w \in Seq(Seq(S)), w # <<>>
  PROVE  \E f : Flat(f, w, Len(w)) /\ FlattenSeq(w) = f[Len(w)]
<1>1. Len(w) \in Nat /\ Len(w) # 0
  OBVIOUS
<1> DEFINE f == CHOOSE g : Flat(g, w, Len(w))
<1>2. Flat(f, w, Len(w))
  BY <1>1, SomeFlat
<1>3. f = CHOOSE g : g = [i \in 1 .. Len(w) |-> IF i = 1 THEN w[i] ELSE g[i - 1] \o w[i]]
  BY DEF Flat
<1>4. FlattenSeq(w) = f[Len(w)]
  BY <1>1, <1>3 DEF FlattenSeq
<1>. QED  BY <1>2, <1>4

(* Its values are sequences. *)
LEMMA FlatType ==
  ASSUME NEW S, NEW w \in Seq(Seq(S)), NEW f, Flat(f, w, Len(w))
  PROVE  \A i \in 1 .. Len(w) : f[i] \in Seq(S)
<1> DEFINE T == {i \in Nat : i < Len(w) => f[i + 1] \in Seq(S)}
<1>0. /\ \A i \in 1 .. Len(w) : w[i] \in Seq(S)
      /\ Len(w) \in Nat
  OBVIOUS
<1>s. /\ Len(w) > 0 => f[1] = w[1]
      /\ \A i \in 1 .. Len(w) - 1 : f[i + 1] = f[i] \o w[i + 1]
  <2>1. Appends(f, w, Len(w))
    BY <1>0, FlatStep
  <2>. QED  BY <2>1 DEF Appends
<1>1. 0 \in T
  BY <1>0, <1>s
<1>2. ASSUME NEW i \in Nat, i \in T
      PROVE  i + 1 \in T
  <2> SUFFICES ASSUME i + 1 < Len(w)
               PROVE  f[i + 2] \in Seq(S)
    OBVIOUS
  <2>1. f[i + 1] \in Seq(S)
    BY <1>0, <1>2
  <2>2. i + 1 \in 1 .. Len(w) - 1 /\ (i + 1) + 1 = i + 2 /\ i + 2 \in 1 .. Len(w)
    BY <1>0
  <2>3. f[i + 2] = f[i + 1] \o w[i + 2]
    BY <1>s, <2>2
  <2>. QED  BY <1>0, <2>1, <2>2, <2>3
<1> HIDE DEF T
<1>3. Nat \subseteq T
  BY <1>1, <1>2, Induct
<1> QED
  <2> SUFFICES ASSUME NEW i \in 1 .. Len(w)
               PROVE  f[i] \in Seq(S)
    OBVIOUS
  <2>1. i - 1 \in Nat /\ (i - 1) + 1 = i /\ i - 1 < Len(w)
    BY <1>0
  <2>2. i - 1 \in T
    BY <1>3, <2>1
  <2>. QED  BY <2>1, <2>2 DEF T

(* The sequences in a row are one sequence. *)
LEMMA FlattenType ==
  ASSUME NEW S, NEW w \in Seq(Seq(S)), w # <<>>
  PROVE  FlattenSeq(w) \in Seq(S)
<1>1. PICK f : Flat(f, w, Len(w)) /\ FlattenSeq(w) = f[Len(w)]
  BY FlattenIs
<1>2. Len(w) \in 1 .. Len(w)
  OBVIOUS
<1>. QED  BY <1>1, <1>2, FlatType
-----------------------------------------------------------------------------
(* The LLC: what it holds is ranked by the LRU order, and fits.            *)
LLCOrder ==
  /\ Ranks(recency, resident)
  /\ IsFiniteSet(resident) /\ Cardinality(resident) <= LLCSize

(* What mru_policy lets be touched of a chain is part of it, ... *)
LEMMA TouchableType ==
  ASSUME NEW S, NEW chain \in Seq(S), NEW some \in Touchable(chain)
  PROVE  some \in Seq(S)
<1>1. CASE some = chain \/ some = <<>>
  <2>1. <<>> \in Seq(S)
    OBVIOUS
  <2>. QED  BY <1>1, <2>1
<1>2. CASE \E drawn \in SUBSET DOMAIN chain : some = Drawn(chain, drawn)
  <2>1. PICK drawn \in SUBSET DOMAIN chain : some = Drawn(chain, drawn)
    BY <1>2
  <2> DEFINE w == [i \in DOMAIN chain |-> IF i \in drawn THEN <<chain[i]>> ELSE <<>>]
  <2>2. some = FlattenSeq(w)
    BY <2>1 DEF Drawn
  <2>3. \A i \in DOMAIN chain : w[i] \in Seq(S)
    OBVIOUS
  <2>4. DOMAIN chain = 1 .. Len(chain) /\ Len(chain) \in Nat
    OBVIOUS
  <2>5. w \in Seq(Seq(S))
    BY <2>3, <2>4
  <2> HIDE DEF w
  <2>6. w = <<>> => FlattenSeq(w) \in Seq(S)
    <3>1. Len(<<>>) = 0 /\ <<>> \in Seq(S)
      OBVIOUS
    <3>. QED  BY <3>1 DEF FlattenSeq
  <2>7. w # <<>> => FlattenSeq(w) \in Seq(S)
    BY <2>5, FlattenType
  <2>. QED  BY <2>2, <2>6, <2>7
<1>. QED  BY <1>1, <1>2 DEF Touchable

(* ... so that setMRU ranks what it is given beside what was ranked. *)
LEMMA RanksMRU ==
  ASSUME NEW S, Ranks(recency, S), NEW P, NEW touched \in Seq(P),
         NEW chain, chain \in Seq(S \cup ToSet(touched)), setMRU(touched, chain)
  PROVE  Ranks(recency', S \cup ToSet(touched))
<1> DEFINE R == S \cup ToSet(touched)
<1>1. PICK some \in Touchable(chain) : recency' = Touch(recency, touched \o some)
  BY DEF setMRU
<1>2. some \in Seq(R)
  BY TouchableType
<1>3. touched \in Seq(R)
  BY DEF ToSet
<1> DEFINE t == touched \o some
<1>4. t \in Seq(R)
  BY <1>2, <1>3
<1>5. S \cup ToSet(t) = R
  <2>1. ToSet(t) \subseteq R
    BY <1>4 DEF ToSet
  <2>2. ASSUME NEW x \in ToSet(touched)
        PROVE  x \in ToSet(t)
    <3>1. PICK i \in 1 .. Len(touched) : x = touched[i]
      BY <1>3 DEF ToSet
    <3>2. t[i] = x /\ i \in 1 .. Len(t)
      BY <1>2, <1>3, <3>1
    <3>3. DOMAIN t = 1 .. Len(t)
      BY <1>4
    <3> HIDE DEF t
    <3>. QED  BY <3>2, <3>3 DEF ToSet
  <2>. QED  BY <2>1, <2>2
<1> HIDE DEF t, R
<1>6. Ranks(Touch(recency, t), S \cup ToSet(t))
  BY <1>4, RanksTouched
<1>. QED  BY <1>1, <1>5, <1>6 DEF t, R

(* The present part of a chain as a sequence. *)
LEMMA ChainSeq ==
  ASSUME NEW a \in Addr
  PROVE  PresentChain(a) \in Seq(resident)
<1>1. PresentChain(a) \in Seq(Counters)
  <2>1. CASE Missing(a, resident) = {}
    BY <2>1, PathType DEF PresentChain
  <2>2. CASE Missing(a, resident) # {}
    <3>1. Missing(a, resident) \in SUBSET Nat /\ Missing(a, resident) \subseteq 1 .. Len(Path[a])
      BY PathType DEF Missing
    <3>2. Min(Missing(a, resident)) \in 1 .. Len(Path[a])
      BY <2>2, <3>1, MinOfNaturals, PathType
    <3>3. PresentChain(a) = SubSeq(Path[a], 1, Min(Missing(a, resident)) - 1)
      BY <2>2 DEF PresentChain
    <3>. QED  BY <3>2, <3>3, PathType, SubSeqProperties
  <2>. QED  BY <2>1, <2>2
<1>2. \A i \in 1 .. Len(PresentChain(a)) : PresentChain(a)[i] \in resident
  BY <1>1, ChainPresent DEF ToSet
<1>. QED  BY <1>1, <1>2

(* A step that leaves the LLC alone, ... *)
LEMMA OrderStays ==
  ASSUME LLCOrder, UNCHANGED <<recency, resident>>
  PROVE  LLCOrder'
BY DEF LLCOrder, Ranks

(* ... touches a block that is there, or nothing but its chain, ... *)
LEMMA OrderTouched ==
  ASSUME LLCOrder, NEW a \in Addr, UNCHANGED resident,
         \/ UNCHANGED recency
         \/ setMRU(<<>>, PresentChain(a))
         \/ a \in resident /\ setMRU(<<a>>, PresentChain(a))
  PROVE  LLCOrder'
<1>0. Ranks(recency, resident)
  BY DEF LLCOrder
<1>1. CASE UNCHANGED recency
  BY <1>1, OrderStays
<1>2. CASE setMRU(<<>>, PresentChain(a))
  <2>1. ToSet(<<>>) = {} /\ <<>> \in Seq(Addr)
    BY DEF ToSet
  <2>2. PresentChain(a) \in Seq(resident \cup ToSet(<<>>))
    BY <2>1, ChainSeq
  <2>3. Ranks(recency', resident \cup ToSet(<<>>))
    BY <1>0, <1>2, <2>1, <2>2, RanksMRU
  <2>4. Ranks(recency', resident)
    BY <2>1, <2>3
  <2>. QED  BY <2>4 DEF LLCOrder, Ranks
<1>3. CASE a \in resident /\ setMRU(<<a>>, PresentChain(a))
  <2>1. ToSet(<<a>>) = {a} /\ <<a>> \in Seq(Addr)
    BY DEF ToSet
  <2>2. PresentChain(a) \in Seq(resident \cup ToSet(<<a>>))
    BY <1>3, <2>1, ChainSeq
  <2>3. Ranks(recency', resident \cup ToSet(<<a>>))
    BY <1>0, <1>3, <2>1, <2>2, RanksMRU
  <2>4. resident \cup ToSet(<<a>>) = resident
    BY <1>3, <2>1
  <2>5. Ranks(recency', resident)
    BY <2>3, <2>4
  <2>. QED  BY <2>5 DEF LLCOrder, Ranks
<1>. QED  BY <1>1, <1>2, <1>3

(* ... brings a block in where there is room for it, ... *)
LEMMA OrderFilled ==
  ASSUME LLCOrder, NEW a \in Addr, ~NoRoom(a), resident' = resident \cup {a},
         NEW chain \in Seq(resident \cup {a}), setMRU(<<a>>, chain)
  PROVE  LLCOrder'
<1>1. ToSet(<<a>>) = {a} /\ <<a>> \in Seq(Addr)
  BY DEF ToSet
<1>2. chain \in Seq(resident \cup ToSet(<<a>>))
  BY <1>1
<1>3. Ranks(recency', resident \cup ToSet(<<a>>))
  BY <1>1, <1>2, RanksMRU DEF LLCOrder
<1>4. Ranks(recency', resident')
  BY <1>1, <1>3
<1>5. IsFiniteSet(resident') /\ Cardinality(resident') <= LLCSize
  <2>1. CASE a \in resident
    <3>1. resident' = resident
      BY <2>1
    <3>. QED  BY <3>1 DEF LLCOrder
  <2>2. CASE a \notin resident
    <3>1. IsFiniteSet(resident) /\ Cardinality(resident) \in Nat
      BY FS_CardinalityType DEF LLCOrder
    <3>2. Cardinality(resident) < LLCSize
      BY <2>2, <3>1, DirectoryAssumption DEF NoRoom
    <3>3. /\ IsFiniteSet(resident \cup {a})
          /\ Cardinality(resident \cup {a}) = Cardinality(resident) + 1
      BY <2>2, <3>1, FS_AddElement
    <3>. QED  BY <3>1, <3>2, <3>3, DirectoryAssumption
  <2>. QED  BY <2>1, <2>2
<1>. QED  BY <1>4, <1>5 DEF LLCOrder, Ranks

(* ... or takes one out. *)
LEMMA OrderDropped ==
  ASSUME LLCOrder, NEW v, resident' = resident \ {v},
         NEW order, Ranks(order, resident), recency' = RemoveFirst(order, v)
  PROVE  LLCOrder'
<1>1. Ranks(recency', resident')
  BY RanksRemoved
<1>2. IsFiniteSet(resident) /\ Cardinality(resident) \in Nat /\ resident' \subseteq resident
  BY FS_CardinalityType DEF LLCOrder
<1>3. IsFiniteSet(resident') /\ Cardinality(resident') <= Cardinality(resident)
  BY <1>2, FS_Subset
<1>4. Cardinality(resident') \in Nat
  BY <1>3, FS_CardinalityType
<1>5. Cardinality(resident') <= LLCSize
  BY <1>2, <1>3, <1>4, DirectoryAssumption DEF LLCOrder
<1>. QED  BY <1>1, <1>3, <1>5 DEF LLCOrder, Ranks

(* The order a chain is touched in on the way out of the LLC. *)
LEMMA ChainTouched ==
  ASSUME LLCOrder, NEW chain \in Seq(resident), NEW some \in Touchable(chain)
  PROVE  Ranks(Touch(recency, some), resident)
<1>1. some \in Seq(resident)
  BY TouchableType
<1>2. Ranks(Touch(recency, some), resident \cup ToSet(some))
  BY <1>1, RanksTouched DEF LLCOrder
<1>3. resident \cup ToSet(some) = resident
  BY <1>1 DEF ToSet
<1>. QED  BY <1>2, <1>3

(* A request touches a block that is in the LLC, or its chain. *)
LEMMA RequestStepOrder ==
  ASSUME TypeOK, LLCOrder, NEW m \in requests, OnRequest(m)
  PROVE  LLCOrder'
<1> DEFINE a == m.addr
<1>t. a \in Addr
  BY RequestType DEF TypeOK
<1>1. CASE GrantSharedFromLLC(m) \/ GrantExclusiveFromLLC(m)
  <2>1. setMRU(<<a>>, PresentChain(a)) /\ UNCHANGED resident
    BY <1>1 DEF GrantSharedFromLLC, GrantExclusiveFromLLC
  <2>2. Event(m) \in {"ShReq_Hit", "ExReq_Hit"}
    BY <1>1 DEF GrantSharedFromLLC, GrantExclusiveFromLLC, Accept
  <2>3. a \in resident
    BY <2>2 DEF Event
  <2> HIDE DEF a
  <2>. QED  BY <1>t, <2>1, <2>3, OrderTouched
<1>2. CASE GrantUpgrade(m) \/ FetchCounter(m) \/ WaitForCounter(m)
  <2>1. UNCHANGED <<recency, resident>>
    BY <1>2 DEF GrantUpgrade, FetchCounter, WaitForCounter, llcVars
  <2>. QED  BY <2>1, OrderStays
<1>3. CASE \/ FetchShared(m) \/ FetchExclusive(m) \/ RecallForShared(m) \/ RecallForExclusive(m)
           \/ Bounce(m) \/ StallRequest(m)
  <2>1. TouchOnMiss(m) /\ UNCHANGED resident
    BY <1>3 DEF FetchShared, FetchExclusive, RecallForShared, RecallForExclusive, Bounce,
                StallRequest
  <2>2. setMRU(<<>>, PresentChain(a)) \/ UNCHANGED recency
    BY <2>1 DEF TouchOnMiss
  <2> HIDE DEF a
  <2>. QED  BY <1>t, <2>1, <2>2, OrderTouched
<1>. QED  BY <1>1, <1>2, <1>3 DEF OnRequest

(* Data and counters from memory enter the LLC where there is room. *)
LEMMA MemoryStepOrder ==
  ASSUME TypeOK, Accounted, LLCOrder, NEW a \in Addr, OnMemory(a)
  PROVE  LLCOrder'
<1>1. CASE DataForShared(a) \/ DataForExclusive(a)
  <2>1. /\ ~NoRoom(a) /\ resident' = resident \cup {a}
        /\ setMRU(<<a>>, PresentChain(a))
    BY <1>1 DEF DataForShared, DataForExclusive, Answer
  <2>2. PresentChain(a) \in Seq(resident \cup {a})
    BY ChainSeq
  <2>. QED  BY <2>1, <2>2, OrderFilled
<1>2. CASE DataForUpgrade(a) \/ \E i \in DOMAIN memQ[a] : WritebackDone(a, i)
  <2>1. UNCHANGED <<recency, resident>>
    BY <1>2 DEF DataForUpgrade, WritebackDone, llcVars
  <2>. QED  BY <2>1, OrderStays
<1>3. CASE CounterData(a)
  <2> DEFINE w == [i \in Slot |-> IF i \in Ready(a) THEN Path[waiters[a][i]] ELSE <<>>]
             chain == FlattenSeq(w)
  <2>1. a \in fetching /\ a \in Counters /\ resident' = Here(a)
    BY <1>3, CounterAwaited
  <2>2. ~NoRoom(a) /\ setMRU(<<a>>, chain)
    BY <1>3, <2>1 DEF CounterData, Answer, Ready, Filled, NextMissing, Here
  <2>3. ASSUME NEW i \in Slot
        PROVE  w[i] \in Seq(Here(a))
    <3>1. CASE i \in Ready(a)
      <4>1. waiters[a][i] \in Addr /\ FirstMissingIn(waiters[a][i], Here(a)) = None
        BY <2>1, <3>1 DEF Ready, Filled, NextMissing, TypeOK, DirTypeOK
      <4>2. ToSet(Path[waiters[a][i]]) \subseteq Here(a)
        BY <4>1, NothingMissing
      <4>3. Path[waiters[a][i]] \in Seq(Counters)
        BY <4>1, PathType
      <4>4. \A p \in Seq(Counters) : ToSet(p) \subseteq Here(a) => p \in Seq(Here(a))
        BY DEF ToSet
      <4>. QED  BY <3>1, <4>2, <4>3, <4>4
    <3>2. CASE i \notin Ready(a)
      BY <3>2
    <3>. QED  BY <3>1, <3>2
  <2>4. Slots \in Nat /\ Slots # 0 /\ Slot = 1 .. Slots
    BY DirectoryAssumption DEF Slot
  <2>5. w \in Seq(Seq(Here(a))) /\ w # <<>>
    <3>1. \A i \in Slot : w[i] \in Seq(Here(a))
      BY <2>3
    <3>2. DOMAIN w = 1 .. Slots
      BY <2>4
    <3> HIDE DEF w
    <3>3. w \in [1 .. Slots -> Seq(Here(a))]
      <4>1. w = [i \in Slot |-> w[i]]
        BY <2>4 DEF w
      <4>. QED  BY <2>4, <3>1, <4>1
    <3>4. w \in Seq(Seq(Here(a))) /\ Len(w) = Slots
      BY <2>4, <3>3
    <3>. QED  BY <2>4, <3>4
  <2> HIDE DEF w
  <2>6. chain \in Seq(Here(a))
    BY <2>5, FlattenType
  <2> HIDE DEF chain
  <2>. QED  BY <2>1, <2>2, <2>6, OrderFilled DEF Here
<1>. QED  BY <1>1, <1>2, <1>3 DEF OnMemory

(* A block that is given back enters where there is room; one that is not  *)
(* wanted any more leaves no trace in the order.                           *)
LEMMA ResponseStepOrder ==
  ASSUME TypeOK, Accounted, LLCOrder, NEW m \in responses, OnResponse(m)
  PROVE  LLCOrder'
<1> DEFINE a == m.addr
<1>t. a \in Addr
  BY DEF TypeOK, NetTypeOK, Response, Addr
<1>1. CASE PutBlock(m) \/ FlushForShared(m) \/ FlushForExclusive(m)
  <2>1. ~NoRoom(a) /\ TakeBlock(m)
    BY <1>1 DEF PutBlock, FlushForShared, FlushForExclusive, FlushRep
  <2>2. resident' = resident \cup {a} /\ setMRU(<<a>>, PresentChain(a))
    BY <2>1 DEF TakeBlock
  <2> HIDE DEF a
  <2>3. PresentChain(a) \in Seq(resident \cup {a})
    BY <1>t, ChainSeq
  <2>. QED  BY <1>t, <2>1, <2>2, <2>3, OrderFilled
<1>2. CASE BounceResponse(m) \/ FlushSuspended(m)
  <2>1. UNCHANGED <<recency, resident>>
    BY <1>2 DEF BounceResponse, FlushSuspended, llcVars
  <2>. QED  BY <2>1, OrderStays
<1>3. CASE FlushDirect(m)
  <2>1. dirState[a] = "E_Evict_Flush" /\ UNCHANGED resident
    BY <1>3 DEF FlushDirect
  <2>2. \E some \in Touchable(PresentChain(a)) :
           recency' = RemoveFirst(Touch(recency, some), a)
    BY <1>3 DEF FlushDirect, IncrementTo
  <2> HIDE DEF a
  <2>3. a \notin resident
    BY <2>1 DEF Accounted, InLLC, AtHome, Stable, InFetchAuth
  <2>4. resident' = resident \ {a}
    BY <2>1, <2>3
  <2>5. PICK some \in Touchable(PresentChain(a)) :
           recency' = RemoveFirst(Touch(recency, some), a)
    BY <2>2
  <2>6. Ranks(Touch(recency, some), resident)
    BY <1>t, ChainSeq, ChainTouched
  <2>. QED  BY <2>4, <2>5, <2>6, OrderDropped
<1>. QED  BY <1>1, <1>2, <1>3 DEF OnResponse

(* A victim leaves the LLC and the order, also one that touches its chain. *)
LEMMA VictimStepOrder ==
  ASSUME TypeOK, LLCOrder, NEW v \in resident, OnVictim(v)
  PROVE  LLCOrder'
<1>t. v \in Addr
  BY DEF TypeOK, DirTypeOK
<1>o. Ranks(recency, resident)
  BY DEF LLCOrder
<1>1. CASE DropClean(v) \/ RecallVictim(v) \/ SuspendVictim(v)
  <2>1. resident' = resident \ {v} /\ recency' = RemoveFirst(recency, v)
    BY <1>1 DEF DropClean, RecallVictim, SuspendVictim, deallocateLLC
  <2>. QED  BY <1>o, <2>1, OrderDropped
<1>2. CASE WriteBackVictim(v)
  <2> DEFINE chain == IF dirState[v] = "C_M" THEN <<>> ELSE PresentChain(v)
  <2>1. /\ resident' = resident \ {v}
        /\ \E some \in Touchable(chain) : recency' = RemoveFirst(Touch(recency, some), v)
    BY <1>2 DEF WriteBackVictim, IncrementTo, deallocateLLC
  <2>2. chain \in Seq(resident)
    BY <1>t, ChainSeq
  <2> HIDE DEF chain
  <2>3. PICK some \in Touchable(chain) : recency' = RemoveFirst(Touch(recency, some), v)
    BY <2>1
  <2>4. Ranks(Touch(recency, some), resident)
    BY <2>2, ChainTouched
  <2>. QED  BY <2>1, <2>3, <2>4, OrderDropped
<1>3. CASE StallVictim(v)
  <2>1. UNCHANGED <<recency, resident>>
    BY <1>3 DEF StallVictim, llcVars
  <2>. QED  BY <2>1, OrderStays
<1>. QED  BY <1>1, <1>2, <1>3 DEF OnVictim

LEMMA OrderKept ==
  ASSUME TypeOK, Accounted, LLCOrder, [Next]_vars
  PROVE  LLCOrder'
<1>1. CASE UNCHANGED dirVars
  <2>1. UNCHANGED <<recency, resident>>
    BY <1>1 DEF dirVars, llcVars
  <2>. QED  BY <2>1, OrderStays
<1>2. CASE DirStep
  BY <1>2, RequestStepOrder, MemoryStepOrder, ResponseStepOrder, VictimStepOrder DEF DirStep
<1>3. CASE UNCHANGED vars
  BY <1>1, <1>3 DEF vars
<1>. QED  BY <1>1, <1>2, <1>3 DEF Next, Halt, DirUndefined

(* Whatever mru_policy draws and however evictions, bounces and resumed    *)
(* write-backs touch the chains, the LRU order of the LLC ranks exactly    *)
(* the blocks it holds, once each, and it never holds more than it has     *)
(* room for.                                                               *)
THEOREM RecencyCorrect == Spec => []RecencyExact
<1>1. Init => LLCOrder
  <2> SUFFICES ASSUME Init
               PROVE  LLCOrder
    OBVIOUS
  <2>1. resident = {} /\ recency = <<>>
    BY DEF Init, DirInit
  <2>2. IsFiniteSet({}) /\ Cardinality({}) = 0
    BY FS_EmptySet
  <2>. QED  BY <2>1, <2>2, DirectoryAssumption DEF LLCOrder, Ranks
<1>2. TypeOK /\ Accounted /\ LLCOrder /\ [Next]_vars => LLCOrder'
  BY OrderKept
<1>3. LLCOrder => RecencyExact
  <2> SUFFICES ASSUME LLCOrder
               PROVE  RecencyExact
    OBVIOUS
  <2> DEFINE n == Len(recency)
  <2>1. /\ recency \in Seq(resident) /\ n \in Nat /\ DOMAIN recency = 1 .. n
        /\ \A x \in resident : \E i \in 1 .. n : recency[i] = x
        /\ \A i, j \in 1 .. n : recency[i] = recency[j] => i = j
    BY DEF LLCOrder, Ranks
  <2>2. ToSet(recency) = resident
    BY <2>1 DEF ToSet
  <2>3. recency \in Bijection(1 .. n, resident)
    <3>1. recency \in [1 .. n -> resident]
      BY <2>1
    <3>2. recency \in Injection(1 .. n, resident)
      BY <2>1, <3>1 DEF Injection, IsInjective
    <3>3. recency \in Surjection(1 .. n, resident)
      BY <2>1, <3>1 DEF Surjection
    <3>. QED  BY <3>2, <3>3 DEF Bijection
  <2>4. IsFiniteSet(1 .. n) /\ Cardinality(1 .. n) = n
    <3>1. n \in Int /\ 1 \in Int /\ (1 > n => n = 0)
      BY <2>1
    <3> HIDE DEF n
    <3>2. IsFiniteSet(1 .. n) /\ Cardinality(1 .. n) = IF 1 > n THEN 0 ELSE n - 1 + 1
      BY ONLY <3>1, FS_Interval
    <3>. QED  BY <3>1, <3>2
  <2>5. Cardinality(1 .. n) = Cardinality(resident)
    BY <2>3, <2>4, FS_Bijection DEF ExistsBijection
  <2>. QED  BY <2>2, <2>4, <2>5 DEF RecencyExact, LLCOrder
<1>. QED  BY <1>1, <1>2, <1>3, Kept, PTL DEF Spec
-----------------------------------------------------------------------------
(* The suspended evictions, and where they wait. *)
Frozen == {a \in Addr : dirState[a] \in InEvictAuth}

(* A counter's AuthTBE has a slot for each of them. *)
SlotsSuffice == Cardinality(Frozen) <= Slots

Waited ==
  /\ IsFiniteSet(Frozen)
  /\ \A k \in Counters, i \in Slot :
       waiters[k][i] # None => k \in fetching /\ k \in ToSet(Path[waiters[k][i]])
  /\ \A a \in Frozen : \E k \in Counters, i \in Slot : waiters[k][i] = a

(* Every number of slots before is that of some slot. *)
LEMMA BeforeAll ==
  ASSUME NEW A \in SUBSET Slot, NEW r \in Nat, r < Cardinality(A)
  PROVE  \E i \in A : Before(A, i) = r
<1> DEFINE n == Cardinality(A)
           g == [i \in A |-> Before(A, i)]
<1>1. Slot \in SUBSET Nat /\ IsFiniteSet(Slot)
  BY FS_Interval, DirectoryAssumption DEF Slot
<1>2. IsFiniteSet(A) /\ n \in Nat
  BY <1>1, FS_Subset, FS_CardinalityType
<1>3. ASSUME NEW i \in A
      PROVE  Before(A, i) \in 0 .. n - 1
  <2> DEFINE B == {j \in A : j < i}
  <2>1. B \subseteq A /\ i \notin B /\ B # A
    BY <1>1
  <2> HIDE DEF B
  <2>2. IsFiniteSet(B) /\ Cardinality(B) <= n /\ Cardinality(B) # n
    BY <1>2, <2>1, FS_Subset
  <2>3. Cardinality(B) \in Nat
    BY <2>2, FS_CardinalityType
  <2>4. Cardinality(B) \in 0 .. n - 1
    BY <1>2, <2>2, <2>3
  <2>. QED  BY <2>4 DEF Before, B
<1>4. g \in Injection(A, 0 .. n - 1)
  <2>1. g \in [A -> 0 .. n - 1]
    BY <1>3
  <2>2. \A i, j \in A : g[i] = g[j] => i = j
    BY BeforeExact
  <2> HIDE DEF g
  <2>. QED  BY <2>1, <2>2 DEF Injection, IsInjective
<1>5. IsFiniteSet(0 .. n - 1) /\ Cardinality(0 .. n - 1) = n
  <2> HIDE DEF n
  <2>1. n - 1 \in Int /\ 0 \in Int /\ (0 > n - 1 => n = 0)
    BY <1>2
  <2>2. /\ IsFiniteSet(0 .. n - 1)
        /\ Cardinality(0 .. n - 1) = IF 0 > n - 1 THEN 0 ELSE n - 1 - 0 + 1
    BY ONLY <2>1, FS_Interval
  <2>. QED  BY <1>2, <2>1, <2>2
<1> HIDE DEF n, g
<1>6. g \in Surjection(A, 0 .. n - 1)
  BY <1>4, <1>5, FS_Injection DEF n
<1>7. r \in 0 .. n - 1
  BY <1>2 DEF n
<1>8. \E i \in A : g[i] = r
  BY <1>6, <1>7 DEF Surjection
<1>. QED  BY <1>8 DEF g

(* As many different blocks as there are slots that name them. *)
LEMMA Named ==
  ASSUME NEW A \in SUBSET Slot, NEW f, \A i, j \in A : f[i] = f[j] => i = j,
         NEW N, N = {f[i] : i \in A}
  PROVE  IsFiniteSet(N) /\ Cardinality(N) = Cardinality(A)
<1> DEFINE g == [i \in A |-> f[i]]
<1>1. IsFiniteSet(A)
  <2>1. IsFiniteSet(Slot)
    BY FS_Interval, DirectoryAssumption DEF Slot
  <2>. QED  BY <2>1, FS_Subset
<1>2. g \in [A -> N] /\ \A i \in A : g[i] = f[i]
  OBVIOUS
<1>3. \A x \in N : \E i \in A : f[i] = x
  OBVIOUS
<1> HIDE DEF g
<1>4. g \in Injection(A, N) /\ g \in Surjection(A, N)
  BY <1>2, <1>3 DEF Injection, IsInjective, Surjection
<1>5. ExistsBijection(A, N)
  BY <1>4 DEF ExistsBijection, Bijection
<1>6. IsFiniteSet(N) /\ Cardinality(N) = Cardinality(A)
  BY <1>1, <1>5, FS_Bijection
<1>. QED  BY <1>6

(* Who moves to another counter finds a slot there if all that wait are no *)
(* more than a counter has slots.                                          *)
LEMMA EnterAll ==
  ASSUME NEW to \in [Slot -> Addr \cup {None}], NEW from, NEW moved \in SUBSET Slot,
         NEW W, IsFiniteSet(W), Cardinality(W) <= Slots,
         \A i \in Slot : to[i] # None => to[i] \in W,
         \A i, j \in Slot : to[i] # None /\ to[i] = to[j] => i = j,
         \A j \in moved : from[j] \in W,
         \A j, l \in moved : from[j] = from[l] => j = l,
         \A i \in Slot, j \in moved : to[i] # from[j],
         NEW j \in moved
  PROVE  \E i \in Slot : Enter(to, from, moved)[i] = from[j]
<1> DEFINE free == {i \in Slot : to[i] = None}
           filled == {i \in Slot : to[i] # None}
           A == {to[i] : i \in filled}
           B == {from[l] : l \in moved}
<1>1. Slot \in SUBSET Nat /\ IsFiniteSet(Slot) /\ Cardinality(Slot) = Slots
  <2>1. 1 \in Int /\ Slots \in Int /\ ~(1 > Slots) /\ Slots - 1 + 1 = Slots
    BY DirectoryAssumption
  <2>2. IsFiniteSet(1 .. Slots) /\ Cardinality(1 .. Slots) = Slots
    BY ONLY <2>1, FS_Interval
  <2>. QED  BY <2>2 DEF Slot
<1>2. free \in SUBSET Slot /\ filled \in SUBSET Slot /\ free = Slot \ filled
  OBVIOUS
<1>3. IsFiniteSet(A) /\ Cardinality(A) = Cardinality(filled)
  <2>1. \A i, l \in filled : to[i] = to[l] => i = l
    OBVIOUS
  <2>2. A = {to[i] : i \in filled}
    OBVIOUS
  <2> HIDE DEF filled, A
  <2>. QED  BY ONLY <1>2, <2>1, <2>2, Named
<1>4. IsFiniteSet(B) /\ Cardinality(B) = Cardinality(moved)
  <2>1. \A i, l \in moved : from[i] = from[l] => i = l
    OBVIOUS
  <2>2. B = {from[l] : l \in moved} /\ moved \in SUBSET Slot
    OBVIOUS
  <2> HIDE DEF B
  <2>. QED  BY ONLY <2>1, <2>2, Named
<1>5. A \subseteq W /\ B \subseteq W /\ A \cap B = {}
  OBVIOUS
<1> HIDE DEF A, B, free, filled
<1>6. /\ IsFiniteSet(free) /\ IsFiniteSet(filled) /\ IsFiniteSet(moved)
      /\ Cardinality(free) \in Nat /\ Cardinality(filled) \in Nat /\ Cardinality(moved) \in Nat
      /\ Cardinality(W) \in Nat
  BY <1>1, <1>2, FS_Subset, FS_CardinalityType
<1>7. Cardinality(filled) + Cardinality(moved) <= Cardinality(W)
  <2>1. /\ IsFiniteSet(A \cup B)
        /\ Cardinality(A \cup B) = Cardinality(A) + Cardinality(B) - Cardinality(A \cap B)
    BY <1>3, <1>4, FS_Union
  <2>2. Cardinality(A \cap B) = 0
    BY <1>5, FS_EmptySet
  <2>3. A \cup B \subseteq W
    BY <1>5
  <2>4. Cardinality(A \cup B) <= Cardinality(W)
    BY <2>3, FS_Subset
  <2>. QED  BY <1>3, <1>4, <1>6, <2>1, <2>2, <2>4
<1>8. Cardinality(free) = Slots - Cardinality(filled)
  <2>1. Cardinality(Slot \ filled) = Cardinality(Slot) - Cardinality(Slot \cap filled)
    BY <1>1, <1>2, FS_Difference
  <2>2. Slot \cap filled = filled
    BY <1>2
  <2>. QED  BY <1>1, <1>2, <2>1, <2>2
<1>9. Before(moved, j) \in Nat /\ Before(moved, j) < Cardinality(free)
  <2> DEFINE C == {l \in moved : l < j}
  <2>1. C \subseteq moved /\ C # moved
    BY <1>1
  <2> HIDE DEF C
  <2>2. /\ IsFiniteSet(C) /\ Cardinality(C) <= Cardinality(moved)
        /\ Cardinality(C) # Cardinality(moved)
    BY <1>6, <2>1, FS_Subset
  <2>3. Cardinality(C) \in Nat
    BY <2>2, FS_CardinalityType
  <2>4. Cardinality(C) < Cardinality(free)
    BY <1>6, <1>7, <1>8, <2>2, <2>3, DirectoryAssumption
  <2>. QED  BY <2>3, <2>4 DEF Before, C
<1>10. PICK i \in free : Before(free, i) = Before(moved, j)
  BY <1>2, <1>9, BeforeAll
<1> DEFINE pick == CHOOSE l \in moved : Before(moved, l) = Before(free, i)
<1>11. pick \in moved /\ Before(moved, pick) = Before(free, i)
  BY <1>10
<1> HIDE DEF pick
<1>12. pick = j
  BY <1>10, <1>11, BeforeExact
<1>13. Enter(to, from, moved)[i] = from[pick]
  BY <1>2, <1>10, Zenon DEF Enter, free, pick
<1>. QED  BY <1>2, <1>10, <1>12, <1>13

(* What is missing of a block's chain is one of its counters. *)
LEMMA MissingInChain ==
  ASSUME NEW a \in Addr, NEW T, FirstMissingIn(a, T) # None
  PROVE  FirstMissingIn(a, T) \in ToSet(Path[a])
<1>1. Missing(a, T) # {} /\ FirstMissingIn(a, T) = Path[a][Min(Missing(a, T))]
  BY DEF FirstMissingIn
<1>2. Missing(a, T) \in SUBSET Nat
  BY PathType DEF Missing
<1>3. Min(Missing(a, T)) \in DOMAIN Path[a]
  BY <1>1, <1>2, MinOfNaturals DEF Missing
<1>. QED  BY <1>1, <1>3 DEF ToSet

(* A step that suspends nothing and moves no waiter. *)
Calm ==
  /\ UNCHANGED waiters /\ fetching \subseteq fetching'
  /\ \A b \in Addr : dirState'[b] \in InEvictAuth => dirState[b] \in InEvictAuth

LEMMA CalmWaited ==
  ASSUME Waited, Calm
  PROVE  Waited'
<1>1. Frozen' \subseteq Frozen
  BY DEF Frozen, Calm
<1>2. IsFiniteSet(Frozen')
  BY <1>1, FS_Subset DEF Waited
<1>. QED  BY <1>1, <1>2 DEF Waited, Calm

(* An eviction that is suspended finds a slot of the counter it misses. *)
LEMMA SuspendedWaited ==
  ASSUME TypeOK, Accounted, Waited, SlotsSuffice', NEW a \in Addr, NEW c \in Counters,
         c \in ToSet(Path[a]), fetching' = fetching \cup {c},
         waiters' = [waiters EXCEPT ![c] = Enter(@, One(a), {1})],
         \A b \in Addr : b # a => dirState'[b] = dirState[b],
         dirState[a] \notin InEvictAuth, dirState'[a] \in InEvictAuth
  PROVE  Waited'
<1> DEFINE to == waiters[c]
           from == One(a)
           moved == {1}
           E == Enter(to, from, moved)
           W == Frozen'
<1>1. /\ waiters \in [Counters -> [Slot -> Addr \cup {None}]]
      /\ to \in [Slot -> Addr \cup {None}] /\ moved \in SUBSET Slot /\ 1 \in moved
  BY DirectoryAssumption, SMTT(30) DEF TypeOK, DirTypeOK, Slot
<1>2. W = Frozen \cup {a} /\ a \notin Frozen
  BY DEF Frozen
<1>3. IsFiniteSet(W) /\ Cardinality(W) <= Slots
  BY <1>2, FS_AddElement DEF Waited, SlotsSuffice
<1>4. \A k \in Counters : waiters'[k] = IF k = c THEN E ELSE waiters[k]
  BY <1>1
<1>5. \A k \in Counters, i \in Slot : waiters[k][i] # None =>
        waiters[k][i] \in Frozen /\ k \in fetching /\ k \in ToSet(Path[waiters[k][i]])
  BY <1>1 DEF Accounted, Suspended, Frozen, Waited
<1>6. \A i \in Slot : to[i] # None => to[i] \in Frozen
  BY <1>5
<1>7. \A i, j \in Slot : to[i] # None /\ to[i] = to[j] => i = j
  BY DEF Accounted, Suspended
<1>8. from[1] = a /\ \A j \in moved : j = 1
  BY DEF One
<1>n. a # None
  BY AddressAssumption
<1> HIDE DEF to, from, moved, W
<1>9. \A i \in Slot : to[i] # None => E[i] = to[i]
  BY <1>1, EnterExact
<1>10. \A i \in Slot : to[i] = None /\ E[i] # None => \E j \in moved : E[i] = from[j]
  BY <1>1, EnterExact
<1>11. \E i \in Slot : E[i] = from[1]
  <2>1. \A i \in Slot : to[i] # None => to[i] \in W
    BY <1>2, <1>6
  <2>2. \A j \in moved : from[j] \in W
    BY <1>2, <1>8
  <2>3. \A j, l \in moved : from[j] = from[l] => j = l
    BY <1>8
  <2>4. \A i \in Slot, j \in moved : to[i] # from[j]
    BY <1>2, <1>6, <1>8, <1>n
  <2>. QED  BY <1>1, <1>3, <1>7, <2>1, <2>2, <2>3, <2>4, EnterAll, SMTT(30)
<1> HIDE DEF E
<1>12. ASSUME NEW k \in Counters, NEW i \in Slot, waiters'[k][i] # None
       PROVE  k \in fetching' /\ k \in ToSet(Path[waiters'[k][i]])
  <2>1. CASE waiters[k][i] # None
    <3>1. waiters'[k][i] = waiters[k][i]
      BY <1>4, <1>9, <2>1 DEF to
    <3>. QED  BY <1>5, <2>1, <3>1
  <2>2. CASE waiters[k][i] = None
    <3>1. k = c
      BY <1>4, <1>12, <2>2
    <3>2. waiters'[k][i] = a
      BY <1>4, <1>8, <1>10, <1>12, <2>2, <3>1 DEF to
    <3>. QED  BY <3>1, <3>2
  <2>. QED  BY <2>1, <2>2
<1>13. ASSUME NEW b \in W
       PROVE  \E k \in Counters, i \in Slot : waiters'[k][i] = b
  <2>1. CASE b = a
    BY <1>4, <1>8, <1>11, <2>1
  <2>2. CASE b # a
    <3>1. PICK k \in Counters : \E i \in Slot : waiters[k][i] = b
      BY <1>2, <2>2 DEF Waited
    <3>2. PICK i \in Slot : waiters[k][i] = b
      BY <3>1
    <3>3. b # None
      BY <1>2, <2>2, AddressAssumption DEF Frozen
    <3>4. waiters'[k][i] = b
      BY <1>4, <1>9, <3>2, <3>3 DEF to
    <3>. QED  BY <3>4
  <2>. QED  BY <2>1, <2>2
<1>. QED  BY <1>3, <1>12, <1>13 DEF Waited, W

(* What the arrival of a counter leaves suspended was so, and is not among *)
(* the evictions it writes back.                                           *)
LEMMA CounterFrozen ==
  ASSUME TypeOK, Accounted, NEW c \in Addr, CounterData(c)
  PROVE  \A b \in Frozen' : b \in Frozen /\ b \notin Written(c)
<1> SUFFICES ASSUME NEW b \in Addr, dirState'[b] \in InEvictAuth
             PROVE  dirState[b] \in InEvictAuth /\ b \notin Written(c)
  BY DEF Frozen
<1>1. /\ dirState' = [a \in Addr |->
           CASE a = c -> "I"
             [] a # c /\ a \in Marked(c) -> "C_M"
             [] a # c /\ a \notin Marked(c) /\ a \in Written(c) /\ dirState[a] \in InEvictAuth ->
                  Resumed[dirState[a]]
             [] OTHER -> dirState[a]]
      /\ c \in Counters
  BY CounterAwaited
<1>2. b # c
  BY <1>1 DEF InEvictAuth
<1>3. b \notin Marked(c)
  BY <1>1, <1>2 DEF InEvictAuth
<1>4. \A w \in Written(c) : dirState[w] \in InEvictAuth
  BY <1>1, CounterSets
<1>5. b \notin Written(c)
  <2>1. b \in Written(c) => dirState'[b] = Resumed[dirState[b]] /\ dirState[b] \in InEvictAuth
    BY <1>1, <1>2, <1>3, <1>4
  <2>. QED  BY <2>1, StateMaps DEF InEvictAuth, InEvicting
<1>6. dirState'[b] = dirState[b]
  BY <1>1, <1>2, <1>3, <1>5
<1>. QED  BY <1>5, <1>6

(* The evictions the arrival of a counter does not resume find a slot of   *)
(* the counter they miss next.                                             *)
LEMMA CounterWaited ==
  ASSUME TypeOK, Accounted, Waited, SlotsSuffice, NEW c \in Addr, CounterData(c)
  PROVE  Waited'
<1> DEFINE from == waiters[c]
<1>c. /\ c \in Counters /\ fetching' = (fetching \cup Started(c)) \ {c}
      /\ waiters' = [p \in Counters |->
           IF p = c THEN NoWaiters
           ELSE Enter(waiters[p], waiters[c], {i \in Filled(c) : NextMissing(c, i) = p})]
  BY CounterAwaited
<1>f. \A b \in Frozen' : b \in Frozen /\ b \notin Written(c)
  BY CounterFrozen
<1>1. IsFiniteSet(Frozen')
  BY <1>f, FS_Subset DEF Waited
<1>t. waiters \in [Counters -> [Slot -> Addr \cup {None}]]
  BY DEF TypeOK, DirTypeOK
<1>2. \A k \in Counters, i \in Slot : waiters[k][i] # None =>
        /\ waiters[k][i] \in Addr /\ waiters[k][i] \in Frozen
        /\ k \in fetching /\ k \in ToSet(Path[waiters[k][i]])
  BY <1>t DEF Accounted, Suspended, Frozen, Waited
<1>3. \A k, l \in Counters, i, j \in Slot :
        waiters[k][i] # None /\ waiters[k][i] = waiters[l][j] => k = l /\ i = j
  BY DEF Accounted, Suspended
<1>4. \A p \in Counters : p # c => waiters'[p] = Enter(waiters[p], from, MovedTo(c, p))
  BY <1>c DEF MovedTo
<1>5. \A i \in Slot : waiters'[c][i] = None
  <2>1. waiters'[c] = NoWaiters
    BY <1>c
  <2>. QED  BY <2>1 DEF NoWaiters
<1>6. \A p \in Counters : \A j \in MovedTo(c, p) :
        j \in Slot /\ from[j] # None /\ NextMissing(c, j) = p /\ j \in Filled(c)
  BY DEF MovedTo, Filled
<1>n. None \notin Addr /\ None \notin Counters
  BY AddressAssumption DEF Addr
<1>7. ASSUME NEW j \in Filled(c), NextMissing(c, j) # None
      PROVE  /\ NextMissing(c, j) \in Counters /\ NextMissing(c, j) # c
             /\ NextMissing(c, j) \in fetching' /\ NextMissing(c, j) \in ToSet(Path[from[j]])
  <2>1. from[j] \in Addr
    BY <1>2, <1>c DEF Filled
  <2>2. NextMissing(c, j) \in Counters \ Here(c)
    BY <1>7, <2>1, MissingOutside DEF NextMissing
  <2>3. NextMissing(c, j) \in ToSet(Path[from[j]])
    BY <1>7, <2>1, MissingInChain DEF NextMissing
  <2>4. j \in Filled(c) \ Ready(c)
    BY <1>7 DEF Ready
  <2>5. NextMissing(c, j) \in fetching \cup Started(c)
    BY <2>4 DEF Started
  <2>. QED  BY <1>c, <2>2, <2>3, <2>5 DEF Here
<1> HIDE DEF from
<1>8. ASSUME NEW k \in Counters, NEW i \in Slot, waiters'[k][i] # None
      PROVE  k \in fetching' /\ k \in ToSet(Path[waiters'[k][i]])
  <2>1. k # c
    BY <1>5, <1>8
  <2> DEFINE to == waiters[k]
             moved == MovedTo(c, k)
             E == Enter(to, from, moved)
  <2>2. waiters'[k] = E
    BY <1>4, <2>1
  <2>3. to \in [Slot -> Addr \cup {None}] /\ moved \in SUBSET Slot
    BY <1>t, <1>6
  <2> HIDE DEF to, moved
  <2>4. to[i] # None => E[i] = to[i]
    BY <2>3, EnterExact
  <2>5. to[i] = None /\ E[i] # None => \E j \in moved : E[i] = from[j]
    BY <2>3, EnterExact
  <2> HIDE DEF E
  <2>6. CASE to[i] # None
    <3>1. waiters'[k][i] = waiters[k][i] /\ waiters[k][i] # None
      BY <2>2, <2>4, <2>6 DEF to
    <3>. QED  BY <1>2, <1>c, <2>1, <3>1
  <2>7. CASE to[i] = None
    <3>1. PICK j \in moved : waiters'[k][i] = from[j]
      BY <1>8, <2>2, <2>5, <2>7
    <3>2. j \in Filled(c) /\ NextMissing(c, j) = k
      BY <1>6 DEF moved
    <3>. QED  BY <1>7, <1>n, <3>1, <3>2
  <2>. QED  BY <2>6, <2>7
<1>9. ASSUME NEW b \in Frozen'
      PROVE  \E k \in Counters, i \in Slot : waiters'[k][i] = b
  <2>1. b \in Frozen /\ b \notin Written(c) /\ b # None
    BY <1>f, <1>n DEF Frozen
  <2>2. PICK k \in Counters : \E i \in Slot : waiters[k][i] = b
    BY <2>1 DEF Waited
  <2>3. PICK i \in Slot : waiters[k][i] = b
    BY <2>2
  <2>4. CASE k # c
    <3>1. waiters[k] \in [Slot -> Addr \cup {None}] /\ MovedTo(c, k) \in SUBSET Slot
      BY <1>t, <1>6
    <3>2. Enter(waiters[k], from, MovedTo(c, k))[i] = waiters[k][i]
      BY <2>1, <2>3, <3>1, EnterExact
    <3>. QED  BY <1>4, <2>3, <2>4, <3>2
  <2>5. CASE k = c
    <3> DEFINE p == NextMissing(c, i)
               to == waiters[p]
               moved == MovedTo(c, p)
               W == Frozen
    <3>1. i \in Filled(c) /\ from[i] = b
      BY <2>1, <2>3, <2>5 DEF Filled, from
    <3>2. p # None
      <4>1. from[i] = waiters[c][i]
        BY DEF from
      <4>. QED  BY <2>1, <3>1, <4>1 DEF Written, Ready
    <3>3. p \in Counters /\ p # c /\ i \in moved
      BY <1>7, <3>1, <3>2 DEF MovedTo
    <3>4. to \in [Slot -> Addr \cup {None}] /\ moved \in SUBSET Slot
      BY <1>t, <1>6, <3>3
    <3>5. IsFiniteSet(W) /\ Cardinality(W) <= Slots
      BY DEF Waited, SlotsSuffice
    <3>6. \A x \in Slot : to[x] # None => to[x] \in W
      BY <1>2, <3>3
    <3>7. \A x, y \in Slot : to[x] # None /\ to[x] = to[y] => x = y
      BY <1>3, <3>3
    <3>8. \A j \in moved : from[j] \in W
      BY <1>2, <1>6, <1>c, <3>3 DEF from
    <3>9. \A j, l \in moved : from[j] = from[l] => j = l
      BY <1>3, <1>6, <1>c, <3>3 DEF from
    <3>10. \A x \in Slot, j \in moved : to[x] # from[j]
      BY <1>3, <1>6, <1>c, <3>3 DEF from
    <3> HIDE DEF to, moved, W
    <3>11. \E x \in Slot : Enter(to, from, moved)[x] = from[i]
      BY <3>3, <3>4, <3>5, <3>6, <3>7, <3>8, <3>9, <3>10, EnterAll
    <3>12. waiters'[p] = Enter(to, from, moved)
      BY <1>4, <3>3 DEF to, moved
    <3> HIDE DEF p
    <3>. QED  BY <3>1, <3>3, <3>11, <3>12
  <2>. QED  BY <2>4, <2>5
<1>. QED  BY <1>1, <1>8, <1>9 DEF Waited

(* A step that gives the entry of a state in which nothing is suspended. *)
LEMMA EntryCalm ==
  ASSUME NEW a \in Addr, NEW s, s \notin InEvictAuth, UNCHANGED waiters,
         fetching \subseteq fetching',
         dirState'[a] = s, \A b \in Addr : b # a => dirState'[b] \in {dirState[b], "C_M"}
  PROVE  Calm
<1>1. "C_M" \notin InEvictAuth
  BY DEF InEvictAuth
<1>. QED  BY <1>1 DEF Calm

(* No request suspends an eviction. *)
LEMMA RequestCalm ==
  ASSUME TypeOK, NEW m \in requests, OnRequest(m)
  PROVE  Calm
<1> DEFINE a == m.addr
<1>t. dirState \in [Addr -> DirState] /\ a \in Addr
  BY RequestType DEF TypeOK, DirTypeOK
<1>1. UNCHANGED waiters /\ fetching \subseteq fetching'
  BY DEF OnRequest, GrantSharedFromLLC, GrantExclusiveFromLLC, GrantUpgrade, FetchShared,
    FetchExclusive, RecallForShared, RecallForExclusive, FetchCounter, WaitForCounter,
    Bounce, StallRequest, authVars
<1>2. CASE WaitForCounter(m) \/ StallRequest(m)
  BY <1>1, <1>2 DEF WaitForCounter, StallRequest, Calm
<1>3. CASE FetchCounter(m) \/ Bounce(m)
  <2>1. \/ dirState[a] \in Stable /\ dirState' = [dirState EXCEPT ![a] = FetchAuth[@]]
        \/ dirState[a] \in InFetchAuth /\ dirState' = [dirState EXCEPT ![a] = Base[@]]
    BY <1>3 DEF FetchCounter, Accept, Bounce
  <2> HIDE DEF a
  <2>2. /\ dirState'[a] \in InFetchAuth \cup Stable
        /\ \A b \in Addr : b # a => dirState'[b] = dirState[b]
    BY <1>t, <2>1, StateMaps
  <2>3. dirState'[a] \notin InEvictAuth
    BY <2>2 DEF InFetchAuth, Stable, InEvictAuth
  <2>. QED  BY <1>t, <1>1, <2>2, <2>3, EntryCalm
<1>4. CASE \/ GrantSharedFromLLC(m) \/ GrantExclusiveFromLLC(m) \/ GrantUpgrade(m)
           \/ FetchShared(m) \/ FetchExclusive(m)
           \/ RecallForShared(m) \/ RecallForExclusive(m)
  <2>1. \E s \in {"S", "E", "IS", "IE", "SE", "ES", "EE"} : dirState' = [dirState EXCEPT ![a] = s]
    BY <1>4 DEF GrantSharedFromLLC, GrantExclusiveFromLLC, GrantUpgrade, FetchShared,
      FetchExclusive, RecallForShared, RecallForExclusive
  <2> HIDE DEF a
  <2>2. /\ dirState'[a] \in {"S", "E", "IS", "IE", "SE", "ES", "EE"}
        /\ \A b \in Addr : b # a => dirState'[b] = dirState[b]
    BY <1>t, <2>1
  <2>3. dirState'[a] \notin InEvictAuth
    BY <2>2 DEF InEvictAuth
  <2>. QED  BY <1>t, <1>1, <2>2, <2>3, EntryCalm
<1>. QED  BY <1>2, <1>3, <1>4 DEF OnRequest

(* What memory answers suspends nothing, and resumes or moves the waiters. *)
LEMMA MemoryStepWaited ==
  ASSUME TypeOK, Accounted, Waited, SlotsSuffice, NEW a \in Addr, OnMemory(a)
  PROVE  Waited'
<1>t. dirState \in [Addr -> DirState]
  BY DEF TypeOK, DirTypeOK
<1>1. CASE DataForShared(a) \/ DataForExclusive(a) \/ DataForUpgrade(a)
  <2>1. UNCHANGED <<fetching, waiters>>
    BY <1>1 DEF DataForShared, DataForExclusive, DataForUpgrade, GrantFromMemory, authVars
  <2>2. \E s \in {"S", "E"} : dirState' = [dirState EXCEPT ![a] = s]
    BY <1>1 DEF DataForShared, DataForExclusive, DataForUpgrade, GrantFromMemory
  <2>3. /\ dirState'[a] \in {"S", "E"}
        /\ \A b \in Addr : b # a => dirState'[b] = dirState[b]
    BY <1>t, <2>2
  <2>4. dirState'[a] \notin InEvictAuth
    BY <2>3 DEF InEvictAuth
  <2>. QED  BY <2>1, <2>3, <2>4, EntryCalm, CalmWaited
<1>2. ASSUME NEW i \in DOMAIN memQ[a], WritebackDone(a, i)
      PROVE  Waited'
  <2>1. /\ UNCHANGED <<fetching, waiters>> /\ dirState[a] \in InEvicting
        /\ dirState' = [dirState EXCEPT ![a] = Base[@]]
    BY <1>2 DEF WritebackDone, authVars
  <2>2. /\ dirState'[a] \in Stable
        /\ \A b \in Addr : b # a => dirState'[b] = dirState[b]
    BY <1>t, <2>1, StateMaps
  <2>3. dirState'[a] \notin InEvictAuth
    BY <2>2 DEF Stable, InEvictAuth
  <2>. QED  BY <2>1, <2>2, <2>3, EntryCalm, CalmWaited
<1>. QED  BY <1>1, <1>2, CounterWaited DEF OnMemory

(* A response suspends the write-back of a recalled line at most. *)
LEMMA ResponseStepWaited ==
  ASSUME TypeOK, Accounted, Waited, SlotsSuffice', NEW m \in responses, OnResponse(m)
  PROVE  Waited'
<1> DEFINE a == m.addr
<1>t. dirState \in [Addr -> DirState] /\ a \in Addr /\ a \in Data
  BY ResponseType, AddressAssumption DEF TypeOK, DirTypeOK, Addr
<1> HIDE DEF a
<1>1. CASE PutBlock(m) \/ FlushForShared(m) \/ FlushForExclusive(m)
  <2>1. UNCHANGED <<fetching, waiters>>
    BY <1>1 DEF PutBlock, FlushForShared, FlushForExclusive, authVars
  <2>2. \E s \in {"S", "E"} : dirState' = [dirState EXCEPT ![a] = s]
    BY <1>1 DEF PutBlock, FlushForShared, FlushForExclusive, a
  <2>3. /\ dirState'[a] \in {"S", "E"}
        /\ \A b \in Addr : b # a => dirState'[b] = dirState[b]
    BY <1>t, <2>2
  <2>4. dirState'[a] \notin InEvictAuth
    BY <2>3 DEF InEvictAuth
  <2>. QED  BY <1>t, <2>1, <2>3, <2>4, EntryCalm, CalmWaited
<1>2. CASE BounceResponse(m)
  <2>1. /\ UNCHANGED <<fetching, waiters>> /\ dirState[a] \in InFetchAuth
        /\ dirState' = [dirState EXCEPT ![a] = Base[@]]
    BY <1>2 DEF BounceResponse, FlushRep, authVars, a
  <2>2. /\ dirState'[a] \in Stable
        /\ \A b \in Addr : b # a => dirState'[b] = dirState[b]
    BY <1>t, <2>1, StateMaps
  <2>3. dirState'[a] \notin InEvictAuth
    BY <2>2 DEF Stable, InEvictAuth
  <2>. QED  BY <1>t, <2>1, <2>2, <2>3, EntryCalm, CalmWaited
<1>3. CASE FlushDirect(m)
  <2>1. /\ UNCHANGED <<fetching, waiters>>
        /\ dirState' = [b \in Addr |-> IF b = a THEN "I_Evicting"
                          ELSE IF b \in ToSet(PresentChain(a)) THEN "C_M" ELSE dirState[b]]
    BY <1>3 DEF FlushDirect, IncrementTo, authVars, a
  <2>2. /\ dirState'[a] = "I_Evicting"
        /\ \A b \in Addr : b # a => dirState'[b] \in {dirState[b], "C_M"}
    BY <1>t, <2>1
  <2>3. "I_Evicting" \notin InEvictAuth
    BY DEF InEvictAuth
  <2>. QED  BY <1>t, <2>1, <2>2, <2>3, EntryCalm, CalmWaited
<1>4. CASE FlushSuspended(m)
  <2> DEFINE c == getFirstMissingParent(a)
  <2>1. /\ dirState[a] = "E_Evict_Flush"
        /\ dirState' = [dirState EXCEPT ![a] = "I_Evict_Auth"]
        /\ fetching' = fetching \cup {c}
        /\ waiters' = [waiters EXCEPT ![c] = Enter(@, One(a), {1})]
    BY <1>4 DEF FlushSuspended, fetchCounterForEviction, One, a
  <2>2. c \in Counters /\ c \in ToSet(Path[a])
    <3>1. c # None
      BY <1>4, <1>t, FlushMissType, AddressAssumption DEF FlushSuspended, a, Addr
    <3>. QED  BY <1>t, <3>1, MissingOutside, MissingInChain DEF getFirstMissingParent
  <2> HIDE DEF c
  <2>3. /\ dirState[a] \notin InEvictAuth /\ dirState'[a] \in InEvictAuth
        /\ \A b \in Addr : b # a => dirState'[b] = dirState[b]
    BY <1>t, <2>1 DEF InEvictAuth
  <2>. QED  BY <1>t, <2>1, <2>2, <2>3, SuspendedWaited
<1>. QED  BY <1>1, <1>2, <1>3, <1>4 DEF OnResponse

(* A victim is suspended on a counter of its own branch. *)
LEMMA VictimStepWaited ==
  ASSUME TypeOK, Accounted, Waited, SlotsSuffice', NEW v \in resident, OnVictim(v)
  PROVE  Waited'
<1>t. dirState \in [Addr -> DirState] /\ v \in Addr
  BY DEF TypeOK, DirTypeOK
<1>1. CASE DropClean(v) \/ StallVictim(v)
  <2>1. UNCHANGED <<fetching, waiters, dirState>>
    BY <1>1 DEF DropClean, StallVictim, authVars, entryVars
  <2>. QED  BY <2>1, CalmWaited DEF Calm
<1>2. CASE WriteBackVictim(v)
  <2> DEFINE chain == IF dirState[v] = "C_M" THEN <<>> ELSE PresentChain(v)
  <2>1. /\ UNCHANGED <<fetching, waiters>> /\ dirState[v] \in {"I", "S", "C_M"}
        /\ dirState' = [b \in Addr |-> IF b = v THEN Evicting[dirState[v]]
                          ELSE IF b \in ToSet(chain) THEN "C_M" ELSE dirState[b]]
    BY <1>2 DEF WriteBackVictim, IncrementTo, authVars
  <2> HIDE DEF chain
  <2>2. /\ dirState'[v] \in InEvicting
        /\ \A b \in Addr : b # v => dirState'[b] \in {dirState[b], "C_M"}
    BY <1>t, <2>1, StateMaps
  <2>3. dirState'[v] \notin InEvictAuth
    BY <2>2 DEF InEvicting, InEvictAuth
  <2>. QED  BY <1>t, <2>1, <2>2, <2>3, EntryCalm, CalmWaited
<1>3. CASE RecallVictim(v)
  <2>1. /\ UNCHANGED <<fetching, waiters>>
        /\ dirState' = [dirState EXCEPT ![v] = "E_Evict_Flush"]
    BY <1>3 DEF RecallVictim, authVars
  <2>2. /\ dirState'[v] = "E_Evict_Flush" /\ dirState'[v] \notin InEvictAuth
        /\ \A b \in Addr : b # v => dirState'[b] = dirState[b]
    BY <1>t, <2>1 DEF InEvictAuth
  <2>. QED  BY <1>t, <2>1, <2>2, EntryCalm, CalmWaited
<1>4. CASE SuspendVictim(v)
  <2> DEFINE c == getFirstMissingParent(v)
  <2>1. /\ dirState[v] \in {"I", "S", "C_M"} /\ c # None
        /\ dirState' = [dirState EXCEPT ![v] = EvictAuth[@]]
        /\ fetching' = fetching \cup {c}
        /\ waiters' = [waiters EXCEPT ![c] = Enter(@, One(v), {1})]
    BY <1>4 DEF SuspendVictim, fetchCounterForEviction, One
  <2>2. c \in Counters /\ c \in ToSet(Path[v])
    BY <1>t, <2>1, MissingOutside, MissingInChain DEF getFirstMissingParent
  <2> HIDE DEF c
  <2>3. /\ dirState'[v] \in InEvictAuth
        /\ \A b \in Addr : b # v => dirState'[b] = dirState[b]
    BY <1>t, <2>1, StateMaps
  <2>4. dirState[v] \notin InEvictAuth
    BY <2>1 DEF InEvictAuth
  <2>. QED  BY <1>t, <2>1, <2>2, <2>3, <2>4, SuspendedWaited
<1>. QED  BY <1>1, <1>2, <1>3, <1>4 DEF OnVictim

LEMMA WaitedKept ==
  ASSUME TypeOK, Accounted, Waited, SlotsSuffice, SlotsSuffice', [Next]_vars
  PROVE  Waited'
<1>1. CASE UNCHANGED dirVars
  <2>1. UNCHANGED <<waiters, fetching, dirState>>
    BY <1>1 DEF dirVars, entryVars, authVars
  <2>. QED  BY <2>1, CalmWaited DEF Calm
<1>2. CASE DirStep
  BY <1>2, RequestCalm, CalmWaited, MemoryStepWaited, ResponseStepWaited, VictimStepWaited
     DEF DirStep
<1>3. CASE UNCHANGED vars
  BY <1>1, <1>3 DEF vars
<1>. QED  BY <1>1, <1>2, <1>3 DEF Next, Halt, DirUndefined

(* As long as no more evictions are suspended than an AuthTBE has slots,   *)
(* each waits in one slot, of a counter of its branch that is being read,  *)
(* and nobody else waits. The slots are a limit of the code: an eviction   *)
(* that finds all of a counter's slots taken is lost, so without a bound   *)
(* on the suspended ones the invariant does not hold.                      *)
THEOREM SuspendedIsAwaitedCorrect == Spec /\ []SlotsSuffice => []SuspendedIsAwaited
<1>1. Init => Waited
  <2> SUFFICES ASSUME Init
               PROVE  Waited
    OBVIOUS
  <2>1. /\ \A a \in Addr : dirState[a] = "I"
        /\ \A k \in Counters, i \in Slot : waiters[k][i] = None
    BY DEF Init, DirInit, NoWaiters
  <2>2. Frozen = {}
    BY <2>1 DEF Frozen, InEvictAuth
  <2>. QED  BY <2>1, <2>2, FS_EmptySet DEF Waited
<1>2. TypeOK /\ Accounted /\ Waited /\ SlotsSuffice /\ SlotsSuffice' /\ [Next]_vars => Waited'
  BY WaitedKept
<1>3. ASSUME TypeOK, Accounted, Waited
      PROVE  SuspendedIsAwaited
  <2> SUFFICES ASSUME NEW a \in Addr
               PROVE  /\ a \in Frozen =>
                           \E s \in WaitingSlots(a) :
                             /\ WaitingSlots(a) = {s}
                             /\ s[1] \in fetching /\ s[1] \in ToSet(Path[a])
                      /\ a \notin Frozen => WaitingSlots(a) = {}
    BY DEF SuspendedIsAwaited, Frozen
  <2>n. a # None
    BY AddressAssumption
  <2>1. \A s \in WaitingSlots(a) : /\ s[1] \in Counters /\ s[2] \in Slot /\ s = <<s[1], s[2]>>
                                   /\ waiters[s[1]][s[2]] = a
    BY DEF WaitingSlots
  <2>2. \A s \in WaitingSlots(a) : a \in Frozen /\ s[1] \in fetching /\ s[1] \in ToSet(Path[a])
    <3>1. ASSUME NEW k \in Counters, NEW i \in Slot, waiters[k][i] = a
          PROVE  a \in Frozen /\ k \in fetching /\ k \in ToSet(Path[a])
      BY <1>3, <2>n, <3>1 DEF Waited, Accounted, Suspended, Frozen
    <3>. QED  BY <2>1, <3>1
  <2>3. \A s, t \in WaitingSlots(a) : s = t
    <3> SUFFICES ASSUME NEW s \in WaitingSlots(a), NEW t \in WaitingSlots(a)
                 PROVE  s = t
      OBVIOUS
    <3>1. s[1] = t[1] /\ s[2] = t[2]
      BY <1>3, <2>1, <2>n DEF Accounted, Suspended
    <3>. QED  BY <2>1, <3>1
  <2>4. ASSUME a \in Frozen
        PROVE  \E s \in WaitingSlots(a) : TRUE
    <3>1. PICK k \in Counters : \E i \in Slot : waiters[k][i] = a
      BY <1>3, <2>4 DEF Waited
    <3>2. PICK i \in Slot : waiters[k][i] = a
      BY <3>1
    <3>3. <<k, i>> \in WaitingSlots(a)
      BY <3>2 DEF WaitingSlots
    <3>. QED  BY <3>3
  <2>5. ASSUME a \in Frozen
        PROVE  \E s \in WaitingSlots(a) :
                 /\ WaitingSlots(a) = {s}
                 /\ s[1] \in fetching /\ s[1] \in ToSet(Path[a])
    <3>1. PICK s \in WaitingSlots(a) : TRUE
      BY <2>4, <2>5
    <3>2. WaitingSlots(a) = {s}
      BY <2>3
    <3>. QED  BY <2>2, <3>2
  <2>. QED  BY <2>2, <2>5
<1>4. TypeOK /\ Accounted /\ Waited => SuspendedIsAwaited
  BY <1>3
<1>. QED  BY <1>1, <1>2, <1>4, Kept, PTL DEF Spec

(* In particular they do in a system of no more blocks than slots. *)
COROLLARY SuspendedIsAwaitedOfFew ==
  ASSUME IsFiniteSet(Addr), Cardinality(Addr) <= Slots
  PROVE  Spec => []SuspendedIsAwaited
<1>1. SlotsSuffice
  <2>1. Frozen \subseteq Addr
    BY DEF Frozen
  <2>2. IsFiniteSet(Frozen) /\ Cardinality(Frozen) <= Cardinality(Addr)
    BY <2>1, FS_Subset
  <2>3. Cardinality(Frozen) \in Nat /\ Cardinality(Addr) \in Nat
    BY <2>2, FS_CardinalityType
  <2>. QED  BY <2>2, <2>3, DirectoryAssumption DEF SlotsSuffice
<1>. QED  BY <1>1, SuspendedIsAwaitedCorrect, PTL
=============================================================================
