-------------------------- MODULE CacheMemoryProofs --------------------------
(* The cache array for every number of sets, lines and ways: the index and *)
(* the array agree, the victim is not a line used lately, and the array    *)
(* implements CacheLines.                                                  *)
(*                                                                         *)
(* The victim.  A bit of the tree that leads towards a line used lately    *)
(* was turned there by a later use on the other side of the node, or by    *)
(* an open way on the line's side (Guarded).  In a full set each of the    *)
(* Depth bits that would lead to the line has a later use of its own,      *)
(* since ways that part at one node agree above it: so Depth other lines   *)
(* were used after it, and it is not among the Depth last.                 *)
EXTENDS CacheMemory, FiniteSetTheorems, SequenceTheorems, TLAPS

\* No machine of the protocol gives a state the permission NotPresent.
NoNotPresent == "NotPresent" \notin Perms

\* The part of the type that the index depends on.
ArrayOK ==
  /\ m_cache \in [Sets -> [Ways -> Entries \cup {Null}]]
  /\ m_tag_index \in [Addrs -> Ways \cup {NoWay}]

BitsOK == replacement_data \in [Sets -> [1 .. Assoc - 1 -> BOOLEAN]]

IInv == ArrayOK /\ TagIndexExact

\* -1 is no way.
LEMMA NoWayIsNone == NoWay \notin Ways
BY SMT DEF NoWay, Ways

\* Every line has a set.
LEMMA SetsOfLines == \A a \in Addrs : addressToCacheSet(a) \in Sets
BY CacheAssumption DEF CacheAssumption, addressToCacheSet

\* A line that is present is found at a way of its own set.
LEMMA PresentAt ==
  ASSUME ArrayOK, NEW a \in Addrs, isTagPresent(a)
  PROVE  m_tag_index[a] \in Ways
BY DEF ArrayOK, isTagPresent, findTagInSet

\* A line is absent exactly when the index has no way for it.
LEMMA AbsentIsUnindexed ==
  ASSUME NoNotPresent, IInv, NEW a \in Addrs, ~isTagPresent(a)
  PROVE  m_tag_index[a] = NoWay
<1>1. SUFFICES ASSUME m_tag_index[a] # NoWay
               PROVE  FALSE
  OBVIOUS
<1>2. m_tag_index[a] \in Ways
  BY <1>1 DEF IInv, ArrayOK
<1>3. EntryAt(a) \in Entries
  BY <1>1, <1>2, SetsOfLines DEF IInv, ArrayOK, TagIndexExact, EntryAt
<1>4. EntryAt(a).perm # "NotPresent"
  BY <1>3 DEF Entries, NoNotPresent
<1> QED
  BY <1>1, <1>4 DEF isTagPresent, findTagInSet

\* A slot is open exactly when it is empty.
LEMMA VacantIsNull ==
  ASSUME NoNotPresent, ArrayOK, NEW s \in Sets, NEW w \in Ways, Vacant(s, w)
  PROVE  m_cache[s][w] = Null
BY DEF ArrayOK, Vacant, Entries, NoNotPresent

\* One slot of one set is written.
Write(s, w, e) == m_cache' = [m_cache EXCEPT ![s][w] = e]

\* The other slots stay as they are.
LEMMA SlotWritten ==
  ASSUME ArrayOK, NEW s \in Sets, NEW w \in Ways, NEW e \in Entries \cup {Null}, Write(s, w, e)
  PROVE  /\ m_cache' \in [Sets -> [Ways -> Entries \cup {Null}]]
         /\ m_cache'[s][w] = e
         /\ \A t \in Sets, v \in Ways : (t # s \/ v # w) => m_cache'[t][v] = m_cache[t][v]
<1>1. DOMAIN m_cache = Sets /\ DOMAIN m_cache[s] = Ways /\ m_cache' = [m_cache EXCEPT ![s][w] = e]
  BY DEF ArrayOK, Write
<1>2. m_cache'[s] = [m_cache[s] EXCEPT ![w] = e]
  BY <1>1
<1>3. m_cache'[s] \in [Ways -> Entries \cup {Null}]
  BY <1>1, <1>2 DEF ArrayOK
<1>4. \A t \in Sets : t # s => m_cache'[t] = m_cache[t]
  BY <1>1
<1>5. m_cache' \in [Sets -> [Ways -> Entries \cup {Null}]]
  BY <1>1, <1>3 DEF ArrayOK
<1> QED
  BY <1>1, <1>2, <1>4, <1>5

\* allocate keeps index and array in step.
LEMMA AllocateKeeps ==
  ASSUME NoNotPresent, IInv, NEW a \in Addrs, allocate(a)
  PROVE  IInv'
<1> DEFINE s == addressToCacheSet(a)
           e == [addr |-> a, perm |-> "Invalid", locked |-> Free]
<1>1. PICK w \in Ways : /\ ~isTagPresent(a) /\ Vacant(s, w)
                        /\ Write(s, w, e)
                        /\ m_tag_index' = [m_tag_index EXCEPT ![a] = w]
  BY DEF allocate, Write
<1>2. s \in Sets /\ e \in Entries /\ e # Null /\ e.addr = a
  BY SetsOfLines, CacheAssumption DEF CacheAssumption, Entries
<1> HIDE DEF s, e
<1>3. m_tag_index[a] = NoWay
  BY <1>1, AbsentIsUnindexed
<1>4. m_cache[s][w] = Null
  BY <1>1, <1>2, VacantIsNull DEF IInv
<1>5. /\ m_cache' \in [Sets -> [Ways -> Entries \cup {Null}]]
      /\ m_cache'[s][w] = e
      /\ \A t \in Sets, v \in Ways : (t # s \/ v # w) => m_cache'[t][v] = m_cache[t][v]
  BY <1>1, <1>2, SlotWritten DEF IInv
<1>6. /\ m_tag_index' \in [Addrs -> Ways \cup {NoWay}]
      /\ m_tag_index'[a] = w
      /\ \A b \in Addrs \ {a} : m_tag_index'[b] = m_tag_index[b]
  BY <1>1 DEF IInv, ArrayOK
<1>7. ASSUME NEW b \in Addrs, m_tag_index'[b] # NoWay
      PROVE  EntryAt(b)' # Null /\ EntryAt(b)'.addr = b
  <2>1. CASE b = a
    BY <2>1, <1>2, <1>5, <1>6 DEF EntryAt, s
  <2>2. CASE b # a
    <3>1. m_tag_index[b] = m_tag_index'[b] /\ m_tag_index[b] \in Ways
      BY <2>2, <1>6, <1>7 DEF IInv, ArrayOK
    <3>2. EntryAt(b) # Null /\ EntryAt(b).addr = b
      BY <3>1, <1>7 DEF IInv, TagIndexExact
    <3>3. EntryAt(b)' = EntryAt(b)
      BY <3>1, <3>2, <1>4, <1>5, SetsOfLines DEF EntryAt, addressToCacheSet
    <3> QED
      BY <3>2, <3>3
  <2> QED
    BY <2>1, <2>2
<1>8. ASSUME NEW t \in Sets, NEW v \in Ways, m_cache'[t][v] # Null
      PROVE  /\ addressToCacheSet(m_cache'[t][v].addr) = t
             /\ m_tag_index'[m_cache'[t][v].addr] = v
  <2>1. CASE t = s /\ v = w
    BY <2>1, <1>2, <1>5, <1>6 DEF s
  <2>2. CASE ~(t = s /\ v = w)
    <3> DEFINE b == m_cache[t][v].addr
    <3>1. m_cache'[t][v] = m_cache[t][v]
      BY <2>2, <1>5
    <3>2. b \in Addrs /\ addressToCacheSet(b) = t /\ m_tag_index[b] = v
      BY <3>1, <1>8 DEF IInv, ArrayOK, TagIndexExact, Entries
    <3>3. b # a
      BY <3>2, <1>3, NoWayIsNone
    <3> QED
      BY <3>1, <3>2, <3>3, <1>6
  <2> QED
    BY <2>1, <2>2
<1> QED
  BY <1>5, <1>6, <1>7, <1>8 DEF IInv, ArrayOK, TagIndexExact, addressToCacheSet

\* deallocate keeps index and array in step.
LEMMA DeallocateKeeps ==
  ASSUME IInv, NEW a \in Addrs, deallocate(a)
  PROVE  IInv'
<1> DEFINE s == addressToCacheSet(a)
           w == m_tag_index[a]
<1>1. /\ isTagPresent(a)
      /\ Write(s, w, Null)
      /\ m_tag_index' = [m_tag_index EXCEPT ![a] = NoWay]
  BY DEF deallocate, Write
<1>2. s \in Sets /\ w \in Ways
  BY <1>1, SetsOfLines, PresentAt DEF IInv
<1>3. m_cache[s][w].addr = a
  BY <1>1, <1>2, NoWayIsNone DEF IInv, TagIndexExact, EntryAt
<1> HIDE DEF s, w
<1>4. /\ m_cache' \in [Sets -> [Ways -> Entries \cup {Null}]]
      /\ m_cache'[s][w] = Null
      /\ \A t \in Sets, v \in Ways : (t # s \/ v # w) => m_cache'[t][v] = m_cache[t][v]
  BY <1>1, <1>2, SlotWritten DEF IInv
<1>5. /\ m_tag_index' \in [Addrs -> Ways \cup {NoWay}]
      /\ m_tag_index'[a] = NoWay
      /\ \A b \in Addrs \ {a} : m_tag_index'[b] = m_tag_index[b]
  BY <1>1 DEF IInv, ArrayOK
<1>6. ASSUME NEW b \in Addrs, m_tag_index'[b] # NoWay
      PROVE  EntryAt(b)' # Null /\ EntryAt(b)'.addr = b
  <2>1. b # a /\ m_tag_index'[b] = m_tag_index[b] /\ m_tag_index[b] \in Ways
    BY <1>5, <1>6 DEF IInv, ArrayOK
  <2>2. EntryAt(b) # Null /\ EntryAt(b).addr = b
    BY <2>1, <1>6 DEF IInv, TagIndexExact
  <2>3. addressToCacheSet(b) # s \/ m_tag_index[b] # w
    BY <2>1, <2>2, <1>3 DEF EntryAt
  <2>4. EntryAt(b)' = EntryAt(b)
    BY <2>1, <2>3, <1>4, SetsOfLines DEF EntryAt, addressToCacheSet
  <2> QED
    BY <2>2, <2>4
<1>7. ASSUME NEW t \in Sets, NEW v \in Ways, m_cache'[t][v] # Null
      PROVE  /\ addressToCacheSet(m_cache'[t][v].addr) = t
             /\ m_tag_index'[m_cache'[t][v].addr] = v
  <2> DEFINE b == m_cache[t][v].addr
  <2>1. ~(t = s /\ v = w) /\ m_cache'[t][v] = m_cache[t][v]
    BY <1>4, <1>7
  <2>2. b \in Addrs /\ addressToCacheSet(b) = t /\ m_tag_index[b] = v
    BY <2>1, <1>7 DEF IInv, ArrayOK, TagIndexExact, Entries
  <2>3. b # a
    BY <2>1, <2>2 DEF s, w
  <2> QED
    BY <2>1, <2>2, <2>3, <1>5
<1> QED
  BY <1>4, <1>5, <1>6, <1>7 DEF IInv, ArrayOK, TagIndexExact, addressToCacheSet

\* A step that leaves the index alone and gives every entry back as an entry
\* with the same tag.
LEMMA TagsKept ==
  ASSUME IInv, m_cache' \in [Sets -> [Ways -> Entries \cup {Null}]],
         UNCHANGED m_tag_index,
         \A t \in Sets, v \in Ways :
           /\ m_cache'[t][v] = Null <=> m_cache[t][v] = Null
           /\ m_cache[t][v] # Null => m_cache'[t][v].addr = m_cache[t][v].addr
  PROVE  IInv'
<1>1. ASSUME NEW b \in Addrs, m_tag_index[b] # NoWay
      PROVE  EntryAt(b)' # Null /\ EntryAt(b)'.addr = b
  <2>1. m_tag_index[b] \in Ways /\ EntryAt(b) # Null /\ EntryAt(b).addr = b
    BY <1>1 DEF IInv, ArrayOK, TagIndexExact
  <2> QED
    BY <2>1, SetsOfLines DEF EntryAt, addressToCacheSet
<1>2. ASSUME NEW t \in Sets, NEW v \in Ways, m_cache'[t][v] # Null
      PROVE  /\ addressToCacheSet(m_cache'[t][v].addr) = t
             /\ m_tag_index[m_cache'[t][v].addr] = v
  BY <1>2 DEF IInv, TagIndexExact
<1> QED
  BY <1>1, <1>2 DEF IInv, ArrayOK, TagIndexExact, addressToCacheSet

\* changePermission and the locks change a field of an entry that is there.
LEMMA FieldWritten ==
  ASSUME IInv, NEW s \in Sets, NEW w \in Ways, NEW e \in Entries,
         m_cache[s][w] # Null, e.addr = m_cache[s][w].addr,
         Write(s, w, e), UNCHANGED m_tag_index
  PROVE  IInv'
<1>1. /\ m_cache' \in [Sets -> [Ways -> Entries \cup {Null}]]
      /\ m_cache'[s][w] = e
      /\ \A t \in Sets, v \in Ways : (t # s \/ v # w) => m_cache'[t][v] = m_cache[t][v]
  BY SlotWritten DEF IInv
<1>2. e # Null
  BY CacheAssumption DEF CacheAssumption
<1> QED
  BY <1>1, <1>2, TagsKept

\* The entry that a present line leads to.
LEMMA EntryIsThere ==
  ASSUME IInv, NEW a \in Addrs, isTagPresent(a)
  PROVE  EntryAt(a) \in Entries /\ EntryAt(a).addr = a
BY SetsOfLines, PresentAt, NoWayIsNone DEF IInv, ArrayOK, TagIndexExact, EntryAt

\* The array is empty at first.
LEMMA InitIndex == Init => IInv
BY DEF Init, IInv, ArrayOK, TagIndexExact

\* Every step keeps index and array in step.
LEMMA NextIndex == NoNotPresent /\ IInv /\ [Next]_vars => IInv'
<1> SUFFICES ASSUME NoNotPresent, IInv, [Next]_vars
             PROVE  IInv'
  OBVIOUS
<1>1. ASSUME NEW a \in Addrs, setMRU(a)
      PROVE  IInv'
  BY <1>1, TagsKept DEF setMRU, IInv, ArrayOK
<1>2. ASSUME NEW a \in Addrs, NEW perm \in Perms, changePermission(a, perm)
      PROVE  IInv'
  <2> DEFINE e == [EntryAt(a) EXCEPT !.perm = perm]
  <2>1. isTagPresent(a) /\ UNCHANGED m_tag_index
    BY <1>2 DEF changePermission
  <2>2. m_cache' = [m_cache EXCEPT ![addressToCacheSet(a)][m_tag_index[a]] = e]
    BY <1>2, <2>1, PresentAt, SetsOfLines DEF changePermission, EntryAt, IInv, ArrayOK
  <2>3. e \in Entries /\ e.addr = EntryAt(a).addr /\ EntryAt(a) # Null
    BY <2>1, EntryIsThere, CacheAssumption DEF Entries, CacheAssumption
  <2>4. /\ addressToCacheSet(a) \in Sets /\ m_tag_index[a] \in Ways
        /\ m_cache[addressToCacheSet(a)][m_tag_index[a]] = EntryAt(a)
    BY <2>1, PresentAt, SetsOfLines DEF EntryAt, IInv
  <2>5. Write(addressToCacheSet(a), m_tag_index[a], e)
    BY <2>2 DEF Write
  <2> HIDE DEF e
  <2> QED
    BY <2>1, <2>3, <2>4, <2>5, FieldWritten
<1>3. ASSUME NEW a \in Addrs, NEW context \in Contexts \cup {Free}, SetLock(a, context)
      PROVE  IInv'
  <2> DEFINE e == [EntryAt(a) EXCEPT !.locked = context]
  <2>1. isTagPresent(a) /\ UNCHANGED m_tag_index
    BY <1>3 DEF SetLock
  <2>2. m_cache' = [m_cache EXCEPT ![addressToCacheSet(a)][m_tag_index[a]] = e]
    BY <1>3, <2>1, PresentAt, SetsOfLines DEF SetLock, EntryAt, IInv, ArrayOK
  <2>3. e \in Entries /\ e.addr = EntryAt(a).addr /\ EntryAt(a) # Null
    BY <2>1, EntryIsThere, CacheAssumption DEF Entries, CacheAssumption
  <2>4. /\ addressToCacheSet(a) \in Sets /\ m_tag_index[a] \in Ways
        /\ m_cache[addressToCacheSet(a)][m_tag_index[a]] = EntryAt(a)
    BY <2>1, PresentAt, SetsOfLines DEF EntryAt, IInv
  <2>5. Write(addressToCacheSet(a), m_tag_index[a], e)
    BY <2>2 DEF Write
  <2> HIDE DEF e
  <2> QED
    BY <2>1, <2>3, <2>4, <2>5, FieldWritten
<1>4. ASSUME NEW context \in Contexts, clearLockedAll(context)
      PROVE  IInv'
  <2>1. UNCHANGED m_tag_index
    BY <1>4 DEF clearLockedAll
  <2>2. ASSUME NEW t \in Sets, NEW v \in Ways
        PROVE  /\ m_cache'[t][v] \in Entries \cup {Null}
               /\ m_cache'[t][v] = Null <=> m_cache[t][v] = Null
               /\ m_cache[t][v] # Null => m_cache'[t][v].addr = m_cache[t][v].addr
    <3> DEFINE e == m_cache[t][v]
               f == [e EXCEPT !.locked = Free]
    <3>1. m_cache'[t][v] = IF e # Null /\ e.locked = context THEN f ELSE e
      BY <1>4 DEF clearLockedAll
    <3>2. e \in Entries \cup {Null}
      BY DEF IInv, ArrayOK
    <3> HIDE DEF e
    <3>3. e # Null => f \in Entries /\ f.addr = e.addr
      BY <3>2 DEF Entries
    <3>4. Null \notin Entries
      BY CacheAssumption DEF CacheAssumption
    <3> HIDE DEF f
    <3> QED
      BY <3>1, <3>2, <3>3, <3>4 DEF e
  <2>3. m_cache' \in [Sets -> [Ways -> Entries \cup {Null}]]
    BY <1>4, <2>2 DEF clearLockedAll
  <2> QED
    BY <2>1, <2>2, <2>3, TagsKept
<1>5. CASE UNCHANGED vars
  BY <1>5 DEF vars, IInv, ArrayOK, TagIndexExact, EntryAt, addressToCacheSet
<1> QED
  BY <1>1, <1>2, <1>3, <1>4, <1>5, AllocateKeeps, DeallocateKeeps
  DEF Next, setLocked, clearLocked

\* The index and the array agree after any sequence of calls, as long as no
\* entry is given the permission NotPresent (allocate, deallocate).
THEOREM TagIndexCorrect ==
  ASSUME NoNotPresent
  PROVE  Spec => []TagIndexExact
<1>1. Init => IInv
  BY InitIndex
<1>2. IInv /\ [Next]_vars => IInv'
  BY NextIndex
<1>3. IInv => TagIndexExact
  BY DEF IInv
<1> QED
  BY <1>1, <1>2, <1>3, PTL DEF Spec

-----------------------------------------------------------------------------
(* The replacement bits keep their type. *)

\* The bits of a set stay bits when a way is used or freed.
LEMMA BitsOfWay ==
  ASSUME NEW bits \in [1 .. Assoc - 1 -> BOOLEAN], NEW w \in Ways
  PROVE  /\ PointAway(bits, w) \in [1 .. Assoc - 1 -> BOOLEAN]
         /\ PointAt(bits, w) \in [1 .. Assoc - 1 -> BOOLEAN]
<1>1. \A p \in Above(w) : p.right \in BOOLEAN
  <2> DEFINE node(k) == (Assoc + w) \div Twos[k]
             side(k) == ((Assoc + w) \div Twos[k - 1]) % 2
  <2>1. Above(w) = {[node |-> node(k), right |-> side(k) = 1] : k \in 1 .. Depth}
    BY Zenon DEF Above
  <2> HIDE DEF node, side
  <2> SUFFICES ASSUME NEW p \in Above(w)
               PROVE  p.right \in BOOLEAN
    OBVIOUS
  <2>2. PICK k \in 1 .. Depth : p = [node |-> node(k), right |-> side(k) = 1]
    BY <2>1, Zenon
  <2>3. CASE side(k) = 1
    BY <2>2, <2>3
  <2>4. CASE side(k) # 1
    BY <2>2, <2>4
  <2> QED
    BY <2>3, <2>4
<1>2. ASSUME NEW n \in 1 .. Assoc - 1, \E p \in Above(w) : p.node = n
      PROVE  (CHOOSE p \in Above(w) : p.node = n).right \in BOOLEAN
  BY <1>1, <1>2
<1>3. \A n \in 1 .. Assoc - 1 : bits[n] \in BOOLEAN /\ DOMAIN bits = 1 .. Assoc - 1
  OBVIOUS
<1>4. PointAway(bits, w) \in [1 .. Assoc - 1 -> BOOLEAN]
  BY <1>2, <1>3, Zenon DEF PointAway
<1>5. PointAt(bits, w) \in [1 .. Assoc - 1 -> BOOLEAN]
  BY <1>2, <1>3, Zenon DEF PointAt
<1> QED
  BY <1>4, <1>5

\* touch, reset and invalidate write the bits of one set.
LEMMA BitsWritten ==
  ASSUME BitsOK, NEW s \in Sets, NEW new \in [1 .. Assoc - 1 -> BOOLEAN],
         replacement_data' = [replacement_data EXCEPT ![s] = new]
  PROVE  BitsOK'
BY DEF BitsOK

\* A use keeps the type of the bits.
LEMMA UseKeepsBits ==
  ASSUME BitsOK, NEW s \in Sets, NEW w \in Ways, NEW a, Use(s, w, a)
  PROVE  BitsOK'
<1>1. replacement_data' = [replacement_data EXCEPT ![s] = PointAway(replacement_data[s], w)]
  BY DEF Use
<1>2. PointAway(replacement_data[s], w) \in [1 .. Assoc - 1 -> BOOLEAN]
  BY BitsOfWay DEF BitsOK
<1> QED
  BY <1>1, <1>2, BitsWritten

\* Every step keeps the type of the bits.
LEMMA NextBits == IInv /\ BitsOK /\ [Next]_vars => BitsOK'
<1> SUFFICES ASSUME IInv, BitsOK, [Next]_vars
             PROVE  BitsOK'
  OBVIOUS
<1>1. ASSUME NEW a \in Addrs, allocate(a)
      PROVE  BitsOK'
  <2>1. PICK w \in Ways : Use(addressToCacheSet(a), w, a)
    BY <1>1 DEF allocate
  <2> QED
    BY <2>1, SetsOfLines, UseKeepsBits
<1>2. ASSUME NEW a \in Addrs, deallocate(a)
      PROVE  BitsOK'
  <2> DEFINE s == addressToCacheSet(a)
             new == PointAt(replacement_data[s], m_tag_index[a])
  <2>1. s \in Sets /\ m_tag_index[a] \in Ways
    BY <1>2, SetsOfLines, PresentAt DEF deallocate, IInv
  <2>2. replacement_data' = [replacement_data EXCEPT ![s] = new]
    BY <1>2 DEF deallocate
  <2>3. new \in [1 .. Assoc - 1 -> BOOLEAN]
    BY <2>1, BitsOfWay DEF BitsOK
  <2> HIDE DEF s, new
  <2> QED
    BY <2>1, <2>2, <2>3, BitsWritten
<1>3. ASSUME NEW a \in Addrs, setMRU(a)
      PROVE  BitsOK'
  <2>1. m_tag_index[a] \in Ways /\ Use(addressToCacheSet(a), m_tag_index[a], a)
    BY <1>3, PresentAt DEF setMRU, IInv
  <2> QED
    BY <2>1, SetsOfLines, UseKeepsBits
<1>4. CASE UNCHANGED replacement_data
  BY <1>4 DEF BitsOK
<1>5. ASSUME NEW a \in Addrs, NEW perm \in Perms, changePermission(a, perm)
      PROVE  UNCHANGED replacement_data
  BY <1>5 DEF changePermission
<1>6. ASSUME NEW a \in Addrs, NEW context, SetLock(a, context)
      PROVE  UNCHANGED replacement_data
  BY <1>6 DEF SetLock
<1>7. ASSUME NEW context \in Contexts, clearLockedAll(context)
      PROVE  UNCHANGED replacement_data
  BY <1>7 DEF clearLockedAll
<1>8. CASE UNCHANGED vars
  BY <1>8, <1>4 DEF vars
<1> QED
  BY <1>1, <1>2, <1>3, <1>4, <1>5, <1>6, <1>7, <1>8 DEF Next, setLocked, clearLocked

\* allocate never writes past the last way of a set, and every slot, index
\* and replacement bit keeps its type.
THEOREM CacheTypeCorrect ==
  ASSUME NoNotPresent
  PROVE  Spec => []TypeOK
<1>1. Init => IInv /\ BitsOK
  BY InitIndex DEF Init, BitsOK
<1>2. IInv /\ BitsOK /\ [Next]_vars => (IInv /\ BitsOK)'
  BY NextIndex, NextBits
<1>3. IInv /\ BitsOK => TypeOK
  BY DEF IInv, ArrayOK, BitsOK, TypeOK
<1> QED
  BY <1>1, <1>2, <1>3, PTL DEF Spec

-----------------------------------------------------------------------------
(* Powers of two. *)

(* A nonempty set of naturals has a least element. *)
LEMMA LeastOfNaturals ==
  ASSUME NEW S \in SUBSET Nat, S # {}
  PROVE  \E x \in S : \A y \in S : x <= y
<1> DEFINE Less == {p \in Nat \X Nat : p[1] < p[2]}
<1>1. IsWellFoundedOn(Less, Nat)
  BY NatLessThanWellFounded DEF OpToRel
<1>2. \A y, z \in Nat : y < z => <<y, z>> \in Less
  OBVIOUS
<1> HIDE DEF Less
<1>3. PICK x \in S : \A y \in S : ~(<<y, x>> \in Less)
  BY <1>1, WFMin
<1>4. \A y \in S : y \in Nat /\ x \in Nat
  BY <1>3
<1>5. \A y \in S : ~(y < x)
  BY <1>2, <1>3, <1>4
<1> QED
  BY <1>4, <1>5

(* What holds of 0 and of the successor of each n of which it holds, holds *)
(* of every natural.                                                       *)
LEMMA Induct ==
  ASSUME NEW T, 0 \in T, \A n \in Nat : n \in T => n + 1 \in T
  PROVE  Nat \subseteq T
<1> SUFFICES ASSUME Nat \ T # {}
             PROVE  FALSE
  OBVIOUS
<1>1. PICK m \in Nat \ T : \A n \in Nat \ T : m <= n
  BY LeastOfNaturals
<1>2. m # 0 /\ m - 1 \in Nat
  OBVIOUS
<1>3. m - 1 \in T
  BY <1>1, <1>2
<1>4. (m - 1) + 1 \in T
  BY <1>2, <1>3
<1> QED
  BY <1>4

(* The first n + 1 powers. *)
Powers(g, n) ==
  /\ g \in [0 .. n -> Nat] /\ g[0] = 1
  /\ \A k \in 1 .. n : g[k] = 2 * g[k - 1]

\* There are as many powers as one asks for ...
LEMMA SomePowers == \A n \in Nat : \E g : Powers(g, n)
<1> DEFINE T == {n \in Nat : \E g : Powers(g, n)}
<1>1. 0 \in T
  <2>1. Powers([k \in 0 .. 0 |-> 1], 0)
    BY DEF Powers
  <2> QED
    BY <2>1
<1>2. ASSUME NEW n \in Nat, n \in T
      PROVE  n + 1 \in T
  <2>1. PICK g : Powers(g, n)
    BY <1>2
  <2> DEFINE h == [k \in 0 .. n + 1 |-> IF k <= n THEN g[k] ELSE 2 * g[n]]
  <2>2. Powers(h, n + 1)
    <3>1. h \in [0 .. n + 1 -> Nat] /\ h[0] = 1
      BY <2>1 DEF Powers
    <3>2. ASSUME NEW k \in 1 .. n + 1
          PROVE  h[k] = 2 * h[k - 1]
      BY <2>1 DEF Powers
    <3> QED
      BY <3>1, <3>2 DEF Powers
  <2> QED
    BY <2>2
<1> HIDE DEF T
<1>3. Nat \subseteq T
  BY <1>1, <1>2, Induct
<1> QED
  BY <1>3 DEF T

\* ... and they are the same however many there are.
LEMMA SamePowers ==
  ASSUME NEW m \in Nat, NEW n \in Nat, NEW g, NEW h, Powers(g, m), Powers(h, n)
  PROVE  \A k \in Nat : k <= m /\ k <= n => g[k] = h[k]
<1> DEFINE T == {k \in Nat : k <= m /\ k <= n => g[k] = h[k]}
<1>1. 0 \in T
  BY DEF Powers
<1>2. ASSUME NEW k \in Nat, k \in T
      PROVE  k + 1 \in T
  <2> SUFFICES ASSUME k + 1 <= m, k + 1 <= n
               PROVE  g[k + 1] = h[k + 1]
    OBVIOUS
  <2>1. g[k] = h[k]
    BY <1>2
  <2>2. k + 1 \in 1 .. m /\ k + 1 \in 1 .. n /\ (k + 1) - 1 = k
    OBVIOUS
  <2>3. g[k + 1] = 2 * g[k] /\ h[k + 1] = 2 * h[k]
    BY <2>2 DEF Powers
  <2> QED
    BY <2>1, <2>3
<1> HIDE DEF T
<1>3. Nat \subseteq T
  BY <1>1, <1>2, Induct
<1> QED
  BY <1>3 DEF T

(* Twos is well defined, and no other function satisfies its equation. *)
LEMMA TwosDef == \A n \in Nat : Twos[n] = IF n = 0 THEN 1 ELSE 2 * Twos[n - 1]
<1> DEFINE some(n) == CHOOSE g : Powers(g, n)
           f == [n \in Nat |-> some(n)[n]]
<1>1. \A n \in Nat : Powers(some(n), n)
  BY SomePowers
<1> HIDE DEF some
<1>2. ASSUME NEW n \in Nat
      PROVE  f[n] = IF n = 0 THEN 1 ELSE 2 * f[n - 1]
  <2>1. CASE n = 0
    BY <1>1, <2>1 DEF Powers
  <2>2. CASE n # 0
    <3>1. n - 1 \in Nat /\ n \in 1 .. n
      BY <2>2
    <3>2. some(n)[n] = 2 * some(n)[n - 1]
      BY <1>1, <3>1 DEF Powers
    <3>3. some(n)[n - 1] = some(n - 1)[n - 1]
      BY <1>1, <3>1, SamePowers
    <3> QED
      BY <2>2, <3>1, <3>2, <3>3
  <2> QED
    BY <2>1, <2>2
<1>3. f = [n \in Nat |-> IF n = 0 THEN 1 ELSE 2 * f[n - 1]]
  BY <1>2
<1> DEFINE IsTwos(g) == g = [n \in Nat |-> IF n = 0 THEN 1 ELSE 2 * g[n - 1]]
<1> HIDE DEF f
<1>4. IsTwos(f)
  BY <1>3
<1>5. Twos = CHOOSE g : IsTwos(g)
  BY DEF Twos
<1> HIDE DEF IsTwos
<1>6. IsTwos(Twos)
  BY <1>4, <1>5
<1>7. Twos = [n \in Nat |-> IF n = 0 THEN 1 ELSE 2 * Twos[n - 1]]
  BY <1>6 DEF IsTwos
<1> QED
  BY <1>7

\* Powers of two are positive, double from one to the next, and grow.
LEMMA TwosType == \A n \in Nat : Twos[n] \in Nat \ {0}
<1> DEFINE T == {n \in Nat : Twos[n] \in Nat \ {0}}
<1>1. 0 \in T
  BY TwosDef
<1>2. ASSUME NEW n \in Nat, n \in T
      PROVE  n + 1 \in T
  <2>1. Twos[n + 1] = 2 * Twos[n]
    BY TwosDef
  <2> QED
    BY <1>2, <2>1
<1> HIDE DEF T
<1>3. Nat \subseteq T
  BY <1>1, <1>2, Induct
<1> QED
  BY <1>3 DEF T

\* The first power is one, and each is twice the one before it.
LEMMA TwosNext == Twos[0] = 1 /\ \A n \in Nat : Twos[n + 1] = 2 * Twos[n]
  BY TwosDef

\* The same of one power.
LEMMA TwosStep ==
  ASSUME NEW k \in Nat
  PROVE  Twos[k] \in Nat /\ Twos[k] > 0 /\ Twos[k + 1] = 2 * Twos[k]
BY TwosType, TwosNext

\* A later power is no smaller.
LEMMA TwosGrow ==
  ASSUME NEW m \in Nat, NEW d \in Nat
  PROVE  Twos[m] <= Twos[m + d]
<1> DEFINE T == {n \in Nat : Twos[m] <= Twos[m + n]}
<1>1. 0 \in T
  BY TwosType
<1>2. ASSUME NEW n \in Nat, n \in T
      PROVE  n + 1 \in T
  <2>1. Twos[(m + n) + 1] = 2 * Twos[m + n] /\ (m + n) + 1 = m + (n + 1)
    BY TwosNext
  <2>2. Twos[m + n] \in Nat /\ Twos[m] \in Nat
    BY TwosType
  <2> QED
    BY <1>2, <2>1, <2>2
<1> HIDE DEF T
<1>3. Nat \subseteq T
  BY <1>1, <1>2, Induct
<1> QED
  BY <1>3 DEF T

\* The same with both exponents named.
LEMMA TwosMono == \A m, n \in Nat : m <= n => Twos[m] <= Twos[n]
<1> SUFFICES ASSUME NEW m \in Nat, NEW n \in Nat, m <= n
             PROVE  Twos[m] <= Twos[n]
  OBVIOUS
<1> DEFINE d == n - m
<1>1. d \in Nat /\ m + d = n
  OBVIOUS
<1> HIDE DEF d
<1>2. Twos[m] <= Twos[m + d]
  BY <1>1, TwosGrow
<1> QED
  BY <1>1, <1>2

(* Division by a power of two, a halving at a time. *)
LEMMA DivNat == ASSUME NEW a \in Nat, NEW b \in Nat, b > 0 PROVE a \div b \in Nat
OBVIOUS

\* The division may be followed by a halving.
LEMMA ThenHalve ==
  ASSUME NEW a \in Nat, NEW b \in Nat, b > 0
  PROVE  (a \div b) \div 2 = a \div (2 * b)
OBVIOUS

\* The division may follow a halving.
LEMMA HalveFirst ==
  ASSUME NEW a \in Nat, NEW b \in Nat, b > 0
  PROVE  (a \div 2) \div b = a \div (2 * b)
OBVIOUS

-----------------------------------------------------------------------------
(* The replacement tree. *)

(* The node k levels above the leaf of a way, and the side the way is on. *)
Node(w, k)  == (Assoc + w) \div Twos[k]
Right(w, k) == Node(w, k - 1) % 2 = 1

\* The tree has at least one level, and 2 ^ Depth ways.
LEMMA DepthType == Depth \in Nat /\ Depth > 0 /\ Assoc \in Nat /\ Assoc > 0 /\ Assoc = Twos[Depth]
  BY CacheAssumption, TwosType DEF CacheAssumption, Assoc

\* Above in terms of Node and Right.
LEMMA AboveIs ==
  ASSUME NEW w \in Ways
  PROVE  /\ \A k \in 1 .. Depth : [node |-> Node(w, k), right |-> Right(w, k)] \in Above(w)
         /\ \A p \in Above(w) :
              \E k \in 1 .. Depth : p = [node |-> Node(w, k), right |-> Right(w, k)]
BY DEF Above, Node, Right

\* The leaf of a way, and each node as the half of the one below.
LEMMA NodeHalves ==
  ASSUME NEW w \in Ways
  PROVE  /\ Node(w, 0) = Assoc + w
         /\ \A k \in Nat : Node(w, k) \in Nat /\ Node(w, k + 1) = Node(w, k) \div 2
<1> DEFINE x == Assoc + w
<1>1. x \in Nat
  BY DepthType DEF Ways
<1>2. Node(w, 0) = x
  BY <1>1, TwosNext DEF Node
<1>3. ASSUME NEW k \in Nat
      PROVE  Node(w, k) \in Nat /\ Node(w, k + 1) = Node(w, k) \div 2
  <2> DEFINE t == Twos[k]
  <2>1. t \in Nat /\ t > 0 /\ Twos[k + 1] = 2 * t
    BY TwosType, TwosNext
  <2>2. Node(w, k) = x \div t /\ Node(w, k + 1) = x \div (2 * t)
    BY <2>1 DEF Node
  <2> HIDE DEF t, x
  <2>3. x \div t \in Nat /\ (x \div t) \div 2 = x \div (2 * t)
    BY <1>1, <2>1, DivNat, ThenHalve
  <2> QED
    BY <2>2, <2>3
<1> QED
  BY <1>2, <1>3

\* The nodes k levels above the leaves lie between two powers of two.
LEMMA NodeRange ==
  ASSUME NEW w \in Ways
  PROVE  \A k \in 0 .. Depth :
           Twos[Depth - k] <= Node(w, k) /\ Node(w, k) < 2 * Twos[Depth - k]
<1> DEFINE T == {k \in Nat : k <= Depth =>
                   Twos[Depth - k] <= Node(w, k) /\ Node(w, k) < 2 * Twos[Depth - k]}
<1>1. 0 \in T
  BY NodeHalves, DepthType DEF Ways
<1>2. ASSUME NEW k \in Nat, k \in T
      PROVE  k + 1 \in T
  <2> SUFFICES ASSUME k + 1 <= Depth
               PROVE  /\ Twos[Depth - (k + 1)] <= Node(w, k + 1)
                      /\ Node(w, k + 1) < 2 * Twos[Depth - (k + 1)]
    OBVIOUS
  <2> DEFINE j == Depth - (k + 1)
             t == Twos[j]
             n == Node(w, k)
  <2>1. j \in Nat /\ j + 1 = Depth - k
    BY DepthType
  <2>2. t \in Nat /\ Twos[j + 1] = 2 * t
    BY <2>1, TwosType, TwosNext
  <2>3. n \in Nat /\ Node(w, k + 1) = n \div 2
    BY NodeHalves
  <2>4. 2 * t <= n /\ n < 2 * (2 * t)
    BY <1>2, <2>1, <2>2, DepthType
  <2> HIDE DEF n, t, j
  <2>5. t <= n \div 2 /\ n \div 2 < 2 * t
    BY <2>2, <2>3, <2>4
  <2> QED
    BY <2>3, <2>5 DEF t, j
<1> HIDE DEF T
<1>3. Nat \subseteq T
  BY <1>1, <1>2, Induct
<1> QED
  BY <1>3, DepthType DEF T

(* The nodes above a leaf are nodes of the tree, and nodes of different    *)
(* levels differ.                                                          *)
LEMMA NodeInTree ==
  ASSUME NEW w \in Ways, NEW k \in 1 .. Depth
  PROVE  Node(w, k) \in 1 .. Assoc - 1
<1> DEFINE d == Depth - k
<1>1. d \in Nat /\ d + 1 \in Nat /\ d + 1 <= Depth /\ k \in Nat /\ k \in 0 .. Depth
  BY DepthType
<1>2. Twos[d] <= Node(w, k) /\ Node(w, k) < 2 * Twos[d] /\ Node(w, k) \in Nat
  BY <1>1, NodeRange, NodeHalves
<1> HIDE DEF d
<1>3. Twos[d] \in Nat /\ Twos[d] > 0 /\ Twos[d + 1] = 2 * Twos[d]
  BY <1>1, TwosType, TwosNext
<1>4. Twos[d + 1] <= Assoc
  BY <1>1, TwosMono, DepthType
<1> QED
  BY <1>2, <1>3, <1>4, DepthType

\* Nodes of different levels differ, whatever the ways.
LEMMA LevelsApart ==
  ASSUME NEW w \in Ways, NEW u \in Ways, NEW k \in 1 .. Depth, NEW l \in 1 .. Depth, k < l
  PROVE  Node(w, k) # Node(u, l)
<1> DEFINE d == Depth - l
           e == Depth - k
<1>1. /\ d \in Nat /\ e \in Nat /\ d + 1 \in Nat /\ d + 1 <= e
      /\ k \in Nat /\ l \in Nat /\ k \in 0 .. Depth /\ l \in 0 .. Depth
  BY DepthType
<1>2. Twos[e] <= Node(w, k) /\ Node(u, l) < 2 * Twos[d]
      /\ Node(w, k) \in Nat /\ Node(u, l) \in Nat
  BY <1>1, NodeRange, NodeHalves
<1> HIDE DEF d, e
<1>3. Twos[d + 1] = 2 * Twos[d] /\ Twos[d] \in Nat /\ Twos[e] \in Nat
  BY <1>1, TwosNext, TwosType
<1>4. Twos[d + 1] <= Twos[e]
  BY <1>1, TwosMono
<1> QED
  BY <1>2, <1>3, <1>4

(* Two ways that meet in a node go on together. *)
LEMMA MeetForGood ==
  ASSUME NEW w \in Ways, NEW u \in Ways, NEW k \in Nat, Node(w, k) = Node(u, k)
  PROVE  \A l \in Nat : l > k => Node(w, l) = Node(u, l) /\ Right(w, l) = Right(u, l)
<1> DEFINE T == {d \in Nat : Node(w, k + d) = Node(u, k + d)}
<1>1. 0 \in T
  OBVIOUS
<1>2. ASSUME NEW d \in Nat, d \in T
      PROVE  d + 1 \in T
  <2>1. k + d \in Nat /\ k + (d + 1) = (k + d) + 1
    OBVIOUS
  <2>2. Node(w, (k + d) + 1) = Node(u, (k + d) + 1)
    BY <1>2, <2>1, NodeHalves
  <2> QED
    BY <2>1, <2>2
<1> HIDE DEF T
<1>3. Nat \subseteq T
  BY <1>1, <1>2, Induct
<1>4. ASSUME NEW l \in Nat, l >= k
      PROVE  Node(w, l) = Node(u, l)
  <2>1. l - k \in Nat /\ k + (l - k) = l
    BY <1>4
  <2>2. Node(w, k + (l - k)) = Node(u, k + (l - k))
    BY <1>3, <2>1 DEF T
  <2> QED
    BY <2>1, <2>2
<1>5. ASSUME NEW l \in Nat, l > k
      PROVE  Right(w, l) = Right(u, l)
  <2>1. l - 1 \in Nat /\ l - 1 >= k
    BY <1>5
  <2>2. Node(w, l - 1) = Node(u, l - 1)
    BY <1>4, <2>1
  <2> QED
    BY <2>2 DEF Right
<1> QED
  BY <1>4, <1>5

(* Whatever the bits, following them from the root leads to a way. *)
LEMMA VictimExists ==
  ASSUME NEW bits \in [1 .. Assoc - 1 -> BOOLEAN]
  PROVE  \E w \in Ways : \A k \in 1 .. Depth : bits[Node(w, k)] = Right(w, k)
<1> DEFINE Follows(x, d) == \A k \in 1 .. d :
                              bits[x \div Twos[k]] = ((x \div Twos[k - 1]) % 2 = 1)
           T == {d \in Nat : d <= Depth =>
                   \E x \in Nat : Twos[d] <= x /\ x < 2 * Twos[d] /\ Follows(x, d)}
<1>1. 0 \in T
  <2>1. 1 \in Nat /\ Twos[0] <= 1 /\ 1 < 2 * Twos[0] /\ Follows(1, 0)
    BY TwosNext
  <2> QED
    BY <2>1
<1>2. ASSUME NEW d \in Nat, d \in T
      PROVE  d + 1 \in T
  <2> SUFFICES ASSUME d + 1 <= Depth
               PROVE  \E y \in Nat : Twos[d + 1] <= y /\ y < 2 * Twos[d + 1] /\ Follows(y, d + 1)
    OBVIOUS
  <2>1. PICK x \in Nat : Twos[d] <= x /\ x < 2 * Twos[d] /\ Follows(x, d)
    BY <1>2, DepthType
  <2> DEFINE b == IF bits[x] THEN 1 ELSE 0
             y == 2 * x + b
  <2>2. x \in 1 .. Assoc - 1
    <3>1. Twos[d] \in Nat \ {0} /\ Twos[d + 1] = 2 * Twos[d]
      BY TwosType, TwosNext
    <3>2. d + 1 \in Nat /\ Depth \in Nat
      BY DepthType
    <3>3. Twos[d + 1] <= Assoc
      BY <3>2, TwosMono, DepthType
    <3> QED
      BY <2>1, <3>1, <3>3, DepthType
  <2>3. b \in {0, 1} /\ (bits[x] <=> b = 1) /\ bits[x] \in BOOLEAN
    BY <2>2
  <2> HIDE DEF b
  <2>4. y \in Nat /\ y \div 2 = x /\ y % 2 = b
    BY <2>3
  <2>5. Twos[d + 1] <= y /\ y < 2 * Twos[d + 1]
    <3>1. Twos[d + 1] = 2 * Twos[d] /\ Twos[d] \in Nat
      BY TwosType, TwosNext
    <3> QED
      BY <2>1, <2>3, <3>1
  <2> HIDE DEF y
  <2>6. ASSUME NEW k \in Nat
        PROVE  y \div Twos[k + 1] = x \div Twos[k]
    <3>1. Twos[k] \in Nat /\ Twos[k] > 0 /\ Twos[k + 1] = 2 * Twos[k]
      BY TwosStep
    <3>2. (y \div 2) \div Twos[k] = y \div (2 * Twos[k])
      BY <2>4, <3>1, HalveFirst
    <3> QED
      BY <2>4, <3>1, <3>2
  <2>7. ASSUME NEW k \in 1 .. d + 1
        PROVE  bits[y \div Twos[k]] = ((y \div Twos[k - 1]) % 2 = 1)
    <3>1. CASE k = 1
      <4>1. y \div Twos[0] = y /\ y \div Twos[1] = x
        <5>1. Twos[0] = 1 /\ Twos[0 + 1] = 2 * Twos[0]
          BY TwosNext
        <5> QED
          BY <2>4, <5>1
      <4> QED
        BY <2>3, <2>4, <3>1, <4>1
    <3>2. CASE k # 1
      <4>1. k - 1 \in 1 .. d /\ (k - 1) + 1 = k /\ k - 1 \in Nat
            /\ k - 2 \in Nat /\ (k - 2) + 1 = k - 1 /\ (k - 1) - 1 = k - 2
        BY <3>2
      <4>2. bits[x \div Twos[k - 1]] = ((x \div Twos[k - 2]) % 2 = 1)
        BY <2>1, <4>1
      <4>3. y \div Twos[k] = x \div Twos[k - 1] /\ y \div Twos[k - 1] = x \div Twos[k - 2]
        <5>1. y \div Twos[(k - 1) + 1] = x \div Twos[k - 1]
          BY <2>6, <4>1
        <5>2. y \div Twos[(k - 2) + 1] = x \div Twos[k - 2]
          BY <2>6, <4>1
        <5> QED
          BY <4>1, <5>1, <5>2
      <4> QED
        BY <4>2, <4>3
    <3> QED
      BY <3>1, <3>2
  <2>8. Follows(y, d + 1)
    BY <2>7
  <2> QED
    BY <2>4, <2>5, <2>8
<1> HIDE DEF T
<1>3. Nat \subseteq T
  BY <1>1, <1>2, Induct
<1> HIDE DEF Follows
<1>4. PICK x \in Nat : Twos[Depth] <= x /\ x < 2 * Twos[Depth] /\ Follows(x, Depth)
  <2>1. Depth \in T /\ Depth <= Depth
    BY <1>3, DepthType
  <2> QED
    BY <2>1 DEF T
<1> USE DEF Follows
<1>5. x - Assoc \in Ways /\ Assoc + (x - Assoc) = x
  BY <1>4, DepthType DEF Ways
<1>6. \A k \in Nat : Node(x - Assoc, k) = x \div Twos[k]
  BY <1>5 DEF Node
<1>7. ASSUME NEW k \in 1 .. Depth
      PROVE  bits[Node(x - Assoc, k)] = Right(x - Assoc, k)
  <2>1. k \in Nat /\ k - 1 \in Nat
    BY DepthType
  <2>2. bits[x \div Twos[k]] = ((x \div Twos[k - 1]) % 2 = 1)
    BY <1>4
  <2> QED
    BY <1>6, <2>1, <2>2 DEF Right
<1> QED
  BY <1>5, <1>7

-----------------------------------------------------------------------------
(* The lines used last. *)

Before(q, x, y) == \E i, j \in 1 .. Len(q) : i < j /\ q[i] = x /\ q[j] = y
Distinct(q)     == \A i, j \in 1 .. Len(q) : q[i] = q[j] => i = j
Held(q, x)      == \E i \in 1 .. Len(q) : q[i] = x

\* The smaller of two numbers.
LEMMA MinOfTwo ==
  ASSUME NEW x \in Nat, NEW y \in Nat
  PROVE  Min({x, y}) \in {x, y} /\ Min({x, y}) <= x /\ Min({x, y}) <= y
<1>1. \E m \in {x, y} : \A z \in {x, y} : m <= z
  <2>1. CASE x <= y
    BY <2>1
  <2>2. CASE y <= x
    BY <2>2
  <2> QED
    BY <2>1, <2>2
<1> DEFINE M == {x, y}
<1> HIDE DEF M
<1>2. \E m \in M : \A z \in M : m <= z
  BY <1>1 DEF M
<1>3. Min(M) \in M /\ \A z \in M : Min(M) <= z
  BY <1>2 DEF Min
<1> QED
  BY <1>3 DEF M

\* The elements of a sequence from which the i-th was taken.
LEMMA RemovedAt ==
  ASSUME NEW S, NEW q \in Seq(S), NEW i \in 1 .. Len(q)
  PROVE  /\ RemoveAt(q, i) \in Seq(S) /\ Len(RemoveAt(q, i)) = Len(q) - 1
         /\ \A k \in 1 .. Len(q) - 1 : RemoveAt(q, i)[k] = IF k < i THEN q[k] ELSE q[k + 1]
<1> DEFINE f == SubSeq(q, 1, i - 1)
           g == SubSeq(q, i + 1, Len(q))
<1>1. f \in Seq(S) /\ Len(f) = i - 1 /\ \A k \in 1 .. i - 1 : f[k] = q[k]
  OBVIOUS
<1>2. g \in Seq(S) /\ Len(g) = Len(q) - i /\ \A k \in 1 .. Len(q) - i : g[k] = q[i + k]
  OBVIOUS
<1>3. RemoveAt(q, i) = f \o g
  BY DEF RemoveAt
<1> HIDE DEF f, g
<1> DEFINE m == Len(q)
<1>0. m \in Nat /\ i \in 1 .. m
  OBVIOUS
<1> HIDE DEF m
<1>4. /\ f \o g \in Seq(S) /\ Len(f \o g) = m - 1
      /\ \A k \in 1 .. m - 1 : (f \o g)[k] = IF k <= i - 1 THEN f[k] ELSE g[k - (i - 1)]
  <2>1. /\ f \o g \in Seq(S) /\ Len(f \o g) = Len(f) + Len(g)
        /\ \A k \in 1 .. Len(f) + Len(g) :
             (f \o g)[k] = IF k <= Len(f) THEN f[k] ELSE g[k - Len(f)]
    BY <1>1, <1>2, ConcatProperties
  <2>2. Len(f) + Len(g) = m - 1 /\ Len(f) = i - 1
    BY <1>0, <1>1, <1>2 DEF m
  <2> QED
    BY <2>1, <2>2
<1>5. ASSUME NEW k \in 1 .. Len(q) - 1
      PROVE  (f \o g)[k] = IF k < i THEN q[k] ELSE q[k + 1]
  <2>1. k \in 1 .. m - 1 /\ (f \o g)[k] = IF k <= i - 1 THEN f[k] ELSE g[k - (i - 1)]
    BY <1>4 DEF m
  <2>2. CASE k < i
    <3>1. k \in 1 .. i - 1
      BY <1>0, <2>1, <2>2
    <3> QED
      BY <1>1, <2>1, <2>2, <3>1
  <2>3. CASE k >= i
    <3>1. k - (i - 1) \in 1 .. Len(q) - i /\ i + (k - (i - 1)) = k + 1
      BY <2>3
    <3>2. ~(k <= i - 1)
      BY <1>0, <2>1, <2>3
    <3> QED
      BY <1>2, <2>1, <2>3, <3>1, <3>2
  <2> QED
    BY <1>0, <2>1, <2>2, <2>3
<1> QED
  BY <1>3, <1>4, <1>5 DEF m

\* RemoveFirst takes an element that is there from one position.
LEMMA RemovedFirst ==
  ASSUME NEW S, NEW q \in Seq(S), NEW a, Held(q, a)
  PROVE  \E i \in 1 .. Len(q) : q[i] = a /\ RemoveFirst(q, a) = RemoveAt(q, i)
<1> DEFINE I == {i \in 1 .. Len(q) : q[i] = a}
<1>1. I # {} /\ I \in SUBSET Nat
  BY DEF Held
<1>2. \E i \in I : \A j \in I : i <= j
  BY <1>1, LeastOfNaturals
<1>3. Min(I) \in I
  BY <1>2 DEF Min
<1>4. RemoveFirst(q, a) = RemoveAt(q, Min(I))
  BY <1>1 DEF RemoveFirst, SelectInSeq, Held
<1> QED
  BY <1>3, <1>4

\* Without a, the other lines keep their order (Older).
LEMMA RemoveFacts ==
  ASSUME NEW S, NEW q \in Seq(S), NEW a, Distinct(q), NEW r, r = RemoveFirst(q, a)
  PROVE  /\ r \in Seq(S) /\ Len(r) <= Len(q) /\ Distinct(r)
         /\ \A x : Held(r, x) <=> Held(q, x) /\ x # a
         /\ \A x, y : Before(q, x, y) /\ x # a /\ y # a => Before(r, x, y)
<1>1. CASE ~Held(q, a)
  <2>1. r = q
    BY <1>1 DEF RemoveFirst, Held
  <2> QED
    BY <1>1, <2>1 DEF Held
<1>2. CASE Held(q, a)
  <2>1. PICK i \in 1 .. Len(q) : q[i] = a /\ r = RemoveAt(q, i)
    BY <1>2, RemovedFirst
  <2>2. /\ r \in Seq(S) /\ Len(r) = Len(q) - 1
        /\ \A k \in 1 .. Len(q) - 1 : r[k] = IF k < i THEN q[k] ELSE q[k + 1]
    BY <2>1, RemovedAt
  <2> DEFINE old(k) == IF k < i THEN k ELSE k + 1
             new(k) == IF k < i THEN k ELSE k - 1
  <2>3. \A k \in 1 .. Len(r) : old(k) \in 1 .. Len(q) /\ old(k) # i /\ r[k] = q[old(k)]
    BY <2>2
  <2>4. \A k \in 1 .. Len(q) : k # i => new(k) \in 1 .. Len(r) /\ q[k] = r[new(k)]
    BY <2>2
  <2>5. \A k, l \in Nat : (old(k) = old(l) => k = l)
                          /\ (k < l /\ k # i /\ l # i => new(k) < new(l))
    OBVIOUS
  <2>6. \A k \in 1 .. Len(q) : q[k] = a => k = i
    BY <2>1 DEF Distinct
  <2> HIDE DEF old, new
  <2>7. Distinct(r)
    BY <2>3, <2>5 DEF Distinct
  <2>8. ASSUME NEW x
        PROVE  Held(r, x) <=> Held(q, x) /\ x # a
    BY <2>1, <2>3, <2>4, <2>6, SMTT(30) DEF Held
  <2>9. ASSUME NEW x, NEW y, Before(q, x, y), x # a, y # a
        PROVE  Before(r, x, y)
    <3>1. PICK k \in 1 .. Len(q), l \in 1 .. Len(q) : k < l /\ q[k] = x /\ q[l] = y
      BY <2>9 DEF Before
    <3>2. k # i /\ l # i
      BY <2>1, <2>9, <3>1
    <3>3. new(k) < new(l)
      BY <2>5, <3>1, <3>2
    <3> QED
      BY <2>4, <3>1, <3>2, <3>3 DEF Before
  <2> QED
    BY <2>2, <2>7, <2>8, <2>9
<1> QED
  BY <1>1, <1>2

\* The order after a use of a.
Latest(r, a) == SubSeq(<<a>> \o r, 1, Min({Len(r) + 1, Depth}))

\* After a use, a is first and the lines that are left keep their order.
LEMMA LatestFacts ==
  ASSUME NEW S, NEW q \in Seq(S), NEW a \in S, Distinct(q), NEW n,
         n = Latest(RemoveFirst(q, a), a)
  PROVE  /\ n \in Seq(S) /\ Len(n) <= Depth /\ Distinct(n)
         /\ \A x : Held(n, x) => x = a \/ Held(q, x)
         /\ \A x : Held(n, x) /\ x # a => Before(n, a, x)
         /\ \A x, y : Before(q, x, y) /\ x # a /\ y # a /\ Held(n, y) => Before(n, x, y)
<1> DEFINE r == RemoveFirst(q, a)
           m == Min({Len(r) + 1, Depth})
<1>1. /\ r \in Seq(S) /\ Distinct(r)
      /\ \A x : Held(r, x) <=> Held(q, x) /\ x # a
      /\ \A x, y : Before(q, x, y) /\ x # a /\ y # a => Before(r, x, y)
  BY RemoveFacts
<1> HIDE DEF r
<1>2. m \in Nat /\ 1 <= m /\ m <= Len(r) + 1 /\ m <= Depth
  <2>1. Len(r) + 1 \in Nat /\ Depth \in Nat /\ Depth > 0
    BY <1>1, DepthType
  <2> QED
    BY <2>1, MinOfTwo
<1> HIDE DEF m
<1>3. n = SubSeq(<<a>> \o r, 1, m)
  BY DEF Latest, r, m
<1>4. n \in Seq(S) /\ Len(n) = m
  BY <1>1, <1>2, <1>3
<1>5. n[1] = a /\ \A k \in 2 .. m : n[k] = r[k - 1] /\ k - 1 \in 1 .. Len(r)
  <2>1. n[1] = a
    BY <1>1, <1>2, <1>3
  <2>2. ASSUME NEW k \in 2 .. m
        PROVE  n[k] = r[k - 1] /\ k - 1 \in 1 .. Len(r)
    BY <1>1, <1>2, <1>3
  <2> QED
    BY <2>1, <2>2
<1>6. \A k \in 2 .. m : n[k] # a /\ Held(q, n[k])
  BY <1>1, <1>5 DEF Held
<1>7. Distinct(n)
  <2> SUFFICES ASSUME NEW i \in 1 .. m, NEW j \in 1 .. m, n[i] = n[j]
               PROVE  i = j
    BY <1>4 DEF Distinct
  <2>1. CASE i = 1 \/ j = 1
    BY <1>2, <1>5, <1>6, <2>1
  <2>2. CASE i # 1 /\ j # 1
    <3>1. r[i - 1] = r[j - 1] /\ i - 1 \in 1 .. Len(r) /\ j - 1 \in 1 .. Len(r)
      BY <1>2, <1>5, <2>2
    <3>2. i - 1 = j - 1
      BY <1>1, <3>1 DEF Distinct
    <3> QED
      BY <3>2
  <2> QED
    BY <2>1, <2>2
<1>8. ASSUME NEW x, Held(n, x)
      PROVE  x = a \/ Held(q, x)
  BY <1>4, <1>5, <1>6, <1>8 DEF Held
<1>9. ASSUME NEW x, Held(n, x), x # a
      PROVE  Before(n, a, x)
  BY <1>2, <1>4, <1>5, <1>9 DEF Held, Before
<1>10. ASSUME NEW x, NEW y, Before(q, x, y), x # a, y # a, Held(n, y)
       PROVE  Before(n, x, y)
  <2>1. PICK i \in 1 .. Len(r), j \in 1 .. Len(r) : i < j /\ r[i] = x /\ r[j] = y
    BY <1>1, <1>10 DEF Before
  <2>2. PICK k \in 1 .. m : n[k] = y
    BY <1>4, <1>10 DEF Held
  <2>3. k # 1 /\ k \in 2 .. m
    BY <1>5, <1>10, <2>2
  <2>4. k - 1 = j
    BY <1>1, <1>5, <2>1, <2>2, <2>3 DEF Distinct
  <2>5. i + 1 \in 2 .. m /\ (i + 1) - 1 = i /\ i + 1 < k
    BY <1>2, <2>1, <2>3, <2>4
  <2>6. n[i + 1] = r[i]
    BY <1>5, <2>5
  <2> QED
    BY <1>2, <1>4, <2>1, <2>2, <2>5, <2>6 DEF Before
<1> QED
  BY <1>2, <1>4, <1>7, <1>8, <1>9, <1>10

-----------------------------------------------------------------------------
(* What the bits say of the lines used last. *)

SameSide(w, u, k)  == Node(w, k) = Node(u, k) /\ Right(w, k) = Right(u, k)
OtherSide(w, u, k) == Node(w, k) = Node(u, k) /\ Right(w, k) # Right(u, k)

Sheltered(q, index, row, x, k) ==
  \/ \E y \in Addrs : Before(q, y, x) /\ OtherSide(index[y], index[x], k)
  \/ \E v \in Ways : row[v] = Null /\ SameSide(v, index[x], k)

Guarded(bits, q, index, row) ==
  \A x \in Addrs, k \in 1 .. Depth :
    Held(q, x) /\ bits[Node(index[x], k)] = Right(index[x], k) => Sheltered(q, index, row, x, k)

\* A record of Above is known by its node.
LEMMA OneNodePerLevel ==
  ASSUME NEW w \in Ways, NEW k \in 1 .. Depth, NEW p \in Above(w), p.node = Node(w, k)
  PROVE  p.right = Right(w, k)
<1>1. PICK l \in 1 .. Depth : p = [node |-> Node(w, l), right |-> Right(w, l)]
  BY AboveIs
<1>2. Node(w, l) = Node(w, k)
  BY <1>1
<1>3. l = k
  <2>1. ~(k < l) /\ ~(l < k)
    BY <1>2, LevelsApart
  <2>2. k \in Nat /\ l \in Nat
    BY DepthType
  <2> QED
    BY <2>1, <2>2
<1> QED
  BY <1>1, <1>3

\* A way is on the right of a node or not.
LEMMA RightIsBoolean == \A w, k : Right(w, k) \in BOOLEAN
BY DEF Right

\* What touch and invalidate do to the node above any way.
LEMMA BitsAfter ==
  ASSUME NEW bits \in [1 .. Assoc - 1 -> BOOLEAN], NEW w \in Ways, NEW u \in Ways, NEW k \in 1 .. Depth
  PROVE  /\ Node(u, k) = Node(w, k) => /\ PointAway(bits, w)[Node(u, k)] # Right(w, k)
                                       /\ PointAt(bits, w)[Node(u, k)] = Right(w, k)
         /\ Node(u, k) # Node(w, k) => /\ PointAway(bits, w)[Node(u, k)] = bits[Node(u, k)]
                                       /\ PointAt(bits, w)[Node(u, k)] = bits[Node(u, k)]
<1> DEFINE n == Node(u, k)
<1>1. n \in 1 .. Assoc - 1 /\ DOMAIN bits = 1 .. Assoc - 1
  BY NodeInTree
<1>2. CASE n = Node(w, k)
  <2>1. \E p \in Above(w) : p.node = n
    BY <1>2, AboveIs
  <2>2. (CHOOSE p \in Above(w) : p.node = n).right = Right(w, k)
    <3> DEFINE c == CHOOSE p \in Above(w) : p.node = n
    <3>1. c \in Above(w) /\ c.node = n
      BY <2>1
    <3> HIDE DEF c, n
    <3>2. c.right = Right(w, k)
      BY <1>2, <3>1, OneNodePerLevel
    <3> QED
      BY <3>2 DEF c
  <2> HIDE DEF n
  <2>3. PointAway(bits, w)[n] = ~Right(w, k) /\ PointAt(bits, w)[n] = Right(w, k)
    BY <1>1, <2>1, <2>2, Zenon DEF PointAway, PointAt
  <2>4. PointAway(bits, w)[n] # Right(w, k)
    BY <2>3, RightIsBoolean
  <2> QED
    BY <1>2, <2>3, <2>4 DEF n
<1>3. CASE n # Node(w, k)
  <2>1. ~\E p \in Above(w) : p.node = n
    <3> SUFFICES ASSUME NEW p \in Above(w), p.node = n
                 PROVE  FALSE
      OBVIOUS
    <3>1. PICK l \in 1 .. Depth : p = [node |-> Node(w, l), right |-> Right(w, l)]
      BY AboveIs
    <3>2. Node(w, l) = Node(u, k)
      BY <3>1
    <3>3. l = k
      <4>1. ~(k < l) /\ ~(l < k)
        BY <3>2, LevelsApart
      <4>2. k \in Nat /\ l \in Nat
        BY DepthType
      <4> QED
        BY <4>1, <4>2
    <3> QED
      BY <1>3, <3>2, <3>3
  <2> HIDE DEF n
  <2>2. PointAway(bits, w)[n] = bits[n] /\ PointAt(bits, w)[n] = bits[n]
    BY <1>1, <2>1, Zenon DEF PointAway, PointAt
  <2> QED
    BY <1>3, <2>2 DEF n
<1> QED
  BY <1>2, <1>3

\* A node that is not above the way keeps its bit.
LEMMA BitsElsewhere ==
  ASSUME NEW bits \in [1 .. Assoc - 1 -> BOOLEAN], NEW w \in Ways, NEW u \in Ways,
         NEW k \in 1 .. Depth, Node(u, k) # Node(w, k)
  PROVE  /\ PointAway(bits, w)[Node(u, k)] = bits[Node(u, k)]
         /\ PointAt(bits, w)[Node(u, k)] = bits[Node(u, k)]
BY BitsAfter

\* touch and reset.
LEMMA UseGuards ==
  ASSUME NEW bits \in [1 .. Assoc - 1 -> BOOLEAN], NEW q \in Seq(Addrs), Distinct(q),
         NEW a \in Addrs, NEW w \in Ways, NEW n, n = Latest(RemoveFirst(q, a), a),
         NEW index, NEW new, NEW row, NEW row2,
         \A x \in Addrs : Held(q, x) => index[x] \in Ways,
         Held(q, a) => index[a] = w,
         new[a] = w, \A x \in Addrs : x # a => new[x] = index[x],
         \A v \in Ways : v # w /\ row[v] = Null => row2[v] = Null,
         Guarded(bits, q, index, row)
  PROVE  Guarded(PointAway(bits, w), n, new, row2)
<1>0. /\ \A y : Held(n, y) => y = a \/ Held(q, y)
      /\ \A y : Held(n, y) /\ y # a => Before(n, a, y)
      /\ \A z, y : Before(q, z, y) /\ z # a /\ y # a /\ Held(n, y) => Before(n, z, y)
  BY LatestFacts
<1> SUFFICES ASSUME NEW x \in Addrs, NEW k \in 1 .. Depth, Held(n, x),
                    PointAway(bits, w)[Node(new[x], k)] = Right(new[x], k)
             PROVE  Sheltered(n, new, row2, x, k)
  BY DEF Guarded
<1>1. x # a
  <2> SUFFICES ASSUME x = a
               PROVE  FALSE
    OBVIOUS
  <2>1. PointAway(bits, w)[Node(w, k)] = Right(w, k)
    OBVIOUS
  <2>2. PointAway(bits, w)[Node(w, k)] # Right(w, k)
    BY BitsAfter
  <2> QED
    BY <2>1, <2>2
<1>2. Held(q, x) /\ new[x] = index[x]
  BY <1>0, <1>1
<1> DEFINE u == index[x]
<1>3. u \in Ways /\ PointAway(bits, w)[Node(u, k)] = Right(u, k)
  BY <1>2
<1>4. CASE Node(u, k) = Node(w, k)
  <2> HIDE DEF u
  <2>1. Right(w, k) # Right(u, k)
    BY <1>3, <1>4, BitsAfter
  <2>2. OtherSide(w, u, k)
    BY <1>4, <2>1 DEF OtherSide
  <2>3. OtherSide(new[a], new[x], k)
    BY <1>2, <2>2 DEF u
  <2>4. Before(n, a, x)
    BY <1>0, <1>1
  <2> QED
    BY <2>3, <2>4 DEF Sheltered
<1>5. CASE Node(u, k) # Node(w, k)
  <2>1. bits[Node(u, k)] = Right(u, k)
    <3> HIDE DEF u
    <3>1. PointAway(bits, w)[Node(u, k)] = bits[Node(u, k)]
      BY <1>3, <1>5, BitsElsewhere
    <3> QED
      BY <1>3, <3>1
  <2>2. Sheltered(q, index, row, x, k)
    BY <1>2, <2>1 DEF Guarded
  <2>3. CASE \E y \in Addrs : Before(q, y, x) /\ OtherSide(index[y], index[x], k)
    <3>1. PICK y \in Addrs : Before(q, y, x) /\ OtherSide(index[y], index[x], k)
      BY <2>3
    <3>2. Held(q, y)
      BY <3>1 DEF Before, Held
    <3>3. y # a
      BY <1>5, <3>1, <3>2 DEF OtherSide
    <3>4. Before(n, y, x) /\ OtherSide(new[y], new[x], k)
      BY <1>0, <1>1, <1>2, <3>1, <3>3
    <3> QED
      BY <3>4 DEF Sheltered
  <2>4. CASE \E v \in Ways : row[v] = Null /\ SameSide(v, index[x], k)
    <3>1. PICK v \in Ways : row[v] = Null /\ SameSide(v, index[x], k)
      BY <2>4
    <3>2. v # w
      BY <1>5, <3>1 DEF SameSide
    <3>3. row2[v] = Null /\ SameSide(v, new[x], k)
      BY <1>2, <3>1, <3>2
    <3> QED
      BY <3>3 DEF Sheltered
  <2> QED
    BY <2>2, <2>3, <2>4 DEF Sheltered
<1> QED
  BY <1>4, <1>5

\* invalidate.
LEMMA DropGuards ==
  ASSUME NEW bits \in [1 .. Assoc - 1 -> BOOLEAN], NEW q \in Seq(Addrs), Distinct(q),
         NEW a \in Addrs, NEW w \in Ways, NEW r, r = RemoveFirst(q, a),
         NEW index, NEW new, NEW row, NEW row2,
         \A x \in Addrs : Held(q, x) => index[x] \in Ways,
         index[a] = w, \A x \in Addrs : x # a => new[x] = index[x],
         row2[w] = Null, \A v \in Ways : v # w => row2[v] = row[v],
         Guarded(bits, q, index, row)
  PROVE  Guarded(PointAt(bits, w), r, new, row2)
<1> SUFFICES ASSUME NEW x \in Addrs, NEW k \in 1 .. Depth, Held(r, x),
                    PointAt(bits, w)[Node(new[x], k)] = Right(new[x], k)
             PROVE  Sheltered(r, new, row2, x, k)
  BY DEF Guarded
<1>0. /\ \A y : Held(r, y) <=> Held(q, y) /\ y # a
      /\ \A z, y : Before(q, z, y) /\ z # a /\ y # a => Before(r, z, y)
  BY RemoveFacts
<1>1. x # a /\ Held(q, x) /\ new[x] = index[x]
  BY <1>0
<1> DEFINE u == index[x]
<1>2. u \in Ways /\ PointAt(bits, w)[Node(u, k)] = Right(u, k)
  BY <1>1
<1>3. CASE Node(u, k) = Node(w, k)
  <2> HIDE DEF u
  <2>1. Right(w, k) = Right(u, k)
    BY <1>2, <1>3, BitsAfter
  <2>2. SameSide(w, u, k)
    BY <1>3, <2>1 DEF SameSide
  <2>3. SameSide(w, new[x], k)
    BY <1>1, <2>2 DEF u
  <2> QED
    BY <2>3 DEF Sheltered
<1>4. CASE Node(u, k) # Node(w, k)
  <2>1. bits[Node(u, k)] = Right(u, k)
    <3> HIDE DEF u
    <3> QED
      BY <1>2, <1>4, BitsAfter, ZenonT(30)
  <2>2. Sheltered(q, index, row, x, k)
    BY <1>1, <2>1 DEF Guarded
  <2>3. CASE \E y \in Addrs : Before(q, y, x) /\ OtherSide(index[y], index[x], k)
    <3>1. PICK y \in Addrs : Before(q, y, x) /\ OtherSide(index[y], index[x], k)
      BY <2>3
    <3>2. y # a
      BY <1>4, <3>1 DEF OtherSide
    <3>3. Before(r, y, x) /\ OtherSide(new[y], new[x], k)
      BY <1>0, <1>1, <3>1, <3>2
    <3> QED
      BY <3>3 DEF Sheltered
  <2>4. CASE \E v \in Ways : row[v] = Null /\ SameSide(v, index[x], k)
    <3>1. PICK v \in Ways : row[v] = Null /\ SameSide(v, index[x], k)
      BY <2>4
    <3>2. row2[v] = Null /\ SameSide(v, new[x], k)
      BY <1>1, <3>1
    <3> QED
      BY <3>2 DEF Sheltered
  <2> QED
    BY <2>2, <2>3, <2>4 DEF Sheltered
<1> QED
  BY <1>3, <1>4

\* Where no slot is open, the way the bits lead to holds none of them.
LEMMA VictimUnused ==
  ASSUME NEW bits, NEW q \in Seq(Addrs), Len(q) <= Depth, Distinct(q), NEW index, NEW row,
         \A x \in Addrs : Held(q, x) => index[x] \in Ways,
         \A v \in Ways : row[v] # Null,
         Guarded(bits, q, index, row),
         NEW w \in Ways, \A k \in 1 .. Depth : bits[Node(w, k)] = Right(w, k),
         NEW x \in Addrs, Held(q, x)
  PROVE  index[x] # w
<1> SUFFICES ASSUME index[x] = w
             PROVE  FALSE
  OBVIOUS
<1>1. PICK j \in 1 .. Len(q) : q[j] = x
  BY DEF Held
<1>2. ASSUME NEW k \in 1 .. Depth
      PROVE  \E y \in Addrs : Before(q, y, x) /\ OtherSide(index[y], w, k)
  BY <1>2 DEF Guarded, Sheltered
<1>3. ASSUME NEW k \in 1 .. Depth
      PROVE  \E i \in 1 .. j - 1 : OtherSide(index[q[i]], w, k)
  <2>1. PICK y \in Addrs : Before(q, y, x) /\ OtherSide(index[y], w, k)
    BY <1>2
  <2>2. PICK i \in 1 .. Len(q), l \in 1 .. Len(q) : i < l /\ q[i] = y /\ q[l] = x
    BY <2>1 DEF Before
  <2>3. l = j
    BY <1>1, <2>2 DEF Distinct
  <2>4. i \in 1 .. j - 1
    BY <2>2, <2>3
  <2> QED
    BY <2>1, <2>2, <2>4
<1> DEFINE at(k) == CHOOSE i \in 1 .. j - 1 : OtherSide(index[q[i]], w, k)
           f == [k \in 1 .. Depth |-> at(k)]
<1>4. \A k \in 1 .. Depth : at(k) \in 1 .. j - 1 /\ OtherSide(index[q[at(k)]], w, k)
  BY <1>3
<1> HIDE DEF at
<1>5. f \in [1 .. Depth -> 1 .. j - 1]
  BY <1>4
<1>6. /\ IsFiniteSet(1 .. Depth) /\ IsFiniteSet(1 .. j - 1)
      /\ Cardinality(1 .. j - 1) < Cardinality(1 .. Depth)
  <2>1. Depth \in Int /\ j - 1 \in Int /\ 1 \in Int /\ 1 <= Depth /\ 1 <= j /\ j <= Depth
    BY <1>1, DepthType
  <2>2. IsFiniteSet(1 .. Depth) /\ Cardinality(1 .. Depth) = IF 1 > Depth THEN 0 ELSE Depth - 1 + 1
    BY <2>1, FS_Interval
  <2>3. /\ IsFiniteSet(1 .. j - 1)
        /\ Cardinality(1 .. j - 1) = IF 1 > j - 1 THEN 0 ELSE (j - 1) - 1 + 1
    BY <2>1, FS_Interval
  <2> QED
    BY <2>1, <2>2, <2>3
<1>7. \E k, l \in 1 .. Depth : k # l /\ f[k] = f[l]
  <2> DEFINE S == 1 .. Depth
             T == 1 .. j - 1
  <2>1. f \in [S -> T] /\ IsFiniteSet(S) /\ IsFiniteSet(T) /\ Cardinality(T) < Cardinality(S)
    BY <1>5, <1>6
  <2> HIDE DEF S, T, f
  <2>2. \E k, l \in S : k # l /\ f[k] = f[l]
    BY <2>1, FS_PigeonHole
  <2> QED
    BY <2>2 DEF S
<1>8. PICK k \in 1 .. Depth, l \in 1 .. Depth : k < l /\ at(k) = at(l)
  BY <1>7, DepthType
<1> DEFINE u == index[q[at(k)]]
<1>9. u \in Ways /\ OtherSide(u, w, k) /\ OtherSide(u, w, l)
  <2>1. at(k) \in 1 .. Len(q)
    BY <1>1, <1>4
  <2>2. q[at(k)] \in Addrs /\ Held(q, q[at(k)])
    BY <2>1 DEF Held
  <2> QED
    BY <1>4, <1>8, <2>2
<1> HIDE DEF u
<1>10. Right(u, l) = Right(w, l)
  <2>1. k \in Nat /\ l \in Nat /\ l > k
    BY <1>8, DepthType
  <2>2. Node(u, k) = Node(w, k)
    BY <1>9 DEF OtherSide
  <2> QED
    BY <1>9, <2>1, <2>2, MeetForGood
<1> QED
  BY <1>9, <1>10 DEF OtherSide

-----------------------------------------------------------------------------
(* The victim is not a line used lately. *)

UsedOK ==
  /\ used \in [Sets -> Seq(Addrs)]
  /\ \A s \in Sets : Len(used[s]) <= Depth /\ Distinct(used[s])
  /\ \A s \in Sets, x \in Addrs :
       Held(used[s], x) => m_tag_index[x] \in Ways /\ addressToCacheSet(x) = s

GuardedOK == \A s \in Sets : Guarded(replacement_data[s], used[s], m_tag_index, m_cache[s])

\* A set that no step of another set disturbs.
LEMMA GuardedSame ==
  ASSUME NEW bits, NEW q, NEW index, NEW new, NEW row, NEW row2,
         \A x \in Addrs : Held(q, x) => new[x] = index[x],
         \A v \in Ways : row[v] = Null => row2[v] = Null,
         Guarded(bits, q, index, row)
  PROVE  Guarded(bits, q, new, row2)
<1> SUFFICES ASSUME NEW x \in Addrs, NEW k \in 1 .. Depth, Held(q, x),
                    bits[Node(new[x], k)] = Right(new[x], k)
             PROVE  Sheltered(q, new, row2, x, k)
  BY DEF Guarded
<1>1. new[x] = index[x]
  OBVIOUS
<1>2. bits[Node(index[x], k)] = Right(index[x], k)
  BY <1>1
<1>3. Sheltered(q, index, row, x, k)
  BY <1>2 DEF Guarded
<1>4. ASSUME NEW y \in Addrs, Before(q, y, x), OtherSide(index[y], index[x], k)
      PROVE  OtherSide(new[y], new[x], k)
  <2>1. Held(q, y)
    BY <1>4 DEF Before, Held
  <2>2. new[y] = index[y]
    BY <2>1
  <2> QED
    BY <1>1, <1>4, <2>2
<1>5. ASSUME NEW v \in Ways, row[v] = Null, SameSide(v, index[x], k)
      PROVE  row2[v] = Null /\ SameSide(v, new[x], k)
  BY <1>1, <1>5
<1> QED
  BY <1>3, <1>4, <1>5 DEF Sheltered

\* A use of the line a at the way w, which is a's way after it.
LEMMA UseKeeps ==
  ASSUME ArrayOK, BitsOK, UsedOK, GuardedOK,
         NEW a \in Addrs, NEW s \in Sets, s = addressToCacheSet(a),
         NEW w \in Ways, Use(s, w, a),
         m_tag_index'[a] = w, \A x \in Addrs : x # a => m_tag_index'[x] = m_tag_index[x],
         Held(used[s], a) => m_tag_index[a] = w,
         \A t \in Sets, v \in Ways :
           (t # s \/ v # w) /\ m_cache[t][v] = Null => m_cache'[t][v] = Null
  PROVE  UsedOK' /\ GuardedOK'
<1> DEFINE q == used[s]
           n == Latest(RemoveFirst(q, a), a)
           bits == replacement_data[s]
<1>1. q \in Seq(Addrs) /\ Distinct(q) /\ DOMAIN used = Sets
  BY DEF UsedOK
<1>2. bits \in [1 .. Assoc - 1 -> BOOLEAN] /\ DOMAIN replacement_data = Sets
  BY DEF BitsOK
<1>3. used' = [used EXCEPT ![s] = n]
  BY DEF Use, Older, Latest
<1>4. replacement_data' = [replacement_data EXCEPT ![s] = PointAway(bits, w)]
  BY DEF Use
<1>5. /\ n \in Seq(Addrs) /\ Len(n) <= Depth /\ Distinct(n)
      /\ \A x : Held(n, x) => x = a \/ Held(q, x)
  BY <1>1, LatestFacts
<1>6. /\ \A x \in Addrs : Held(q, x) => m_tag_index[x] \in Ways
      /\ \A t \in Sets, x \in Addrs :
           Held(used[t], x) => m_tag_index[x] \in Ways /\ addressToCacheSet(x) = t
      /\ \A t \in Sets : Len(used[t]) <= Depth /\ Distinct(used[t])
      /\ used \in [Sets -> Seq(Addrs)]
  BY DEF UsedOK
<1>7. Guarded(bits, q, m_tag_index, m_cache[s])
  BY DEF GuardedOK
<1>8. Guarded(PointAway(bits, w), n, m_tag_index', m_cache'[s])
  <2> DEFINE row == m_cache[s]
             row2 == m_cache'[s]
             index == m_tag_index
             new == m_tag_index'
  <2>1. /\ new[a] = w /\ \A x \in Addrs : x # a => new[x] = index[x]
        /\ Held(q, a) => index[a] = w
        /\ \A v \in Ways : v # w /\ row[v] = Null => row2[v] = Null
        /\ \A x \in Addrs : Held(q, x) => index[x] \in Ways
        /\ n = Latest(RemoveFirst(q, a), a)
        /\ Guarded(bits, q, index, row)
    BY <1>6, <1>7
  <2> HIDE DEF q, n, bits, row, row2, index, new
  <2>2. Guarded(PointAway(bits, w), n, new, row2)
    BY <1>1, <1>2, <2>1, UseGuards
  <2> QED
    BY <2>2 DEF new, row2
<1> HIDE DEF n, bits
<1>9. /\ used'[s] = n /\ replacement_data'[s] = PointAway(bits, w)
      /\ \A t \in Sets : t # s => used'[t] = used[t] /\ replacement_data'[t] = replacement_data[t]
      /\ used' \in [Sets -> Seq(Addrs)]
  BY <1>1, <1>2, <1>3, <1>4, <1>5, <1>6
<1>10. UsedOK'
  <2>1. ASSUME NEW t \in Sets
        PROVE  Len(used'[t]) <= Depth /\ Distinct(used'[t])
    BY <1>5, <1>6, <1>9
  <2>2. ASSUME NEW t \in Sets, NEW x \in Addrs, Held(used'[t], x)
        PROVE  m_tag_index'[x] \in Ways /\ addressToCacheSet(x) = t
    <3>1. CASE t = s
      BY <1>5, <1>6, <1>9, <2>2, <3>1
    <3>2. CASE t # s
      BY <1>6, <1>9, <2>2, <3>2
    <3> QED
      BY <3>1, <3>2
  <2> QED
    BY <1>9, <2>1, <2>2 DEF UsedOK, addressToCacheSet
<1>11. ASSUME NEW t \in Sets
       PROVE  Guarded(replacement_data'[t], used'[t], m_tag_index', m_cache'[t])
  <2>1. CASE t = s
    BY <1>8, <1>9, <2>1
  <2>2. CASE t # s
    <3>1. \A x \in Addrs : Held(used[t], x) => m_tag_index'[x] = m_tag_index[x]
      BY <1>6, <2>2
    <3>2. \A v \in Ways : m_cache[t][v] = Null => m_cache'[t][v] = Null
      BY <2>2
    <3>3. Guarded(replacement_data[t], used[t], m_tag_index, m_cache[t])
      BY DEF GuardedOK
    <3>4. Guarded(replacement_data[t], used[t], m_tag_index', m_cache'[t])
      BY <3>1, <3>2, <3>3, GuardedSame
    <3> QED
      BY <1>9, <2>2, <3>4
  <2> QED
    BY <2>1, <2>2
<1> QED
  BY <1>10, <1>11 DEF GuardedOK

\* allocate is a use of the new line, which was not among those used.
LEMMA AllocateUses ==
  ASSUME NoNotPresent, IInv, BitsOK, UsedOK, GuardedOK, NEW a \in Addrs, allocate(a)
  PROVE  UsedOK' /\ GuardedOK'
<1> DEFINE s == addressToCacheSet(a)
           e == [addr |-> a, perm |-> "Invalid", locked |-> Free]
<1>1. PICK w \in Ways : /\ ~isTagPresent(a)
                        /\ Write(s, w, e)
                        /\ m_tag_index' = [m_tag_index EXCEPT ![a] = w]
                        /\ Use(s, w, a)
  BY DEF allocate, Write
<1>2. s \in Sets /\ e \in Entries \cup {Null}
  BY SetsOfLines, CacheAssumption DEF CacheAssumption, Entries
<1>3. m_tag_index[a] = NoWay
  BY <1>1, AbsentIsUnindexed
<1> HIDE DEF e, s
<1>4. \A t \in Sets, v \in Ways : (t # s \/ v # w) => m_cache'[t][v] = m_cache[t][v]
  BY <1>1, <1>2, SlotWritten DEF IInv
<1>5. m_tag_index'[a] = w /\ \A x \in Addrs : x # a => m_tag_index'[x] = m_tag_index[x]
  BY <1>1 DEF IInv, ArrayOK
<1>6. ~Held(used[s], a)
  BY <1>2, <1>3, NoWayIsNone DEF UsedOK
<1>7. ArrayOK /\ s = addressToCacheSet(a) /\ Use(s, w, a)
  BY <1>1 DEF IInv, s
<1> QED
  BY <1>2, <1>4, <1>5, <1>6, <1>7, UseKeeps

\* setMRU is a use of a line at the way it has.
LEMMA SetMRUUses ==
  ASSUME IInv, BitsOK, UsedOK, GuardedOK, NEW a \in Addrs, setMRU(a)
  PROVE  UsedOK' /\ GuardedOK'
<1> DEFINE s == addressToCacheSet(a)
           w == m_tag_index[a]
<1>1. s \in Sets /\ w \in Ways /\ Use(s, w, a) /\ UNCHANGED <<m_cache, m_tag_index>>
  BY SetsOfLines, PresentAt DEF setMRU, IInv
<1>2. ArrayOK
  BY DEF IInv
<1> QED
  BY <1>1, <1>2, UseKeeps

-----------------------------------------------------------------------------
\* The way of a line that is freed is empty, and no other way changes.
LEMMA Freed ==
  ASSUME IInv, NEW a \in Addrs, deallocate(a)
  PROVE  /\ m_cache'[addressToCacheSet(a)][m_tag_index[a]] = Null
         /\ \A v \in Ways : v # m_tag_index[a] =>
              m_cache'[addressToCacheSet(a)][v] = m_cache[addressToCacheSet(a)][v]
         /\ \A t \in Sets, v \in Ways :
              t # addressToCacheSet(a) => m_cache'[t][v] = m_cache[t][v]
<1> DEFINE s == addressToCacheSet(a)
           w == m_tag_index[a]
<1>1. isTagPresent(a) /\ Write(s, w, Null)
  BY DEF deallocate, Write
<1>2. s \in Sets /\ w \in Ways
  BY <1>1, SetsOfLines, PresentAt DEF IInv
<1> HIDE DEF s, w
<1>3. /\ m_cache' \in [Sets -> [Ways -> Entries \cup {Null}]]
      /\ m_cache'[s][w] = Null
      /\ \A t \in Sets, v \in Ways : (t # s \/ v # w) => m_cache'[t][v] = m_cache[t][v]
  BY <1>1, <1>2, SlotWritten DEF IInv
<1> QED
  BY <1>2, <1>3 DEF s, w

\* deallocate points the tree at the way it opens.
LEMMA DeallocateUses ==
  ASSUME IInv, BitsOK, UsedOK, GuardedOK, NEW a \in Addrs, deallocate(a)
  PROVE  UsedOK' /\ GuardedOK'
<1> DEFINE s == addressToCacheSet(a)
           w == m_tag_index[a]
           q == used[s]
           r == RemoveFirst(q, a)
           bits == replacement_data[s]
           new == m_tag_index'
           row2 == m_cache'[s]
<1>1. /\ isTagPresent(a)
      /\ m_cache' = [m_cache EXCEPT ![s][w] = Null]
      /\ m_tag_index' = [m_tag_index EXCEPT ![a] = NoWay]
      /\ replacement_data' = [replacement_data EXCEPT ![s] = PointAt(bits, w)]
      /\ used' = [used EXCEPT ![s] = r]
  BY DEF deallocate, Older
<1>2. s \in Sets /\ w \in Ways
  BY <1>1, SetsOfLines, PresentAt DEF IInv
<1>3. q \in Seq(Addrs) /\ Distinct(q) /\ DOMAIN used = Sets
  BY <1>2 DEF UsedOK
<1>4. bits \in [1 .. Assoc - 1 -> BOOLEAN] /\ DOMAIN replacement_data = Sets
  BY <1>2 DEF BitsOK
<1>5. /\ r \in Seq(Addrs) /\ Len(r) <= Len(q) /\ Distinct(r)
      /\ \A x : Held(r, x) <=> Held(q, x) /\ x # a
  BY <1>3, RemoveFacts
<1>6. /\ \A t \in Sets, x \in Addrs :
           Held(used[t], x) => m_tag_index[x] \in Ways /\ addressToCacheSet(x) = t
      /\ \A t \in Sets : Len(used[t]) <= Depth /\ Distinct(used[t])
      /\ used \in [Sets -> Seq(Addrs)]
  BY DEF UsedOK
<1>7. /\ row2[w] = Null /\ \A v \in Ways : v # w => row2[v] = m_cache[s][v]
      /\ \A t \in Sets, v \in Ways : t # s => m_cache'[t][v] = m_cache[t][v]
  BY Freed
<1>8. \A x \in Addrs : x # a => new[x] = m_tag_index[x]
  BY <1>1 DEF IInv, ArrayOK
<1>9. Guarded(PointAt(bits, w), r, new, row2)
  <2> DEFINE index == m_tag_index
             row == m_cache[s]
  <2>1. /\ \A x \in Addrs : Held(q, x) => index[x] \in Ways
        /\ index[a] = w /\ \A x \in Addrs : x # a => new[x] = index[x]
        /\ row2[w] = Null /\ \A v \in Ways : v # w => row2[v] = row[v]
        /\ Guarded(bits, q, index, row)
        /\ r = RemoveFirst(q, a)
    BY <1>2, <1>6, <1>7, <1>8 DEF GuardedOK
  <2> HIDE DEF q, r, bits, new, row, row2, index, w
  <2> QED
    BY <1>2, <1>3, <1>4, <2>1, DropGuards
<1>10. /\ used'[s] = r /\ replacement_data'[s] = PointAt(bits, w)
       /\ \A t \in Sets : t # s => used'[t] = used[t] /\ replacement_data'[t] = replacement_data[t]
       /\ used' \in [Sets -> Seq(Addrs)]
  <2> HIDE DEF s, r, bits
  <2> QED
    BY <1>1, <1>2, <1>3, <1>4, <1>5, <1>6
<1>11. UsedOK'
  <2> HIDE DEF r
  <2>1. ASSUME NEW t \in Sets
        PROVE  Len(used'[t]) <= Depth /\ Distinct(used'[t])
    <3>1. CASE t = s
      <4>1. Len(q) <= Depth /\ Len(q) \in Nat /\ Len(r) \in Nat /\ Depth \in Nat
        BY <1>2, <1>3, <1>5, <1>6, DepthType
      <4> QED
        BY <1>5, <1>10, <3>1, <4>1
    <3>2. CASE t # s
      BY <1>6, <1>10, <3>2
    <3> QED
      BY <3>1, <3>2
  <2>2. ASSUME NEW t \in Sets, NEW x \in Addrs, Held(used'[t], x)
        PROVE  m_tag_index'[x] \in Ways /\ addressToCacheSet(x) = t
    <3>1. CASE t = s
      BY <1>5, <1>6, <1>8, <1>10, <2>2, <3>1
    <3>2. CASE t # s
      BY <1>6, <1>8, <1>10, <2>2, <3>2
    <3> QED
      BY <3>1, <3>2
  <2> QED
    BY <1>10, <2>1, <2>2 DEF UsedOK, addressToCacheSet
<1>12. ASSUME NEW t \in Sets
       PROVE  Guarded(replacement_data'[t], used'[t], m_tag_index', m_cache'[t])
  <2>1. CASE t = s
    BY <1>9, <1>10, <2>1
  <2>2. CASE t # s
    <3>1. \A x \in Addrs : Held(used[t], x) => m_tag_index'[x] = m_tag_index[x]
      BY <1>6, <1>8, <2>2
    <3>2. \A v \in Ways : m_cache[t][v] = Null => m_cache'[t][v] = Null
      BY <1>7, <2>2
    <3>3. Guarded(replacement_data[t], used[t], m_tag_index, m_cache[t])
      BY DEF GuardedOK
    <3>4. Guarded(replacement_data[t], used[t], m_tag_index', m_cache'[t])
      BY <3>1, <3>2, <3>3, GuardedSame
    <3> QED
      BY <1>10, <2>2, <3>4
  <2> QED
    BY <2>1, <2>2
<1> QED
  BY <1>11, <1>12 DEF GuardedOK

\* A step that leaves the tags, the bits and the order alone.
LEMMA SlotsKept ==
  ASSUME UsedOK, GuardedOK, UNCHANGED <<m_tag_index, replacement_data, used>>,
         \A t \in Sets, v \in Ways : m_cache[t][v] = Null => m_cache'[t][v] = Null
  PROVE  UsedOK' /\ GuardedOK'
<1>1. UsedOK'
  BY DEF UsedOK, addressToCacheSet
<1>2. ASSUME NEW t \in Sets
      PROVE  Guarded(replacement_data[t], used[t], m_tag_index, m_cache'[t])
  <2>1. Guarded(replacement_data[t], used[t], m_tag_index, m_cache[t])
    BY DEF GuardedOK
  <2>2. \A v \in Ways : m_cache[t][v] = Null => m_cache'[t][v] = Null
    OBVIOUS
  <2> QED
    BY <2>1, <2>2, GuardedSame
<1> QED
  BY <1>1, <1>2 DEF GuardedOK

\* An empty slot stays empty when a field of a present line is written.
LEMMA FieldOfPresent ==
  ASSUME IInv, NEW a \in Addrs, isTagPresent(a), NEW e,
         m_cache' = [m_cache EXCEPT ![addressToCacheSet(a)][m_tag_index[a]] = e]
  PROVE  \A t \in Sets, v \in Ways : m_cache[t][v] = Null => m_cache'[t][v] = Null
<1> DEFINE s == addressToCacheSet(a)
           w == m_tag_index[a]
<1>1. s \in Sets /\ w \in Ways /\ m_cache[s][w] # Null
  BY SetsOfLines, PresentAt, NoWayIsNone DEF IInv, TagIndexExact, EntryAt
<1> HIDE DEF s, w
<1>2. m_cache' = [m_cache EXCEPT ![s][w] = e]
  BY DEF s, w
<1> QED
  BY <1>1, <1>2 DEF IInv, ArrayOK

\* Every step keeps the order and what the bits say of it.
LEMMA NextUses ==
  NoNotPresent /\ IInv /\ BitsOK /\ UsedOK /\ GuardedOK /\ [Next]_vars => (UsedOK /\ GuardedOK)'
<1> SUFFICES ASSUME NoNotPresent, IInv, BitsOK, UsedOK, GuardedOK, [Next]_vars
             PROVE  UsedOK' /\ GuardedOK'
  OBVIOUS
<1>1. ASSUME NEW a \in Addrs, NEW perm \in Perms, changePermission(a, perm)
      PROVE  UsedOK' /\ GuardedOK'
  <2>1. isTagPresent(a) /\ UNCHANGED <<m_tag_index, replacement_data, used>>
    BY <1>1 DEF changePermission
  <2>2. m_cache' = [m_cache EXCEPT ![addressToCacheSet(a)][m_tag_index[a]] =
                      [EntryAt(a) EXCEPT !.perm = perm]]
    BY <1>1, <2>1, PresentAt, SetsOfLines DEF changePermission, EntryAt, IInv, ArrayOK
  <2> QED
    BY <2>1, <2>2, FieldOfPresent, SlotsKept
<1>2. ASSUME NEW a \in Addrs, NEW context \in Contexts \cup {Free}, SetLock(a, context)
      PROVE  UsedOK' /\ GuardedOK'
  <2>1. isTagPresent(a) /\ UNCHANGED <<m_tag_index, replacement_data, used>>
    BY <1>2 DEF SetLock
  <2>2. m_cache' = [m_cache EXCEPT ![addressToCacheSet(a)][m_tag_index[a]] =
                      [EntryAt(a) EXCEPT !.locked = context]]
    BY <1>2, <2>1, PresentAt, SetsOfLines DEF SetLock, EntryAt, IInv, ArrayOK
  <2> QED
    BY <2>1, <2>2, FieldOfPresent, SlotsKept
<1>3. ASSUME NEW context \in Contexts, clearLockedAll(context)
      PROVE  UsedOK' /\ GuardedOK'
  <2>1. UNCHANGED <<m_tag_index, replacement_data, used>>
    BY <1>3 DEF clearLockedAll
  <2>2. \A t \in Sets, v \in Ways : m_cache[t][v] = Null => m_cache'[t][v] = Null
    BY <1>3 DEF clearLockedAll
  <2> QED
    BY <2>1, <2>2, SlotsKept
<1>4. CASE UNCHANGED vars
  BY <1>4, SlotsKept DEF vars
<1> QED
  BY <1>1, <1>2, <1>3, <1>4, AllocateUses, DeallocateUses, SetMRUUses
  DEF Next, setLocked, clearLocked

\* Nothing has been used at first.
LEMMA InitUses == Init => UsedOK /\ GuardedOK
<1> SUFFICES ASSUME Init
             PROVE  UsedOK /\ GuardedOK
  OBVIOUS
<1>1. \A s \in Sets : used[s] = <<>>
  BY DEF Init
<1>2. \A x : ~Held(<<>>, x)
  BY DEF Held
<1>3. used \in [Sets -> Seq(Addrs)]
  BY DEF Init
<1> QED
  BY <1>1, <1>2, <1>3, DepthType DEF UsedOK, GuardedOK, Guarded, Distinct

\* The way the bits of a set lead to.
LEMMA VictimIs ==
  ASSUME BitsOK, NEW s \in Sets
  PROVE  /\ getVictim(s) \in Ways
         /\ \A k \in 1 .. Depth :
              replacement_data[s][Node(getVictim(s), k)] = Right(getVictim(s), k)
<1> DEFINE bits == replacement_data[s]
           Led(w) == \A p \in Above(w) : bits[p.node] = p.right
<1>1. PICK w \in Ways : \A k \in 1 .. Depth : bits[Node(w, k)] = Right(w, k)
  <2>1. bits \in [1 .. Assoc - 1 -> BOOLEAN]
    BY DEF BitsOK
  <2> QED
    BY <2>1, VictimExists
<1>2. Led(w)
  <2> SUFFICES ASSUME NEW p \in Above(w)
               PROVE  bits[p.node] = p.right
    OBVIOUS
  <2>1. PICK k \in 1 .. Depth : p = [node |-> Node(w, k), right |-> Right(w, k)]
    BY AboveIs
  <2>2. p.node = Node(w, k) /\ p.right = Right(w, k)
    BY <2>1
  <2> QED
    BY <1>1, <2>2
<1> DEFINE v == getVictim(s)
<1>3. v \in Ways /\ Led(v)
  <2>1. v = CHOOSE u \in Ways : Led(u)
    BY DEF getVictim
  <2> HIDE DEF Led, v
  <2> QED
    BY <1>2, <2>1
<1> HIDE DEF v
<1>4. ASSUME NEW k \in 1 .. Depth
      PROVE  bits[Node(v, k)] = Right(v, k)
  <2> DEFINE p == [node |-> Node(v, k), right |-> Right(v, k)]
  <2>1. p \in Above(v)
    BY <1>3, AboveIs
  <2>2. bits[p.node] = p.right
    BY <1>3, <2>1
  <2> QED
    BY <2>2
<1> QED
  BY <1>3, <1>4 DEF v

\* In a set without an open slot, the line at the way the bits lead to is one
\* of the set's, and it is not one of the lines used last.
LEMMA VictimIsOld ==
  ASSUME IInv, BitsOK, UsedOK, GuardedOK, NEW s \in Sets, \A w \in Ways : m_cache[s][w] # Null
  PROVE  /\ m_cache[s][getVictim(s)].addr \in Addrs
         /\ m_tag_index[m_cache[s][getVictim(s)].addr] = getVictim(s)
         /\ addressToCacheSet(m_cache[s][getVictim(s)].addr) = s
         /\ m_cache[s][getVictim(s)].addr \notin ToSet(used[s])
<1> DEFINE v == getVictim(s)
           x == m_cache[s][v].addr
           q == used[s]
<1>1. v \in Ways /\ \A k \in 1 .. Depth : replacement_data[s][Node(v, k)] = Right(v, k)
  BY VictimIs
<1> HIDE DEF v
<1>2. x \in Addrs /\ m_tag_index[x] = v /\ addressToCacheSet(x) = s
  BY <1>1 DEF IInv, ArrayOK, TagIndexExact, Entries
<1>3. /\ q \in Seq(Addrs) /\ Len(q) <= Depth /\ Distinct(q)
      /\ \A y \in Addrs : Held(q, y) => m_tag_index[y] \in Ways
  BY DEF UsedOK
<1>4. Guarded(replacement_data[s], q, m_tag_index, m_cache[s])
  BY DEF GuardedOK
<1> HIDE DEF x, q
<1>5. ~Held(q, x)
  <2> SUFFICES ASSUME Held(q, x)
               PROVE  FALSE
    OBVIOUS
  <2> DEFINE bits == replacement_data[s]
             index == m_tag_index
             row == m_cache[s]
  <2>1. /\ \A k \in 1 .. Depth : bits[Node(v, k)] = Right(v, k)
        /\ \A y \in Addrs : Held(q, y) => index[y] \in Ways
        /\ \A w \in Ways : row[w] # Null
        /\ Guarded(bits, q, index, row)
        /\ index[x] = v
    BY <1>1, <1>2, <1>3, <1>4
  <2> HIDE DEF bits, index, row
  <2>2. index[x] # v
    BY <1>1, <1>2, <1>3, <2>1, VictimUnused
  <2> QED
    BY <2>1, <2>2
<1>6. x \notin ToSet(q)
  BY <1>3, <1>5 DEF ToSet, Held
<1> QED
  BY <1>2, <1>6 DEF v, x, q

\* The victim of a full set is not one of the Depth lines of the set that were
\* used last: following the bits from the root, each level was turned away
\* from the line by another line, used later (touch, reset, getVictim).
THEOREM RecentCorrect ==
  ASSUME NoNotPresent
  PROVE  Spec => []RecentSafe
<1>1. Init => IInv /\ BitsOK /\ UsedOK /\ GuardedOK
  BY InitIndex, InitUses DEF Init, BitsOK
<1>2. IInv /\ BitsOK /\ UsedOK /\ GuardedOK /\ [Next]_vars => (IInv /\ BitsOK /\ UsedOK /\ GuardedOK)'
  BY NextIndex, NextBits, NextUses
<1>3. IInv /\ BitsOK /\ UsedOK /\ GuardedOK => RecentSafe
  <2> SUFFICES ASSUME IInv, BitsOK, UsedOK, GuardedOK, NEW a \in Addrs, ~cacheAvail(a)
               PROVE  cacheProbe(a) \notin ToSet(used[addressToCacheSet(a)])
    BY DEF RecentSafe
  <2>1. \A w \in Ways : m_cache[addressToCacheSet(a)][w] # Null
    BY DEF cacheAvail, Vacant
  <2> QED
    BY <2>1, SetsOfLines, VictimIsOld DEF cacheProbe
<1> QED
  BY <1>1, <1>2, <1>3, PTL DEF Spec

-----------------------------------------------------------------------------
(* The array implements CacheLines. *)

\* The helpers of CacheLines are those of CacheMemory.
LEMMA SameHelpers ==
  /\ \A S : Array!Cardinality(S) = Cardinality(S)
  /\ \A q : Array!ToSet(q) = ToSet(q)
  /\ \A q, a : Array!RemoveFirst(q, a) = RemoveFirst(q, a)
  /\ \A q, a : Array!NewestFirst(q, a) = Latest(RemoveFirst(q, a), a)
<1>1. \A S : Array!Cardinality(S) = Cardinality(S)
  BY DEF Array!Cardinality, Cardinality
<1>2. \A q : Array!ToSet(q) = ToSet(q)
  BY DEF Array!ToSet, ToSet
<1>3. \A S : Array!Min(S) = Min(S)
  BY DEF Array!Min, Min
<1>4. \A q, i : Array!RemoveAt(q, i) = RemoveAt(q, i)
  BY DEF Array!RemoveAt, RemoveAt
<1>5. \A q, a : Array!RemoveFirst(q, a) = RemoveFirst(q, a)
  BY <1>3, <1>4 DEF Array!RemoveFirst, RemoveFirst, Array!SelectInSeq, SelectInSeq
<1>6. \A q, a : Array!NewestFirst(q, a) = Latest(RemoveFirst(q, a), a)
  BY <1>3, <1>5 DEF Array!NewestFirst, Latest
<1> QED
  BY <1>1, <1>2, <1>5, <1>6

InLine(s) == {a \in Lines : SetOf[a] = s}

\* The lines of a set, for both modules.
LEMMA InLineIs == \A s : Array!InSet(s, Lines) = InLine(s)
BY DEF Array!InSet, InLine

\* The lines are those with a way in the index.
LEMMA LinesAre ==
  ASSUME NoNotPresent, IInv
  PROVE  Lines = {a \in Addrs : m_tag_index[a] \in Ways}
<1>1. ASSUME NEW a \in Addrs
      PROVE  isTagPresent(a) <=> m_tag_index[a] \in Ways
  <2>1. isTagPresent(a) => m_tag_index[a] \in Ways
    BY PresentAt DEF IInv
  <2>2. ~isTagPresent(a) => m_tag_index[a] = NoWay
    BY AbsentIsUnindexed
  <2> QED
    BY <2>1, <2>2, NoWayIsNone
<1> QED
  BY <1>1 DEF Lines

\* The entry of a line.
LEMMA LineEntry ==
  ASSUME NoNotPresent, IInv, NEW a \in Addrs, m_tag_index[a] \in Ways
  PROVE  /\ EntryAt(a) \in Entries /\ EntryAt(a).addr = a
         /\ m_cache[addressToCacheSet(a)][m_tag_index[a]] = EntryAt(a)
<1>1. isTagPresent(a)
  BY LinesAre DEF Lines
<1> QED
  BY <1>1, EntryIsThere DEF EntryAt

\* The lock of a line is that of its entry.
LEMMA LockIs ==
  ASSUME NoNotPresent, IInv
  PROVE  /\ Locks = [a \in Addrs |-> IF m_tag_index[a] \in Ways THEN EntryAt(a).locked ELSE Free]
         /\ \A a \in Addrs : Locks[a] \in Contexts \cup {Free}
<1>1. \A a \in Addrs : isTagPresent(a) <=> m_tag_index[a] \in Ways
  BY LinesAre DEF Lines
<1>2. \A a \in Addrs : m_tag_index[a] \in Ways => EntryAt(a).locked \in Contexts \cup {Free}
  BY LineEntry DEF Entries
<1> QED
  BY <1>1, <1>2 DEF Locks

\* An open way is one without an entry.
LEMMA VacantIs ==
  ASSUME NoNotPresent, IInv, NEW s \in Sets, NEW w \in Ways
  PROVE  Vacant(s, w) <=> m_cache[s][w] = Null
<1>1. Vacant(s, w) => m_cache[s][w] = Null
  BY VacantIsNull DEF IInv
<1> QED
  BY <1>1 DEF Vacant

\* There are Assoc ways.
LEMMA WaysCount == IsFiniteSet(Ways) /\ Cardinality(Ways) = Assoc
<1>1. 0 \in Int /\ Assoc - 1 \in Int /\ ~(0 > Assoc - 1) /\ (Assoc - 1) - 0 + 1 = Assoc
  BY DepthType
<1>2. /\ IsFiniteSet(0 .. Assoc - 1)
      /\ Cardinality(0 .. Assoc - 1) = IF 0 > Assoc - 1 THEN 0 ELSE (Assoc - 1) - 0 + 1
  BY <1>1, FS_Interval
<1> QED
  BY <1>1, <1>2 DEF Ways

\* A set is full exactly when every way of it holds a line.
LEMMA FullIs ==
  ASSUME NoNotPresent, IInv, NEW s \in Sets
  PROVE  Array!Full(s, Lines) <=> \A w \in Ways : m_cache[s][w] # Null
<1> DEFINE S == InLine(s)
           f == [a \in S |-> m_tag_index[a]]
<1>1. S = {a \in Addrs : m_tag_index[a] \in Ways /\ addressToCacheSet(a) = s}
  BY LinesAre DEF InLine, addressToCacheSet
<1>2. \A a \in S : m_cache[s][m_tag_index[a]] \in Entries /\ m_cache[s][m_tag_index[a]].addr = a
  BY <1>1, LineEntry
<1>3. f \in Injection(S, Ways)
  <2>1. f \in [S -> Ways]
    BY <1>1
  <2>2. \A a, b \in S : f[a] = f[b] => a = b
    BY <1>2
  <2> HIDE DEF f, S
  <2> QED
    BY <2>1, <2>2 DEF Injection, IsInjective
<1>4. (\A w \in Ways : m_cache[s][w] # Null) <=> f \in Surjection(S, Ways)
  <2>1. ASSUME NEW w \in Ways, m_cache[s][w] # Null
        PROVE  \E a \in S : f[a] = w
    <3> DEFINE a == m_cache[s][w].addr
    <3>1. a \in Addrs /\ m_tag_index[a] = w /\ addressToCacheSet(a) = s
      BY <2>1 DEF IInv, ArrayOK, TagIndexExact, Entries
    <3>2. a \in S
      BY <1>1, <3>1
    <3> QED
      BY <3>1, <3>2
  <2>2. ASSUME NEW a \in S
        PROVE  m_cache[s][f[a]] # Null
    BY <1>2, CacheAssumption DEF CacheAssumption
  <2>3. f \in [S -> Ways]
    BY <1>1
  <2> HIDE DEF f, S
  <2>4. f \in Surjection(S, Ways) <=> \A w \in Ways : \E a \in S : f[a] = w
    BY <2>3 DEF Surjection
  <2> QED
    BY <2>1, <2>2, <2>4
<1> HIDE DEF f
<1>5. Cardinality(S) = Assoc <=> f \in Surjection(S, Ways)
  <2> HIDE DEF S
  <2> QED
    BY <1>3, WaysCount, FS_Injection
<1> QED
  BY <1>4, <1>5, SameHelpers, InLineIs DEF Array!Full

\* The array offers the victim of every full set, and none elsewhere.
OfferedOK ==
  /\ Offered \in [Sets -> SUBSET Addrs]
  /\ \A s \in Sets :
       IF Array!Full(s, Lines)
       THEN /\ Cardinality(Offered[s]) = 1
            /\ Offered[s] \subseteq Array!InSet(s, Lines) \ ToSet(used[s])
       ELSE Offered[s] = {}

Inv == IInv /\ BitsOK /\ UsedOK /\ GuardedOK

\* The victim is offered where a set is full, and only there.
LEMMA OffersHold ==
  ASSUME NoNotPresent, Inv
  PROVE  OfferedOK
<1>1. \A s \in Sets, w \in Ways : Vacant(s, w) <=> m_cache[s][w] = Null
  BY VacantIs DEF Inv
<1>2. ASSUME NEW s \in Sets
      PROVE  /\ Offered[s] \in SUBSET Addrs
             /\ IF Array!Full(s, Lines)
                THEN /\ Cardinality(Offered[s]) = 1
                     /\ Offered[s] \subseteq Array!InSet(s, Lines) \ ToSet(used[s])
                ELSE Offered[s] = {}
  <2>1. CASE \A w \in Ways : m_cache[s][w] # Null
    <3> DEFINE x == m_cache[s][getVictim(s)].addr
    <3>1. Offered[s] = {x}
      BY <1>1, <2>1 DEF Offered
    <3>2. x \in Addrs /\ m_tag_index[x] \in Ways /\ addressToCacheSet(x) = s /\ x \notin ToSet(used[s])
      BY <2>1, VictimIsOld, VictimIs DEF Inv
    <3> HIDE DEF x
    <3>3. x \in InLine(s)
      BY <3>2, LinesAre DEF Inv, InLine, addressToCacheSet
    <3>4. Array!Full(s, Lines)
      BY <2>1, FullIs DEF Inv
    <3>5. Cardinality({x}) = 1
      BY FS_Singleton
    <3> QED
      BY <3>1, <3>2, <3>3, <3>4, <3>5, InLineIs
  <2>2. CASE \E w \in Ways : m_cache[s][w] = Null
    <3>1. Offered[s] = {}
      BY <1>1, <2>2 DEF Offered
    <3>2. ~Array!Full(s, Lines)
      BY <2>2, FullIs DEF Inv
    <3> QED
      BY <3>1, <3>2
  <2> QED
    BY <2>1, <2>2
<1>3. Offered \in [Sets -> SUBSET Addrs]
  BY <1>2 DEF Offered
<1> QED
  BY <1>2, <1>3 DEF OfferedOK

-----------------------------------------------------------------------------
\* What CacheLines sees of the array.
View ==
  /\ Lines = {a \in Addrs : m_tag_index[a] \in Ways}
  /\ Locks = [a \in Addrs |-> IF m_tag_index[a] \in Ways
                              THEN m_cache[addressToCacheSet(a)][m_tag_index[a]].locked ELSE Free]
  /\ OfferedOK

\* The invariant gives what CacheLines sees.
LEMMA InvView == NoNotPresent /\ Inv => View
<1> SUFFICES ASSUME NoNotPresent, Inv
             PROVE  View
  OBVIOUS
<1>1. Lines = {a \in Addrs : m_tag_index[a] \in Ways}
  BY LinesAre DEF Inv
<1>2. Locks = [a \in Addrs |-> IF m_tag_index[a] \in Ways
                               THEN m_cache[addressToCacheSet(a)][m_tag_index[a]].locked ELSE Free]
  BY LockIs DEF Inv, EntryAt
<1> QED
  BY <1>1, <1>2, OffersHold DEF View

\* The order after a use is the abstract one.
LEMMA UsesMap ==
  ASSUME NEW a \in Addrs, NEW w, Use(addressToCacheSet(a), w, a)
  PROVE  Array!Use(a)
<1> DEFINE s == addressToCacheSet(a)
<1>1. used' = [used EXCEPT ![s] = Latest(RemoveFirst(used[s], a), a)]
  BY DEF Use, Older, Latest
<1>2. Array!NewestFirst(used[s], a) = Latest(RemoveFirst(used[s], a), a)
  BY SameHelpers
<1>3. SetOf[a] = s
  BY DEF addressToCacheSet
<1> HIDE DEF s
<1>4. used' = [used EXCEPT ![s] = Array!NewestFirst(used[s], a)]
  BY <1>1, <1>2
<1> QED
  BY <1>3, <1>4 DEF Array!Use

\* allocate is a Fill.
LEMMA AllocateFills ==
  ASSUME NoNotPresent, Inv, View, View', NEW a \in Addrs, allocate(a)
  PROVE  Array!Fill(a)
<1> DEFINE s == addressToCacheSet(a)
           e == [addr |-> a, perm |-> "Invalid", locked |-> Free]
<1>1. PICK w \in Ways : /\ ~isTagPresent(a) /\ Vacant(s, w)
                        /\ Write(s, w, e)
                        /\ m_tag_index' = [m_tag_index EXCEPT ![a] = w]
                        /\ Use(s, w, a)
  BY DEF allocate, Write
<1>2. s \in Sets /\ e \in Entries \cup {Null} /\ e.locked = Free
  BY SetsOfLines, CacheAssumption DEF CacheAssumption, Entries
<1>3. m_tag_index[a] = NoWay
  BY <1>1, AbsentIsUnindexed DEF Inv
<1>4. m_cache[s][w] = Null
  BY <1>1, <1>2, VacantIsNull DEF Inv, IInv
<1>5. Array!Use(a)
  BY <1>1, UsesMap
<1> HIDE DEF s, e
<1>6. /\ m_cache'[s][w] = e
      /\ \A t \in Sets, v \in Ways : (t # s \/ v # w) => m_cache'[t][v] = m_cache[t][v]
  BY <1>1, <1>2, SlotWritten DEF Inv, IInv
<1>7. m_tag_index'[a] = w /\ \A b \in Addrs : b # a => m_tag_index'[b] = m_tag_index[b]
  BY <1>1 DEF Inv, IInv, ArrayOK
<1>8. a \notin Lines /\ Lines' = Lines \cup {a}
  BY <1>3, <1>7, NoWayIsNone DEF View
<1>9. ~Array!Full(SetOf[a], Lines)
  <2>1. ~Array!Full(s, Lines)
    BY <1>2, <1>4, FullIs DEF Inv
  <2> QED
    BY <2>1 DEF s, addressToCacheSet
<1>10. ASSUME NEW b \in Addrs
       PROVE  Locks'[b] = IF b = a THEN Free ELSE Locks[b]
  <2>1. Locks'[b] = IF m_tag_index'[b] \in Ways
                    THEN m_cache'[addressToCacheSet(b)][m_tag_index'[b]].locked ELSE Free
    BY DEF View, addressToCacheSet
  <2>2. Locks[b] = IF m_tag_index[b] \in Ways
                   THEN m_cache[addressToCacheSet(b)][m_tag_index[b]].locked ELSE Free
    BY DEF View
  <2>3. CASE b = a
    BY <1>2, <1>6, <1>7, <2>1, <2>3 DEF s
  <2>4. CASE b # a
    <3>1. m_tag_index'[b] = m_tag_index[b]
      BY <1>7, <2>4
    <3>2. ASSUME m_tag_index[b] \in Ways
          PROVE  m_cache'[addressToCacheSet(b)][m_tag_index[b]]
                   = m_cache[addressToCacheSet(b)][m_tag_index[b]]
      <4>1. m_cache[addressToCacheSet(b)][m_tag_index[b]] # Null
        BY <3>2, LineEntry, CacheAssumption DEF Inv, CacheAssumption
      <4>2. addressToCacheSet(b) # s \/ m_tag_index[b] # w
        BY <1>4, <4>1
      <4> QED
        BY <1>6, <3>2, <4>2, SetsOfLines
    <3> QED
      BY <2>1, <2>2, <2>4, <3>1, <3>2
  <2> QED
    BY <2>3, <2>4
<1>11. Locks' = [Locks EXCEPT ![a] = Free]
  <2>1. DOMAIN Locks = Addrs /\ Locks = [b \in Addrs |-> Locks[b]]
    BY DEF View
  <2>2. Locks' = [b \in Addrs |-> Locks'[b]]
    BY DEF View
  <2> QED
    BY <1>10, <2>1, <2>2
<1> QED
  BY <1>5, <1>8, <1>9, <1>11 DEF Array!Fill

\* deallocate is a Drop.
LEMMA DeallocateDrops ==
  ASSUME NoNotPresent, Inv, View, View', NEW a \in Addrs, deallocate(a)
  PROVE  Array!Drop(a)
<1> DEFINE s == addressToCacheSet(a)
           w == m_tag_index[a]
<1>1. /\ isTagPresent(a)
      /\ m_tag_index' = [m_tag_index EXCEPT ![a] = NoWay]
      /\ used' = [used EXCEPT ![s] = RemoveFirst(used[s], a)]
  BY DEF deallocate, Older
<1>2. s \in Sets /\ w \in Ways
  BY <1>1, SetsOfLines, PresentAt DEF Inv, IInv
<1>3. EntryAt(a).addr = a /\ m_cache[s][w] = EntryAt(a)
  BY <1>2, LineEntry DEF Inv
<1>4. used' = [used EXCEPT ![SetOf[a]] = Array!RemoveFirst(used[SetOf[a]], a)]
  <2>1. SetOf[a] = s /\ Array!RemoveFirst(used[s], a) = RemoveFirst(used[s], a)
    BY SameHelpers DEF addressToCacheSet
  <2> HIDE DEF s
  <2> QED
    BY <1>1, <2>1
<1>5. \A t \in Sets, v \in Ways : (t # s \/ v # w) => m_cache'[t][v] = m_cache[t][v]
  BY <1>2, Freed DEF Inv
<1>6. m_tag_index'[a] = NoWay /\ \A b \in Addrs : b # a => m_tag_index'[b] = m_tag_index[b]
  BY <1>1 DEF Inv, IInv, ArrayOK
<1>7. a \in Lines /\ Lines' = Lines \ {a}
  BY <1>2, <1>6, NoWayIsNone DEF View
<1>8. ASSUME NEW b \in Addrs
      PROVE  Locks'[b] = IF b = a THEN Free ELSE Locks[b]
  <2>1. Locks'[b] = IF m_tag_index'[b] \in Ways
                    THEN m_cache'[addressToCacheSet(b)][m_tag_index'[b]].locked ELSE Free
    BY DEF View, addressToCacheSet
  <2>2. Locks[b] = IF m_tag_index[b] \in Ways
                   THEN m_cache[addressToCacheSet(b)][m_tag_index[b]].locked ELSE Free
    BY DEF View
  <2>3. CASE b = a
    BY <1>6, <2>1, <2>3, NoWayIsNone
  <2>4. CASE b # a
    <3>1. m_tag_index'[b] = m_tag_index[b]
      BY <1>6, <2>4
    <3>2. ASSUME m_tag_index[b] \in Ways
          PROVE  m_cache'[addressToCacheSet(b)][m_tag_index[b]]
                   = m_cache[addressToCacheSet(b)][m_tag_index[b]]
      <4>1. m_cache[addressToCacheSet(b)][m_tag_index[b]].addr = b
        BY <3>2, LineEntry DEF Inv
      <4>2. addressToCacheSet(b) # s \/ m_tag_index[b] # w
        BY <1>3, <2>4, <4>1
      <4> HIDE DEF s, w
      <4> QED
        BY <1>5, <3>2, <4>2, SetsOfLines
    <3> QED
      BY <2>1, <2>2, <2>4, <3>1, <3>2
  <2> QED
    BY <2>3, <2>4
<1>9. Locks' = [Locks EXCEPT ![a] = Free]
  <2>1. DOMAIN Locks = Addrs /\ Locks = [b \in Addrs |-> Locks[b]]
    BY DEF View
  <2>2. Locks' = [b \in Addrs |-> Locks'[b]]
    BY DEF View
  <2> QED
    BY <1>8, <2>1, <2>2
<1> QED
  BY <1>4, <1>7, <1>9 DEF Array!Drop

-----------------------------------------------------------------------------
\* Writing the entry of a present line is a step of its lock, which a change
\* of permission leaves as it is.
LEMMA FieldLocks ==
  ASSUME NoNotPresent, Inv, View, View', NEW a \in Addrs, isTagPresent(a),
         NEW s \in Sets, NEW w \in Ways, s = addressToCacheSet(a), w = m_tag_index[a],
         NEW e \in Entries, Write(s, w, e),
         UNCHANGED <<m_tag_index, used>>
  PROVE  Array!Lock(a, e.locked)
<1>2. m_cache[s][w].addr = a
  BY LineEntry DEF Inv
<1>3. a \in Lines /\ UNCHANGED <<Lines, used>>
  BY DEF View
<1>4. /\ m_cache' \in [Sets -> [Ways -> Entries \cup {Null}]]
      /\ m_cache'[s][w] = e
      /\ \A t \in Sets, v \in Ways : (t # s \/ v # w) => m_cache'[t][v] = m_cache[t][v]
  BY SlotWritten DEF Inv, IInv
<1>5. ASSUME NEW b \in Addrs
      PROVE  Locks'[b] = IF b = a THEN e.locked ELSE Locks[b]
  <2>1. Locks'[b] = IF m_tag_index[b] \in Ways
                    THEN m_cache'[addressToCacheSet(b)][m_tag_index[b]].locked ELSE Free
    BY DEF View, addressToCacheSet
  <2>2. Locks[b] = IF m_tag_index[b] \in Ways
                   THEN m_cache[addressToCacheSet(b)][m_tag_index[b]].locked ELSE Free
    BY DEF View
  <2>3. CASE b = a
    BY <1>4, <2>1, <2>3
  <2>4. CASE b # a
    <3>1. ASSUME m_tag_index[b] \in Ways
          PROVE  m_cache'[addressToCacheSet(b)][m_tag_index[b]]
                   = m_cache[addressToCacheSet(b)][m_tag_index[b]]
      <4>1. m_cache[addressToCacheSet(b)][m_tag_index[b]].addr = b
        BY <3>1, LineEntry DEF Inv
      <4>2. addressToCacheSet(b) # s \/ m_tag_index[b] # w
        BY <1>2, <2>4, <4>1
      <4> QED
        BY <1>4, <3>1, <4>2, SetsOfLines
    <3> QED
      BY <2>1, <2>2, <2>4, <3>1
  <2> QED
    BY <2>3, <2>4
<1>6. Locks' = [Locks EXCEPT ![a] = e.locked]
  <2>1. DOMAIN Locks = Addrs /\ Locks = [b \in Addrs |-> Locks[b]]
    BY DEF View
  <2>2. Locks' = [b \in Addrs |-> Locks'[b]]
    BY DEF View
  <2> QED
    BY <1>5, <2>1, <2>2
<1> QED
  BY <1>3, <1>6 DEF Array!Lock

\* clearLockedAll is a Release.
LEMMA ReleaseMaps ==
  ASSUME NoNotPresent, Inv, View, View', NEW context \in Contexts, clearLockedAll(context)
  PROVE  Array!Release(context)
<1>1. UNCHANGED <<Lines, used>>
  BY DEF View, clearLockedAll
<1>2. ASSUME NEW b \in Addrs
      PROVE  Locks'[b] = IF Locks[b] = context THEN Free ELSE Locks[b]
  <2>1. Locks'[b] = IF m_tag_index[b] \in Ways
                    THEN m_cache'[addressToCacheSet(b)][m_tag_index[b]].locked ELSE Free
    BY DEF View, addressToCacheSet, clearLockedAll
  <2>2. Locks[b] = IF m_tag_index[b] \in Ways
                   THEN m_cache[addressToCacheSet(b)][m_tag_index[b]].locked ELSE Free
    BY DEF View
  <2>3. CASE m_tag_index[b] \in Ways
    <3> DEFINE t == addressToCacheSet(b)
               v == m_tag_index[b]
               e == m_cache[t][v]
    <3>1. t \in Sets /\ v \in Ways /\ e \in Entries /\ e # Null
      BY <2>3, SetsOfLines, LineEntry, CacheAssumption DEF Inv, CacheAssumption
    <3> HIDE DEF t, v
    <3>2. m_cache'[t][v] = IF e # Null /\ e.locked = context
                           THEN [e EXCEPT !.locked = Free] ELSE e
      BY <3>1 DEF clearLockedAll
    <3>3. [e EXCEPT !.locked = Free].locked = Free
      BY <3>1 DEF Entries
    <3>4. m_cache'[t][v].locked = IF e.locked = context THEN Free ELSE e.locked
      BY <3>1, <3>2, <3>3
    <3>5. Locks'[b] = m_cache'[t][v].locked /\ Locks[b] = e.locked
      BY <2>1, <2>2, <2>3 DEF t, v
    <3> QED
      BY <3>4, <3>5
  <2>4. CASE m_tag_index[b] \notin Ways
    BY <2>1, <2>2, <2>4
  <2> QED
    BY <2>3, <2>4
<1>3. Locks' = [b \in Addrs |-> Locks'[b]]
  BY DEF View
<1>4. Locks' = [b \in Addrs |-> IF Locks[b] = context THEN Free ELSE Locks[b]]
  BY <1>2, <1>3
<1> QED
  BY <1>1, <1>4 DEF Array!Release

\* setMRU is a Touch.
LEMMA TouchMaps ==
  ASSUME NoNotPresent, Inv, View, View', NEW a \in Addrs, setMRU(a)
  PROVE  Array!Touch(a)
<1>1. Array!Use(a)
  BY UsesMap DEF setMRU
<1>2. a \in Lines
  BY DEF setMRU, Lines
<1>3. UNCHANGED <<Lines, Locks>>
  BY DEF View, setMRU, addressToCacheSet
<1> QED
  BY <1>1, <1>2, <1>3 DEF Array!Touch

\* Every step of the array is a step of CacheLines, or none.
LEMMA NextMaps ==
  NoNotPresent /\ Inv /\ View /\ View' /\ [Next]_vars => [Array!Next]_(Array!vars)
<1> SUFFICES ASSUME NoNotPresent, Inv, View, View', [Next]_vars
             PROVE  Array!Next \/ UNCHANGED Array!vars
  OBVIOUS
<1>0. Array!Offers
  BY SameHelpers DEF View, OfferedOK, Array!Offers
<1>1. ASSUME NEW a \in Addrs, NEW perm \in Perms, changePermission(a, perm)
      PROVE  \E c \in Contexts \cup {Free} : Array!Lock(a, c)
  <2> DEFINE e == [EntryAt(a) EXCEPT !.perm = perm]
  <2>1. isTagPresent(a) /\ UNCHANGED <<m_tag_index, used>>
    BY <1>1 DEF changePermission
  <2>2. m_cache' = [m_cache EXCEPT ![addressToCacheSet(a)][m_tag_index[a]] = e]
    BY <1>1, <2>1, PresentAt, SetsOfLines DEF changePermission, EntryAt, Inv, IInv, ArrayOK
  <2>3. e \in Entries /\ e.locked \in Contexts \cup {Free}
    BY <2>1, EntryIsThere DEF Entries, Inv
  <2>4. addressToCacheSet(a) \in Sets /\ m_tag_index[a] \in Ways
    BY <2>1, PresentAt, SetsOfLines DEF Inv, IInv
  <2>5. Write(addressToCacheSet(a), m_tag_index[a], e)
    BY <2>2 DEF Write
  <2> HIDE DEF e
  <2>6. Array!Lock(a, e.locked)
    BY <2>1, <2>3, <2>4, <2>5, FieldLocks
  <2> QED
    BY <2>3, <2>6
<1>2. ASSUME NEW a \in Addrs, NEW context \in Contexts \cup {Free}, SetLock(a, context)
      PROVE  Array!Lock(a, context)
  <2> DEFINE e == [EntryAt(a) EXCEPT !.locked = context]
  <2>1. isTagPresent(a) /\ UNCHANGED <<m_tag_index, used>>
    BY <1>2 DEF SetLock
  <2>2. m_cache' = [m_cache EXCEPT ![addressToCacheSet(a)][m_tag_index[a]] = e]
    BY <1>2, <2>1, PresentAt, SetsOfLines DEF SetLock, EntryAt, Inv, IInv, ArrayOK
  <2>3. e \in Entries /\ e.locked = context
    BY <2>1, EntryIsThere DEF Entries, Inv
  <2>4. addressToCacheSet(a) \in Sets /\ m_tag_index[a] \in Ways
    BY <2>1, PresentAt, SetsOfLines DEF Inv, IInv
  <2>5. Write(addressToCacheSet(a), m_tag_index[a], e)
    BY <2>2 DEF Write
  <2> HIDE DEF e
  <2>6. Array!Lock(a, e.locked)
    BY <2>1, <2>3, <2>4, <2>5, FieldLocks
  <2> QED
    BY <2>3, <2>6
<1>3. CASE UNCHANGED vars
  BY <1>3 DEF vars, Array!vars, Lines, Locks, Offered, isTagPresent, findTagInSet, EntryAt,
              addressToCacheSet, Vacant, getVictim
<1>4. ASSUME NEW a \in Addrs, allocate(a) \/ deallocate(a) \/ setMRU(a)
      PROVE  Array!Next
  BY <1>0, <1>4, AllocateFills, DeallocateDrops, TouchMaps DEF Array!Next
<1>5. ASSUME NEW a \in Addrs, NEW perm \in Perms, changePermission(a, perm)
      PROVE  Array!Next
  BY <1>0, <1>1, <1>5 DEF Array!Next
<1>6. ASSUME NEW a \in Addrs, NEW context \in Contexts \cup {Free}, SetLock(a, context)
      PROVE  Array!Next
  BY <1>0, <1>2, <1>6 DEF Array!Next
<1>7. ASSUME NEW context \in Contexts, clearLockedAll(context)
      PROVE  Array!Next
  BY <1>0, <1>7, ReleaseMaps DEF Array!Next
<1> QED
  BY <1>3, <1>4, <1>5, <1>6, <1>7 DEF Next, setLocked, clearLocked

\* The empty array is the empty CacheLines.
LEMMA InitMaps == NoNotPresent /\ Inv /\ Init => Array!Init
<1> SUFFICES ASSUME NoNotPresent, Inv, Init
             PROVE  Array!Init
  OBVIOUS
<1>1. \A a \in Addrs : m_tag_index[a] = NoWay
  BY DEF Init
<1>2. Lines = {} /\ Locks = [a \in Addrs |-> Free]
  BY <1>1, LinesAre, LockIs, NoWayIsNone DEF Inv
<1>3. ASSUME NEW s \in Sets
      PROVE  Offered[s] = {}
  <2>1. 0 \in Ways /\ m_cache[s][0] = Null
    BY DepthType DEF Init, Ways
  <2>2. Vacant(s, 0)
    BY <2>1 DEF Vacant
  <2> QED
    BY <2>1, <2>2 DEF Offered
<1>4. Offered = [s \in Sets |-> {}]
  BY <1>3 DEF Offered
<1> QED
  BY <1>2, <1>4 DEF Init, Array!Init

\* Every run of the array is a run of the abstract one: a call fills, drops,
\* touches or locks a line as CacheLines allows, and the victim it would give
\* is always one CacheLines may offer (all the operations of CacheMemory.cc).
THEOREM ArrayImplements ==
  ASSUME NoNotPresent
  PROVE  Spec => ImplementsLines
<1>1. Init => Inv
  BY InitIndex, InitUses DEF Init, BitsOK, Inv
<1>2. Inv /\ [Next]_vars => Inv'
  BY NextIndex, NextBits, NextUses DEF Inv
<1>3. Inv => View
  BY InvView
<1>4. Init => Array!Init
  BY <1>1, InitMaps
<1>5. Inv /\ View /\ View' /\ [Next]_vars => [Array!Next]_(Array!vars)
  BY NextMaps
<1> QED
  BY <1>1, <1>2, <1>3, <1>4, <1>5, PTL DEF Spec, ImplementsLines, Array!Spec
=============================================================================
