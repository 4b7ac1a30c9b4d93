---------------------------- MODULE CacheMemory ----------------------------
(* The cache array of the L1 and of the LLC (mem/ruby/structures/          *)
(* CacheMemory.cc): sets of ways, the index from a tag to its way, and the *)
(* replacement bits, which belong to the way and survive the entry.  An    *)
(* action is a call the controllers or the sequencer make; its guards are  *)
(* the assertions of the callee, which the callers establish first.        *)
EXTENDS Integers, FiniteSets, Sequences, SequencesExt

CONSTANTS Addrs,      \* line addresses
          Sets, SetOf,
          Depth,      \* levels of the replacement tree: 2^Depth ways
          Perms,      \* access permissions the protocol gives its states
          Contexts, Free,                          \* Free is m_locked = -1
          Null

Twos[k \in Nat] == IF k = 0 THEN 1 ELSE 2 * Twos[k - 1]      \* powers of two
Assoc == Twos[Depth]
Ways  == 0 .. Assoc - 1
NoWay == -1

Entries == [addr : Addrs, perm : Perms, locked : Contexts \cup {Free}]

ASSUME CacheAssumption ==
  /\ Depth \in Nat \ {0} /\ SetOf \in [Addrs -> Sets]
  /\ "Invalid" \in Perms /\ Free \notin Contexts /\ Null \notin Entries

VARIABLES m_cache, m_tag_index,
          replacement_data,   \* the tree of a set: TRUE is "victim on the right"
          used                \* history: per set, the lines used last
vars == <<m_cache, m_tag_index, replacement_data, used>>

Init ==
  /\ m_cache = [s \in Sets |-> [w \in Ways |-> Null]]
  /\ m_tag_index = [a \in Addrs |-> NoWay]
  /\ replacement_data = [s \in Sets |-> [n \in 1 .. Assoc - 1 |-> FALSE]]
  /\ used = [s \in Sets |-> <<>>]

-----------------------------------------------------------------------------
(* Lookup. *)

addressToCacheSet(a) == SetOf[a]
EntryAt(a) == m_cache[addressToCacheSet(a)][m_tag_index[a]]

findTagInSet(a) ==
  IF m_tag_index[a] # NoWay /\ EntryAt(a).perm # "NotPresent"
  THEN m_tag_index[a] ELSE NoWay

isTagPresent(a) == findTagInSet(a) # NoWay

Vacant(s, w) == m_cache[s][w] # Null => m_cache[s][w].perm = "NotPresent"

cacheAvail(a) ==
  \E w \in Ways : ~Vacant(addressToCacheSet(a), w) =>
                    m_cache[addressToCacheSet(a)][w].addr = a

-----------------------------------------------------------------------------
(* The replacement tree.  The leaves are Assoc + w, a node's children are  *)
(* 2n and 2n + 1, and the odd one is on the right.                         *)

Above(w) == {[node |-> (Assoc + w) \div Twos[k],
              right |-> ((Assoc + w) \div Twos[k - 1]) % 2 = 1] : k \in 1 .. Depth}

\* Mutant: the branch is pointed at the way that was used.
PointAway_towards(bits, w) ==
  [n \in DOMAIN bits |->
     IF \E p \in Above(w) : p.node = n THEN (CHOOSE p \in Above(w) : p.node = n).right
     ELSE bits[n]]

PointAway(bits, w) ==                       \* touch and reset
  [n \in DOMAIN bits |->
     IF \E p \in Above(w) : p.node = n THEN ~(CHOOSE p \in Above(w) : p.node = n).right
     ELSE bits[n]]

PointAt(bits, w) ==                         \* invalidate
  [n \in DOMAIN bits |->
     IF \E p \in Above(w) : p.node = n THEN (CHOOSE p \in Above(w) : p.node = n).right
     ELSE bits[n]]

getVictim(s) ==
  CHOOSE w \in Ways : \A p \in Above(w) : replacement_data[s][p.node] = p.right

cacheProbe(a) == m_cache[addressToCacheSet(a)][getVictim(addressToCacheSet(a))].addr

-----------------------------------------------------------------------------
(* The operations. *)

Older(s, a) == RemoveFirst(used[s], a)
Use(s, w, a) ==
  /\ replacement_data' = [replacement_data EXCEPT ![s] = PointAway(@, w)]
  /\ used' = [used EXCEPT ![s] =
                SubSeq(<<a>> \o Older(s, a), 1, Min({Len(Older(s, a)) + 1, Depth}))]

\* Mutant: the first slot is taken without asking whether it is open.
allocate_first(a) ==
  LET s == addressToCacheSet(a) IN
  /\ ~isTagPresent(a) /\ \E v \in Ways : Vacant(s, v)
  /\ m_cache' = [m_cache EXCEPT ![s][0] = [addr |-> a, perm |-> "Invalid", locked |-> Free]]
  /\ m_tag_index' = [m_tag_index EXCEPT ![a] = 0]
  /\ Use(s, 0, a)

\* Mutant: a full set is not refused and the loop runs past its last way.
allocate_beyond(a) ==
  LET s == addressToCacheSet(a)
      w == CHOOSE v \in 0 .. Assoc : /\ v \in Ways => Vacant(s, v)
                                    /\ \A u \in 0 .. v - 1 : ~Vacant(s, u) IN
  /\ ~isTagPresent(a)
  /\ m_cache' = [m_cache EXCEPT ![s][w] = [addr |-> a, perm |-> "Invalid", locked |-> Free]]
  /\ m_tag_index' = [m_tag_index EXCEPT ![a] = w]
  /\ Use(s, w, a)

\* The first open slot is taken.
allocate(a) ==
  LET s == addressToCacheSet(a) IN
  \E w \in Ways :
    /\ ~isTagPresent(a) /\ Vacant(s, w) /\ \A u \in Ways : Vacant(s, u) => w <= u
    /\ m_cache' = [m_cache EXCEPT ![s][w] = [addr |-> a, perm |-> "Invalid", locked |-> Free]]
    /\ m_tag_index' = [m_tag_index EXCEPT ![a] = w]
    /\ Use(s, w, a)

deallocate(a) ==
  LET s == addressToCacheSet(a)  w == m_tag_index[a] IN
  /\ isTagPresent(a)
  /\ m_cache' = [m_cache EXCEPT ![s][w] = Null]
  /\ m_tag_index' = [m_tag_index EXCEPT ![a] = NoWay]
  /\ replacement_data' = [replacement_data EXCEPT ![s] = PointAt(@, w)]
  /\ used' = [used EXCEPT ![s] = Older(s, a)]

\* Also tryCacheAccess and testCacheAccess: they touch before they look at
\* the permission, so an access that is refused counts as a use.
setMRU(a) ==
  /\ isTagPresent(a)
  /\ Use(addressToCacheSet(a), m_tag_index[a], a)
  /\ UNCHANGED <<m_cache, m_tag_index>>

changePermission(a, perm) ==                \* setAccessPermission of the machines
  /\ isTagPresent(a)
  /\ m_cache' = [m_cache EXCEPT ![addressToCacheSet(a)][m_tag_index[a]].perm = perm]
  /\ UNCHANGED <<m_tag_index, replacement_data, used>>

SetLock(a, context) ==
  /\ isTagPresent(a)
  /\ m_cache' = [m_cache EXCEPT ![addressToCacheSet(a)][m_tag_index[a]].locked = context]
  /\ UNCHANGED <<m_tag_index, replacement_data, used>>
setLocked(a, context) == SetLock(a, context)
clearLocked(a) == SetLock(a, Free)

\* Mutant: the loop over the sets ends with the first one that holds a lock.
clearLockedAll_oneSet(context) ==
  \E one \in Sets :
    /\ m_cache' = [s \in Sets |-> [w \in Ways |->
                     IF s = one /\ m_cache[s][w] # Null /\ m_cache[s][w].locked = context
                     THEN [m_cache[s][w] EXCEPT !.locked = Free] ELSE m_cache[s][w]]]
    /\ UNCHANGED <<m_tag_index, replacement_data, used>>

clearLockedAll(context) ==
  /\ m_cache' = [s \in Sets |-> [w \in Ways |->
                   IF m_cache[s][w] # Null /\ m_cache[s][w].locked = context
                   THEN [m_cache[s][w] EXCEPT !.locked = Free] ELSE m_cache[s][w]]]
  /\ UNCHANGED <<m_tag_index, replacement_data, used>>

Next ==
  \/ \E a \in Addrs : allocate(a) \/ deallocate(a) \/ setMRU(a) \/ clearLocked(a)
  \/ \E a \in Addrs, perm \in Perms : changePermission(a, perm)
  \/ \E a \in Addrs, context \in Contexts : setLocked(a, context)
  \/ \E context \in Contexts : clearLockedAll(context)

Spec == Init /\ [][Next]_vars

-----------------------------------------------------------------------------
(* Properties. *)

(* Every slot, index and replacement bit keeps its type: allocate never    *)
(* writes past the last way of a set.                                      *)
TypeOK ==
  /\ m_cache \in [Sets -> [Ways -> Entries \cup {Null}]]
  /\ m_tag_index \in [Addrs -> Ways \cup {NoWay}]
  /\ replacement_data \in [Sets -> [1 .. Assoc - 1 -> BOOLEAN]]

(* The index and the array agree: a tag leads to the entry with that tag,  *)
(* in the tag's own set, and every entry is found through its tag, so no   *)
(* line is held twice (findTagInSet, allocate, deallocate).                *)
TagIndexExact ==
  /\ \A a \in Addrs : m_tag_index[a] # NoWay => EntryAt(a) # Null /\ EntryAt(a).addr = a
  /\ \A s \in Sets, w \in Ways :
       m_cache[s][w] # Null =>
         /\ addressToCacheSet(m_cache[s][w].addr) = s
         /\ m_tag_index[m_cache[s][w].addr] = w

(* The victim cacheProbe offers for a full set is not one of the Depth     *)
(* lines used last, although the bits belong to the ways and lines have    *)
(* come and gone in them.  The counters a write-back has just touched stay *)
(* for the fills that follow it.                                           *)
RecentSafe ==
  \A a \in Addrs : ~cacheAvail(a) => cacheProbe(a) \notin ToSet(used[addressToCacheSet(a)])

-----------------------------------------------------------------------------
(* The array implements CacheLines. *)

Lines   == {a \in Addrs : isTagPresent(a)}
Locks   == [a \in Addrs |-> IF isTagPresent(a) THEN EntryAt(a).locked ELSE Free]
Offered == [s \in Sets |-> IF \E w \in Ways : Vacant(s, w) THEN {}
                           ELSE {m_cache[s][getVictim(s)].addr}]

Array == INSTANCE CacheLines WITH
  lines <- Lines, lock <- Locks, offer <- Offered, Span <- Depth

(* Every call of CacheMemory.cc is an operation of the abstract array, or  *)
(* changes none of what the controllers can see of it.                     *)
ImplementsLines == Array!Spec
=============================================================================
