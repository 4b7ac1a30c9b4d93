------------------------------ MODULE Directory ------------------------------
(***************************************************************************)
(* The directory controller (TARDISTSO_TECTREE-dir.sm): the timestamp      *)
(* manager of Tardis, the last-level cache (LLC) and the TEC-Tree counters *)
(* cached in it. A write-back of a data block may only leave the chip once *)
(* the chain of counters above it is in the LLC, so evictions suspend on   *)
(* missing counters and resume when the fetched counter arrives.           *)
(*                                                                         *)
(* The memory behind it is external: a queue per address, in which a       *)
(* write-back may be acknowledged before an older read of the address is   *)
(* answered, but a read never overtakes an older write-back.               *)
(***************************************************************************)
EXTENDS TardisNet, SequencesExt

CONSTANTS
  LLCSize,     \* lines of the (one) LLC set
  MruPolicy,   \* mru_policy: 0 touch the counter chain, 1 do not, 2 sometimes
  Slots,       \* waiter slots of an AuthTBE (16 in the code)
  RootSlot     \* RootSlot[a]: getL6Index, the root counter of a's branch

ASSUME DirectoryAssumption ==
  /\ LLCSize \in Nat \ {0} /\ Slots \in Nat \ {0} /\ MruPolicy \in 0 .. 2
  /\ RootSlot \in [Addr -> Nat]

VARIABLES
  mts,                               \* the timestamp manager's clock
  dirState, dirWts, dirRts, owner,   \* directory entries
  resident, dirty, llcData, recency, \* the LLC: tags, Dirty, DataBlk, LRU order
  tbe,                               \* TBE fields, meaningful while one exists
  fetching, waiters,                 \* AuthTBEs, and Waiter0 .. Waiter15 of each
  stalled,                           \* stall_and_wait map of request_in
  atHead,                            \* message each in-port is stuck on
  memQ, memory,                      \* messages to memory, and its contents
  rootCount                          \* root_cnt_0 .. root_cnt_2

llcVars == <<resident, dirty, llcData, recency>>
entryVars == <<dirState, dirWts, dirRts, owner>>
authVars == <<fetching, waiters>>
memVars == <<memQ, memory>>
dirVars == <<mts, entryVars, llcVars, tbe, authVars, stalled, atHead, memVars,
             rootCount>>

Stable == {"I", "S", "E"}
FetchAuth == [I |-> "I_Fetch_Auth", S |-> "S_Fetch_Auth", E |-> "E_Fetch_Auth"]
EvictAuth == [I |-> "I_Evict_Auth", S |-> "S_Evict_Auth", C_M |-> "I_Evict_Auth"]
(* Mutant: the state of an owned block for a shared one. *)
Evicting_owned == [I |-> "I_Evicting", S |-> "E_Evicting", C_M |-> "I_Evicting"]
Evicting == [I |-> "I_Evicting", S |-> "S_Evicting", C_M |-> "I_Evicting"]
InFetchAuth == {"I_Fetch_Auth", "S_Fetch_Auth", "E_Fetch_Auth"}
InEvictAuth == {"I_Evict_Auth", "S_Evict_Auth"}
InEvicting == {"I_Evicting", "S_Evicting"}
(* Mutant: a bounced entry keeps its state. *)
Base_stays == [I_Fetch_Auth |-> "I_Fetch_Auth", S_Fetch_Auth |-> "S_Fetch_Auth",
               E_Fetch_Auth |-> "E_Fetch_Auth", I_Evicting |-> "I", S_Evicting |-> "S"]
(* The state a suspended or bounced entry returns to. *)
Base == [I_Fetch_Auth |-> "I", S_Fetch_Auth |-> "S", E_Fetch_Auth |-> "E",
         I_Evicting |-> "I", S_Evicting |-> "S"]
(* Mutant: a resumed eviction stays frozen. *)
Resumed_frozen == [I_Evict_Auth |-> "I_Evict_Auth", S_Evict_Auth |-> "S_Evict_Auth"]
Resumed == [I_Evict_Auth |-> "I_Evicting", S_Evict_Auth |-> "S_Evicting"]

(* C_V never outlives the transition that writes it, and E_Evicting,       *)
(* E_Evict_Auth and Meta_Auth are entered by no transition.                *)
DirState == Stable \cup InFetchAuth \cup InEvictAuth \cup InEvicting \cup
            {"IS", "IE", "SE", "ES", "EE", "E_Evict_Flush", "C_M"}
TBE == [requestor : Caches \cup {None}, data : Nat, wts : Nat, lts : Nat]
NoTBE == [requestor |-> None, data |-> 0, wts |-> 0, lts |-> 0]
Slot == 1 .. Slots
NoWaiters == [i \in Slot |-> None]
MemMsg == [type : {"MEMORY_READ", "MEMORY_WB"}, data : Nat]
READ == [type |-> "MEMORY_READ", data |-> 0]
WB(d) == [type |-> "MEMORY_WB", data |-> d]

(* The states a counter's entry can be in, and those of a line's entry     *)
(* that has an owner, or a request whose requestor the TBE names.          *)
CounterState == {"I", "C_M", "I_Evicting", "I_Evict_Auth"}
Owned == {"E", "E_Fetch_Auth", "E_Evict_Flush"}
Pending == {"IS", "IE", "SE", "ES", "EE"}

EntriesOK ==
  /\ \A k \in Counters : dirState[k] \in CounterState
  /\ \A a \in Data : dirState[a] \in Owned => owner[a] \in Caches
  /\ \A a \in Data : dirState[a] \in Pending => tbe[a].requestor \in Caches

(* Every variable but recency, of which RecencyExact says more. *)
DirTypeOK ==
  /\ mts \in Nat
  /\ dirState \in [Addr -> DirState]
  /\ dirWts \in [Addr -> Nat] /\ dirRts \in [Addr -> Nat]
  /\ owner \in [Addr -> Caches \cup {None}]
  /\ resident \subseteq Addr /\ dirty \subseteq Addr
  /\ llcData \in [Addr -> Nat] /\ memory \in [Addr -> Nat]
  /\ tbe \in [Addr -> TBE]
  /\ fetching \subseteq Counters
  /\ waiters \in [Counters -> [Slot -> Addr \cup {None}]]
  /\ stalled \subseteq Request
  /\ memQ \in [Addr -> Seq(MemMsg)]
  /\ rootCount \in [0 .. 2 -> Nat]
  /\ atHead \in [memory : Addr \cup {None}, response : Response \cup {None},
                 request : Request \cup {None}]
  /\ EntriesOK

DirInit ==
  /\ mts = 1
  /\ dirState = [a \in Addr |-> "I"] /\ owner = [a \in Addr |-> None]
  /\ dirWts = [a \in Addr |-> 0] /\ dirRts = [a \in Addr |-> 0]
  /\ resident = {} /\ dirty = {} /\ recency = <<>>
  /\ llcData = [a \in Addr |-> 0]
  /\ tbe = [a \in Addr |-> NoTBE]
  /\ fetching = {} /\ waiters = [c \in Counters |-> NoWaiters]
  /\ stalled = {}
  /\ atHead = [memory |-> None, response |-> None, request |-> None]
  /\ memQ = [a \in Addr |-> <<>>] /\ memory = [a \in Addr |-> 0]
  /\ rootCount = [s \in 0 .. 2 |-> 0]

-----------------------------------------------------------------------------
(* The counter chain of a block, against the tags T of the LLC.            *)
(***************************************************************************)
Parent(a) == IF Path[a] = <<>> THEN None ELSE Head(Path[a])
ParentMissing(a, T) == Path[a] # <<>> /\ Head(Path[a]) \notin T

Missing(a, T) == {i \in DOMAIN Path[a] : Path[a][i] \notin T}
FirstMissingIn(a, T) ==
  IF Missing(a, T) = {} THEN None ELSE Path[a][Min(Missing(a, T))]
getFirstMissingParent(a) == FirstMissingIn(a, resident)
(* The part of the chain that is present without a gap. *)
PresentChain(a) ==
  IF Missing(a, resident) = {} THEN Path[a]
  ELSE SubSeq(Path[a], 1, Min(Missing(a, resident)) - 1)

(* LLC.setMRU, and what mru_policy lets of a chain of counters be touched: *)
(* policy 2 draws for every counter of the chain on its own.               *)
Newest(order, a) == Append(RemoveFirst(order, a), a)
Touch(order, touched) ==
  LET after[i \in 0 .. Len(touched)] ==
        IF i = 0 THEN order ELSE Newest(after[i - 1], touched[i])
  IN after[Len(touched)]
Drawn(chain, drawn) ==
  FlattenSeq([i \in DOMAIN chain |-> IF i \in drawn THEN <<chain[i]>> ELSE <<>>])
Touchable(chain) ==
  CASE MruPolicy = 0 -> {chain}
    [] MruPolicy = 1 -> {<<>>}
    [] OTHER -> { Drawn(chain, drawn) : drawn \in SUBSET DOMAIN chain }
setMRU(touched, chain) ==
  \E some \in Touchable(chain) : recency' = Touch(recency, touched \o some)

-----------------------------------------------------------------------------
(* The three in-ports. A message that is examined and not popped stays at  *)
(* the head of its queue and blocks the port until it is popped; a stall   *)
(* that changes nothing is not a step.                                     *)
(***************************************************************************)
AtHead(port, m) == atHead[port] \in {None, m}
Hold(port, m) == atHead' = [atHead EXCEPT ![port] = m]
Pop(port) == atHead' = [atHead EXCEPT ![port] = None]

(* memQueue_in: a read of a answered, or a write-back of a acknowledged.   *)
DataReady(a) ==
  AtHead("memory", a) /\ memQ[a] # <<>> /\ Head(memQ[a]).type = "MEMORY_READ"
AckReady(a, i) ==
  /\ atHead.memory = None /\ i \in DOMAIN memQ[a]
  /\ memQ[a][i].type = "MEMORY_WB"
  /\ \A j \in 1 .. i - 1 : memQ[a][j].type = "MEMORY_READ"

ResponseReady(m) == m \in responses /\ AtHead("response", m)
RequestReady(m) == m \in requests /\ AtHead("request", m)

(* Mutant: a full set is noticed one block too late. *)
NoRoom_late(a) == a \notin resident /\ Cardinality(resident) > LLCSize
NoRoom(a) == a \notin resident /\ Cardinality(resident) >= LLCSize
MemoryNeedsRoom(a) == DataReady(a) /\ NoRoom(a)
ResponseNeedsRoom(m) ==
  ResponseReady(m) /\ dirState[m.addr] # "E_Evict_Flush" /\ NoRoom(m.addr)

(* request_in: the event of a request. *)
Upgrades(m) == m.type = "EX_REQ" /\ m.wts = dirWts[m.addr] /\ m.wts > 0
Event(m) ==
  CASE Upgrades(m) -> "UpgReq"
    [] ~Upgrades(m) /\ m.addr \in resident ->
         IF m.type = "SH_REQ" THEN "ShReq_Hit" ELSE "ExReq_Hit"
    [] ~Upgrades(m) /\ m.addr \notin resident /\ ParentMissing(m.addr, resident) ->
         "Auth_Miss"
    [] OTHER -> IF m.type = "SH_REQ" THEN "ShReq" ELSE "ExReq"

(* request_in renews the block's lease before it knows the state, and an   *)
(* authenticated miss touches the counter chain.                           *)
LeasedRts(m) ==
  IF m.type = "SH_REQ"
  THEN max3(dirRts[m.addr], dirWts[m.addr] + Lease, m.lts + Lease)
  ELSE dirRts[m.addr]
LeaseRts(m) == dirRts' = [dirRts EXCEPT ![m.addr] = LeasedRts(m)]
TouchOnMiss(m) ==
  IF Event(m) \in {"ShReq", "ExReq"}
  THEN setMRU(<<>>, PresentChain(m.addr))
  ELSE UNCHANGED recency

(* Mutants: the state is not looked at, nor the kind of request; a pending *)
(* write-back does not hold up a request.                                  *)
Accept_anyStable(m, event, states) ==
  RequestReady(m) /\ Event(m) \in event /\ dirState[m.addr] \in Stable
Accept_anyEvent(m, event, states) == RequestReady(m) /\ dirState[m.addr] \in states
Accept_evicting(m, event, states) ==
  RequestReady(m) /\ Event(m) \in event /\ dirState[m.addr] \in states \cup InEvicting
Accept(m, event, states) ==
  RequestReady(m) /\ Event(m) \in event /\ dirState[m.addr] \in states
PopRequest(m) == requests' = requests \ {m} /\ Pop("request")

Reply1(type, m, to, data, wts, rts) ==
  replies' = replies \cup {[type |-> type, addr |-> m, to |-> to, data |-> data,
                            wts |-> wts, rts |-> rts]}
allocateTBE_ReqIn(m) ==
  tbe' = [tbe EXCEPT ![m.addr] = [requestor |-> m.from, data |-> 0, wts |-> 0, lts |-> 0]]
sendToOwner(type, a, rts) ==
  forwards' = forwards \cup {[type |-> type, addr |-> a, to |-> owner[a], rts |-> rts]}
SendMem(a, msg) == memQ' = [memQ EXCEPT ![a] = Append(@, msg)]

(* A counter that has an AuthTBE is being read already (MSHR coalescing). *)
(* Mutant: it is read again. *)
ReadOnce_again(c) == SendMem(c, READ)
ReadOnce(c) == IF c \in fetching THEN UNCHANGED memQ ELSE SendMem(c, READ)

-----------------------------------------------------------------------------
(* Transitions on requests.                                                *)
(***************************************************************************)
GrantSharedFromLLC(m) ==                         \* ({I, S}, ShReq_Hit) -> S
  /\ Accept(m, {"ShReq_Hit"}, {"I", "S"})
  /\ dirState' = [dirState EXCEPT ![m.addr] = "S"]
  /\ dirWts' = [dirWts EXCEPT ![m.addr] = mts]   \* setLLCTimestamps
  /\ dirRts' = [dirRts EXCEPT ![m.addr] = mts]
  /\ IF m.wts = mts
     THEN Reply1("RENEW_REP", m.addr, m.from, 0, 0, mts)
     ELSE Reply1("SH_REP", m.addr, m.from, llcData[m.addr], mts, mts)
  /\ setMRU(<<m.addr>>, PresentChain(m.addr))
  /\ PopRequest(m)
  /\ UNCHANGED <<mts, owner, resident, dirty, llcData, tbe, authVars, stalled,
                 memVars, rootCount, forwards, responses>>

GrantExclusiveFromLLC(m) ==                      \* ({I, S}, ExReq_Hit) -> E
  /\ Accept(m, {"ExReq_Hit"}, {"I", "S"})
  /\ dirState' = [dirState EXCEPT ![m.addr] = "E"]
  /\ dirWts' = [dirWts EXCEPT ![m.addr] = mts]
  /\ dirRts' = [dirRts EXCEPT ![m.addr] = mts]
  /\ owner' = [owner EXCEPT ![m.addr] = m.from]
  /\ Reply1("EX_REP", m.addr, m.from, llcData[m.addr], mts, mts)
  /\ setMRU(<<m.addr>>, PresentChain(m.addr))
  /\ PopRequest(m)
  /\ UNCHANGED <<mts, resident, dirty, llcData, tbe, authVars, stalled,
                 memVars, rootCount, forwards, responses>>

GrantUpgrade(m) ==                               \* (S, UpgReq) -> E
  /\ Accept(m, {"UpgReq"}, {"S"})
  /\ dirState' = [dirState EXCEPT ![m.addr] = "E"]
  /\ owner' = [owner EXCEPT ![m.addr] = m.from]
  /\ Reply1("UPGR_REP", m.addr, m.from, 0, 0, dirRts[m.addr])
  /\ PopRequest(m)
  /\ UNCHANGED <<mts, dirWts, dirRts, llcVars, tbe, authVars, stalled,
                 memVars, rootCount, forwards, responses>>

FetchShared(m) ==                                \* ({I, S}, ShReq) -> IS
  /\ Accept(m, {"ShReq"}, {"I", "S"})
  /\ dirState' = [dirState EXCEPT ![m.addr] = "IS"]
  /\ LeaseRts(m)
  /\ TouchOnMiss(m)
  /\ tbe' = [tbe EXCEPT ![m.addr] = [requestor |-> m.from, data |-> 0,
                                     wts |-> m.wts, lts |-> m.lts]]
  /\ SendMem(m.addr, READ)
  /\ PopRequest(m)
  /\ UNCHANGED <<mts, dirWts, owner, resident, dirty, llcData, authVars, stalled,
                 memory, rootCount, forwards, replies, responses>>

FetchExclusive(m) ==                             \* (I, ExReq) -> IE, (S, ExReq) -> SE
  /\ Accept(m, {"ExReq"}, {"I", "S"})
  /\ dirState' = [dirState EXCEPT ![m.addr] = IF @ = "I" THEN "IE" ELSE "SE"]
  /\ TouchOnMiss(m)
  /\ allocateTBE_ReqIn(m)
  /\ SendMem(m.addr, READ)
  /\ PopRequest(m)
  /\ UNCHANGED <<mts, dirWts, dirRts, owner, resident, dirty, llcData, authVars,
                 stalled, memory, rootCount, forwards, replies, responses>>

RecallForShared(m) ==                            \* (E, {ShReq, ShReq_Hit}) -> ES
  /\ Accept(m, {"ShReq", "ShReq_Hit"}, {"E"})
  /\ dirState' = [dirState EXCEPT ![m.addr] = "ES"]
  /\ LeaseRts(m)
  /\ TouchOnMiss(m)
  /\ allocateTBE_ReqIn(m)
  /\ sendToOwner("WB_REQ", m.addr, m.lts + Lease)
  /\ owner' = [owner EXCEPT ![m.addr] = None]
  /\ PopRequest(m)
  /\ UNCHANGED <<mts, dirWts, resident, dirty, llcData, authVars, stalled,
                 memVars, rootCount, replies, responses>>

RecallForExclusive(m) ==                         \* (E, {ExReq, ExReq_Hit, UpgReq}) -> EE
  /\ Accept(m, {"ExReq", "ExReq_Hit", "UpgReq"}, {"E"})
  /\ dirState' = [dirState EXCEPT ![m.addr] = "EE"]
  /\ TouchOnMiss(m)
  /\ allocateTBE_ReqIn(m)
  /\ sendToOwner("FLUSH_REQ", m.addr, 0)
  /\ owner' = [owner EXCEPT ![m.addr] = None]
  /\ PopRequest(m)
  /\ UNCHANGED <<mts, dirWts, dirRts, resident, dirty, llcData, authVars, stalled,
                 memVars, rootCount, replies, responses>>

(* stall_and_wait moves the request out of the queue until a wake-up. *)
StallAndWait(m) == stalled' = stalled \cup {m} /\ PopRequest(m)

FetchCounter(m) ==                               \* ({I, S, E}, Auth_Miss) -> Fetch_Auth
  LET c == Parent(m.addr) IN
  /\ Accept(m, {"Auth_Miss"}, Stable)
  /\ dirState' = [dirState EXCEPT ![m.addr] = FetchAuth[@]]
  /\ LeaseRts(m)
  /\ fetching' = fetching \cup {c}               \* fetchCounterIfNeeded
  /\ ReadOnce(c)
  /\ StallAndWait(m)
  /\ UNCHANGED <<mts, dirWts, owner, llcVars, tbe, waiters, memory, rootCount,
                 forwards, replies, responses>>

WaitForCounter(m) ==                             \* (any Fetch_Auth, Auth_Miss)
  /\ Accept(m, {"Auth_Miss"}, InFetchAuth)
  /\ LeaseRts(m)
  /\ StallAndWait(m)
  /\ UNCHANGED <<mts, dirState, dirWts, owner, llcVars, tbe, authVars, memVars,
                 rootCount, forwards, replies, responses>>

(* State bouncing: the request is recycled and processed again in the      *)
(* stable state the entry returns to.                                      *)
Bounce(m) ==                                     \* (any Fetch_Auth, any other request)
  /\ RequestReady(m) /\ Event(m) # "Auth_Miss" /\ dirState[m.addr] \in InFetchAuth
  /\ dirState' = [dirState EXCEPT ![m.addr] = Base[@]]
  /\ LeaseRts(m)
  /\ TouchOnMiss(m)
  /\ Pop("request")
  /\ UNCHANGED <<mts, dirWts, owner, resident, dirty, llcData, tbe, authVars, stalled,
                 memVars, rootCount, netVars>>

Busy == {"IS", "IE", "ES", "SE", "EE", "E_Evict_Flush"} \cup InEvicting \cup InEvictAuth

StallRequest(m) ==                               \* (Busy, any request): stall
  /\ RequestReady(m) /\ dirState[m.addr] \in Busy
  /\ Hold("request", m)
  /\ LeaseRts(m)
  /\ TouchOnMiss(m)
  /\ <<atHead, dirRts, recency>>' # <<atHead, dirRts, recency>>
  /\ UNCHANGED <<mts, dirState, dirWts, owner, resident, dirty, llcData, tbe, authVars,
                 stalled, memVars, rootCount, netVars>>

OnRequest(m) ==
  \/ GrantSharedFromLLC(m) \/ GrantExclusiveFromLLC(m) \/ GrantUpgrade(m)
  \/ FetchShared(m) \/ FetchExclusive(m)
  \/ RecallForShared(m) \/ RecallForExclusive(m)
  \/ FetchCounter(m) \/ WaitForCounter(m) \/ Bounce(m) \/ StallRequest(m)

-----------------------------------------------------------------------------
(* Transitions on data and acknowledgements from memory.                   *)
(***************************************************************************)
Answer(a, states) == DataReady(a) /\ ~NoRoom(a) /\ dirState[a] \in states
PopMemory(a) == memQ' = [memQ EXCEPT ![a] = Tail(@)] /\ Pop("memory")

DataForShared(a) ==                              \* (IS, Memory_Data) -> S
  LET rts == max(mts + Lease, tbe[a].lts + Lease) IN
  /\ Answer(a, {"IS"})
  /\ dirState' = [dirState EXCEPT ![a] = "S"]
  /\ dirWts' = [dirWts EXCEPT ![a] = mts]        \* setMemoryTimestamps
  /\ dirRts' = [dirRts EXCEPT ![a] = rts]        \* sendShDataToReq
  /\ IF tbe[a].wts = mts
     THEN Reply1("RENEW_REP", a, tbe[a].requestor, 0, 0, rts)
     ELSE Reply1("SH_REP", a, tbe[a].requestor, memory[a], mts, rts)
  /\ resident' = resident \cup {a}               \* allocateOrUpdateLLCFromMem
  /\ dirty' = dirty \ {a}
  /\ llcData' = [llcData EXCEPT ![a] = memory[a]]
  /\ setMRU(<<a>>, PresentChain(a))
  /\ tbe' = [tbe EXCEPT ![a] = NoTBE]
  /\ PopMemory(a)
  /\ UNCHANGED <<mts, owner, authVars, stalled, memory, rootCount,
                 requests, forwards, responses>>

GrantFromMemory(a) ==                            \* what IE and SE have in common
  /\ dirState' = [dirState EXCEPT ![a] = "E"]
  /\ dirWts' = [dirWts EXCEPT ![a] = mts]
  /\ dirRts' = [dirRts EXCEPT ![a] = mts]
  /\ Reply1("EX_REP", a, tbe[a].requestor, memory[a], mts, mts)
  /\ owner' = [owner EXCEPT ![a] = tbe[a].requestor]
  /\ tbe' = [tbe EXCEPT ![a] = NoTBE]
  /\ PopMemory(a)
  /\ UNCHANGED <<mts, authVars, stalled, memory, rootCount, requests, forwards, responses>>

DataForExclusive(a) ==                           \* (IE, Memory_Data) -> E
  /\ Answer(a, {"IE"})
  /\ GrantFromMemory(a)
  /\ resident' = resident \cup {a}
  /\ dirty' = dirty \ {a}
  /\ llcData' = [llcData EXCEPT ![a] = memory[a]]
  /\ setMRU(<<a>>, PresentChain(a))

DataForUpgrade(a) ==                             \* (SE, Memory_Data) -> E, no LLC copy
  /\ Answer(a, {"SE"})
  /\ GrantFromMemory(a)
  /\ UNCHANGED llcVars

wakeUpAll == requests' = requests \cup stalled /\ stalled' = {}

(* The waiters in the slots moved of the array from take the free slots of *)
(* the array to in order; those that find no free slot are lost.           *)
Before(slots, i) == Cardinality({j \in slots : j < i})
Enter(to, from, moved) ==
  LET free == {i \in Slot : to[i] = None} IN
  [i \in Slot |->
     IF i \in free /\ \E j \in moved : Before(moved, j) = Before(free, i)
     THEN from[CHOOSE j \in moved : Before(moved, j) = Before(free, i)]
     ELSE to[i]]

(* Counter_Data: the counter enters the LLC; the evictions waiting for it  *)
(* are written back if their chain is complete and wait for the next       *)
(* missing counter otherwise; then the parent of the counter is fetched,   *)
(* or, the chain being complete, every stalled request is woken. The       *)
(* transition names no final state, so the counter's entry ends in I       *)
(* whatever allocateCounterLLC and resumeEvictions wrote to it. A read no  *)
(* AuthTBE accounts for (Memory_Data in I) only allocates and wakes.       *)
CounterData(c) ==
  LET T == resident \cup {c}
      orphan == c \notin fetching
      slot == IF orphan THEN NoWaiters ELSE waiters[c]
      filled == {i \in Slot : slot[i] # None}
      MissingFor(i) == FirstMissingIn(slot[i], T)
      ready == {i \in filled : MissingFor(i) = None}
      written == {slot[i] : i \in ready}
      marked == UNION {ToSet(Path[w]) : w \in written}
      above == IF ~orphan /\ ParentMissing(c, T) THEN {Parent(c)} ELSE {}
      started == ({MissingFor(i) : i \in filled \ ready} \cup above) \ fetching
  IN
  /\ Answer(c, {"I"})
  /\ resident' = T
  /\ dirty' = (dirty \ {c}) \cup marked
  /\ llcData' = [llcData EXCEPT ![c] = memory[c]]
  /\ setMRU(<<c>>, FlattenSeq([i \in Slot |-> IF i \in ready THEN Path[slot[i]] ELSE <<>>]))
  /\ dirState' = [a \in Addr |->
       CASE a = c -> "I"
         [] a # c /\ a \in marked -> "C_M"
         [] a # c /\ a \notin marked /\ a \in written /\ dirState[a] \in InEvictAuth ->
              Resumed[dirState[a]]
         [] OTHER -> dirState[a]]
  /\ fetching' = (fetching \cup started) \ {c}
  /\ waiters' = [p \in Counters |->
       IF p = c THEN NoWaiters
       ELSE Enter(waiters[p], slot, {i \in filled : MissingFor(i) = p})]
  /\ memQ' = [a \in Addr |->
       IF a = c THEN Tail(memQ[c])
       ELSE memQ[a] \o (IF a \in started THEN <<READ>> ELSE <<>>)
                    \o (IF a \in written THEN <<WB(tbe[a].data)>> ELSE <<>>)]
  /\ Pop("memory")
  /\ IF orphan \/ ~ParentMissing(c, T)           \* checkRecursionAndWakeUp
     THEN wakeUpAll
     ELSE UNCHANGED <<requests, stalled>>
  /\ UNCHANGED <<mts, dirWts, dirRts, owner, tbe, memory, rootCount,
                 forwards, replies, responses>>

(* (any Evicting, Memory_Ack): the write has reached memory; the requests    *)
(* stalled for the address are woken.                                      *)
WritebackDone(a, i) ==
  /\ AckReady(a, i) /\ dirState[a] \in InEvicting
  /\ dirState' = [dirState EXCEPT ![a] = Base[@]]
  /\ memory' = [memory EXCEPT ![a] = memQ[a][i].data]
  /\ memQ' = [memQ EXCEPT ![a] = RemoveAt(@, i)]
  /\ tbe' = [tbe EXCEPT ![a] = NoTBE]
  /\ requests' = requests \cup { m \in stalled : m.addr = a }
  /\ stalled' = { m \in stalled : m.addr # a }
  /\ UNCHANGED <<mts, dirWts, dirRts, owner, llcVars, authVars, atHead, rootCount,
                 forwards, replies, responses>>

OnMemory(a) ==
  \/ DataForShared(a) \/ DataForExclusive(a) \/ DataForUpgrade(a)
  \/ CounterData(a)
  \/ \E i \in DOMAIN memQ[a] : WritebackDone(a, i)

-----------------------------------------------------------------------------
(* Transitions on responses of the caches. response_in raises mts to the   *)
(* rts of every response it looks at, also of one it then stalls. No block *)
(* comes back while its entry is in an Evicting state (OneWriter), so the  *)
(* stall of that case is not a step here.                                  *)
(***************************************************************************)
SeeRts(m) == mts' = max(mts, m.rts)
(* Mutant: a block that is put back is taken for a recalled one. *)
FlushRep_put(m, states) ==
  /\ ResponseReady(m) /\ ~NoRoom(m.addr) /\ SeeRts(m)
  /\ dirState[m.addr] \in states \/ (dirState[m.addr] \in {"ES", "EE"} /\ "E" \in states)
FlushRep(m, states) ==
  ResponseReady(m) /\ ~NoRoom(m.addr) /\ dirState[m.addr] \in states /\ SeeRts(m)
PopResponse(m) == responses' = responses \ {m} /\ Pop("response")

(* Mutants: the copy in the LLC is not updated; it is not marked dirty.    *)
TakeBlock_stale(m) ==
  /\ dirWts' = [dirWts EXCEPT ![m.addr] = m.wts]
  /\ resident' = resident \cup {m.addr}
  /\ dirty' = dirty \cup {m.addr}
  /\ UNCHANGED llcData
  /\ setMRU(<<m.addr>>, PresentChain(m.addr))
TakeBlock_clean(m) ==
  /\ dirWts' = [dirWts EXCEPT ![m.addr] = m.wts]
  /\ resident' = resident \cup {m.addr}
  /\ dirty' = dirty \ {m.addr}
  /\ llcData' = [llcData EXCEPT ![m.addr] = m.data]
  /\ setMRU(<<m.addr>>, PresentChain(m.addr))
(* storeTimestamps_RepIn, allocateOrUpdateLLC and setMRU *)
TakeBlock(m) ==
  /\ dirWts' = [dirWts EXCEPT ![m.addr] = m.wts]
  /\ resident' = resident \cup {m.addr}
  /\ dirty' = dirty \cup {m.addr}
  /\ llcData' = [llcData EXCEPT ![m.addr] = m.data]
  /\ setMRU(<<m.addr>>, PresentChain(m.addr))

PutBlock(m) ==                                   \* (E, FlushRep) -> S
  /\ FlushRep(m, {"E"})
  /\ dirState' = [dirState EXCEPT ![m.addr] = "S"]
  /\ TakeBlock(m)
  /\ dirRts' = [dirRts EXCEPT ![m.addr] = m.rts]
  /\ Reply1("ACK_REP", m.addr, m.from, 0, 0, 0)
  /\ owner' = [owner EXCEPT ![m.addr] = None]
  /\ PopResponse(m)
  /\ UNCHANGED <<tbe, authVars, stalled, memVars, rootCount, requests, forwards>>

FlushForShared(m) ==                             \* (ES, FlushRep) -> S
  LET rts == max3(m.rts, m.wts + Lease, Lease) IN
  /\ FlushRep(m, {"ES"})
  /\ dirState' = [dirState EXCEPT ![m.addr] = "S"]
  /\ TakeBlock(m)
  /\ dirRts' = [dirRts EXCEPT ![m.addr] = rts]   \* sendShTBEDataToReq
  /\ Reply1("SH_REP", m.addr, tbe[m.addr].requestor, m.data, m.wts, rts)
  /\ tbe' = [tbe EXCEPT ![m.addr] = NoTBE]
  /\ PopResponse(m)
  /\ UNCHANGED <<owner, authVars, stalled, memVars, rootCount, requests, forwards>>

FlushForExclusive(m) ==                          \* (EE, FlushRep) -> E
  /\ FlushRep(m, {"EE"})
  /\ dirState' = [dirState EXCEPT ![m.addr] = "E"]
  /\ TakeBlock(m)
  /\ dirRts' = [dirRts EXCEPT ![m.addr] = m.rts]
  /\ Reply1("EX_REP", m.addr, tbe[m.addr].requestor, m.data, m.wts, m.rts)
  /\ owner' = [owner EXCEPT ![m.addr] = tbe[m.addr].requestor]
  /\ tbe' = [tbe EXCEPT ![m.addr] = NoTBE]
  /\ PopResponse(m)
  /\ UNCHANGED <<authVars, stalled, memVars, rootCount, requests, forwards>>

(* (any Fetch_Auth, FlushRep): the entry returns to its stable state. The  *)
(* response stays at the head; what is recycled is the head of request_in. *)
BounceResponse(m) ==
  /\ FlushRep(m, InFetchAuth)
  /\ requests # {}
  /\ dirState' = [dirState EXCEPT ![m.addr] = Base[@]]
  /\ atHead' = [atHead EXCEPT !.response = m, !.request = None]
  /\ UNCHANGED <<dirWts, dirRts, owner, llcVars, tbe, authVars, stalled, memVars,
                 rootCount, netVars>>

-----------------------------------------------------------------------------
(* LLC evictions. A message that needs an entry in a full LLC triggers the *)
(* eviction of the least recently used block and stays where it is.        *)
(***************************************************************************)
Victim(v) == recency # <<>> /\ v = Head(recency)

Demand ==
  \/ \E a \in Addr : MemoryNeedsRoom(a) /\ Hold("memory", a) /\ UNCHANGED mts
  \/ \E m \in responses : ResponseNeedsRoom(m) /\ Hold("response", m) /\ SeeRts(m)

deallocateLLC(v) ==
  /\ resident' = resident \ {v}
  /\ llcData' = [llcData EXCEPT ![v] = 0]

(* allocateTBE_Eviction *)
Park(v) == tbe' = [tbe EXCEPT ![v] = [requestor |-> None, data |-> llcData[v],
                                      wts |-> dirWts[v], lts |-> 0]]

incrementRootCounter(a) ==
  rootCount' = [s \in DOMAIN rootCount |->
                  IF s = RootSlot[a] THEN rootCount[s] + 1 ELSE rootCount[s]]

(* incrementCounter: the counters above a that are in the LLC become dirty *)
(* and modified. The entry of a itself moves to the state next.            *)
IncrementTo(a, next, chain) ==
  /\ dirState' = [b \in Addr |-> IF b = a THEN next
                                 ELSE IF b \in ToSet(chain) THEN "C_M" ELSE dirState[b]]
  /\ dirty' = (dirty \cup ToSet(chain)) \ {a}
  /\ \E some \in Touchable(chain) : recency' = RemoveFirst(Touch(recency, some), a)

(* Mutant: the dirty bit of the victim is not looked at. *)
DropClean_any(v) ==
  /\ Demand /\ Victim(v) /\ dirState[v] \in Stable
  /\ deallocateLLC(v)
  /\ dirty' = dirty \ {v}
  /\ recency' = RemoveFirst(recency, v)
  /\ UNCHANGED <<entryVars, tbe, authVars, stalled, memVars, rootCount, netVars>>
DropClean(v) ==                                  \* ({I, S, E}, LLC_Repl_Clean)
  /\ Demand /\ Victim(v) /\ v \notin dirty /\ dirState[v] \in Stable
  /\ deallocateLLC(v)
  /\ recency' = RemoveFirst(recency, v)
  /\ UNCHANGED <<entryVars, dirty, tbe, authVars, stalled, memVars, rootCount, netVars>>

(* ({I, S}, LLC_Repl_Dirty) counts the write in the tree; the write of a   *)
(* modified counter, (C_M, LLC_Repl_Dirty), is not counted again.          *)
WriteBackVictim(v) ==
  LET chain == IF dirState[v] = "C_M" THEN <<>> ELSE PresentChain(v) IN
  /\ Demand /\ Victim(v) /\ v \in dirty /\ dirState[v] \in {"I", "S", "C_M"}
  /\ getFirstMissingParent(v) = None
  /\ IncrementTo(v, Evicting[dirState[v]], chain)
  /\ IF dirState[v] = "C_M" THEN UNCHANGED rootCount ELSE incrementRootCounter(v)
  /\ Park(v)
  /\ SendMem(v, WB(llcData[v]))
  /\ deallocateLLC(v)
  /\ UNCHANGED <<dirWts, dirRts, owner, authVars, stalled, memory, netVars>>

RecallVictim(v) ==         \* (E, {LLC_Repl_Dirty, LLC_Repl_Dirty_Auth_Miss}) -> E_Evict_Flush
  /\ Demand /\ Victim(v) /\ v \in dirty /\ dirState[v] = "E"
  /\ dirState' = [dirState EXCEPT ![v] = "E_Evict_Flush"]
  /\ Park(v)
  /\ sendToOwner("FLUSH_REQ", v, 0)
  /\ deallocateLLC(v)
  /\ dirty' = dirty \ {v}
  /\ recency' = RemoveFirst(recency, v)
  /\ UNCHANGED <<dirWts, dirRts, owner, authVars, stalled, memVars, rootCount,
                 requests, replies, responses>>

(* fetchCounterForEviction: w waits for its first missing counter, whose   *)
(* fetch it starts unless there is one.                                    *)
fetchCounterForEviction(w) ==
  LET c == getFirstMissingParent(w) IN
  /\ fetching' = fetching \cup {c}
  /\ waiters' = [waiters EXCEPT ![c] = Enter(@, [i \in {1} |-> w], {1})]
  /\ ReadOnce(c)

SuspendVictim(v) ==              \* ({I, S, C_M}, LLC_Repl_Dirty_Auth_Miss) -> Evict_Auth
  /\ Demand /\ Victim(v) /\ v \in dirty /\ dirState[v] \in {"I", "S", "C_M"}
  /\ getFirstMissingParent(v) # None
  /\ dirState' = [dirState EXCEPT ![v] = EvictAuth[@]]
  /\ IF dirState[v] = "C_M" THEN UNCHANGED rootCount ELSE incrementRootCounter(v)
  /\ Park(v)
  /\ fetchCounterForEviction(v)
  /\ deallocateLLC(v)
  /\ dirty' = dirty \ {v}
  /\ recency' = RemoveFirst(recency, v)
  /\ UNCHANGED <<dirWts, dirRts, owner, stalled, memory, netVars>>

StallsEviction(v) ==
  \/ /\ dirState[v] \in {"IS", "IE", "SE", "EE", "ES", "E_Evict_Flush"}
                        \cup InFetchAuth \cup InEvicting
     /\ v \in dirty => getFirstMissingParent(v) = None
  \/ dirState[v] \in InEvictAuth /\ v \notin dirty

StallVictim(v) ==                                \* the victim is in a transient state
  /\ Demand /\ Victim(v) /\ StallsEviction(v)
  /\ <<atHead, mts>>' # <<atHead, mts>>
  /\ UNCHANGED <<entryVars, llcVars, tbe, authVars, stalled, memVars, rootCount, netVars>>

(* LLC_Repl_Dirty_Auth_Hit_From_Flush -> I_Evicting: the owner has given   *)
(* the block back and its first counter is in the LLC.                     *)
FlushDirect(m) ==
  /\ ResponseReady(m) /\ dirState[m.addr] = "E_Evict_Flush"
  /\ Parent(m.addr) \in resident
  /\ SeeRts(m)
  /\ owner' = [owner EXCEPT ![m.addr] = None]
  /\ tbe' = [tbe EXCEPT ![m.addr].data = m.data]
  /\ IncrementTo(m.addr, "I_Evicting", PresentChain(m.addr))
  /\ incrementRootCounter(m.addr)
  /\ SendMem(m.addr, WB(m.data))
  /\ PopResponse(m)
  /\ UNCHANGED <<dirWts, dirRts, resident, llcData, authVars, stalled, memory,
                 requests, forwards, replies>>

(* LLC_Repl_Dirty_Auth_Miss_From_Flush -> I_Evict_Auth *)
FlushSuspended(m) ==
  /\ ResponseReady(m) /\ dirState[m.addr] = "E_Evict_Flush"
  /\ Parent(m.addr) \notin resident
  /\ SeeRts(m)
  /\ dirState' = [dirState EXCEPT ![m.addr] = "I_Evict_Auth"]
  /\ owner' = [owner EXCEPT ![m.addr] = None]
  /\ tbe' = [tbe EXCEPT ![m.addr].data = m.data]
  /\ incrementRootCounter(m.addr)
  /\ fetchCounterForEviction(m.addr)
  /\ PopResponse(m)
  /\ UNCHANGED <<dirWts, dirRts, llcVars, stalled, memory, requests, forwards, replies>>

OnResponse(m) ==
  \/ PutBlock(m) \/ FlushForShared(m) \/ FlushForExclusive(m)
  \/ BounceResponse(m) \/ FlushDirect(m) \/ FlushSuspended(m)

OnVictim(v) ==
  \/ DropClean(v) \/ WriteBackVictim(v) \/ RecallVictim(v) \/ SuspendVictim(v)
  \/ StallVictim(v)

-----------------------------------------------------------------------------
(* Every pair of state and event the transition table leaves out is a      *)
(* panic of the generated controller, and recycling an empty request queue *)
(* an assertion failure of the message buffer.                             *)
(***************************************************************************)
UndefinedRequest(m) ==
  RequestReady(m) /\ Event(m) = "UpgReq" /\ dirState[m.addr] = "I"
UndefinedResponse(m) ==
  /\ ResponseReady(m) /\ ~NoRoom(m.addr)
  /\ dirState[m.addr] \in {"I", "S", "IS", "IE", "SE"} \cup InEvictAuth
RecycledNothing(m) ==
  /\ ResponseReady(m) /\ ~NoRoom(m.addr) /\ dirState[m.addr] \in InFetchAuth
  /\ atHead.request = None
UndefinedData(a) ==
  Answer(a, DirState \ {"IS", "IE", "SE", "I"})
UndefinedAck(a) ==
  dirState[a] \notin InEvicting /\ \E i \in DOMAIN memQ[a] : AckReady(a, i)
UndefinedVictim(v) ==
  /\ Victim(v)
  /\ (\E a \in Addr : MemoryNeedsRoom(a)) \/ (\E m \in responses : ResponseNeedsRoom(m))
  /\ dirState[v] \notin Stable /\ ~StallsEviction(v)
  /\ ~(dirState[v] = "C_M" /\ v \in dirty)

DirUndefined ==
  /\ \/ \E m \in requests : UndefinedRequest(m)
     \/ \E m \in responses : UndefinedResponse(m) \/ RecycledNothing(m)
     \/ \E a \in Addr : UndefinedData(a) \/ UndefinedAck(a)
     \/ \E v \in resident : UndefinedVictim(v)
  /\ fault' = "Directory"
  /\ UNCHANGED <<dirVars, netVars>>

DirStep ==
  /\ \/ \E m \in requests : OnRequest(m)
     \/ \E a \in Addr : OnMemory(a)
     \/ \E m \in responses : OnResponse(m)
     \/ \E v \in resident : OnVictim(v)
  /\ UNCHANGED fault
=============================================================================
