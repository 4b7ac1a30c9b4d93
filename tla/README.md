# A TLA+ model of TARDISTSO_TECTREE

The repository patches gem5 with a cache coherence protocol, *Tardis TSO*, whose
directory also keeps the counters of a *TEC-Tree*, the integrity tree of the
memory, and the two CPU models, which tell the protocol of their memory
barriers. This directory holds TLA+ modules that model the protocol's two SLICC
machines, the cache array below them, the tree's address arithmetic and the
parts of the CPUs the patch touches, TLC configurations that check them on small
instances, and proofs TLAPS checks for every instance.

Paths below are relative to `src/`; `cache.sm`, `dir.sm`, `msg.sm` and `dma.sm`
are the files `src/learning_gem5/tardis_tso_tectree/TARDISTSO_TECTREE-*.sm`,
`timing.cc` is `src/cpu/simple/timing.cc`, `iew.cc` and `lsq.cc` are in
`src/cpu/o3/`, `CacheMemory.cc` is in `src/mem/ruby/structures/`.

## The system

```
 core --RubyRequest--> L1Cache  --SH_REQ, EX_REQ------------> Directory --READ, WB--> memory
      <--callback-----          <--FLUSH_REQ, WB_REQ--------     (TM + LLC + TEC-Tree)
                                <--SH/EX/RENEW/UPGR/ACK_REP-    <--data, ack---------
                                --WB_REP, PUT_REP---------->
```

Inside a core, either TimingSimpleCPU sends fetches and data accesses one at a
time, or the O3 CPU's IEW stage takes instructions from rename (dispatch),
executes them out of order (execution) and hands memory accesses to the
load/store queue, which translates them and sends them to the cache.

| component | state it keeps | operations | hard behaviour | correct when |
|---|---|---|---|---|
| L1 cache (`cache.sm`) | clocks `lts`, `sts`; per line state, `wts`, `rts`, data, livelock counters | load, store, barrier; hit, miss, lease renewal, upgrade, eviction; replies; recalls | a put-back races a recall; replies and recalls are not ordered; renewals and upgrades without data | replies and recalls find a state that expects them; the data a core reads respects TSO |
| Timestamp manager (`dir.sm`) | `mts`; per line state, owner, `wts`, `rts`; TBEs | grants, leases, recalls, put-backs | three in-ports, head-of-line blocking, stalls, recycling | one writer per line; the newest version is always somewhere and handed over; a renewal finds a current copy |
| LLC (`dir.sm`, `CacheMemory.cc`) | tags, dirty bits, data, replacement order | fill, hit, clean and dirty eviction, recall of an owned victim | an eviction happens in the middle of any message; victims in transient states | nothing dirty is dropped; a fill finds room |
| TEC-Tree counters (`dir.sm`, `AuthTBETable.hh`) | counter chunks in the LLC, AuthTBEs with 16 waiter slots, stall map, root counters | fetch, coalescing, suspension and resumption of evictions, state bouncing, marking a branch | chains that arrive piecewise while parts of them are evicted; lost wake-ups | each counter is fetched once; each suspended eviction is awaited; memory is told one thing at a time |
| Address arithmetic (`RubySlicc_Util.hh`) | none | `getParentAddr`, `getL6Index` | magic boundaries, narrowing to 32 bits | six levels, one at a time, at most 15 children |
| Messages, network (`msg.sm`) | buffers of three virtual networks | send, receive | reordering across networks | |
| Memory controller | outside `src/` (its interface is `RubySlicc_MemControl.sm`) | read, write-back | | |
| DMA controller (`dma.sm`) | READY, BUSY_RD, BUSY_WR | read, write | the directory has no port for it | |
| Cache array (`CacheMemory.cc`) | ways of each set, tag index, replacement tree, locks | allocate, deallocate, touch, change a permission, lock, probe for a victim | replacement bits and index outlive the lines | index and array agree; a line just used is not the victim |
| TimingSimpleCPU (`timing.cc`) | status, instruction, fetch event, the access and its fragments, drain state, barrier flag | fetch, translate, access, retry, response, fault, suspend, drain, resume | an access may finish inside the call that starts it; drains at any event | one thing at a time is awaited; a split access ends once; a drain is quiet |
| O3 dispatch (`iew.cc`) | status, skid buffer, signals to rename | take in, block, unblock, dispatch, squash | signals are a cycle late; squashes take several cycles | the skid buffer never overflows; rename's counts are exact; nothing is lost or overtaken |
| O3 execution (`iew.cc`) | write-back slots, squash signal, barrier flag | execute, redirect, write back, mark | any order of execution | one squash covers all of a cycle; the mark of a barrier goes first |
| O3 load/store queue (`lsq.cc`, `lsq.hh`) | requests and their flags, ports, stale translations | push, translate, send, refuse, retry, reply, release, sync | a request outlives its instruction | no leak, no early deletion, every load is woken |
| Configuration, scripts, test programs | parameters | | | |

The DMA controller and the last row are not modelled; `PROJECT.json` gives the
reason, and says of every other part what is left out. It also lists, under
`hazards`, the places of the code that are hard to test, and what covers each.

## The modules

* **TreeMath** – the address arithmetic on 64-byte blocks, with the code's
  constants. `Ancestor` and `PathOf` iterate `getParentAddr`. **MCTreeMath**
  climbs from a block to the root, as `getFirstMissingParent` does.
* **TardisNet** – constants and assumptions all modules share, the message types
  and the four channels, as sets of records.
* **L1Cache** – `cache.sm`. One action per transition (or per group of
  transitions with the same effect), named for what it does; the comment beside
  it names the transition. What `mandatory_in` does before it triggers an event
  (synchronising the clocks at a barrier, counting a load, pushing `lts` when
  the livelock period is over) is part of every action on the core's request,
  also of the one that stalls.
* **Directory** – `dir.sm` with the LLC, the AuthTBEs and memory. What the
  in-ports do before they trigger (raising `mts`, extending a lease, touching the
  counter chain) is part of the actions, also of the stalls. `CounterData` is
  the whole of `resumeEvictions`, `checkRecursionAndWakeUp` and
  `deallocateCounterAuthTBE`.
* **TardisSystem** – `EXTENDS` both, `Next`, `Spec`, the fairness, and `Halt`,
  the only step left when the cores are done or a controller has panicked.
* **Coherence**, **Integrity** – the properties, of the protocol and of the
  counter handling.
* **MCTardis** – request forms, tree shapes and symmetry sets for TLC.
* **CacheLines** – what a set-associative array promises its controller: lines,
  locks, and an offer of a line that was not used recently. **CacheMemory** –
  `CacheMemory.cc`: ways, tag index, tree-PLRU bits; it implements CacheLines.
* **TimingCPU** – `timing.cc`. One action per simulator event and per function
  an event calls; `call` is the function to run next, so that a response that
  arrives inside `initiateAcc` is run, as in the code, before its caller goes on.
* **LSQ** – `lsq.cc` and `lsq.hh`: the request object and its flags, ports, the
  flush of stale translations. **IEWExecute** `EXTENDS` it with
  `IEW::executeInsts` for memory instructions and barriers, and with what commit
  and the squash do to the queue.
* **Dispatch** – the dispatch half of `iew.cc` between a rename that obeys its
  signals and queues that fill up. A cycle is four steps in turn.
* **Redirect** – mispredictions, order violations, the write-back slots and
  `writebackInsts` of `iew.cc`. `instToCommit` searches for a slot without a bound,
  in a tick from the first slot on, between ticks from the cycle at which the last
  tick's search stopped (`wbCycle` is not reset). Behind the last cycle of the queue
  it fails in the assertion of gem5's time buffer, which is outside src/
  (`Overrun`); what a build without assertions does then is not modelled.
* **MCCacheMemory**, **MCTimingCPU**, **MCIEWExecute**, **MCDispatch**,
  **MCRedirect** – programs and sets for TLC.
* **CoherenceProofs**, **IntegrityProofs** – the proofs about the system: types,
  permissions and the conversation about a line; the newest version, memory, the
  LLC's order and the suspended evictions. **TreeMathProofs** – about the geometry
  of the tree; **CacheMemoryProofs**, **RedirectProofs**, **DispatchProofs**,
  **IEWExecuteProofs**, **TimingCPUProofs** – about the array, the squash signal and
  the write-back slots, the way from rename to dispatch, the requests of the
  load/store queue, and the simple CPU.

### How the model abstracts

* A data block is the number of the store that produced it (0: as loaded).
  `latest[a]` is the number of the newest version, a history variable. `seen`
  and `published` are history too: what a core must observe because it has read
  or written it, or because the writer of what it read had.
* A pair of state and event without a transition is a panic of the generated
  controller: `L1Undefined`, `DirUndefined` set `fault` and the system halts.
  Safety properties therefore speak of everything up to the panic; runs of
  kind *violation* show the panics that do happen.
* The network is unordered within a virtual network. The code's buffers keep
  order between one sender and one receiver, which the model gives up: it has
  more behaviours. Both machines send at most a few messages per line, and the
  next one for a line only after the answer to the previous one, so what is
  added is reordering across lines.
* The directory's in-ports block at their head: `atHead[port]` is the message a
  port has looked at and not popped. A stall is a step only if it changes
  something (raises `mts` or `rts`, blocks the port, pushes a clock). At the L1,
  a stalled recall (`{IS, IE}`, `FlushReq`) is simply not enabled yet; that it
  also blocks the recalls behind it is not modelled.
* Memory has one queue per address. A write-back may be acknowledged before an
  older read is answered, a read never overtakes an older write-back; the write
  takes effect when it is acknowledged.
* The LLC is one set with LRU order; the L1 evicts any line (its tree-PLRU order
  is not modelled). `mru_policy` 2 draws a random number per counter: any
  subset of the chain may be touched, also the level-6 counter the code then
  always touches.
* The sequencer has at most one outstanding request per core and line. An
  ATOMIC is a store. The directory entry of a line that has none yet is the
  default entry. `TBEState` always equals the entry's `DirState` where both
  exist, so there is one of them.
* `C_V` does not outlive the transition that writes it: SLICC writes the start
  state at the end of a transition that names no other, so
  `transition(I, Counter_Data)` ends in I. `E_Evicting`, `E_Evict_Auth` and
  `Meta_Auth` are entered by no transition, nor are ES and SS of the L1.
* The CPU modules and the protocol meet at one interface: a request of some kind
  with or without the `isMemBarrier` mark. L1Cache takes any such request at any
  time, so what it shows holds for both CPUs; what the CPU modules show is which
  marks arrive. They are not run together: the product would add interleavings
  but no shared state. An instruction fetch never sets the mark, so the fetches
  of `AllOps` carry either.
* A program of TimingCPU is any sequence of instruction forms, chosen when one
  is decoded. A translation or an access may answer at once, later or not be
  accepted; a failed assertion is the call `abort`, which ends a behaviour. One
  thread; nothing wakes a CPU between a finished drain and its resumption.
* In LSQ, data, addresses and forwarding are left out: the LSQUnit, the MMU and
  the cache are outside `src/` and may do whatever `lsq.cc` allows for (translate
  in any order, fault, forward, refuse, find an order violation). A violating
  load is squashed, as the LSQUnit's check of violations does. An identifier of
  a request object is reused when it has been deleted.
* In Dispatch, whether a queue is full is a free choice in every cycle; a squash
  keeps rename empty for `Refill` cycles, at least one (the real front end needs
  three or more). An atomic counts as a store.
* In CacheMemory the replacement policy is the tree of `TreePLRU`, the policy
  the configuration scripts leave in place; a locked line may be replaced, as in
  the code. `used` is history.
* Bounds: `MaxOps` (requests per core), `MaxClock` (how far a load that keeps
  retrying may push `lts`), `LLCSize`, `L1Size`, `Slots` (16 in the code),
  `Lease`, `LivelockPeriod` (32 in the code). Clocks and versions are otherwise
  bounded by `MaxOps`.

## The runs

`tlc -config X.cfg M` for each `X.cfg`; M is MCTardis, unless the tables say
otherwise or X is itself a module.

### What holds

| run | instance | shows |
|---|---|---|
| MCTwoLines | 2 cores, 2 lines, L1 of 1, lease 1, livelock period 1, 3 requests each | `OneWriter`, `TransferIsCurrent`, `RepliesExpected`, `RecallsMeetOwner` |
| MCEvictions | 2 cores, 3 lines, 1 counter, LLC of 2 | `TypeOK`, `HomeIsCurrent`, `EachFetchOnce`, `RecencyExact`, `DirtyIsWrittenBack` |
| MCBranch | 1 core, 2 lines, chain of 2 counters, LLC of 2, 4 requests of every form (fenced loads and stores, fetches) | `SuspendedIsAwaited`, `MemoryAgrees` |
| MCAnswers | 2 cores, 2 lines, room for everything, stores | `RequestsAnswered` under fairness |
| MCTreeMath | all level boundaries and a grid, 2 GB of data | `OneLevelPerStep`, `RootSlotOfWalk` |
| MCTimingCPU | every form of instruction, up to two microoperations each | `TypeOK`, `OneThingPending`, `FragmentsAccounted`, `QuietWhenDrained`, `AccessEnds`, `DrainEnds` |
| MCCacheMemory | 2 sets of 4 ways, 5 lines in one of them, 1 context | `TypeOK`, `TagIndexExact`, `RecentSafe` and the refinement `ImplementsLines` |
| MCIEWExecute | 9 pairs of memory instructions, one port of each kind, one TLBI sync | `TypeOK`, `RequestOutlives`, `OneOwner`, `SavedIsLive`, `CompleteIsWhole`, `BlockedIsAwaited`, `InstEnds` |
| MCDispatch | 8 instructions, rename of 2, dispatch of 1, wire of 2 cycles, 2 squashes | `SkidFits`, `CreditsExact`, `InOrder`, `SignalsPaired`, `NoneLost`, `StallEnds` |
| MCRedirect | 6 instructions, issue of 3, write-back of 2, queue of 2 cycles | `SquashIsOldest`, `SlotsExact`, `OverrunIsFull` |

Why the bounds are enough: with an L1 of one line and two lines every second
request evicts, so put-backs, recalls and upgrades race; the third request of a
core meets the leases the first two left. An LLC of two blocks holds a line and
its counter, so a third block evicts one of them, and the LRU order decides
which; with a chain of two counters the LLC can never hold a line and its whole
chain, so suspended evictions cascade. Lease 1 makes loads expire at once.

TimingCPU has no bound on the length of a program: its states are finite because
instructions are forms; two microoperations are enough for an instruction that
is the first, the last or neither. Four ways give the replacement tree two
levels, and five lines for them keep the set full. Two instructions in the LSQ
are an older and a younger one, each of which may be split, and three request
objects leave a deleted instruction's request alive beside the new ones; the
pairs put every form before or after those it can disturb. The program of
MCDispatch is one instruction longer than the skid buffer and the queue it
waits for; a second squash may fall into the recovery from the first. In
MCRedirect three of six instructions execute in a cycle, a branch between
memory instructions; the slots of a cycle run out, and with only two cycles in the
queue so do those of the queue, both in a tick and between two. The bound of
`OverrunIsFull` is exact there: one more slot in it and TLC finds it violated.

`TypeOK` of Dispatch and Redirect holds too; it is not among the regular runs'
properties: it says what the variables range over.

In most of the violation runs deadlock is not checked, because the code can come
to a stop there: see MCLostWakeup and MCBlockedResponse. A climb in MCTreeMath
ends at the root.

**Fairness of the protocol** (`FairSpec`, MCAnswers only). A controller is woken whenever one of
its buffers has a message and processes every in-port in that cycle, so an
enabled step of an L1's port or of the memory port is taken: weak fairness. The
directory's requests and responses share one buffer with those of other lines,
served in order, and each is enabled and disabled by what is at the head: strong
fairness per cache and line. Nothing makes a core issue a request, so `Issue`
has none.

**Fairness of the CPUs.** TimingCPU: a function that has been called runs, a
scheduled event happens, and memory translates, answers and offers its retry:
weak fairness of each, strong for the response to a fragment, which the CPU can
refuse again and again while it takes in the other one. IEWExecute: what
`IEW::tick` and commit do they do in every cycle, the MMU and the cache answer,
the cache sends its retry. Dispatch: the cycle goes on (weak fairness of `Next`);
the ROB is at some time done with a squash, and a queue is not full for ever
(strong). Nothing must be fetched, dispatched, squashed or drained.

**Refinement.** `ImplementsLines` says that the array, seen through the lines it
holds, their locks and the victim it offers, behaves as CacheLines: an operation
of the array is one of the abstract ones or changes nothing a controller can
see. Permissions, ways and tree bits are hidden.

### Where the code departs from what it says

Each of these runs must find its property violated; `findings` in `PROJECT.json`
quotes the sentence the property comes from.

| run | property | what happens |
|---|---|---|
| MCLostUpdate | `UpgradeIsCurrent` | UPGR_REP goes to a cache whose stale copy has the current `wts`: an update is lost |
| MCBarrierLost (MCTimingCPU) | `BarrierReachesMemory` | the halves of a split access are copies of a request, and the copy leaves `isMemBarrier` out |

Further configurations are kept beside the regular runs, which they are not part
of. All but the first state what a comment, an assertion or the other half of the
code takes for granted, and TLC finds it violated; MCDistant passes. `hazards` in
`PROJECT.json` names the place of most of them.

| configuration | property | what happens |
|---|---|---|
| MCDistant | `SuspendedIsAwaited`, `MemoryAgrees` | hold: 2 cores, 2 lines below different counters, LLC of 2, random MRU |
| MCStaleHit | `NoStaleHit` | an LLC hit resets `rts` below leases that are out; a reader misses a write it must see |
| MCLostWakeup | `StalledIsAwaited` | a request waits for a counter that nobody is fetching |
| MCTransientVictim | `TransientVictimStalls` | LLC_Repl_Dirty_Auth_Miss is undefined in EE and ES |
| MCCounterState | `CounterArrivesInI` | Counter_Data meets a counter that is being written back: undefined |
| MCPartialBranch | `WholeBranchCounted` | a recalled victim is written back with part of its branch marked |
| MCSameTime | `WritesAdvance` | a store after ExRep in SE keeps the old line's `rts`, two versions share a timestamp |
| MCEarlyRecall | `EarlyRecallStalls` | FLUSH_REQ overtakes the reply and meets SE: undefined |
| MCBlockedResponse | `StalledEvictionEnds` | a put-back waits for a victim whose own block is queued behind it |
| MCEmptyBounce | `BounceHasRequest` | a bounced response recycles an empty request queue |
| MCInvalid | `InvalidInCaches` | the directory forgets (I) a line a cache still holds and may upgrade |
| MCDirtyCounter | `DirtyCounterIsModified` | a dirty counter is in I, not C_M, and is counted again when evicted |
| MCSkippedInst (MCTimingCPU) | `OneAdvance` | an access that ends inside `initiateAcc` completes a drain, and `completeIfetch` advances the PC again |
| MCEarlyFragment (MCTimingCPU) | `ResponseExpected` | the first fragment is answered while the second waits for its retry: the assertion of `completeDataAccess` fails |
| MCFence (MCIEWExecute) | `FenceFirst` | the access that took the mark is deferred, a younger one reaches memory first |
| MCStaleSync (MCIEWExecute) | `SyncAfterStale` | a split access clears its stale mark with the first of two replies, and the TLBI sync is answered |
| MCSyncWaits (MCIEWExecute) | `SyncEnds` | the last stale access is squashed or forwarded: the sync is answered only when a reply to another access comes |

Three more are regular configurations with another constant. MCBarrierLost with
`Forms <- WholeForms` finds `BarrierReachesMemory` violated without split
accesses: one that faults in translation consumes the mark and sends nothing.
MCCacheMemory with `"NotPresent"` among `Perms` finds `TagIndexExact` violated:
`allocate` reuses the way of a NotPresent entry and leaves its tag in the index;
no state of the two machines has that permission. MCTwoLines with `MaxOps = 4`, the
property `RenewsCurrent` and `CHECK_DEADLOCK FALSE` finds a lease renewed for a copy
that is not the newest, in 33 steps. A store that ends with ExRep in SE is ordered
behind the `rts` of the copy it replaces, not behind the block it receives
(`cache.sm:618`, the cause of MCSameTime too). So it can get the timestamp that
another cache's older copy has; the directory compares nothing but timestamps
(`dir.sm:640`) and answers RENEW_REP, which carries no data. Three requests per core
are one too few for it: it was the attempt to prove the property that led there.

MCTreeMath with `MemoryBlocks = 50331648`, the 3 GB the scripts start gem5 with,
finds `OneLevelPerStep` violated: data above 2 GB is taken for counters.

One more disagreement is of words only: `lsq.hh:800` says of `lqFull()` "Returns
if any of the LQs are full", and the code returns whether all of them are.

## The proofs

`tlapm M.tla` for M in CoherenceProofs, IntegrityProofs, TreeMathProofs,
CacheMemoryProofs, RedirectProofs, DispatchProofs, IEWExecuteProofs and
TimingCPUProofs. The theorems about the protocol hold for every number of cores, lines and
counters, every tree shape, every LLC and L1 size, slot count, lease and MRU policy, from
the assumptions `LeaseAssumption`, `AddressAssumption`, `PathAssumption`
(TardisNet), `L1Assumption` (L1Cache) and `DirectoryAssumption` (Directory).
`PathAssumption` says that every data line has a counter above it, which is
theorem `DataParent` of TreeMathProofs for the real geometry.

* **`TypeCorrect`**: `Spec => []TypeOK`. `TypeOK` is more than types: a
  counter's entry is only ever in I, C_M, I_Evicting or I_Evict_Auth, an entry
  in an owned state names its owner, and one that waits names the requestor.
* **`OneWriterCorrect`**: `Spec => []OneWriter`. The permission to write line
  `a` is a token. `Holders(a)` are the caches in E, `Granted(a)` the EX_REP and
  UPGR_REP under way, `Returned(a)` the WB_REP and PUT_REP under way. `Recorded(a)`
  says that there is exactly one token while the directory's entry is
  exclusive and none otherwise, that the entry has an owner exactly in the
  owned states, and that the token is then the owner's. It implies the
  assertions on `Owner.count()` in `setOwner_ReqIn` and `setState`.

* **`RepliesExpectedCorrect`**, **`RecallsMeetOwnerCorrect`**: what arrives at a
  cache finds its line waiting for it.

The inductive invariant of the first two is `TypeOK /\ OneWriter`; neither half is
inductive alone. `TypeOK` needs `OneWriter` to know that a reply to the owner is sent to a
cache, `OneWriter` needs `EntriesOK` to know that the requestor a grant goes to
is one. The step that preserves `OneWriter` is split by the four groups of
actions (L1, requests, memory, responses, and victims); each action is one of a
few moves of the token, stated as lemmas: `TokensStay`, `TokenGranted`,
`TokenRecalled`, `TokenCollected`, `TokenPassedOn`, `TokenTaken`,
`TokenGivenBack`. The type part, one lemma per action, is the first half of
CoherenceProofs.

The other two need to know what was asked before. `Expected` says of a cache and
a line that at most one of these exists: a request (queued or stalled), a TBE of
the directory that names the cache, a reply (`OneAtATime`); that it fits the state
the line waits in, a request or TBE that names a version being about a copy the
cache has kept (`Fitting`; with `mts > 0` a renewal is then only sent where one was
asked for); and that a line is recalled once, and no recall is on its way to a
cache that is sent an ACK_REP or to an owner the directory has not recalled
(`Recalling`). `OneWriter` tells where the owner is when it is recalled. Each action
is again one of a few moves (`RequestSent`, `ReplyTaken`, `RequestTaken`,
`AnswerSent`, `GrantSent`, `RecallSent`, `AckSent`, ...), one lemma each.
`Expected` was checked by TLC on the instances of MCTwoLines, MCEvictions and
MCDistant before it was proved.

* **`TransferIsCurrentCorrect`**, **`HomeIsCurrentCorrect`**,
  **`EachFetchOnceCorrect`**, **`MemoryAgreesCorrect`**,
  **`DirtyIsWrittenBackCorrect`** (IntegrityProofs): the newest version of a block
  is where the protocol believes it to be, and memory has what was not changed.

They hold for trees of every depth and number of suspended evictions, from the same
assumptions. The invariant (lemma `Kept`) adds two parts to `TypeOK /\ OneWriter`:

* `Accounted` is about the queues between the directory and memory.
  `InMemory(a)`: they hold exactly the read and the write-back that the entry of
  `a` and its AuthTBE account for. The case that needs care is the arrival of a
  counter (`CounterData`), which may complete a level, fetch the next counter, write
  back every eviction that waits for it, or suspend them again; `EnterExact` and
  `CountsExact` say what these leave in the queues. `InLLC`: what is dirty is
  resident, a counter being fetched is not yet. `Suspended`: every waiter is
  in I_Evict_Auth and in one slot only, without which two counters could write
  the same eviction back.
* `Current`: with the token under way or at a cache, that is where the newest
  version is (`InTransfer`; UPGR_REP carries no data, `UpgradeIsCurrent` is a
  finding); with the token at home the LLC has it, or the write-back, or memory,
  and a clean LLC copy equals memory (`AtRest`), which is what `DropClean`
  relies on when it forgets a block without writing it.

`Accounted` needs neither `OneWriter` nor `Current`; `Current` needs both
others: that data arrives once is what makes it the current data. One lemma per
group of actions preserves each part (`RequestStepAccounted`,
`MemoryStepAccounted`, ..., `L1StepCurrent`, `ResponseStepCurrent`, ...), and
again an action is one of a few moves (`MemoryQuiet`, `ReadSent`, `WriteSent`,
`DataAwaited`, `AckAwaited`, `LineChanged`, `CounterFetched`, `Suspends`). TLC
checked both parts on MCTwoLines, MCEvictions and MCDistant before they were
proved. The action property follows from `MarksKept`: a dirty block loses its
mark only as its write-back is sent, suspended, or put off until the owner has
given the line back.

* **`RecencyCorrect`** (IntegrityProofs). The invariant is `LLCOrder`: `recency` ranks
  the blocks of the LLC (`Ranks`: each once, and no other), and they are at most
  `LLCSize`. What is touched must be resident, which is why `Accounted` is needed:
  a counter being fetched is not in the LLC and does not enter the order before its
  data. `RanksTouched` is about `Touch`, `FlattenType` about the chains of several
  resumed evictions, one after another; both are recursive functions, and what
  holds of them is proved for a concrete predicate from a least counterexample
  (`MinOfNaturals`), as the induction theorems cannot be used.
* **`SuspendedIsAwaitedCorrect`** (IntegrityProofs): `Spec /\ []SlotsSuffice =>
  []SuspendedIsAwaited`, where `SlotsSuffice` says that no more evictions are
  suspended at a time than one AuthTBE has slots. The hypothesis is the limit of the
  code: an eviction that finds no free slot (`dir.sm:1126`) is dropped, so without it the
  invariant is false. `SuspendedIsAwaitedOfFew` is the case in which there are no more
  blocks than slots. The invariant `Waited` says that a suspended eviction is
  in a slot, and that the counter whose slot it is lies on its branch and is being
  read. The arrival of a counter empties its slots and suspends some of those evictions
  again, elsewhere: `BeforeAll` and `EnterAll` show that slots numbered by
  `Before` are all found while they suffice. TLC checked `Waited` on MCBranch and
  MCEvictions before it was proved.

* **`TagIndexCorrect`**, **`CacheTypeCorrect`** (CacheMemoryProofs): for every
  number of sets, lines and levels of the tree, from `CacheAssumption` and
  `NoNotPresent` (no state of the two machines has the permission NotPresent;
  MCCacheMemory without it shows that it is needed). The invariant is
  `ArrayOK /\ TagIndexExact`: with the types of the slots an absent line has no
  index, hence no entry anywhere, so the slot `allocate` fills gives it its only
  one. The bits keep their type because a node on the path of a way is given a
  truth value and the others are left.
* **`RecentCorrect`** (CacheMemoryProofs), from the same assumptions: `RecentSafe` for
  a tree of any number of levels. `Guarded` says: where the bit of a node above a
  used line points to the line's side, another line used later lies on the other
  side, or a way on the line's side is free. In a full set the bits lead to the victim,
  so a line of the victim's way has a later line on the other side of each of the
  `Depth` nodes above it, all of them different: it is not among the `Depth` lines
  used last. The provers have no theory of powers of two; what the nodes above a way
  need of them is proved from their recurrence.
* **`ArrayImplements`** (CacheMemoryProofs): `Spec => ImplementsLines`. Initial states
  map to initial states, each call to the operation of CacheLines of the same name,
  or to a stutter (`AllocateFills`, `DeallocateDrops`, `TouchMaps`, `ReleaseMaps`).
  `RecentSafe` is what shows that the victim is one that CacheLines may offer,
  `TagIndexExact` that the lines are those the index leads to.
* **`SquashIsOldestCorrect`** (RedirectProofs): for every program, width and
  horizon, from `RedirectAssumption`. `SquashIsOldest` with the type of the signal
  is inductive: what is not considered, or does not replace the signal, is
  covered by it already (`BranchCovered`, `ViolationCovered`; the second needs
  that the violated load is younger than the one that finds it).
* **`SlotsAreExact`** (RedirectProofs), from the same
  assumption. Beside the types (a lemma) the invariant is `Slotted`: the slots of a cycle are
  filled in a row and none after the last used (`InRow`), an instruction is in one
  slot at most and in none before it has finished (`Once`), a finished one has a
  slot (`Kept`), an issued one is still to come (`Scheduled`). `writebackInsts`
  stops at the first free slot, so it takes all of a cycle only because of `InRow`,
  and the shift of the queue drops none.
* **`OverrunIsFullCorrect`**, **`QueueIsEnough`** (RedirectProofs), from the same
  assumption. The search for a slot has no bound, so that it may ask the time buffer
  for a cycle it does not have; the first theorem says that it does so only with
  more than `Horizon * wbWidth` slots taken, the second that with no more than one
  instruction above that number in flight it never does (the slots hold different
  instructions, and the one that looks for a slot is in none). The invariant
  `Behind` says what is behind the stage's place: in a tick, which starts over, full
  cycles only (`Passed`); between ticks, where `wbCycle` keeps its value while
  the queue shifts under it, one cycle with a gap at most, whose first slot is taken
  (`OneGap`).
* **`SkidFitsCorrect`**, **`SignalsPairedCorrect`** (DispatchProofs): for every
  program, width and delay, from `DispatchAssumption`. A block reaches rename only a
  cycle later, so the bound on the buffer is not inductive. The invariant `Good`
  ties the status to the signals – rename is stopped, or is being told to stop,
  exactly while the stage is Blocked or Unblocking – and says with `Room` that
  what has come and what the wire may still bring fit together: with `j` of the
  delay + 1 groups taken, only the groups before the last `j` of the wire still
  hold instructions. A cycle in which rename is stopped shifts an empty group in,
  so `j` grows by one at most per group taken (`RoomForHead`).
* **`InOrderCorrect`**, **`CreditsCorrect`**, **`NoneLostCorrect`** (DispatchProofs),
  from the same assumption. All three are about `Queued`, the skid buffer, the list
  `insts` and all groups on the wire, one after another. The invariant `LInv` says
  that it is in program order and behind the last instruction dispatched, unless
  it is squashed, that the counts rename keeps are those of its loads and stores,
  and that rename sends nothing of the new path while the ROB squashes
  (`Squashing`), without which an old instruction could follow a new one. A step
  adds at the end of `Queued`, takes from its front what is dispatched, or takes
  out a stretch that is squashed (`Cut`); there is a lemma for each about the order and
  about the counts. `NoneLost` is the action property that follows. By itself it
  would accept an instruction dropped while a younger one is dispatched; `InOrder` and
  `CreditsExact` exclude that.
* **IEWExecuteProofs**: `RequestsOutlive`, `RequestsOwned`, `SavedRequestsLive`,
  `CompleteRequestsWhole`, `BlockedLoadsAwaited`, `ExecuteTypeCorrect`, for every
  program, number of ports and of syncs, from `LSQAssumption`. None of the first
  four is inductive: whether a request may be deleted depends on what its
  instruction does next. So the invariant looks at a request together with what
  surrounds it. `Sound` has four parts: `Translating` (the fragments the MMU holds,
  those translated), `Sending` (those at the cache, the packet counts),
  `Forwarding` (the scheduled write-back) and `Owned` (queue entry and
  `isReleased`). Each takes the surroundings as arguments, so that the lemmas
  about the methods of `LSQRequest` speak of one request and are used by every
  action; `InstOK` says which phases of an instruction have a request, `OneEach`
  that an instruction has one. `BlockedIsAwaited` is inductive beside them.
* **TimingCPUProofs**: `OneThingIsPending`, `FragmentsAddUp`, `DrainedIsQuiet`,
  `CPUTypeCorrect`, for every set of instruction forms and number of
  microoperations, from `MicroAssumption`. The invariant says what is on its way
  in each status: `Resting` when nothing runs (`Fetching` and `Accessing` take the
  statuses one by one, `AtCache` counts the fragments of a split access), and
  `Working` when a function runs (nothing is scheduled, and the function is called
  only in the statuses the code asserts or relies on). A step either calls a
  function (`WorkingRests`, `WorkingGoesOn`) or waits for an answer (`FetchRests`,
  `AccessRests`).
* The geometry of the tree (TreeMathProofs): `DataParent` (the parent of a data
  block is a level-1 counter), `SixLevels` (six steps, one level at a time, to the
  root), `AtMostFifteenChildren`.
* **`OneLevelCorrect`**, **`RootSlotCorrect`** (TreeMathProofs): the walks of MCTreeMath,
  for every amount of memory up to the counter region (`MemoryBlocks <= L1Base`, 2 GB),
  the bound the 3 GB configuration above violates. `OnWay` says which counter
  the walk is at after each number of steps: the block's number divided by 15 that many
  times, in the region of that level.

Only model-checked: the liveness properties `RequestsAnswered`, `AccessEnds`,
`DrainEnds`, `InstEnds` and `StallEnds`, which are out of the prover's reach. Every
invariant and action property of the passing runs is the property of a theorem;
`SuspendedIsAwaited` under the hypothesis above, `TagIndexExact`, `RecentSafe`,
`ImplementsLines` and the cache array's `TypeOK` for permissions without NotPresent,
`OneLevelPerStep` and `RootSlotOfWalk` up to 2 GB of data.

## Not modelled

* Hardware transactions (in the CPUs, the LSQ and the cache array) and several
  hardware threads per CPU: the configurations use neither. The choice among
  threads, and an activation of one thread during another's access, are left out
  with them.
* Statistics, probes, tracing, recording, functional accesses and checkpoints;
  the bank and port conflicts of CacheMemory (`resource_stalls` is off).
* The microcode ROM and `fetchOffset` of TimingSimpleCPU; activation between a
  finished drain and the resumption.
* Atomics and store-conditionals, masked and strictly ordered accesses of the
  LSQ, and a refusal of the message that ends a TLBI sync (a panic).
* The wake-up and sleep of the IEW stage, switch-out and reset.
* The DMA controller: the directory has neither an in-port nor a transition for
  its requests. Configuration, scripts and test programs keep no state.

## Plan

1. Extend the model: an abstract multiversion memory (a version history per
   line, reads and writes at timestamps) that the system without its known
   faults should implement; the double counting of evictions in `rootCount`;
   waiter slots at their limit (`Slots` = 1); the load that expires in EI; a run
   with `mru_policy` 1 and a deeper chain.
2. Prove more: once `cache.sm:618` orders a store behind the block it receives,
   `RenewsCurrent` and `WritesAdvance`, from an invariant that ties each version to
   a timestamp of its own.
