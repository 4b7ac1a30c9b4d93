-------------------------- MODULE TimingCPUProofs --------------------------
(* Proofs about TimingCPU, for any forms of instruction and any number of  *)
(* microoperations: what the CPU waits for in each of its statuses.        *)
EXTENDS TimingCPU, FiniteSetTheorems, TLAPS

-----------------------------------------------------------------------------
(* The inductive invariant.  _status and the function that runs tell where *)
(* the instruction is, hence what is scheduled, translated and sent.       *)

DataStatuses == {"DTBWaitResponse", "DcacheRetry", "DcacheWaitResponse"}

NothingSent ==
  /\ dcachePkt = {} /\ pending = {} /\ dcache = {} /\ dTick = {} /\ outstanding = 0

NoAccess == dtb = {} /\ iprEvent = {} /\ NothingSent

\* The fetch goes through its statuses one after the other.
Fetching ==
  CASE status = "ITBWaitResponse"    -> ifetch = {"translating"}
    [] status = "IcacheRetry"        -> ifetch = {"retry"}
    [] status = "IcacheWaitResponse" -> ifetch = {"sent"} \/ ifetch = {"tick"}
    [] OTHER                         -> ifetch = {}

\* A whole access is one packet; a split one counts what is left of two.
AtCache ==
  /\ dtb = {} /\ iprEvent = {}
  /\ status = "DcacheRetry" <=> dcachePkt # {}
  /\ IF curStaticInst \in Split
     THEN /\ outstanding = Cardinality(pending) + Cardinality(dcache) + Cardinality(dTick)
          /\ outstanding > 0 /\ dcachePkt = LowestOf(pending)
          /\ pending \cap dcache = {} /\ pending \cap dTick = {} /\ dcache \cap dTick = {}
          /\ Cardinality(dTick) <= 1
     ELSE /\ outstanding = 0 /\ pending = {}
          /\ \/ dcachePkt = {1} /\ dcache = {} /\ dTick = {}
             \/ dcachePkt = {} /\ dcache = {1} /\ dTick = {}
             \/ dcachePkt = {} /\ dcache = {} /\ dTick = {1}

AtIpr == status = "DcacheWaitResponse" /\ dtb = {} /\ iprEvent = {1} /\ NothingSent

Accessing ==
  IF status \in DataStatuses
  THEN /\ curStaticInst \in Reads \cup Writes
       /\ IF status = "DTBWaitResponse"
          THEN /\ dtb # {} /\ iprEvent = {} /\ NothingSent
               /\ curStaticInst # "memMgmt"
          ELSE AtCache \/ AtIpr
  ELSE NoAccess

\* Nothing runs: the status tells what the CPU waits for.
Resting ==
  /\ Fetching /\ Accessing
  /\ fetchEvent => status \in {"Running", "Faulting"}
  /\ status = "Faulting" => fetchEvent
  /\ status = "Running" => IF fetchEvent THEN frames = 0
                           ELSE drainState \in {"Signalled", "Drained"}
  /\ drainState = "Drained" => /\ frames = 0 /\ status \in {"Running", "Idle"}
                               /\ ~fetchEvent /\ micro = 0 /\ ~stayAtPC

\* A function runs: nothing is scheduled or on its way.
Working ==
  /\ ~fetchEvent /\ ifetch = {} /\ NoAccess /\ drainState # "Drained"
  /\ call = "fetch" => status \in {"Running", "Faulting"}
  /\ call = "completeIfetch" => status = "IcacheWaitResponse"
  /\ call = "execute" => status = "Running" /\ (curStaticInst = "suspend" => micro = 0)
  /\ call = "finishTranslation" =>
       status = "DTBWaitResponse" /\ curStaticInst \in (Reads \ {"memMgmt"}) \cup Writes
  /\ call = "completeDataAccess" =>
       \/ status = "Running" /\ curStaticInst = "noAccess"
       \/ status = "DcacheWaitResponse" /\ curStaticInst = "storeCond"
  /\ call = "advanceInst" =>
       /\ status \in {"Running", "Idle"}
       /\ status = "Idle" => fault = "NoFault"
       /\ fault = "Syscall" => ~stayAtPC

Decoded ==
  /\ stayAtPC <=> curStaticInst = "more"
  /\ stayAtPC => micro = 0

Suspended ==
  /\ active <=> status # "Idle"
  /\ status = "Idle" => micro = 0 /\ ~stayAtPC

Placed ==
  /\ Decoded /\ Suspended
  /\ call = "none" => Resting
  /\ call \notin {"none", "abort"} => Working
  /\ call = "abort" => drainState # "Drained"

IInv == TypeOK /\ Placed

-----------------------------------------------------------------------------
(* Fragments.                                                              *)

\* How many fragments a set of them has.
LEMMA FewFragments ==
  ASSUME NEW S \in SUBSET Fragments
  PROVE  Cardinality(S) = (IF 1 \in S THEN 1 ELSE 0) + (IF 2 \in S THEN 1 ELSE 0)
<1>1. S = {} \/ S = {1} \/ S = {2} \/ S = {1, 2}
  BY DEF Fragments
<1>2. Cardinality({}) = 0 /\ Cardinality({1}) = 1 /\ Cardinality({2}) = 1
  BY FS_EmptySet, FS_Singleton
<1>3. Cardinality({1} \cup {2}) = 2
  <2>1. IsFiniteSet({1}) /\ 2 \notin {1}
    BY FS_Singleton
  <2>2. Cardinality({1} \cup {2}) = Cardinality({1}) + 1
    BY <2>1, FS_AddElement
  <2>. QED  BY <1>2, <2>2
<1>4. {1} \cup {2} = {1, 2}
  OBVIOUS
<1>. QED  BY <1>1, <1>2, <1>3, <1>4

\* The lowest fragment of a set is one of it, and there is one.
LEMMA LowestIsThere ==
  ASSUME NEW S \in SUBSET Fragments
  PROVE  LowestOf(S) \in SUBSET S /\ (LowestOf(S) = {} <=> S = {})
<1>1. S = {} \/ S = {1} \/ S = {2} \/ S = {1, 2}
  BY DEF Fragments
<1>2. LowestOf(S) \in SUBSET S
  BY DEF LowestOf
<1>3. 1 \in S => 1 \in LowestOf(S)
  BY <1>1 DEF LowestOf
<1>4. 1 \notin S /\ 2 \in S => 2 \in LowestOf(S)
  BY <1>1 DEF LowestOf
<1>. QED  BY <1>1, <1>2, <1>3, <1>4

\* A prefix is a part, and the prefixes of one packet are none and all.
LEMMA PrefixIsPart ==
  ASSUME NEW S, NEW p \in Prefixes(S)
  PROVE  p \in SUBSET S
BY DEF Prefixes

-----------------------------------------------------------------------------
(* Type correctness.                                                       *)

\* Sending packets keeps the types.
LEMMA SendTypes ==
  ASSUME NEW all \in SUBSET Fragments, NEW sent \in Prefixes(all), TypeOK,
         HandlePackets(all, sent)
  PROVE  /\ dcache' \in SUBSET Fragments /\ dcachePkt' \in SUBSET Fragments
         /\ status' \in {"DcacheWaitResponse", "DcacheRetry"} /\ owed' \in BOOLEAN
<1>1. sent \in SUBSET Fragments /\ all \ sent \in SUBSET Fragments
  BY PrefixIsPart
<1>2. LowestOf(all \ sent) \in SUBSET Fragments
  BY <1>1, LowestIsThere
<1>3. owed' \in BOOLEAN
  BY DEF HandlePackets, TypeOK
<1>. QED  BY <1>1, <1>2, <1>3 DEF HandlePackets, TypeOK

\* Sending the fetch keeps the types.
LEMMA SendFetchTypes ==
  ASSUME TypeOK, NEW b, NEW c, sendFetch(b, c)
  PROVE  /\ status' \in Statuses /\ ifetch' \in SUBSET {"translating", "retry", "sent", "tick"}
         /\ call' \in {"none", "advanceInst"} /\ fault' \in {"NoFault", "Fault", "Syscall"}
BY DEF sendFetch, Advance, Back, TypeOK, Statuses

\* Drains, fetches and what follows an instruction keep the types.
LEMMA FlowTypes ==
  ASSUME TypeOK,
         \/ PCEvent \/ fetch \/ advanceInst \/ InitiateAccReturns
         \/ FetchEvent \/ FetchTranslated \/ IcacheRecvReqRetry \/ IcacheRecvTimingResp
         \/ drain \/ drainResume \/ activateContext
  PROVE  TypeOK'
<1>. USE DEF TypeOK, Statuses, dataVars, transVars, splitVars, portVars, barrierVars,
             callVars, instVars, cpuVars
<1>1. CASE PCEvent
  <2>1. fetchEvent' \in BOOLEAN /\ active' \in BOOLEAN /\ status' \in Statuses
    BY <1>1 DEF PCEvent, suspendContext
  <2>2. call' \in {"none", "abort"} /\ fault' = fault
    BY <1>1 DEF PCEvent, Back, Abort
  <2>. QED  BY <1>1, <2>1, <2>2 DEF PCEvent
<1>2. CASE fetch
  <2>1. /\ status' \in Statuses /\ ifetch' \in SUBSET {"translating", "retry", "sent", "tick"}
        /\ call' \in {"none", "advanceInst", "completeIfetch"}
        /\ fault' \in {"NoFault", "Fault", "Syscall"}
    BY <1>2, SendFetchTypes DEF fetch, Back
  <2>. QED  BY <1>2, <2>1 DEF fetch
<1>3. CASE advanceInst
  <2>1. CASE status = "Faulting"
    BY <1>3, <2>1 DEF advanceInst, Back
  <2>2. CASE AfterFault
    <3>1. fetchEvent' \in BOOLEAN /\ active' \in BOOLEAN /\ status' \in Statuses
      BY <2>2 DEF AfterFault, suspendContext
    <3>2. micro' \in 0 .. MaxMicro
      BY <2>2, MicroAssumption DEF AfterFault
    <3>3. call' = "none" /\ fault' = fault
      BY <2>2 DEF AfterFault, Back
    <3>. QED  BY <1>3, <2>2, <3>1, <3>2, <3>3 DEF advanceInst, AfterFault
  <2>3. CASE NextInst
    BY <1>3, <2>3 DEF advanceInst, NextInst, Back
  <2>. QED  BY <1>3, <2>1, <2>2, <2>3 DEF advanceInst
<1>4. CASE InitiateAccReturns
  BY <1>4 DEF InitiateAccReturns, Advance
<1>5. CASE FetchEvent
  <2>1. fetchEvent' \in BOOLEAN
    BY <1>5 DEF FetchEvent
  <2>. QED  BY <1>5, <2>1 DEF FetchEvent
<1>6. CASE FetchTranslated
  BY <1>6, SendFetchTypes DEF FetchTranslated
<1>7. CASE IcacheRecvReqRetry
  BY <1>7 DEF IcacheRecvReqRetry
<1>8. CASE IcacheRecvTimingResp
  BY <1>8 DEF IcacheRecvTimingResp
<1>9. CASE drain
  <2>1. fetchEvent' \in BOOLEAN
    BY <1>9 DEF drain
  <2>. QED  BY <1>9, <2>1 DEF drain
<1>10. CASE drainResume
  BY <1>10 DEF drainResume, Abort
<1>11. CASE activateContext
  BY <1>11 DEF activateContext
<1>. QED  BY <1>1, <1>2, <1>3, <1>4, <1>5, <1>6, <1>7, <1>8, <1>9, <1>10, <1>11

\* Decoding and executing an instruction keeps the types.
LEMMA ExecuteTypes ==
  ASSUME TypeOK,
         \/ completeIfetch \/ ExecuteSimple \/ ExecuteSuspend \/ NoAccessNeeded
         \/ initiateMemRead \/ writeMem \/ initiateMemAMO
  PROVE  TypeOK'
<1>. USE DEF TypeOK, Statuses, dataVars, transVars, splitVars, portVars, barrierVars,
             callVars, instVars, cpuVars
<1>1. CASE completeIfetch
  <2>1. CASE status = "IcacheWaitResponse"
    <3>1. preExecute /\ status' = "Running" /\ call' = "execute"
      BY <1>1, <2>1 DEF completeIfetch
    <3>2. /\ micro' \in 0 .. MaxMicro /\ stayAtPC' \in BOOLEAN /\ curStaticInst' \in Forms
          /\ advances' = 0
      <4>1. CASE micro = 0
        BY <3>1, <4>1, MicroAssumption DEF preExecute
      <4>2. CASE micro # 0
        BY <3>1, <4>2, MicroAssumption DEF preExecute
      <4>. QED  BY <4>1, <4>2
    <3>. QED  BY <1>1, <3>1, <3>2, <2>1 DEF completeIfetch
  <2>2. CASE status # "IcacheWaitResponse"
    BY <1>1, <2>2 DEF completeIfetch, Abort
  <2>. QED  BY <2>1, <2>2
<1>2. CASE ExecuteSimple
  BY <1>2 DEF ExecuteSimple, Advance
<1>3. CASE ExecuteSuspend
  BY <1>3 DEF ExecuteSuspend, suspendContext, Advance
<1>4. CASE NoAccessNeeded
  BY <1>4 DEF NoAccessNeeded, Advance
<1>5. ASSUME NEW forms, InitiateAccess(forms) PROVE TypeOK'
  <2>1. memoryBarrierFetched' \in BOOLEAN /\ mark' \in [Fragments -> BOOLEAN]
    BY <1>5 DEF InitiateAccess, MarkRequest, splitOnVaddr
  <2>2. /\ dtb' \in SUBSET Fragments /\ dtbFault' \in BOOLEAN /\ frames' \in Nat
        /\ call' \in {"finishTranslation", "none"}
    BY <1>5 DEF InitiateAccess, Translate, FragmentsOf, Fragments
  <2>. QED  BY <1>5, <2>1, <2>2 DEF InitiateAccess
<1>. QED  BY <1>1, <1>2, <1>3, <1>4, <1>5 DEF initiateMemRead, writeMem, initiateMemAMO

\* Sending the data of an instruction keeps the types.
LEMMA SendDataTypes ==
  ASSUME TypeOK, sendData
  PROVE  /\ dcache' \in SUBSET Fragments /\ dcachePkt' \in SUBSET Fragments
         /\ iprEvent' \in SUBSET Fragments
         /\ status' \in Statuses /\ owed' \in BOOLEAN
         /\ call' \in {"none", "completeDataAccess"}
         /\ UNCHANGED <<pending, outstanding, dTick, retryResp>>
<1>. USE DEF TypeOK, Statuses
<1>1. CASE /\ status' \in {"Running", "DcacheWaitResponse"} /\ call' = "completeDataAccess"
           /\ UNCHANGED <<dcachePkt, dcache, iprEvent, owed>>
  BY <1>1 DEF sendData
<1>2. CASE curStaticInst = "localLoad"
  <2>1. {1} \in SUBSET Fragments /\ {} \in SUBSET Fragments
    BY DEF Fragments
  <2>. QED  BY <1>2, <2>1 DEF sendData
<1>3. ASSUME NEW sent \in Prefixes({1}), HandlePackets({1}, sent),
             call' = "none", UNCHANGED iprEvent
      PROVE  /\ dcache' \in SUBSET Fragments /\ dcachePkt' \in SUBSET Fragments
             /\ iprEvent' \in SUBSET Fragments
             /\ status' \in Statuses /\ owed' \in BOOLEAN
             /\ call' \in {"none", "completeDataAccess"}
  <2>2. {1} \in SUBSET Fragments
    BY DEF Fragments
  <2>3. /\ dcache' \in SUBSET Fragments /\ dcachePkt' \in SUBSET Fragments
        /\ status' \in {"DcacheWaitResponse", "DcacheRetry"} /\ owed' \in BOOLEAN
    BY <1>3, <2>2, SendTypes
  <2>. QED  BY <1>3, <2>3
<1>. QED  BY <1>1, <1>2, <1>3 DEF sendData

\* Accessing the memory and taking its answers keeps the types.
LEMMA AccessTypes ==
  ASSUME TypeOK, NEW f \in Fragments,
         \/ initiateMemMgmtCmd \/ finishTranslation \/ DataTranslated(f)
         \/ DcacheRecvReqRetry \/ DcacheRecvTimingResp(f) \/ SendRetryResp
  PROVE  TypeOK'
<1>. USE DEF Statuses, dataVars, transVars, splitVars, portVars, barrierVars,
             callVars, instVars, cpuVars
<1>1. CASE initiateMemMgmtCmd
  <2>1. mark' \in [Fragments -> BOOLEAN]
    BY <1>1 DEF initiateMemMgmtCmd, TypeOK
  <2>2. sendData
    BY <1>1 DEF initiateMemMgmtCmd
  <2>. QED  BY <1>1, <2>1, <2>2, SendDataTypes DEF initiateMemMgmtCmd, TypeOK
<1>2. CASE finishTranslation
  <2>1. dtbFault' \in BOOLEAN
    BY <1>2 DEF finishTranslation
  <2>2. CASE dtbFault
    BY <1>2, <2>1, <2>2 DEF finishTranslation, Advance, TypeOK
  <2>3. CASE ~dtbFault /\ curStaticInst \in Split
    <3>1. PICK sent \in Prefixes(Fragments) :
            /\ HandlePackets(Fragments, sent)
            /\ pending' = Fragments \ sent /\ outstanding' = 2
            /\ call' = "none" /\ UNCHANGED <<dTick, iprEvent, retryResp>>
      BY <1>2, <2>3 DEF finishTranslation, sendSplitData
    <3>2. /\ dcache' \in SUBSET Fragments /\ dcachePkt' \in SUBSET Fragments
          /\ status' \in {"DcacheWaitResponse", "DcacheRetry"} /\ owed' \in BOOLEAN
      BY <3>1, SendTypes
    <3>3. pending' \in SUBSET Fragments /\ outstanding' \in 0 .. 2
      BY <3>1
    <3>. QED  BY <1>2, <2>1, <2>3, <3>1, <3>2, <3>3 DEF finishTranslation, TypeOK
  <2>4. CASE ~dtbFault /\ curStaticInst \notin Split
    <3>1. sendData
      BY <1>2, <2>4 DEF finishTranslation
    <3>. QED  BY <1>2, <2>1, <2>4, <3>1, SendDataTypes DEF finishTranslation, TypeOK
  <2>. QED  BY <2>2, <2>3, <2>4
<1>3. CASE DataTranslated(f)
  <2>1. dtbFault' \in BOOLEAN /\ dtb' \in SUBSET Fragments
    BY <1>3 DEF DataTranslated, TypeOK
  <2>. QED  BY <1>3, <2>1 DEF DataTranslated, TypeOK
<1>4. CASE DcacheRecvReqRetry
  <2>1. CASE status = "DcacheRetry"
    <3>1. PICK sent \in Prefixes(dcachePkt \cup pending) :
            HandlePackets(dcachePkt \cup pending, sent) /\ pending' = pending \ sent
      BY <1>4, <2>1 DEF DcacheRecvReqRetry
    <3>2. dcachePkt \cup pending \in SUBSET Fragments /\ pending' \in SUBSET Fragments
      BY <3>1 DEF TypeOK
    <3>3. /\ dcache' \in SUBSET Fragments /\ dcachePkt' \in SUBSET Fragments
          /\ status' \in {"DcacheWaitResponse", "DcacheRetry"} /\ owed' \in BOOLEAN
      BY <3>1, <3>2, SendTypes
    <3>. QED  BY <1>4, <2>1, <3>2, <3>3 DEF DcacheRecvReqRetry, TypeOK
  <2>2. CASE status # "DcacheRetry"
    BY <1>4, <2>2 DEF DcacheRecvReqRetry, Abort, TypeOK
  <2>. QED  BY <2>1, <2>2
<1>5. CASE DcacheRecvTimingResp(f)
  <2>1. /\ dTick' \in SUBSET Fragments /\ dcache' \in SUBSET Fragments
        /\ retryResp' \in BOOLEAN
    BY <1>5 DEF DcacheRecvTimingResp, TypeOK
  <2>. QED  BY <1>5, <2>1 DEF DcacheRecvTimingResp, TypeOK
<1>6. CASE SendRetryResp
  <2>1. retryResp' \in BOOLEAN
    BY <1>6 DEF SendRetryResp
  <2>. QED  BY <1>6, <2>1 DEF SendRetryResp, TypeOK
<1>. QED  BY <1>1, <1>2, <1>3, <1>4, <1>5, <1>6

\* Completing an access keeps the types.
LEMMA CompleteTypes ==
  ASSUME TypeOK, CompletedAtOnce \/ DcacheTick \/ IprEvent
  PROVE  TypeOK'
<1>1. completeDataAccess
  BY DEF CompletedAtOnce, DcacheTick, IprEvent
<1>2. dTick' \in SUBSET Fragments /\ iprEvent' \in SUBSET Fragments
  BY DEF CompletedAtOnce, DcacheTick, IprEvent, TypeOK
<1>3. /\ outstanding' \in 0 .. 2 /\ status' \in Statuses
      /\ mark' \in [Fragments -> BOOLEAN]
  <2>1. outstanding' \in 0 .. 2
    BY <1>1 DEF completeDataAccess, TypeOK
  <2>2. status' \in Statuses
    BY <1>1 DEF completeDataAccess, TypeOK, Statuses
  <2>3. mark' \in [Fragments -> BOOLEAN]
    BY <1>1 DEF completeDataAccess, TypeOK
  <2>. QED  BY <2>1, <2>2, <2>3
<1>4. call' \in {"none", "advanceInst", "abort"} /\ fault' \in {"NoFault", "Fault", "Syscall"}
  BY <1>1 DEF completeDataAccess, Back, Advance, Abort, TypeOK
<1>. QED  BY <1>1, <1>2, <1>3, <1>4 DEF completeDataAccess, TypeOK, instVars, transVars

\* No step breaks a type.
LEMMA TypeStep ==
  ASSUME TypeOK, [Next]_vars
  PROVE  TypeOK'
<1>1. CASE UNCHANGED vars
  BY <1>1 DEF TypeOK, vars, cpuVars, instVars, callVars, dataVars, transVars, splitVars,
              portVars, barrierVars
<1>2. CASE Halt
  BY <1>1, <1>2 DEF Halt
<1>. QED  BY <1>1, <1>2, FlowTypes, ExecuteTypes, AccessTypes, CompleteTypes
          DEF Next, Call, Event, Memory, Fragments

-----------------------------------------------------------------------------
(* Drains, fetches and what follows an instruction.                        *)

accessVars == <<dtb, dcachePkt, pending, outstanding, dcache, dTick, iprEvent>>

\* An access stays where it is while nobody touches it.
LEMMA AccessingStays ==
  ASSUME Accessing, UNCHANGED <<curStaticInst, accessVars>>,
         status' = status \/ {status, status'} \cap DataStatuses = {}
  PROVE  Accessing'
<1>1. NoAccess' <=> NoAccess
  BY DEF NoAccess, NothingSent, accessVars
<1>2. CASE status' = status
  BY <1>1, <1>2 DEF Accessing, AtCache, AtIpr, NothingSent, accessVars
<1>3. CASE {status, status'} \cap DataStatuses = {}
  BY <1>1, <1>3 DEF Accessing
<1>. QED  BY <1>2, <1>3

\* What a working function leaves to the others when it returns.
LEMMA WorkingRests ==
  ASSUME IInv, Working, UNCHANGED <<accessVars, ifetch>>, call' = "none",
         Decoded', Suspended', drainState' # "Drained",
         status' \in {"Running", "Faulting", "Idle"},
         fetchEvent' => status' = "Faulting",
         status' = "Faulting" => fetchEvent',
         status' = "Running" => drainState' = "Signalled"
  PROVE  Placed'
<1>1. NoAccess' /\ ifetch' = {}
  BY DEF Working, NoAccess, NothingSent, accessVars
<1>2. Accessing'
  BY <1>1 DEF Accessing, DataStatuses
<1>3. Fetching'
  BY <1>1 DEF Fetching
<1>4. Resting'
  BY <1>2, <1>3 DEF Resting
<1>. QED  BY <1>4 DEF Placed

\* A working function that calls another one.
LEMMA WorkingGoesOn ==
  ASSUME IInv, Working, UNCHANGED <<accessVars, ifetch>>, ~fetchEvent',
         Decoded', Suspended', drainState' # "Drained",
         \/ call' = "fetch" /\ status' = "Running"
         \/ call' = "completeIfetch" /\ status' = "IcacheWaitResponse"
         \/ /\ call' = "advanceInst" /\ status' \in {"Running", "Idle"}
            /\ status' = "Idle" => fault' = "NoFault"
            /\ fault' = "Syscall" => ~stayAtPC'
  PROVE  Placed'
<1>1. NoAccess' /\ ifetch' = {}
  BY DEF Working, NoAccess, NothingSent, accessVars
<1>2. Working'
  BY <1>1 DEF Working
<1>. QED  BY <1>2 DEF Placed

\* A function that sends the fetch, or starts its translation, and returns.
LEMMA FetchRests ==
  ASSUME IInv, Decoded', Suspended', drainState' # "Drained", ~fetchEvent', call' = "none",
         NoAccess, UNCHANGED accessVars,
         \/ status' = "ITBWaitResponse" /\ ifetch' = {"translating"}
         \/ status' = "IcacheWaitResponse" /\ ifetch' = {"sent"}
         \/ status' = "IcacheRetry" /\ ifetch' = {"retry"}
  PROVE  Placed'
<1>1. NoAccess'
  BY DEF NoAccess, NothingSent, accessVars
<1>2. Accessing' /\ Fetching'
  BY <1>1 DEF Accessing, Fetching, DataStatuses
<1>. QED  BY <1>2 DEF Placed, Resting

\* The three outcomes of sendFetch.
LEMMA SendFetchOutcome ==
  ASSUME NEW b, NEW c, sendFetch(b, c)
  PROVE  \/ /\ status' = "Running" /\ call' = "advanceInst" /\ fault' = "Fault"
            /\ ifetch' = ifetch \ {"translating"}
         \/ /\ status' = "IcacheWaitResponse" /\ call' = "none"
            /\ ifetch' = (ifetch \ {"translating"}) \cup {"sent"}
         \/ /\ status' = "IcacheRetry" /\ call' = "none"
            /\ ifetch' = (ifetch \ {"translating"}) \cup {"retry"}
BY DEF sendFetch, Advance, Back

\* PCEvent keeps the invariant.
LEMMA PCEventKeeps ==
  ASSUME IInv, PCEvent
  PROVE  Placed'
<1>1. Working /\ Decoded /\ Suspended
  BY DEF IInv, Placed, PCEvent
<1>2. UNCHANGED <<accessVars, ifetch, drainState, stayAtPC, micro, curStaticInst>>
  BY DEF PCEvent, accessVars, dataVars, transVars, splitVars, portVars, instVars
<1>3. Decoded'
  BY <1>1, <1>2 DEF Decoded
<1>4. CASE status = "Running"
  <2>1. /\ status' = "Idle" /\ active' = FALSE /\ fetchEvent' = FALSE /\ call' = "none"
        /\ micro = 0 /\ ~stayAtPC
    BY <1>4 DEF PCEvent, suspendContext, Back
  <2>2. Suspended'
    BY <2>1, <1>2 DEF Suspended
  <2>. QED  BY <1>1, <1>2, <1>3, <2>1, <2>2, WorkingRests DEF Working
<1>5. CASE status # "Running"
  <2>1. call' = "abort" /\ UNCHANGED <<status, active>>
    BY <1>5 DEF PCEvent, Abort
  <2>. QED  BY <1>1, <1>2, <1>3, <2>1 DEF Placed, Suspended, Working
<1>. QED  BY <1>4, <1>5

\* fetch keeps the invariant.
LEMMA FetchKeeps ==
  ASSUME IInv, fetch
  PROVE  Placed'
<1>1. /\ Working /\ Decoded /\ Suspended /\ status \in {"Running", "Faulting"}
      /\ ifetch = {} /\ NoAccess /\ ~fetchEvent /\ drainState # "Drained"
  BY DEF IInv, Placed, fetch, Working
<1>2. UNCHANGED <<accessVars, active, fetchEvent, drainState, stayAtPC, micro, curStaticInst>>
  BY DEF fetch, accessVars, dataVars, transVars, splitVars, portVars, instVars
<1>3. Decoded'
  BY <1>1, <1>2 DEF Decoded
<1>4. status' # "Idle" => Suspended'
  BY <1>1, <1>2 DEF Suspended
<1>5. ASSUME NEW b, NEW c, sendFetch(b, c), micro = 0
      PROVE  Placed'
  <2>1. CASE /\ status' = "Running" /\ call' = "advanceInst" /\ fault' = "Fault"
             /\ ifetch' = ifetch \ {"translating"}
    BY <1>1, <1>2, <1>3, <1>4, <2>1, WorkingGoesOn
  <2>2. CASE /\ status' = "IcacheWaitResponse" /\ call' = "none"
             /\ ifetch' = (ifetch \ {"translating"}) \cup {"sent"}
    BY <1>1, <1>2, <1>3, <1>4, <2>2, FetchRests
  <2>3. CASE /\ status' = "IcacheRetry" /\ call' = "none"
             /\ ifetch' = (ifetch \ {"translating"}) \cup {"retry"}
    BY <1>1, <1>2, <1>3, <1>4, <2>3, FetchRests
  <2>. QED  BY <1>5, <2>1, <2>2, <2>3, SendFetchOutcome
<1>6. CASE status' = "ITBWaitResponse" /\ ifetch' = ifetch \cup {"translating"} /\ Back
  BY <1>1, <1>2, <1>3, <1>4, <1>6, FetchRests DEF Back
<1>7. CASE status' = "IcacheWaitResponse" /\ call' = "completeIfetch" /\ UNCHANGED ifetch
  BY <1>1, <1>2, <1>3, <1>4, <1>7, WorkingGoesOn
<1>. QED  BY <1>1, <1>5, <1>6, <1>7 DEF fetch

\* The end of a fetch translation keeps the invariant.
LEMMA FetchTranslatedKeeps ==
  ASSUME IInv, FetchTranslated
  PROVE  Placed'
<1>1. /\ Resting /\ Decoded /\ Suspended /\ "translating" \in ifetch
  BY DEF IInv, Placed, FetchTranslated, AtRest
<1>2. UNCHANGED <<accessVars, active, fetchEvent, drainState, stayAtPC, micro, curStaticInst>>
  BY DEF FetchTranslated, accessVars, dataVars, transVars, splitVars, portVars, instVars
<1>3. status = "ITBWaitResponse" /\ ifetch = {"translating"}
  BY <1>1 DEF Resting, Fetching, IInv, TypeOK, Statuses
<1>4. NoAccess /\ ~fetchEvent /\ drainState # "Drained"
  BY <1>1, <1>3 DEF Resting, Accessing, DataStatuses
<1>5. Decoded'
  BY <1>1, <1>2 DEF Decoded
<1>6. status' # "Idle" => Suspended'
  BY <1>1, <1>2, <1>3 DEF Suspended
<1>7. PICK b \in BOOLEAN, c \in BOOLEAN : sendFetch(b, c)
  BY DEF FetchTranslated
<1>8. CASE /\ status' = "Running" /\ call' = "advanceInst" /\ fault' = "Fault"
           /\ ifetch' = ifetch \ {"translating"}
  <2>1. NoAccess' /\ ifetch' = {}
    BY <1>2, <1>3, <1>4, <1>8 DEF NoAccess, NothingSent, accessVars
  <2>2. Working'
    BY <1>2, <1>4, <1>8, <2>1 DEF Working
  <2>. QED  BY <1>2, <1>4, <1>5, <1>6, <1>8, <2>2 DEF Placed
<1>9. CASE /\ status' = "IcacheWaitResponse" /\ call' = "none"
           /\ ifetch' = (ifetch \ {"translating"}) \cup {"sent"}
  BY <1>2, <1>3, <1>4, <1>5, <1>6, <1>9, FetchRests
<1>10. CASE /\ status' = "IcacheRetry" /\ call' = "none"
            /\ ifetch' = (ifetch \ {"translating"}) \cup {"retry"}
  BY <1>2, <1>3, <1>4, <1>5, <1>6, <1>10, FetchRests
<1>. QED  BY <1>7, <1>8, <1>9, <1>10, SendFetchOutcome

\* The retry and the answer of the instruction cache keep the invariant.
LEMMA IcacheKeeps ==
  ASSUME IInv, IcacheRecvReqRetry \/ IcacheRecvTimingResp
  PROVE  Placed'
<1>1. Resting /\ Decoded /\ Suspended /\ call = "none"
  BY DEF IInv, Placed, IcacheRecvReqRetry, IcacheRecvTimingResp, AtRest
<1>2. /\ UNCHANGED <<accessVars, active, fetchEvent, drainState, stayAtPC, micro>>
      /\ UNCHANGED <<curStaticInst, call>>
  BY DEF IcacheRecvReqRetry, IcacheRecvTimingResp, accessVars, dataVars, transVars, splitVars,
         portVars, instVars, cpuVars, callVars
<1>3. /\ status' = "IcacheWaitResponse" /\ status \in {"IcacheRetry", "IcacheWaitResponse"}
      /\ ifetch' = {"sent"} \/ ifetch' = {"tick"}
  <2>1. CASE IcacheRecvReqRetry
    <3>1. status = "IcacheRetry" /\ ifetch = {"retry"}
      BY <1>1, <2>1 DEF Resting, Fetching, IcacheRecvReqRetry, IInv, TypeOK, Statuses
    <3>. QED  BY <2>1, <3>1 DEF IcacheRecvReqRetry
  <2>2. CASE IcacheRecvTimingResp
    <3>1. status = "IcacheWaitResponse" /\ ifetch = {"sent"}
      BY <1>1, <2>2 DEF Resting, Fetching, IcacheRecvTimingResp, IInv, TypeOK, Statuses
    <3>. QED  BY <2>2, <3>1 DEF IcacheRecvTimingResp, cpuVars
  <2>. QED  BY <2>1, <2>2
<1>4. Accessing'
  BY <1>1, <1>2, <1>3, AccessingStays DEF Resting, DataStatuses
<1>5. Fetching'
  BY <1>3 DEF Fetching
<1>6. ~fetchEvent' /\ drainState' # "Drained"
  BY <1>1, <1>2, <1>3 DEF Resting
<1>7. Resting'
  BY <1>3, <1>4, <1>5, <1>6 DEF Resting
<1>. QED  BY <1>1, <1>2, <1>3, <1>7 DEF Placed, Decoded, Suspended

\* A cached fetch is decoded: the rest of completeIfetch keeps the invariant.
LEMMA CompleteIfetchKeeps ==
  ASSUME IInv, completeIfetch
  PROVE  Placed'
<1>1. Decoded /\ Suspended
  BY DEF IInv, Placed
<1>2. UNCHANGED <<accessVars, active, fetchEvent, drainState>>
  BY DEF completeIfetch, accessVars, dataVars, transVars, splitVars, portVars
<1>3. /\ status = "IcacheWaitResponse" /\ NoAccess /\ ~fetchEvent /\ drainState # "Drained"
      /\ ifetch' = {}
  <2>1. CASE AtRest /\ "tick" \in ifetch
    <3>1. Resting
      BY <2>1 DEF IInv, Placed, AtRest
    <3>2. status = "IcacheWaitResponse" /\ ifetch = {"tick"}
      BY <2>1, <3>1 DEF Resting, Fetching, IInv, TypeOK, Statuses
    <3>. QED  BY <3>1, <3>2 DEF Resting, Accessing, DataStatuses, completeIfetch
  <2>2. CASE call = "completeIfetch"
    BY <2>2 DEF IInv, Placed, Working, completeIfetch
  <2>. QED  BY <2>1, <2>2 DEF completeIfetch
<1>4. preExecute /\ status' = "Running" /\ call' = "execute"
  BY <1>3 DEF completeIfetch
<1>5. Decoded'
  <2>1. CASE micro = 0
    <3>1. /\ micro' \in IF curStaticInst' \in {"more", "suspend"} THEN {0} ELSE 0 .. MaxMicro
          /\ stayAtPC' = (curStaticInst' = "more")
      BY <1>4, <2>1 DEF preExecute
    <3>. QED  BY <3>1 DEF Decoded
  <2>2. CASE micro # 0
    <3>1. curStaticInst' # "more" /\ stayAtPC' = stayAtPC
      BY <1>4, <2>2 DEF preExecute
    <3>. QED  BY <1>1, <2>2, <3>1 DEF Decoded
  <2>. QED  BY <2>1, <2>2
<1>6. Suspended'
  BY <1>1, <1>2, <1>3, <1>4 DEF Suspended
<1>7. NoAccess'
  BY <1>2, <1>3 DEF NoAccess, NothingSent, accessVars
<1>8. curStaticInst' = "suspend" => micro' = 0
  BY <1>4 DEF preExecute
<1>9. Working'
  BY <1>2, <1>3, <1>4, <1>7, <1>8 DEF Working
<1>. QED  BY <1>2, <1>3, <1>4, <1>5, <1>6, <1>9 DEF Placed

\* Executing an instruction that accesses no memory keeps the invariant.
LEMMA ExecuteKeeps ==
  ASSUME IInv, ExecuteSimple \/ ExecuteSuspend \/ NoAccessNeeded
  PROVE  Placed'
<1>1. /\ Working /\ Decoded /\ Suspended /\ status = "Running"
      /\ ~fetchEvent /\ drainState # "Drained"
  BY DEF IInv, Placed, ExecuteSimple, ExecuteSuspend, NoAccessNeeded, Working
<1>2. UNCHANGED <<accessVars, ifetch, drainState, stayAtPC, micro, curStaticInst>>
  BY DEF ExecuteSimple, ExecuteSuspend, NoAccessNeeded, accessVars, dataVars, transVars,
         splitVars, portVars, instVars, cpuVars
<1>3. Decoded'
  BY <1>1, <1>2 DEF Decoded
<1>4. CASE ExecuteSimple \/ NoAccessNeeded
  <2>1. status' = status /\ active' = active /\ fetchEvent' = fetchEvent
    BY <1>4 DEF ExecuteSimple, NoAccessNeeded, cpuVars
  <2>2. call' = "advanceInst" /\ (fault' = "Syscall" => curStaticInst # "more")
    BY <1>4 DEF ExecuteSimple, NoAccessNeeded, Advance
  <2>3. Suspended'
    BY <1>1, <1>2, <2>1 DEF Suspended
  <2>4. fault' = "Syscall" => ~stayAtPC'
    BY <1>1, <1>2, <2>2 DEF Decoded
  <2>. QED  BY <1>1, <1>2, <1>3, <2>1, <2>2, <2>3, <2>4, WorkingGoesOn
<1>5. CASE ExecuteSuspend
  <2>1. /\ status' = "Idle" /\ active' = FALSE /\ fetchEvent' = FALSE
        /\ call' = "advanceInst" /\ fault' = "NoFault" /\ curStaticInst = "suspend"
    BY <1>5 DEF ExecuteSuspend, suspendContext, Advance
  <2>2. micro = 0 /\ ~stayAtPC
    BY <1>1, <1>5, <2>1 DEF Decoded, Working, ExecuteSuspend
  <2>3. Suspended'
    BY <1>2, <2>1, <2>2 DEF Suspended
  <2>. QED  BY <1>1, <1>2, <1>3, <2>1, <2>3, WorkingGoesOn
<1>. QED  BY <1>4, <1>5

\* What follows an instruction keeps the invariant.
LEMMA AdvanceInstKeeps ==
  ASSUME IInv, advanceInst
  PROVE  Placed'
<1>1. /\ Working /\ Decoded /\ Suspended /\ status \in {"Running", "Idle"}
      /\ status = "Idle" => fault = "NoFault"
      /\ fault = "Syscall" => ~stayAtPC
      /\ ~fetchEvent /\ drainState # "Drained"
  BY DEF IInv, Placed, advanceInst, Working
<1>2. UNCHANGED <<accessVars, ifetch, stayAtPC, curStaticInst>>
  BY DEF advanceInst, accessVars, dataVars, transVars, splitVars, portVars
<1>3. CASE AfterFault
  <2>1. /\ fault # "NoFault" /\ micro' = 0 /\ call' = "none" /\ drainState' = drainState
        /\ status = "Running" /\ active
    BY <1>1, <1>3 DEF AfterFault, Back, Suspended
  <2>2. Decoded'
    BY <1>1, <1>2, <2>1 DEF Decoded
  <2>3. \/ fetchEvent' = TRUE /\ status' = "Faulting" /\ active' = active
        \/ /\ status' = "Idle" /\ active' = FALSE /\ fetchEvent' = FALSE
           /\ fault = "Syscall"
    BY <1>3 DEF AfterFault, suspendContext
  <2>4. Suspended'
    BY <1>1, <1>2, <2>1, <2>3 DEF Suspended
  <2>. QED  BY <1>1, <1>2, <2>1, <2>2, <2>3, <2>4, WorkingRests
<1>4. CASE NextInst
  <2>1. UNCHANGED <<status, active, fetchEvent, micro>>
    BY <1>4 DEF NextInst
  <2>2. Decoded' /\ Suspended'
    BY <1>1, <1>2, <2>1 DEF Decoded, Suspended
  <2>3. CASE tryCompleteDrain
    <3>1. drainState' = "Signalled" /\ call' = "none"
      BY <1>4, <2>3 DEF NextInst, Back
    <3>. QED  BY <1>1, <1>2, <2>1, <2>2, <3>1, WorkingRests
  <2>4. CASE ~tryCompleteDrain
    <3>1. /\ call' = IF status = "Running" THEN "fetch" ELSE "none"
          /\ drainState' = drainState
      BY <1>4, <2>4 DEF NextInst
    <3>2. CASE status = "Running"
      BY <1>1, <1>2, <2>1, <2>2, <3>1, <3>2, WorkingGoesOn
    <3>3. CASE status = "Idle"
      BY <1>1, <1>2, <2>1, <2>2, <3>1, <3>3, WorkingRests
    <3>. QED  BY <1>1, <3>2, <3>3
  <2>. QED  BY <2>3, <2>4
<1>. QED  BY <1>1, <1>3, <1>4 DEF advanceInst

\* The return of initiateAcc keeps the invariant.
LEMMA InitiateAccReturnsKeeps ==
  ASSUME IInv, InitiateAccReturns
  PROVE  Placed'
<1>1. /\ Resting /\ Decoded /\ Suspended /\ call = "none"
      /\ frames > 0 /\ frames' = frames - 1 /\ frames \in Nat
  BY DEF IInv, Placed, InitiateAccReturns, TypeOK
<1>2. /\ UNCHANGED <<accessVars, status, active, fetchEvent, drainState, stayAtPC, micro>>
      /\ UNCHANGED <<curStaticInst, ifetch>>
  BY DEF InitiateAccReturns, accessVars, dataVars, transVars, splitVars, portVars, instVars,
         cpuVars
<1>3. Decoded' /\ Suspended'
  BY <1>1, <1>2 DEF Decoded, Suspended
<1>4. CASE status = "Running"
  <2>1. call' = "advanceInst" /\ fault' = "NoFault"
    BY <1>4 DEF InitiateAccReturns, Advance
  <2>2. ~fetchEvent /\ ifetch = {} /\ NoAccess /\ drainState # "Drained"
    BY <1>1, <1>4 DEF Resting, Fetching, Accessing, DataStatuses
  <2>3. NoAccess'
    BY <1>2, <2>2 DEF NoAccess, NothingSent, accessVars
  <2>4. Working'
    BY <1>2, <1>4, <2>1, <2>2, <2>3 DEF Working
  <2>. QED  BY <1>2, <1>3, <2>1, <2>2, <2>4 DEF Placed
<1>5. CASE status # "Running"
  <2>1. call' = call
    BY <1>5 DEF InitiateAccReturns
  <2>2. Accessing'
    BY <1>1, <1>2, AccessingStays DEF Resting
  <2>3. Fetching'
    BY <1>1, <1>2 DEF Resting, Fetching
  <2>4. Resting'
    BY <1>1, <1>2, <1>5, <2>2, <2>3 DEF Resting
  <2>. QED  BY <1>1, <1>3, <2>1, <2>4 DEF Placed
<1>. QED  BY <1>4, <1>5

\* The fetch event keeps the invariant.
LEMMA FetchEventKeeps ==
  ASSUME IInv, FetchEvent
  PROVE  Placed'
<1>1. /\ Resting /\ Decoded /\ Suspended /\ status \in {"Running", "Faulting"}
      /\ drainState # "Drained"
  BY DEF IInv, Placed, FetchEvent, AtRest, Resting
<1>2. /\ UNCHANGED <<accessVars, status, active, drainState, stayAtPC, micro>>
      /\ UNCHANGED <<curStaticInst, ifetch>> /\ call' = "fetch" /\ fetchEvent' = FALSE
  BY DEF FetchEvent, accessVars, dataVars, transVars, splitVars, portVars, instVars
<1>3. Decoded' /\ Suspended'
  BY <1>1, <1>2 DEF Decoded, Suspended
<1>4. NoAccess' /\ ifetch' = {}
  BY <1>1, <1>2 DEF Resting, Accessing, Fetching, DataStatuses, NoAccess, NothingSent,
                    accessVars
<1>5. Working'
  BY <1>1, <1>2, <1>4 DEF Working
<1>. QED  BY <1>1, <1>2, <1>3, <1>5 DEF Placed

\* Asking for a drain keeps the invariant.
LEMMA DrainKeeps ==
  ASSUME IInv, drain
  PROVE  Placed'
<1>1. /\ Resting /\ Decoded /\ Suspended /\ call = "none" /\ frames = 0
      /\ drainState \in {"Running", "Signalled"}
  BY DEF IInv, Placed, drain, AtRest
<1>2. /\ UNCHANGED <<accessVars, status, active, stayAtPC, micro>>
      /\ UNCHANGED <<curStaticInst, ifetch, call, frames>>
  BY DEF drain, accessVars, dataVars, transVars, splitVars, portVars, instVars, callVars
<1>3. Decoded' /\ Suspended'
  BY <1>1, <1>2 DEF Decoded, Suspended
<1>4. Accessing'
  BY <1>1, <1>2, AccessingStays DEF Resting
<1>5. Fetching'
  BY <1>1, <1>2 DEF Resting, Fetching
<1>6. CASE status = "Idle" \/ (status = "Running" /\ isCpuDrained)
  <2>1. drainState' = "Drained" /\ fetchEvent' = fetchEvent
    BY <1>6 DEF drain
  <2>2. ~fetchEvent /\ micro = 0 /\ ~stayAtPC
    BY <1>1, <1>6 DEF Resting, Suspended, isCpuDrained
  <2>3. Resting'
    BY <1>1, <1>2, <1>4, <1>5, <1>6, <2>1, <2>2 DEF Resting
  <2>. QED  BY <1>1, <1>2, <1>3, <2>3 DEF Placed
<1>7. CASE ~(status = "Idle" \/ (status = "Running" /\ isCpuDrained))
  <2>1. drainState' = "Draining" /\ fetchEvent' = (fetchEvent \/ status = "Running")
    BY <1>7 DEF drain
  <2>2. /\ fetchEvent' => status \in {"Running", "Faulting"}
        /\ status \in {"Running", "Faulting"} => fetchEvent'
    BY <1>1, <2>1 DEF Resting
  <2>3. Resting'
    BY <1>1, <1>2, <1>4, <1>5, <2>1, <2>2 DEF Resting
  <2>. QED  BY <1>1, <1>2, <1>3, <2>3 DEF Placed
<1>. QED  BY <1>6, <1>7

\* The end of a drain and the activation of the thread keep the invariant.
LEMMA ResumeKeeps ==
  ASSUME IInv, drainResume \/ activateContext
  PROVE  Placed'
<1>1. /\ Resting /\ Decoded /\ Suspended /\ call = "none" /\ frames = 0
      /\ status \in {"Running", "Idle"}
  BY DEF IInv, Placed, drainResume, activateContext, AtRest, Resting, Suspended
<1>2. /\ UNCHANGED <<accessVars, stayAtPC, micro>>
      /\ UNCHANGED <<curStaticInst, ifetch, frames>>
  BY DEF drainResume, activateContext, accessVars, dataVars, transVars, splitVars, portVars,
         instVars, callVars
<1>3. /\ call' = "none" /\ drainState' # "Drained"
      /\ status' \in {"Running", "Idle"} /\ (fetchEvent' <=> status' = "Running")
      /\ active' <=> status' # "Idle"
      /\ status' = "Idle" => status = "Idle"
  <2>1. CASE drainResume
    <3>1. ~fetchEvent
      BY <1>1, <2>1 DEF drainResume, Resting
    <3>2. /\ drainState' = "Running" /\ call' = call /\ active' = active /\ fetchEvent' = active
          /\ status' = IF active THEN "Running" ELSE "Idle"
      BY <2>1, <3>1 DEF drainResume
    <3>3. active <=> status' = "Running"
      BY <3>2
    <3>. QED  BY <1>1, <3>2, <3>3 DEF Suspended
  <2>2. CASE activateContext
    <3>1. status = "Idle"
      BY <1>1, <2>2 DEF activateContext, Suspended
    <3>. QED  BY <1>1, <2>2, <3>1 DEF activateContext, callVars
  <2>. QED  BY <2>1, <2>2
<1>4. Decoded' /\ Suspended'
  BY <1>1, <1>2, <1>3 DEF Decoded, Suspended
<1>5. Accessing'
  BY <1>1, <1>2, <1>3, AccessingStays DEF Resting, DataStatuses
<1>6. Fetching'
  BY <1>1, <1>2, <1>3 DEF Resting, Fetching
<1>7. Resting'
  BY <1>1, <1>2, <1>3, <1>5, <1>6 DEF Resting
<1>. QED  BY <1>3, <1>4, <1>7 DEF Placed

-----------------------------------------------------------------------------
(* Accesses.                                                               *)

\* An access that is at the cache or at the local register.
LEMMA AccessRests ==
  ASSUME IInv, Decoded', Suspended', drainState' # "Drained", ~fetchEvent', ifetch' = {},
         call' = "none", curStaticInst' \in Reads \cup Writes,
         status' \in {"DcacheRetry", "DcacheWaitResponse"}, AtCache' \/ AtIpr'
  PROVE  Placed'
<1>1. Accessing' /\ Fetching'
  BY DEF Accessing, Fetching, DataStatuses
<1>. QED  BY <1>1 DEF Placed, Resting

\* The packet of a whole access goes to the cache, or waits for a retry.
LEMMA WholeSent ==
  ASSUME NEW sent \in Prefixes({1}), HandlePackets({1}, sent),
         curStaticInst \notin Split, curStaticInst' = curStaticInst,
         NothingSent \/ (sent = {1} /\ dcache = {} /\ dTick = {} /\ pending = {} /\ outstanding = 0),
         dtb' = {}, iprEvent' = {}, pending' = {}, UNCHANGED <<outstanding, dTick>>
  PROVE  AtCache' /\ status' \in {"DcacheRetry", "DcacheWaitResponse"}
<1>1. sent = {} \/ sent = {1}
  BY PrefixIsPart
<1>2. {1} \in SUBSET Fragments /\ {} \in SUBSET Fragments
  BY DEF Fragments
<1>3. LowestOf({1}) = {1} /\ LowestOf({}) = {}
  BY <1>2, LowestIsThere
<1>4. outstanding = 0 /\ dTick = {} /\ dcache = {}
  BY DEF NothingSent
<1>5. CASE sent = {}
  <2>1. {1} \ sent = {1} /\ sent # {1}
    BY <1>5
  <2>2. dcachePkt' = {1} /\ dcache' = {} /\ status' = "DcacheRetry"
    BY <1>3, <1>4, <1>5, <2>1 DEF HandlePackets
  <2>. QED  BY <1>4, <2>2 DEF AtCache
<1>6. CASE sent = {1}
  <2>1. {1} \ sent = {}
    BY <1>6
  <2>2. dcachePkt' = {} /\ dcache' = {1} /\ status' = "DcacheWaitResponse"
    BY <1>3, <1>4, <1>6, <2>1 DEF HandlePackets
  <2>. QED  BY <1>4, <2>2 DEF AtCache
<1>. QED  BY <1>1, <1>5, <1>6

\* The packets of a split access go to the cache, or wait for a retry.
LEMMA SplitSent ==
  ASSUME NEW all \in SUBSET Fragments, NEW sent \in Prefixes(all), HandlePackets(all, sent),
         curStaticInst \in Split, curStaticInst' = curStaticInst,
         dcache \in SUBSET Fragments, dTick \in SUBSET Fragments,
         all \cap dcache = {}, all \cap dTick = {}, dcache \cap dTick = {},
         Cardinality(dTick) <= 1,
         outstanding' = Cardinality(all) + Cardinality(dcache) + Cardinality(dTick),
         all # {}, dtb' = {}, iprEvent' = {}, pending' = all \ sent, dTick' = dTick
  PROVE  AtCache' /\ status' \in {"DcacheRetry", "DcacheWaitResponse"}
<1>1. sent \in SUBSET all /\ pending' \in SUBSET Fragments
  BY PrefixIsPart
<1>2. dcache' = dcache \cup sent /\ dcache' \in SUBSET Fragments
  BY <1>1 DEF HandlePackets
<1>3. dcachePkt' = LowestOf(pending')
  BY DEF HandlePackets
<1>4. dcachePkt' = {} <=> sent = all
  BY <1>1, <1>3, LowestIsThere, SMTT(30)
<1>5. status' = IF sent = all THEN "DcacheWaitResponse" ELSE "DcacheRetry"
  BY DEF HandlePackets
<1>6. /\ pending' \cap dcache' = {} /\ pending' \cap dTick' = {} /\ dcache' \cap dTick' = {}
  BY <1>1, <1>2
<1>7. Cardinality(all) + Cardinality(dcache) + Cardinality(dTick)
        = Cardinality(pending') + Cardinality(dcache') + Cardinality(dTick')
  <2>1. Cardinality(all) + Cardinality(dcache)
          = Cardinality(all \ sent) + Cardinality(dcache \cup sent)
    <3>1. all \ sent \in SUBSET Fragments /\ dcache \cup sent \in SUBSET Fragments
      BY <1>1
    <3>. QED  BY <1>1, <3>1, FewFragments
  <2>2. Cardinality(dTick) \in Nat
    BY FewFragments
  <2>3. /\ Cardinality(all) \in Nat /\ Cardinality(dcache) \in Nat
        /\ Cardinality(pending') \in Nat /\ Cardinality(dcache') \in Nat
    BY <1>1, <1>2, FewFragments
  <2>. QED  BY <1>2, <2>1, <2>2, <2>3
<1>8. outstanding' > 0
  <2>1. 1 \in all \/ 2 \in all
    BY DEF Fragments
  <2>2. Cardinality(all) \in Nat \ {0}
    BY <2>1, FewFragments
  <2>3. Cardinality(dcache) \in Nat /\ Cardinality(dTick) \in Nat
    BY FewFragments
  <2>. QED  BY <2>2, <2>3
<1>. QED  BY <1>3, <1>4, <1>5, <1>6, <1>7, <1>8 DEF AtCache

\* The function that starts an access keeps the invariant.
LEMMA InitiateKeeps ==
  ASSUME IInv, NEW forms, InitiateAccess(forms),
         forms \in SUBSET ((Reads \ {"memMgmt"}) \cup Writes)
  PROVE  Placed'
<1>1. /\ Working /\ Decoded /\ Suspended /\ status = "Running" /\ NoAccess
      /\ ~fetchEvent /\ ifetch = {} /\ drainState # "Drained"
  BY DEF IInv, Placed, InitiateAccess, Working
<1>2. /\ UNCHANGED <<active, fetchEvent, drainState, ifetch, stayAtPC, micro, curStaticInst>>
      /\ UNCHANGED <<dcachePkt, pending, outstanding, dcache, dTick, iprEvent>>
      /\ status' = "DTBWaitResponse" /\ curStaticInst \in (Reads \ {"memMgmt"}) \cup Writes
      /\ curStaticInst # "memMgmt"
  BY DEF InitiateAccess, instVars, splitVars, portVars, Writes
<1>3. Decoded' /\ Suspended'
  BY <1>1, <1>2 DEF Decoded, Suspended
<1>4. NothingSent' /\ iprEvent' = {}
  BY <1>1, <1>2 DEF NoAccess, NothingSent
<1>5. \/ dtb' = {} /\ call' = "finishTranslation"
      \/ dtb' # {} /\ call' = "none"
  BY DEF InitiateAccess, Translate
<1>6. CASE dtb' = {} /\ call' = "finishTranslation"
  <2>1. Working'
    BY <1>1, <1>2, <1>4, <1>6 DEF Working, NoAccess
  <2>. QED  BY <1>1, <1>2, <1>3, <1>6, <2>1 DEF Placed
<1>7. CASE dtb' # {} /\ call' = "none"
  <2>1. Accessing' /\ Fetching'
    BY <1>1, <1>2, <1>4, <1>7 DEF Accessing, Fetching, DataStatuses
  <2>2. Resting'
    BY <1>1, <1>2, <2>1 DEF Resting
  <2>. QED  BY <1>3, <1>7, <2>2 DEF Placed
<1>. QED  BY <1>5, <1>6, <1>7

\* Sending the data of an instruction that has none on its way.
LEMMA SendDataKeeps ==
  ASSUME IInv, Decoded', Suspended', drainState' # "Drained", ~fetchEvent', ifetch' = {},
         NoAccess, sendData, dtb' = {}, curStaticInst' = curStaticInst,
         curStaticInst \in Reads \cup Writes, curStaticInst \notin Split
  PROVE  Placed'
<1>1. UNCHANGED <<pending, outstanding, dTick>> /\ NothingSent /\ iprEvent = {}
  BY DEF sendData, NoAccess
<1>2. CASE /\ call' = "completeDataAccess" /\ UNCHANGED <<dcachePkt, dcache, iprEvent>>
           /\ \/ curStaticInst = "noAccess" /\ status' = "Running"
              \/ curStaticInst = "storeCond" /\ status' = "DcacheWaitResponse"
  <2>1. NoAccess'
    BY <1>1, <1>2 DEF NoAccess, NothingSent
  <2>2. Working'
    BY <1>2, <2>1 DEF Working
  <2>. QED  BY <1>2, <2>2 DEF Placed
<1>3. CASE /\ status' = "DcacheWaitResponse" /\ call' = "none"
           /\ dcachePkt' = {} /\ iprEvent' = {1} /\ UNCHANGED dcache
  <2>1. AtIpr'
    BY <1>1, <1>3 DEF AtIpr, NothingSent
  <2>. QED  BY <1>3, <2>1, AccessRests
<1>4. ASSUME NEW sent \in Prefixes({1}), HandlePackets({1}, sent), call' = "none",
             UNCHANGED iprEvent
      PROVE  Placed'
  <2>1. iprEvent' = {} /\ pending' = {}
    BY <1>1, <1>4 DEF NothingSent
  <2>2. AtCache' /\ status' \in {"DcacheRetry", "DcacheWaitResponse"}
    BY <1>1, <1>4, <2>1, WholeSent
  <2>. QED  BY <1>4, <2>2, AccessRests
<1>. QED  BY <1>2, <1>3, <1>4 DEF sendData

\* A memory management request keeps the invariant.
LEMMA MemMgmtKeeps ==
  ASSUME IInv, initiateMemMgmtCmd
  PROVE  Placed'
<1>1. /\ Working /\ Decoded /\ Suspended /\ status = "Running" /\ NoAccess
      /\ ~fetchEvent /\ ifetch = {} /\ drainState # "Drained"
  BY DEF IInv, Placed, initiateMemMgmtCmd, Working
<1>2. /\ UNCHANGED <<active, fetchEvent, drainState, ifetch, stayAtPC, micro, curStaticInst>>
      /\ dtb' = dtb /\ curStaticInst = "memMgmt" /\ sendData
  BY DEF initiateMemMgmtCmd, instVars, transVars
<1>3. dtb' = {} /\ curStaticInst \in Reads \cup Writes /\ curStaticInst \notin Split
  BY <1>1, <1>2 DEF NoAccess, Reads, Split
<1>4. status' \in {"Running", "DcacheWaitResponse", "DcacheRetry"}
  BY <1>2 DEF sendData, HandlePackets
<1>5. Decoded' /\ Suspended'
  BY <1>1, <1>2, <1>4 DEF Decoded, Suspended
<1>. QED  BY <1>1, <1>2, <1>3, <1>5, SendDataKeeps

\* The end of a data translation keeps the invariant.
LEMMA FinishTranslationKeeps ==
  ASSUME IInv, finishTranslation
  PROVE  Placed'
<1>1. /\ Working /\ Decoded /\ Suspended /\ status = "DTBWaitResponse" /\ NoAccess
      /\ curStaticInst \in (Reads \ {"memMgmt"}) \cup Writes
      /\ ~fetchEvent /\ ifetch = {} /\ drainState # "Drained"
  BY DEF IInv, Placed, finishTranslation, Working
<1>2. UNCHANGED <<active, fetchEvent, drainState, ifetch, stayAtPC, micro, curStaticInst, dtb>>
  BY DEF finishTranslation, instVars
<1>3. Decoded'
  BY <1>1, <1>2 DEF Decoded
<1>4. status' # "Idle" => Suspended'
  BY <1>1, <1>2 DEF Suspended
<1>5. dtb' = {} /\ dtb = {} /\ NothingSent /\ iprEvent = {}
  BY <1>1, <1>2 DEF NoAccess
<1>6. CASE dtbFault
  <2>1. /\ status' = "Running" /\ call' = "advanceInst" /\ fault' # "Syscall"
        /\ UNCHANGED accessVars
    BY <1>2, <1>6 DEF finishTranslation, Advance, accessVars, splitVars, portVars
  <2>. QED  BY <1>1, <1>2, <1>3, <1>4, <2>1, WorkingGoesOn
<1>7. CASE ~dtbFault /\ curStaticInst \in Split
  <2>1. PICK sent \in Prefixes(Fragments) :
          /\ HandlePackets(Fragments, sent)
          /\ pending' = Fragments \ sent /\ outstanding' = 2
          /\ call' = "none" /\ UNCHANGED <<dTick, iprEvent>>
    BY <1>7 DEF finishTranslation, sendSplitData
  <2>2. dcache = {} /\ dTick = {} /\ iprEvent' = {} /\ dTick' = dTick
    BY <1>5, <2>1 DEF NothingSent
  <2>3. outstanding' = Cardinality(Fragments) + Cardinality(dcache) + Cardinality(dTick)
    <3>1. Cardinality(Fragments) = 2
      <4>1. Fragments \in SUBSET Fragments /\ 1 \in Fragments /\ 2 \in Fragments
        BY DEF Fragments
      <4>. QED  BY <4>1, FewFragments
    <3>. QED  BY <2>1, <2>2, <3>1, FS_EmptySet
  <2>4. Fragments # {}
    BY DEF Fragments
  <2>5. AtCache' /\ status' \in {"DcacheRetry", "DcacheWaitResponse"}
    <3>1. /\ dcache \in SUBSET Fragments /\ dTick \in SUBSET Fragments
          /\ Fragments \cap dcache = {} /\ Fragments \cap dTick = {} /\ dcache \cap dTick = {}
          /\ Cardinality(dTick) <= 1
      BY <2>2, FS_EmptySet
    <3>. QED  BY <1>2, <1>5, <1>7, <2>1, <2>2, <2>3, <2>4, <3>1, SplitSent
  <2>. QED  BY <1>1, <1>2, <1>3, <1>4, <2>1, <2>5, AccessRests
<1>8. CASE ~dtbFault /\ curStaticInst \notin Split
  <2>1. sendData
    BY <1>8 DEF finishTranslation
  <2>2. status' # "Idle"
    BY <2>1 DEF sendData, HandlePackets
  <2>. QED  BY <1>1, <1>2, <1>3, <1>4, <1>5, <1>8, <2>1, <2>2, SendDataKeeps
<1>. QED  BY <1>6, <1>7, <1>8

\* The translation of a fragment keeps the invariant.
LEMMA DataTranslatedKeeps ==
  ASSUME IInv, NEW f \in Fragments, DataTranslated(f)
  PROVE  Placed'
<1>1. Resting /\ Decoded /\ Suspended /\ dtb # {}
  BY DEF IInv, Placed, DataTranslated, AtRest
<1>2. /\ UNCHANGED <<status, active, fetchEvent, drainState, ifetch, stayAtPC, micro>>
      /\ UNCHANGED <<curStaticInst, dcachePkt, pending, outstanding, dcache, dTick, iprEvent>>
      /\ call' = IF dtb' = {} THEN "finishTranslation" ELSE "none"
  BY DEF DataTranslated, cpuVars, instVars, splitVars, portVars
<1>3. /\ status = "DTBWaitResponse" /\ NothingSent /\ iprEvent = {}
      /\ curStaticInst \in (Reads \ {"memMgmt"}) \cup Writes /\ curStaticInst # "memMgmt"
  BY <1>1 DEF Resting, Accessing, AtCache, AtIpr, NoAccess
<1>4. ~fetchEvent /\ ifetch = {} /\ drainState # "Drained" /\ status # "Idle"
  BY <1>1, <1>3 DEF Resting, Fetching
<1>5. Decoded' /\ Suspended'
  BY <1>1, <1>2 DEF Decoded, Suspended
<1>6. NothingSent' /\ iprEvent' = {}
  BY <1>2, <1>3 DEF NothingSent
<1>7. CASE dtb' = {}
  <2>1. Working'
    BY <1>2, <1>3, <1>4, <1>6, <1>7 DEF Working, NoAccess
  <2>. QED  BY <1>2, <1>4, <1>5, <1>7, <2>1 DEF Placed
<1>8. CASE dtb' # {}
  <2>1. Accessing' /\ Fetching'
    BY <1>2, <1>3, <1>4, <1>6, <1>8 DEF Accessing, Fetching, DataStatuses
  <2>2. Resting'
    BY <1>2, <1>3, <1>4, <2>1 DEF Resting
  <2>. QED  BY <1>2, <1>5, <1>8, <2>2 DEF Placed
<1>. QED  BY <1>7, <1>8

\* What an access at the cache tells of the CPU.
LEMMA AtCacheFacts ==
  ASSUME IInv, call = "none", dcachePkt # {} \/ dcache # {} \/ dTick # {}
  PROVE  /\ Resting /\ Decoded /\ Suspended /\ AtCache
         /\ status \in {"DcacheRetry", "DcacheWaitResponse"}
         /\ curStaticInst \in Reads \cup Writes
         /\ ~fetchEvent /\ ifetch = {} /\ drainState # "Drained"
<1>1. Resting /\ Decoded /\ Suspended
  BY DEF IInv, Placed
<1>2. /\ AtCache /\ status \in DataStatuses /\ status # "DTBWaitResponse"
      /\ curStaticInst \in Reads \cup Writes
  BY <1>1 DEF Resting, Accessing, AtIpr, NoAccess, NothingSent
<1>3. ~fetchEvent /\ ifetch = {} /\ drainState # "Drained"
  BY <1>1, <1>2 DEF Resting, Fetching, DataStatuses
<1>. QED  BY <1>1, <1>2, <1>3 DEF DataStatuses

\* The retry of the data cache keeps the invariant.
LEMMA DcacheRetryKeeps ==
  ASSUME IInv, DcacheRecvReqRetry
  PROVE  Placed'
<1>1. /\ Resting /\ Decoded /\ Suspended /\ AtCache
      /\ curStaticInst \in Reads \cup Writes /\ status = "DcacheRetry"
      /\ ~fetchEvent /\ ifetch = {} /\ drainState # "Drained" /\ call = "none"
  BY AtCacheFacts DEF DcacheRecvReqRetry, AtRest, AtCache
<1>2. /\ UNCHANGED <<active, fetchEvent, drainState, ifetch, stayAtPC, micro, curStaticInst>>
      /\ UNCHANGED <<call, dtb, outstanding, dTick, iprEvent>>
  BY <1>1 DEF DcacheRecvReqRetry, instVars, transVars
<1>3. PICK sent \in Prefixes(dcachePkt \cup pending) :
        /\ sent # {} /\ pending' = pending \ sent
        /\ HandlePackets(dcachePkt \cup pending, sent)
  BY <1>1 DEF DcacheRecvReqRetry
<1>4. Decoded'
  BY <1>1, <1>2 DEF Decoded
<1>5. status' # "Idle" => Suspended'
  BY <1>1, <1>2 DEF Suspended
<1>6. dtb' = {} /\ iprEvent' = {}
  BY <1>1, <1>2 DEF AtCache
<1>7. AtCache' /\ status' \in {"DcacheRetry", "DcacheWaitResponse"}
  <2>1. CASE curStaticInst \in Split
    <3>1. pending \in SUBSET Fragments /\ dcache \in SUBSET Fragments /\ dTick \in SUBSET Fragments
      BY DEF IInv, TypeOK
    <3>2. /\ dcachePkt = LowestOf(pending) /\ dcachePkt # {}
          /\ pending \cap dcache = {} /\ pending \cap dTick = {} /\ dcache \cap dTick = {}
          /\ Cardinality(dTick) <= 1
          /\ outstanding = Cardinality(pending) + Cardinality(dcache) + Cardinality(dTick)
      BY <1>1, <2>1 DEF AtCache
    <3>3. dcachePkt \in SUBSET pending /\ pending # {}
      BY <3>1, <3>2, LowestIsThere
    <3>4. dcachePkt \cup pending = pending
      BY <3>3
    <3>5. sent \in Prefixes(pending) /\ HandlePackets(pending, sent)
      BY <1>3, <3>4
    <3>6. outstanding' = Cardinality(pending) + Cardinality(dcache) + Cardinality(dTick)
      BY <1>2, <3>2
    <3>. QED  BY <1>2, <1>3, <1>6, <2>1, <3>1, <3>2, <3>3, <3>5, <3>6, SplitSent
  <2>2. CASE curStaticInst \notin Split
    <3>1. /\ dcachePkt = {1} /\ dcache = {} /\ dTick = {} /\ pending = {} /\ outstanding = 0
      BY <1>1, <2>2 DEF AtCache
    <3>2. dcachePkt \cup pending = {1}
      BY <3>1
    <3>3. sent \in Prefixes({1}) /\ HandlePackets({1}, sent)
      BY <1>3, <3>2
    <3>4. sent = {1} /\ pending' = {}
      BY <1>3, <3>1, <3>3, PrefixIsPart
    <3>. QED  BY <1>2, <1>6, <2>2, <3>1, <3>3, <3>4, WholeSent
  <2>. QED  BY <2>1, <2>2
<1>. QED  BY <1>1, <1>2, <1>4, <1>5, <1>7, AccessRests

\* A response of the data cache keeps the invariant.
LEMMA DcacheRespKeeps ==
  ASSUME IInv, NEW f \in Fragments, DcacheRecvTimingResp(f)
  PROVE  Placed'
<1>1. /\ Resting /\ Decoded /\ Suspended /\ AtCache /\ f \in dcache
      /\ curStaticInst \in Reads \cup Writes
      /\ status \in {"DcacheRetry", "DcacheWaitResponse"}
      /\ ~fetchEvent /\ ifetch = {} /\ drainState # "Drained" /\ call = "none"
  BY AtCacheFacts DEF DcacheRecvTimingResp, AtRest
<1>2. /\ UNCHANGED <<status, active, fetchEvent, drainState, ifetch, stayAtPC, micro>>
      /\ UNCHANGED <<curStaticInst, call, dtb, dcachePkt, pending, outstanding, iprEvent>>
  BY DEF DcacheRecvTimingResp, cpuVars, instVars, callVars, transVars, splitVars
<1>3. Decoded' /\ Suspended'
  BY <1>1, <1>2 DEF Decoded, Suspended
<1>4. AtCache'
  <2>1. CASE dTick = {}
    <3>1. dTick' = {f} /\ dcache' = dcache \ {f}
      BY <2>1 DEF DcacheRecvTimingResp
    <3>2. CASE curStaticInst \in Split
      <4>1. dcache \in SUBSET Fragments /\ dcache' \in SUBSET Fragments
        BY <3>1 DEF IInv, TypeOK
      <4>2. Cardinality(dcache) + Cardinality(dTick) = Cardinality(dcache') + Cardinality(dTick')
        <5>1. Cardinality(dTick') = 1 /\ Cardinality(dTick) = 0
          BY <2>1, <3>1, FS_EmptySet, FS_Singleton
        <5>2. Cardinality(dcache) = Cardinality(dcache') + 1
          BY <1>1, <3>1, <4>1, FewFragments DEF Fragments
        <5>3. Cardinality(dcache') \in Nat
          BY <4>1, FewFragments
        <5>. QED  BY <5>1, <5>2, <5>3
      <4>3. Cardinality(dTick') <= 1
        <5>1. Cardinality(dTick') = 1
          BY <3>1, FS_Singleton
        <5>. QED  BY <5>1
      <4>4. /\ outstanding = Cardinality(pending) + Cardinality(dcache) + Cardinality(dTick)
            /\ pending \cap dcache = {}
        BY <1>1, <3>2 DEF AtCache
      <4>5. /\ pending' \cap dcache' = {} /\ pending' \cap dTick' = {} /\ dcache' \cap dTick' = {}
        BY <1>1, <1>2, <3>1, <4>4
      <4>6. outstanding' = Cardinality(pending') + Cardinality(dcache') + Cardinality(dTick')
        <5>1. /\ Cardinality(pending) \in Nat /\ Cardinality(dcache) \in Nat
              /\ Cardinality(dcache') \in Nat
          BY <4>1, FewFragments DEF IInv, TypeOK
        <5>2. Cardinality(dTick) \in Nat /\ Cardinality(dTick') \in Nat
          BY <2>1, <3>1, FS_EmptySet, FS_Singleton
        <5>. QED  BY <1>2, <4>2, <4>4, <5>1, <5>2
      <4>. QED  BY <1>1, <1>2, <3>2, <4>3, <4>5, <4>6 DEF AtCache
    <3>3. CASE curStaticInst \notin Split
      <4>1. dcachePkt = {} /\ dcache = {1} /\ f = 1
        BY <1>1, <3>3 DEF AtCache
      <4>2. dcache' = {} /\ dTick' = {1}
        BY <3>1, <4>1
      <4>. QED  BY <1>1, <1>2, <3>3, <4>1, <4>2 DEF AtCache
    <3>. QED  BY <3>2, <3>3
  <2>2. CASE dTick # {}
    <3>1. UNCHANGED <<dTick, dcache>>
      BY <2>2 DEF DcacheRecvTimingResp
    <3>. QED  BY <1>1, <1>2, <3>1 DEF AtCache
  <2>. QED  BY <2>1, <2>2
<1>. QED  BY <1>1, <1>2, <1>3, <1>4, AccessRests

\* The retry the CPU sends keeps the invariant.
LEMMA SendRetryKeeps ==
  ASSUME IInv, SendRetryResp
  PROVE  Placed'
<1>1. Resting /\ Decoded /\ Suspended /\ call = "none"
  BY DEF IInv, Placed, SendRetryResp, AtRest
<1>2. /\ UNCHANGED <<status, active, fetchEvent, drainState, ifetch, stayAtPC, micro>>
      /\ UNCHANGED <<curStaticInst, call, accessVars, frames>>
  BY DEF SendRetryResp, cpuVars, instVars, callVars, transVars, splitVars, accessVars
<1>3. Decoded' /\ Suspended'
  BY <1>1, <1>2 DEF Decoded, Suspended
<1>4. Accessing'
  BY <1>1, <1>2, AccessingStays DEF Resting
<1>5. Fetching'
  BY <1>1, <1>2 DEF Resting, Fetching
<1>6. Resting'
  BY <1>1, <1>2, <1>4, <1>5 DEF Resting
<1>. QED  BY <1>1, <1>2, <1>3, <1>6 DEF Placed

\* The last part of an access comes back: the CPU goes on.
LEMMA AccessCompletes ==
  ASSUME IInv, completeDataAccess, Decoded, Suspended, status # "Idle", ~fetchEvent,
         ifetch = {}, drainState # "Drained", outstanding \in 0 .. 1,
         \/ status \in {"DcacheWaitResponse", "DTBWaitResponse"}
         \/ curStaticInst = "noAccess",
         dtb = {}, dcachePkt = {}, pending = {}, dcache = {}, dTick' = {}, iprEvent' = {}
  PROVE  Placed'
<1>1. /\ UNCHANGED <<active, fetchEvent, drainState, ifetch, stayAtPC, micro, curStaticInst>>
      /\ UNCHANGED <<dtb, dcachePkt, pending, dcache>>
  BY DEF completeDataAccess, instVars, transVars
<1>2. outstanding' = 0 /\ status' = "Running"
  BY DEF completeDataAccess
<1>3. call' = "advanceInst" /\ fault' \in {"NoFault", "Fault"}
  BY DEF completeDataAccess, Advance
<1>4. Decoded' /\ Suspended'
  BY <1>1, <1>2 DEF Decoded, Suspended
<1>5. NoAccess'
  BY <1>1, <1>2 DEF NoAccess, NothingSent
<1>6. Working'
  BY <1>1, <1>2, <1>3, <1>5 DEF Working
<1>. QED  BY <1>1, <1>3, <1>4, <1>6 DEF Placed

\* Completing an access keeps the invariant.
LEMMA CompleteKeeps ==
  ASSUME IInv, CompletedAtOnce \/ DcacheTick \/ IprEvent
  PROVE  Placed'
<1>0. completeDataAccess /\ Decoded /\ Suspended
  BY DEF CompletedAtOnce, DcacheTick, IprEvent, IInv, Placed
<1>1. CASE CompletedAtOnce
  <2>1. /\ Working /\ NoAccess /\ status # "Idle" /\ ~fetchEvent
        /\ ifetch = {} /\ drainState # "Drained"
        /\ status \in {"DcacheWaitResponse", "DTBWaitResponse"} \/ curStaticInst = "noAccess"
    BY <1>1 DEF IInv, Placed, Working, CompletedAtOnce
  <2>2. dTick' = {} /\ iprEvent' = {}
    BY <1>1, <2>1 DEF CompletedAtOnce, NoAccess, NothingSent
  <2>3. dtb = {} /\ dcachePkt = {} /\ pending = {} /\ dcache = {} /\ outstanding \in 0 .. 1
    BY <2>1 DEF NoAccess, NothingSent
  <2>. QED  BY <1>0, <2>1, <2>2, <2>3, AccessCompletes
<1>2. CASE IprEvent
  <2>1. Resting /\ iprEvent' = {} /\ iprEvent # {} /\ dTick' = dTick
    BY <1>2 DEF IInv, Placed, IprEvent, AtRest
  <2>2. AtIpr
    BY <2>1 DEF Resting, Accessing, AtCache, NoAccess
  <2>3. ~fetchEvent /\ ifetch = {} /\ drainState # "Drained"
    BY <2>1, <2>2 DEF Resting, Fetching, AtIpr
  <2>4. /\ dtb = {} /\ dcachePkt = {} /\ pending = {} /\ dcache = {} /\ dTick' = {}
        /\ outstanding \in 0 .. 1 /\ status = "DcacheWaitResponse"
    BY <2>1, <2>2 DEF AtIpr, NothingSent
  <2>. QED  BY <1>0, <2>1, <2>3, <2>4, AccessCompletes
<1>3. CASE DcacheTick
  <2>1. dTick # {} /\ dTick' = {} /\ iprEvent' = iprEvent /\ call = "none"
    BY <1>3 DEF DcacheTick, AtRest
  <2>2. /\ AtCache /\ status \in {"DcacheRetry", "DcacheWaitResponse"}
        /\ ~fetchEvent /\ ifetch = {} /\ drainState # "Drained"
        /\ curStaticInst \in Reads \cup Writes
    BY <2>1, AtCacheFacts
  <2>3. /\ UNCHANGED <<active, fetchEvent, drainState, ifetch, stayAtPC, micro, curStaticInst>>
        /\ UNCHANGED <<dtb, dcachePkt, pending, dcache>>
    BY <1>0 DEF completeDataAccess, instVars, transVars
  <2>4. iprEvent' = {} /\ dtb = {} /\ (status = "DcacheRetry" <=> dcachePkt # {})
    BY <2>1, <2>2 DEF AtCache
  <2>5. CASE curStaticInst \notin Split
    <3>1. /\ outstanding = 0 /\ pending = {} /\ dcachePkt = {} /\ dcache = {}
      BY <2>1, <2>2, <2>5 DEF AtCache
    <3>2. outstanding \in 0 .. 1 /\ status = "DcacheWaitResponse"
      BY <2>2, <2>4, <3>1
    <3>. QED  BY <1>0, <2>1, <2>2, <2>4, <3>1, <3>2, AccessCompletes
  <2>6. CASE curStaticInst \in Split
    <3>0. pending \in SUBSET Fragments /\ dcache \in SUBSET Fragments /\ dTick \in SUBSET Fragments
      BY DEF IInv, TypeOK
    <3>1. /\ outstanding = Cardinality(pending) + Cardinality(dcache) + Cardinality(dTick)
          /\ outstanding > 0 /\ dcachePkt = LowestOf(pending)
          /\ pending \cap dcache = {} /\ Cardinality(dTick) <= 1 /\ curStaticInst # "noAccess"
      BY <2>2, <2>6 DEF AtCache, Split
    <3>2. Cardinality(dTick) = 1
      <4>1. 1 \in dTick \/ 2 \in dTick
        BY <2>1, <3>0 DEF Fragments
      <4>2. Cardinality(dTick) \in Nat \ {0}
        BY <3>0, <4>1, FewFragments
      <4>. QED  BY <3>1, <4>2
    <3>3. Cardinality(pending) \in Nat /\ Cardinality(dcache) \in Nat
      BY <3>0, FewFragments
    <3>4. CASE status = "DcacheRetry"
      <4>1. UNCHANGED <<status, outstanding>> /\ call' = "abort"
        BY <1>0, <3>1, <3>4 DEF completeDataAccess, Abort
      <4>2. Decoded' /\ Suspended'
        BY <1>0, <2>3, <4>1 DEF Decoded, Suspended
      <4>. QED  BY <2>2, <2>3, <4>1, <4>2 DEF Placed
    <3>5. CASE status = "DcacheWaitResponse" /\ outstanding <= 1
      <4>1. Cardinality(pending) = 0 /\ Cardinality(dcache) = 0 /\ outstanding = 1
        BY <3>1, <3>2, <3>3, <3>5
      <4>2. pending = {} /\ dcache = {}
        <5>1. 1 \notin pending /\ 2 \notin pending /\ 1 \notin dcache /\ 2 \notin dcache
          BY <3>0, <4>1, FewFragments
        <5>. QED  BY <3>0, <5>1 DEF Fragments
      <4>3. dcachePkt = {}
        BY <2>4, <3>5
      <4>. QED  BY <1>0, <2>1, <2>2, <2>4, <3>5, <4>1, <4>2, <4>3, AccessCompletes
    <3>6. CASE status = "DcacheWaitResponse" /\ outstanding > 1
      <4>0. outstanding \in Nat /\ outstanding > 1 /\ outstanding > 0
        BY <3>6 DEF IInv, TypeOK
      <4>1. outstanding' = outstanding - 1 /\ status' = status /\ call' = "none"
        BY <1>0, <2>1, <3>6, <4>0 DEF completeDataAccess, Back
      <4>2. Decoded' /\ Suspended'
        BY <1>0, <2>3, <4>1 DEF Decoded, Suspended
      <4>3. Cardinality(dTick') = 0
        BY <2>1, FS_EmptySet
      <4>4. /\ outstanding' = Cardinality(pending') + Cardinality(dcache') + Cardinality(dTick')
            /\ outstanding' > 0 /\ Cardinality(dTick') <= 1
        <5>1. Cardinality(pending') = Cardinality(pending) /\ Cardinality(dcache') = Cardinality(dcache)
          BY <2>3
        <5>2. outstanding \in 0 .. 2
          BY DEF IInv, TypeOK
        <5>. QED  BY <3>1, <3>2, <3>3, <3>6, <4>1, <4>3, <5>1, <5>2
      <4>5. AtCache'
        BY <2>1, <2>3, <2>4, <2>6, <3>1, <3>6, <4>1, <4>4 DEF AtCache
      <4>. QED  BY <2>2, <2>3, <4>1, <4>2, <4>5, AccessRests
    <3>. QED  BY <2>2, <3>4, <3>5, <3>6, <3>1, <3>3, <3>2
  <2>. QED  BY <2>5, <2>6
<1>. QED  BY <1>1, <1>2, <1>3

-----------------------------------------------------------------------------
(* The invariant, and what follows from it.                                *)

\* The invariant holds at the start.
LEMMA InitInv ==
  ASSUME Init
  PROVE  IInv
<1>1. TypeOK
  <2>1. /\ active \in BOOLEAN /\ fetchEvent \in BOOLEAN /\ stayAtPC \in BOOLEAN
        /\ dtbFault \in BOOLEAN /\ retryResp \in BOOLEAN /\ owed \in BOOLEAN
    BY DEF Init
  <2>2. mark \in [Fragments -> BOOLEAN]
    BY DEF Init
  <2>3. 0 \in 0 .. MaxMicro
    BY MicroAssumption
  <2>. QED  BY <2>1, <2>2, <2>3 DEF Init, TypeOK, Statuses
<1>2. Placed
  BY DEF Init, Placed, Decoded, Suspended, Resting, Fetching, Accessing, NoAccess, NothingSent,
         DataStatuses
<1>. QED  BY <1>1, <1>2 DEF IInv

\* No step breaks the invariant.
LEMMA NextInv ==
  ASSUME IInv, [Next]_vars
  PROVE  IInv'
<1>1. TypeOK'
  BY TypeStep DEF IInv
<1>2. CASE UNCHANGED vars
  <2>1. /\ UNCHANGED <<status, active, fetchEvent, drainState, ifetch, stayAtPC, micro>>
        /\ UNCHANGED <<curStaticInst, call, fault, accessVars, frames>>
    BY <1>2 DEF vars, cpuVars, instVars, callVars, dataVars, transVars, splitVars, portVars,
                accessVars
  <2>2. Decoded' /\ Suspended'
    BY <2>1 DEF IInv, Placed, Decoded, Suspended
  <2>3. call = "none" => Accessing' /\ Fetching'
    BY <2>1, AccessingStays DEF IInv, Placed, Resting, Fetching
  <2>4. call = "none" => Resting'
    BY <2>1, <2>3 DEF IInv, Placed, Resting
  <2>5. call \notin {"none", "abort"} => Working'
    BY <2>1 DEF IInv, Placed, Working, NoAccess, NothingSent, accessVars
  <2>. QED  BY <1>1, <2>1, <2>2, <2>4, <2>5 DEF IInv, Placed
<1>3. CASE Halt
  BY <1>2, <1>3 DEF Halt
<1>4. ASSUME Call PROVE Placed'
  <2>1. CASE \/ PCEvent \/ fetch \/ completeIfetch
             \/ ExecuteSimple \/ ExecuteSuspend \/ NoAccessNeeded
    BY <2>1, PCEventKeeps, FetchKeeps, CompleteIfetchKeeps, ExecuteKeeps
  <2>2. CASE initiateMemRead \/ writeMem \/ initiateMemAMO
    <3>1. /\ Reads \ {"memMgmt"} \in SUBSET ((Reads \ {"memMgmt"}) \cup Writes)
          /\ Writes \ {"amo"} \in SUBSET ((Reads \ {"memMgmt"}) \cup Writes)
          /\ {"amo"} \in SUBSET ((Reads \ {"memMgmt"}) \cup Writes)
      BY DEF Writes
    <3>. QED  BY <2>2, <3>1, InitiateKeeps DEF initiateMemRead, writeMem, initiateMemAMO
  <2>3. CASE \/ initiateMemMgmtCmd \/ finishTranslation \/ CompletedAtOnce \/ advanceInst
             \/ InitiateAccReturns
    BY <2>3, MemMgmtKeeps, FinishTranslationKeeps, CompleteKeeps, AdvanceInstKeeps,
       InitiateAccReturnsKeeps
  <2>. QED  BY <1>4, <2>1, <2>2, <2>3 DEF Call
<1>5. ASSUME Event PROVE Placed'
  BY <1>5, FetchEventKeeps, CompleteKeeps, SendRetryKeeps DEF Event
<1>6. ASSUME Memory PROVE Placed'
  BY <1>6, FetchTranslatedKeeps, IcacheKeeps, DataTranslatedKeeps, DcacheRespKeeps,
     DcacheRetryKeeps DEF Memory
<1>7. ASSUME drain \/ drainResume \/ activateContext PROVE Placed'
  BY <1>7, DrainKeeps, ResumeKeeps
<1>. QED  BY <1>1, <1>2, <1>3, <1>4, <1>5, <1>6, <1>7 DEF Next, IInv

\* The invariant holds in every state of every behaviour.
LEMMA Invariant == Spec => []IInv
<1>1. Init => IInv
  BY InitInv
<1>2. IInv /\ [Next]_vars => IInv'
  BY NextInv
<1>. QED  BY <1>1, <1>2, PTL DEF Spec

\* Between events exactly one thing is pending.
LEMMA InvImpliesOneThing ==
  ASSUME IInv
  PROVE  OneThingPending
<1>1. SUFFICES ASSUME call = "none", frames = 0
               PROVE  /\ Pending <= 1
                      /\ Pending = 0 => status = "Idle" \/ drainState \in {"Signalled", "Drained"}
  BY DEF OneThingPending, AtRest
<1>2. Resting /\ status \in Statuses
  BY <1>1 DEF IInv, Placed, TypeOK
<1>3. Cardinality({}) = 0 /\ \A x : Cardinality({x}) = 1
  BY FS_EmptySet, FS_Singleton
<1>4. NoAccess => ~AccessUnderWay
  BY DEF NoAccess, NothingSent, AccessUnderWay
<1>5. CASE status \in {"Running", "Faulting", "Idle"}
  <2>1. ifetch = {} /\ ~AccessUnderWay
    BY <1>2, <1>4, <1>5 DEF Resting, Fetching, Accessing, DataStatuses
  <2>2. Pending = IF fetchEvent THEN 1 ELSE 0
    BY <1>3, <2>1 DEF Pending
  <2>3. ~fetchEvent => status = "Idle" \/ drainState \in {"Signalled", "Drained"}
    BY <1>2, <1>5 DEF Resting
  <2>. QED  BY <2>2, <2>3
<1>6. CASE status \in {"ITBWaitResponse", "IcacheRetry", "IcacheWaitResponse"}
  <2>1. Cardinality(ifetch) = 1
    BY <1>2, <1>3, <1>6 DEF Resting, Fetching
  <2>2. ~AccessUnderWay /\ ~fetchEvent
    BY <1>2, <1>4, <1>6 DEF Resting, Accessing, DataStatuses
  <2>. QED  BY <2>1, <2>2 DEF Pending
<1>7. CASE status \in DataStatuses
  <2>1. ifetch = {} /\ ~fetchEvent
    BY <1>2, <1>7 DEF Resting, Fetching, DataStatuses
  <2>2. CASE status = "DTBWaitResponse"
    <3>1. AccessUnderWay
      BY <1>2, <2>2 DEF Resting, Accessing, DataStatuses, AccessUnderWay
    <3>. QED  BY <1>3, <2>1, <3>1 DEF Pending
  <2>3. CASE AtIpr
    <3>1. AccessUnderWay
      BY <2>3 DEF AtIpr, AccessUnderWay
    <3>. QED  BY <1>3, <2>1, <3>1 DEF Pending
  <2>4. CASE AtCache
    <3>1. AccessUnderWay
      <4>1. CASE curStaticInst \in Split
        <5>1. outstanding > 0
          BY <2>4, <4>1 DEF AtCache
        <5>2. outstanding = Cardinality(pending) + Cardinality(dcache) + Cardinality(dTick)
          BY <2>4, <4>1 DEF AtCache
        <5>3. ~(pending = {} /\ dcache = {} /\ dTick = {})
          <6>1. ASSUME pending = {}, dcache = {}, dTick = {} PROVE outstanding = 0
            BY <1>3, <5>2, <6>1
          <6>. QED  BY <5>1, <6>1
        <5>. QED  BY <5>3 DEF AccessUnderWay
      <4>2. CASE curStaticInst \notin Split
        BY <2>4, <4>2 DEF AtCache, AccessUnderWay
      <4>. QED  BY <4>1, <4>2
    <3>. QED  BY <1>3, <2>1, <3>1 DEF Pending
  <2>. QED  BY <1>2, <1>7, <2>2, <2>3, <2>4 DEF Resting, Accessing
<1>. QED  BY <1>2, <1>5, <1>6, <1>7 DEF Statuses, DataStatuses

\* The fragments of a split access add up.
LEMMA InvImpliesFragments ==
  ASSUME IInv
  PROVE  FragmentsAccounted
<1>1. SUFFICES ASSUME call = "none", outstanding > 0 \/ pending # {}
               PROVE  /\ outstanding = Cardinality(pending) + Cardinality(dcache)
                                         + Cardinality(dTick)
                      /\ dcachePkt = LowestOf(pending)
  BY DEF FragmentsAccounted, AtRest
<1>2. Resting
  BY <1>1 DEF IInv, Placed
<1>3. ~NothingSent
  BY <1>1 DEF NothingSent
<1>4. AtCache
  BY <1>2, <1>3 DEF Resting, Accessing, AtIpr, NoAccess
<1>. QED  BY <1>1, <1>4 DEF AtCache

\* A drained CPU is quiet.
LEMMA InvImpliesQuiet ==
  ASSUME IInv
  PROVE  QuietWhenDrained
<1>1. SUFFICES ASSUME drainState = "Drained", call # "abort"
               PROVE  /\ Pending = 0 /\ call = "none" /\ frames = 0
                      /\ micro = 0 /\ ~stayAtPC /\ status \in {"Running", "Idle"}
                      /\ active <=> status = "Running"
  BY DEF QuietWhenDrained
<1>2. call = "none" /\ Resting
  BY <1>1 DEF IInv, Placed, Working
<1>3. frames = 0 /\ status \in {"Running", "Idle"} /\ ~fetchEvent /\ micro = 0 /\ ~stayAtPC
  BY <1>1, <1>2 DEF Resting
<1>4. active <=> status = "Running"
  BY <1>3 DEF IInv, Placed, Suspended
<1>5. ifetch = {} /\ NoAccess
  BY <1>2, <1>3 DEF Resting, Fetching, Accessing, DataStatuses
<1>6. ~AccessUnderWay
  BY <1>5 DEF NoAccess, NothingSent, AccessUnderWay
<1>7. Pending = 0
  BY <1>3, <1>5, <1>6, FS_EmptySet DEF Pending
<1>. QED  BY <1>2, <1>3, <1>4, <1>7

\* Every variable keeps to the values the code gives it.
THEOREM CPUTypeCorrect == Spec => []TypeOK
<1>1. IInv => TypeOK
  BY DEF IInv
<1>. QED  BY <1>1, Invariant, PTL

\* The CPU waits for exactly one thing, or is suspended or drained.
THEOREM OneThingIsPending == Spec => []OneThingPending
<1>1. IInv => OneThingPending
  BY InvImpliesOneThing
<1>. QED  BY <1>1, Invariant, PTL

\* What is outstanding of a split access is what is still to be sent,
\* answered or taken in (SplitMainSenderState::outstanding).
THEOREM FragmentsAddUp == Spec => []FragmentsAccounted
<1>1. IInv => FragmentsAccounted
  BY InvImpliesFragments
<1>. QED  BY <1>1, Invariant, PTL

\* A drained CPU has nothing scheduled and nothing on its way (switchOut).
THEOREM DrainedIsQuiet == Spec => []QuietWhenDrained
<1>1. IInv => QuietWhenDrained
  BY InvImpliesQuiet
<1>. QED  BY <1>1, Invariant, PTL
=============================================================================
