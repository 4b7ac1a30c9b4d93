----------------------------- MODULE TimingCPU -----------------------------
(* TimingSimpleCPU (cpu/simple/timing.cc): the in-order CPU that marks the *)
(* request after a memory barrier.  One action per event of the simulator  *)
(* and per function an event calls; `call` is the function to run next and *)
(* `frames` counts the completeIfetch frames waiting for initiateAcc to    *)
(* return, because an access may finish, and fetch again, before it does.  *)
EXTENDS Naturals, FiniteSets

CONSTANTS Forms,     \* the forms of instruction the program is made of
          MaxMicro   \* microoperations that may follow the first one

Reads  == {"load", "splitLoad", "localLoad", "noAccess", "prefetch", "memMgmt"}
Writes == {"store", "splitStore", "storeCond", "amo"}
Split  == {"splitLoad", "splitStore"}
AllForms == Reads \cup Writes \cup {"alu", "barrier", "suspend", "syscall", "more"}

ASSUME FormsAssumption == Forms \subseteq AllForms
ASSUME MicroAssumption == MaxMicro \in Nat

Statuses == {"Idle", "Running", "Faulting", "ITBWaitResponse", "IcacheRetry",
             "IcacheWaitResponse", "DTBWaitResponse", "DcacheRetry",
             "DcacheWaitResponse"}
Fragments == {1, 2}
FragmentsOf(form) == IF form \in Split THEN Fragments ELSE {1}

VARIABLES
  status, active,           \* _status; the thread's context is active
  fetchEvent, drainState,
  curStaticInst, micro, stayAtPC,
  call, fault, frames,
  ifetch,                   \* where the fetch is: translating, retry, sent, tick
  dtb, dtbFault,            \* fragments being translated; one of them faulted
  dcachePkt, pending, outstanding,
  dcache, dTick, iprEvent, retryResp,
  memoryBarrierFetched, mark,
  owed, advances            \* history: a barrier no request has carried yet;
                            \* times the PC was advanced for this instruction

cpuVars     == <<status, active, fetchEvent, drainState>>
instVars    == <<curStaticInst, micro, stayAtPC, advances>>
callVars    == <<call, fault, frames>>
transVars   == <<dtb, dtbFault>>
splitVars   == <<dcachePkt, pending, outstanding>>
portVars    == <<dcache, dTick, iprEvent, retryResp>>
barrierVars == <<memoryBarrierFetched, mark, owed>>
dataVars    == <<transVars, splitVars, portVars, barrierVars>>
vars == <<cpuVars, instVars, callVars, ifetch, dataVars>>

Init ==
  /\ status = "Running" /\ active = TRUE /\ fetchEvent = TRUE
  /\ drainState = "Running"
  /\ curStaticInst = "alu" /\ micro = 0 /\ stayAtPC = FALSE /\ advances = 1
  /\ call = "none" /\ fault = "NoFault" /\ frames = 0 /\ ifetch = {}
  /\ dtb = {} /\ dtbFault = FALSE
  /\ dcachePkt = {} /\ pending = {} /\ outstanding = 0
  /\ dcache = {} /\ dTick = {} /\ iprEvent = {} /\ retryResp = FALSE
  /\ memoryBarrierFetched \in BOOLEAN      \* the constructor leaves it out
  /\ mark = [f \in Fragments |-> FALSE] /\ owed = FALSE

AtRest == call = "none" /\ frames = 0

Advance(f) == call' = "advanceInst" /\ fault' = f
Abort == call' = "abort" /\ UNCHANGED fault         \* an assertion fails
Back  == call' = "none" /\ UNCHANGED fault

-----------------------------------------------------------------------------
(* Drain and activation. *)

\* Mutant: stayAtPC is forgotten.
isCpuDrained_split == micro = 0 /\ ~fetchEvent

isCpuDrained == micro = 0 /\ ~stayAtPC /\ ~fetchEvent

\* The simulator asks again after it was told that the drain is done.
drain ==
  /\ AtRest /\ drainState \in {"Running", "Signalled"}
  /\ IF status = "Idle" \/ (status = "Running" /\ isCpuDrained)
     THEN drainState' = "Drained" /\ UNCHANGED fetchEvent
     ELSE /\ drainState' = "Draining"
          /\ fetchEvent' = (fetchEvent \/ status = "Running")
  /\ UNCHANGED <<status, active, instVars, callVars, ifetch, dataVars>>

drainResume ==
  /\ AtRest /\ drainState = "Drained"
  /\ IF fetchEvent
     THEN Abort /\ UNCHANGED cpuVars
     ELSE /\ drainState' = "Running"
          /\ status' = IF active THEN "Running" ELSE "Idle"
          /\ fetchEvent' = active
          /\ UNCHANGED <<active, call, fault>>
  /\ UNCHANGED <<instVars, frames, ifetch, dataVars>>

\* Another CPU, an interrupt or a snooped write wakes the thread.  Nothing
\* runs, and nothing wakes it, between a finished drain and the resumption.
activateContext ==
  /\ AtRest /\ ~active /\ drainState # "Drained"
  /\ active' = TRUE /\ fetchEvent' = TRUE
  /\ status' = IF status = "Idle" THEN "Running" ELSE status
  /\ UNCHANGED <<drainState, instVars, callVars, ifetch, dataVars>>

suspendContext ==                          \* part of the step that suspends
  /\ active' = FALSE /\ status' = "Idle" /\ fetchEvent' = FALSE

-----------------------------------------------------------------------------
(* Fetch. *)

sendFetch(fetchFault, accepted) ==
  IF fetchFault
  THEN status' = "Running" /\ Advance("Fault") /\ ifetch' = ifetch \ {"translating"}
  ELSE /\ status' = IF accepted THEN "IcacheWaitResponse" ELSE "IcacheRetry"
       /\ ifetch' = (ifetch \ {"translating"})
                      \cup {IF accepted THEN "sent" ELSE "retry"}
       /\ Back

PCEvent ==                            \* checkPcEventQueue suspends the thread
  /\ call = "fetch" /\ micro = 0 /\ ~stayAtPC /\ status # "Idle"
  /\ IF status = "Running"
     THEN suspendContext /\ Back
     ELSE Abort /\ UNCHANGED <<status, active, fetchEvent>>
  /\ UNCHANGED <<drainState, instVars, frames, ifetch, dataVars>>

fetch ==
  /\ call = "fetch"
  /\ \/ status = "Idle" /\ Back /\ UNCHANGED <<status, ifetch>>
     \/ /\ status # "Idle" /\ micro = 0              \* needToFetch
        /\ \/ \E fetchFault, accepted \in BOOLEAN : sendFetch(fetchFault, accepted)
           \/ /\ status' = "ITBWaitResponse"         \* markDelayed
              /\ ifetch' = ifetch \cup {"translating"}
              /\ Back
     \/ /\ status # "Idle" /\ micro > 0
        /\ status' = "IcacheWaitResponse"
        /\ call' = "completeIfetch"
        /\ UNCHANGED <<fault, ifetch>>
  /\ UNCHANGED <<active, fetchEvent, drainState, instVars, frames, dataVars>>

FetchEvent ==
  /\ AtRest /\ fetchEvent
  /\ fetchEvent' = FALSE /\ call' = "fetch"
  /\ UNCHANGED <<status, active, drainState, instVars, fault, frames, ifetch, dataVars>>

FetchTranslated ==                                   \* FetchTranslation::finish
  /\ AtRest /\ "translating" \in ifetch
  /\ \E fetchFault, accepted \in BOOLEAN : sendFetch(fetchFault, accepted)
  /\ UNCHANGED <<active, fetchEvent, drainState, instVars, frames, dataVars>>

IcacheRecvReqRetry ==
  /\ AtRest /\ "retry" \in ifetch
  /\ status' = "IcacheWaitResponse"
  /\ ifetch' = (ifetch \ {"retry"}) \cup {"sent"}
  /\ UNCHANGED <<active, fetchEvent, drainState, instVars, callVars, dataVars>>

IcacheRecvTimingResp ==
  /\ AtRest /\ "sent" \in ifetch
  /\ ifetch' = (ifetch \ {"sent"}) \cup {"tick"}
  /\ UNCHANGED <<cpuVars, instVars, callVars, dataVars>>

\* Mutant: one microoperation past the last is taken.
preExecute_extra ==
  /\ advances' = 0 /\ curStaticInst' \in Forms /\ stayAtPC' = FALSE
  /\ micro' \in IF micro = 0 THEN 0..(MaxMicro + 1) ELSE {micro - 1}

\* preExecute decodes: more bytes are needed (once), a single instruction, or
\* the first microoperation of several; or it takes the next microoperation.
preExecute ==
  /\ advances' = 0
  /\ curStaticInst' \in Forms
  /\ IF micro = 0
     THEN /\ curStaticInst' = "more" => ~stayAtPC
          /\ micro' \in IF curStaticInst' \in {"more", "suspend"} THEN {0} ELSE 0..MaxMicro
          /\ stayAtPC' = (curStaticInst' = "more")
     ELSE /\ micro' = micro - 1
          /\ curStaticInst' # "more"
          /\ curStaticInst' = "suspend" => micro' = 0
          /\ UNCHANGED stayAtPC

completeIfetch ==
  /\ \/ AtRest /\ "tick" \in ifetch
     \/ call = "completeIfetch"
  /\ ifetch' = ifetch \ {"tick"}
  /\ IF status = "IcacheWaitResponse"
     THEN status' = "Running" /\ preExecute /\ call' = "execute" /\ UNCHANGED fault
     ELSE Abort /\ UNCHANGED <<status, instVars>>
  /\ UNCHANGED <<active, fetchEvent, drainState, frames, dataVars>>

-----------------------------------------------------------------------------
(* Execution: the rest of completeIfetch. *)

ExecuteSimple ==                           \* execute(), or no instruction yet
  /\ call = "execute"
  /\ \/ curStaticInst = "more" /\ Advance("NoFault")
     \/ curStaticInst \in {"alu", "barrier"} /\ \E f \in {"NoFault", "Fault"} : Advance(f)
     \/ curStaticInst = "syscall" /\ Advance("Syscall")
  /\ memoryBarrierFetched' = (memoryBarrierFetched \/ curStaticInst = "barrier")
  /\ owed' = (owed \/ curStaticInst = "barrier")
  /\ UNCHANGED <<cpuVars, instVars, frames, ifetch, transVars, splitVars, portVars, mark>>

ExecuteSuspend ==
  /\ call = "execute" /\ curStaticInst = "suspend"
  /\ suspendContext /\ Advance("NoFault")
  /\ UNCHANGED <<drainState, instVars, frames, ifetch, dataVars>>

\* initiateAcc returns without an access: a fault, or a false predicate.
NoAccessNeeded ==
  /\ call = "execute" /\ curStaticInst \in Reads \cup Writes
  /\ \E f \in {"NoFault", "Fault"} : Advance(f)
  /\ UNCHANGED <<cpuVars, instVars, frames, ifetch, dataVars>>

\* splitOnVaddr builds the two halves with Request's copy constructor, which
\* leaves isMemBarrier out: each half has whatever was in memory.
splitOnVaddr == [Fragments -> BOOLEAN]

MarkRequest ==                                       \* the request takes the flag
  /\ memoryBarrierFetched' = FALSE
  /\ mark' \in IF curStaticInst \in Split
               THEN splitOnVaddr
               ELSE {[f \in Fragments |-> f = 1 /\ memoryBarrierFetched]}

\* translateTiming answers at once, or later for the fragments in `later`.
Translate ==
  \E later \in SUBSET FragmentsOf(curStaticInst), failed \in BOOLEAN :
    /\ failed => later # FragmentsOf(curStaticInst)
    /\ dtb' = later /\ dtbFault' = failed
    /\ IF later = {}
       THEN call' = "finishTranslation" /\ frames' = frames + 1
       ELSE call' = "none" /\ UNCHANGED frames

InitiateAccess(forms) ==
  /\ call = "execute" /\ curStaticInst \in forms
  /\ status' = "DTBWaitResponse"
  /\ MarkRequest /\ Translate
  /\ UNCHANGED <<active, fetchEvent, drainState, instVars, fault, ifetch,
                 splitVars, portVars, owed>>

initiateMemRead == InitiateAccess(Reads \ {"memMgmt"})
writeMem        == InitiateAccess(Writes \ {"amo"})
initiateMemAMO  == InitiateAccess({"amo"})

-----------------------------------------------------------------------------
(* Sending. *)

Prefixes(S) == {p \in SUBSET S : \A f \in p, g \in S \ p : f < g}
LowestOf(S) == {f \in S : \A g \in S : f <= g}

\* The port accepts `sent` of the packets `all`, in their order, and refuses
\* the next one.  (handleReadPacket, handleWritePacket and their callers.)
HandlePackets(all, sent) ==
  /\ dcache' = dcache \cup sent
  /\ dcachePkt' = LowestOf(all \ sent)
  /\ status' = IF sent = all THEN "DcacheWaitResponse" ELSE "DcacheRetry"
  /\ owed' = (owed /\ (sent = {} \/ curStaticInst = "memMgmt"))

sendData ==
  LET form == curStaticInst IN
  /\ UNCHANGED <<pending, outstanding, dTick, retryResp>>
  /\ \/ /\ form = "noAccess"
        /\ status' = "Running" /\ call' = "completeDataAccess"
        /\ UNCHANGED <<dcachePkt, dcache, iprEvent, owed>>
     \/ /\ form = "storeCond"                        \* handleLockedWrite says no
        /\ status' = "DcacheWaitResponse" /\ call' = "completeDataAccess"
        /\ UNCHANGED <<dcachePkt, dcache, iprEvent, owed>>
     \/ /\ form = "localLoad"
        /\ status' = "DcacheWaitResponse" /\ call' = "none"
        /\ dcachePkt' = {} /\ iprEvent' = {1}
        /\ UNCHANGED <<dcache, owed>>
     \/ /\ form \notin {"noAccess", "localLoad"}
        /\ \E sent \in Prefixes({1}) : HandlePackets({1}, sent)
        /\ call' = "none" /\ UNCHANGED iprEvent

sendSplitData ==
  \E sent \in Prefixes(Fragments) :
    /\ HandlePackets(Fragments, sent)
    /\ pending' = Fragments \ sent /\ outstanding' = 2
    /\ call' = "none"
    /\ UNCHANGED <<dTick, iprEvent, retryResp>>

finishTranslation ==
  /\ call = "finishTranslation"
  /\ dtbFault' = FALSE
  /\ IF dtbFault
     THEN /\ status' = "Running"                     \* translationFault
          /\ Advance(IF curStaticInst = "prefetch" THEN "NoFault" ELSE "Fault")
          /\ UNCHANGED <<splitVars, portVars, owed>>
     ELSE /\ IF curStaticInst \in Split THEN sendSplitData ELSE sendData
          /\ UNCHANGED fault
  /\ UNCHANGED <<active, fetchEvent, drainState, instVars, frames, ifetch, dtb,
                 memoryBarrierFetched, mark>>

DataTranslated(f) ==                                 \* DataTranslation::finish
  /\ AtRest /\ f \in dtb
  /\ dtb' = dtb \ {f}
  /\ \E failed \in BOOLEAN : dtbFault' = (dtbFault \/ failed)
  /\ call' = IF dtb' = {} THEN "finishTranslation" ELSE "none"
  /\ UNCHANGED <<cpuVars, instVars, fault, frames, ifetch, splitVars, portVars, barrierVars>>

\* A memory management request is built without isMemBarrier and sent as it is.
initiateMemMgmtCmd ==
  /\ call = "execute" /\ curStaticInst = "memMgmt"
  /\ \E m \in BOOLEAN : mark' = [mark EXCEPT ![1] = m]
  /\ sendData
  /\ UNCHANGED <<active, fetchEvent, drainState, instVars, fault, frames, ifetch,
                 transVars, memoryBarrierFetched>>

\* Mutant: the fragment just sent is not cleared.
DcacheRecvReqRetry_kept ==
  /\ AtRest /\ dcachePkt # {} /\ status = "DcacheRetry"
  /\ \E sent \in Prefixes(dcachePkt \cup pending) :
       sent # {} /\ HandlePackets(dcachePkt \cup pending, sent)
  /\ UNCHANGED <<active, fetchEvent, drainState, instVars, callVars, ifetch, transVars, pending,
                 outstanding, dTick, iprEvent, retryResp, memoryBarrierFetched, mark>>

DcacheRecvReqRetry ==
  /\ AtRest /\ dcachePkt # {}
  /\ IF status = "DcacheRetry"
     THEN \E sent \in Prefixes(dcachePkt \cup pending) :
            /\ sent # {}
            /\ HandlePackets(dcachePkt \cup pending, sent)
            /\ pending' = pending \ sent
            /\ UNCHANGED <<call, fault>>
     ELSE Abort /\ UNCHANGED <<status, dcache, dcachePkt, pending, owed>>
  /\ UNCHANGED <<active, fetchEvent, drainState, instVars, frames, ifetch, transVars,
                 outstanding, dTick, iprEvent, retryResp, memoryBarrierFetched, mark>>

-----------------------------------------------------------------------------
(* Responses. *)

\* Mutant: the test of tickEvent is inverted.
DcacheRecvTimingResp_inverted(f) ==
  /\ AtRest /\ f \in dcache /\ ~retryResp
  /\ IF dTick = {} THEN retryResp' = TRUE /\ UNCHANGED <<dTick, dcache>>
                   ELSE dTick' = {f} /\ dcache' = dcache \ {f} /\ UNCHANGED retryResp
  /\ UNCHANGED <<cpuVars, instVars, callVars, ifetch, transVars, splitVars,
                 iprEvent, barrierVars>>

DcacheRecvTimingResp(f) ==
  /\ AtRest /\ f \in dcache /\ ~retryResp
  /\ IF dTick = {}
     THEN dTick' = {f} /\ dcache' = dcache \ {f} /\ UNCHANGED retryResp
     ELSE retryResp' = TRUE /\ UNCHANGED <<dTick, dcache>>
  /\ UNCHANGED <<cpuVars, instVars, callVars, ifetch, transVars, splitVars,
                 iprEvent, barrierVars>>

SendRetryResp ==
  /\ AtRest /\ retryResp /\ retryResp' = FALSE
  /\ UNCHANGED <<cpuVars, instVars, callVars, ifetch, transVars, splitVars,
                 dcache, dTick, iprEvent, barrierVars>>

completeDataAccess ==
  LET more == outstanding > 1 IN
  /\ IF status \in {"DcacheWaitResponse", "DTBWaitResponse"} \/ curStaticInst = "noAccess"
     THEN /\ outstanding' = IF outstanding > 0 THEN outstanding - 1 ELSE 0
          /\ status' = IF more THEN status ELSE "Running"
          /\ mark' = IF more THEN mark ELSE [f \in Fragments |-> FALSE]
          /\ IF more THEN Back ELSE \E f \in {"NoFault", "Fault"} : Advance(f)
     ELSE Abort /\ UNCHANGED <<outstanding, status, mark>>
  /\ UNCHANGED <<active, fetchEvent, drainState, instVars, frames, ifetch, transVars,
                 dcachePkt, pending, dcache, retryResp, memoryBarrierFetched, owed>>

CompletedAtOnce ==
  /\ call = "completeDataAccess" /\ completeDataAccess
  /\ UNCHANGED <<dTick, iprEvent>>

DcacheTick ==
  /\ AtRest /\ dTick # {} /\ dTick' = {} /\ completeDataAccess
  /\ UNCHANGED iprEvent

IprEvent ==
  /\ AtRest /\ iprEvent # {} /\ iprEvent' = {} /\ completeDataAccess
  /\ UNCHANGED dTick

-----------------------------------------------------------------------------
(* The next instruction. *)

\* Mutant: nothing is scheduled after a fault.
AfterFault_quiet ==
  /\ fault # "NoFault" /\ micro' = 0 /\ Back
  /\ status' = IF status = "Idle" THEN status ELSE "Faulting"
  /\ UNCHANGED <<advances, drainState, fetchEvent, active>>

AfterFault ==
  /\ fault # "NoFault" /\ micro' = 0 /\ Back
  /\ \/ /\ status # "Idle"
        /\ fetchEvent' = TRUE /\ status' = "Faulting" /\ UNCHANGED active
     \/ fault = "Syscall" /\ suspendContext          \* futex_wait and the like
  /\ UNCHANGED <<advances, drainState>>

\* Mutant: only a suspended CPU completes a drain.
tryCompleteDrain_idle == drainState = "Draining" /\ isCpuDrained /\ status = "Idle"

tryCompleteDrain == drainState = "Draining" /\ isCpuDrained

NextInst ==
  /\ fault = "NoFault"
  /\ advances' = IF stayAtPC THEN advances ELSE advances + 1
  /\ IF tryCompleteDrain
     THEN drainState' = "Signalled" /\ Back
     ELSE /\ call' = IF status = "Running" THEN "fetch" ELSE "none"
          /\ UNCHANGED <<drainState, fault>>
  /\ UNCHANGED <<status, active, fetchEvent, micro>>

advanceInst ==
  /\ call = "advanceInst"
  /\ IF status = "Faulting"
     THEN Back /\ UNCHANGED <<cpuVars, micro, advances>>
     ELSE AfterFault \/ NextInst
  /\ UNCHANGED <<curStaticInst, stayAtPC, frames, ifetch, dataVars>>

\* initiateAcc has returned to completeIfetch.
InitiateAccReturns ==
  /\ call = "none" /\ frames > 0
  /\ frames' = frames - 1
  /\ IF status = "Running" THEN Advance("NoFault") ELSE UNCHANGED <<call, fault>>
  /\ UNCHANGED <<cpuVars, instVars, ifetch, dataVars>>

Halt == call = "abort" /\ UNCHANGED vars

-----------------------------------------------------------------------------
Call == \/ PCEvent \/ fetch \/ completeIfetch
        \/ ExecuteSimple \/ ExecuteSuspend \/ NoAccessNeeded
        \/ initiateMemRead \/ writeMem \/ initiateMemAMO \/ initiateMemMgmtCmd
        \/ finishTranslation \/ CompletedAtOnce \/ advanceInst \/ InitiateAccReturns

Event == FetchEvent \/ DcacheTick \/ IprEvent \/ SendRetryResp

Memory == \/ FetchTranslated \/ IcacheRecvReqRetry \/ IcacheRecvTimingResp
          \/ \E f \in Fragments : DataTranslated(f) \/ DcacheRecvTimingResp(f)
          \/ DcacheRecvReqRetry

Next == Call \/ Event \/ Memory \/ drain \/ drainResume \/ activateContext \/ Halt

Spec == Init /\ [][Next]_vars

\* Events of the CPU happen when they are due; the memory translates, answers
\* and offers a retry in the end.  Nothing makes it wake or drain the CPU.
FairSpec ==
  /\ Spec
  /\ WF_vars(Call) /\ WF_vars(FetchEvent) /\ WF_vars(DcacheTick)
  /\ WF_vars(IprEvent) /\ WF_vars(SendRetryResp)
  /\ WF_vars(FetchTranslated) /\ WF_vars(IcacheRecvReqRetry)
  /\ WF_vars(IcacheRecvTimingResp) /\ WF_vars(DcacheRecvReqRetry)
  /\ \A f \in Fragments :
       WF_vars(DataTranslated(f)) /\ SF_vars(DcacheRecvTimingResp(f))

-----------------------------------------------------------------------------
(* Properties. *)

\* Every variable keeps to the values the code gives it: at most two
\* fragments, one packet waiting for a retry, and calls that exist.
TypeOK ==
  /\ status \in Statuses /\ active \in BOOLEAN /\ fetchEvent \in BOOLEAN
  /\ drainState \in {"Running", "Draining", "Signalled", "Drained"}
  /\ curStaticInst \in Forms \cup {"alu"} /\ micro \in 0..MaxMicro /\ stayAtPC \in BOOLEAN
  /\ call \in {"none", "fetch", "completeIfetch", "execute", "finishTranslation",
               "completeDataAccess", "advanceInst", "abort"}
  /\ fault \in {"NoFault", "Fault", "Syscall"}
  /\ frames \in Nat /\ advances \in Nat
  /\ ifetch \subseteq {"translating", "retry", "sent", "tick"}
  /\ dtb \subseteq Fragments /\ dtbFault \in BOOLEAN
  /\ dcachePkt \subseteq Fragments /\ pending \subseteq Fragments /\ outstanding \in 0..2
  /\ dcache \subseteq Fragments /\ dTick \subseteq Fragments /\ iprEvent \subseteq Fragments
  /\ retryResp \in BOOLEAN /\ memoryBarrierFetched \in BOOLEAN /\ owed \in BOOLEAN
  /\ mark \in [Fragments -> BOOLEAN]

AccessUnderWay == dtb \cup dcachePkt \cup pending \cup dcache \cup dTick \cup iprEvent # {}
Pending == Cardinality(ifetch) + (IF fetchEvent THEN 1 ELSE 0)
                               + (IF AccessUnderWay THEN 1 ELSE 0)

\* Between events the CPU waits for exactly one thing: the fetch event, one
\* instruction fetch or one data access; for none only while it is suspended
\* or drained.  With none it would sleep for ever, with two an answer would
\* meet the wrong instruction.
OneThingPending ==
  AtRest => /\ Pending <= 1
            /\ Pending = 0 => status = "Idle" \/ drainState \in {"Signalled", "Drained"}

\* A split access completes with its second fragment and not before: what is
\* outstanding is what still has to be sent, answered or taken in.
FragmentsAccounted ==
  AtRest /\ (outstanding > 0 \/ pending # {}) =>
    /\ outstanding = Cardinality(pending) + Cardinality(dcache) + Cardinality(dTick)
    /\ dcachePkt = LowestOf(pending)

\* What switchOut asserts holds once the drain is done, nothing is on its
\* way to or from memory, and the CPU resumes with what it was doing.
QuietWhenDrained ==
  drainState = "Drained" /\ call # "abort" =>
    /\ Pending = 0 /\ call = "none" /\ frames = 0
    /\ micro = 0 /\ ~stayAtPC /\ status \in {"Running", "Idle"}
    /\ active <=> status = "Running"

\* A data access ends: the CPU goes on, takes a fault, or an assertion fails.
AccessEnds ==
  status \in {"DTBWaitResponse", "DcacheRetry", "DcacheWaitResponse"}
    ~> (status \in {"Running", "Faulting", "Idle"} \/ call = "abort")

\* A drain ends, unless the instruction faults or a syscall or PC event
\* suspends the CPU, which then keeps the simulator waiting.
DrainEnds ==
  drainState = "Draining"
    ~> (drainState # "Draining" \/ status \in {"Idle", "Faulting"} \/ call = "abort")

\* The first data request that reaches memory after a barrier carries its
\* mark: RubySlicc_Types.sm calls it "Flag for full memory barrier".
BarrierReachesMemory ==
  [][owed /\ ~owed' => \A f \in LowestOf(dcache' \ dcache) : mark'[f]]_vars

\* The PC moves on once per instruction: "If we're not running now the
\* instruction will complete in a dcache response callback" (completeIfetch).
OneAdvance == advances <= 1

\* completeDataAccess asserts that a response finds the CPU waiting for one.
ResponseExpected == ~(call = "abort" /\ status = "DcacheRetry")
=============================================================================
