----------------------------- MODULE IEWExecute -----------------------------
(* IEW::executeInsts (cpu/o3/iew.cc) with the load/store queue: memory     *)
(* instructions and full barriers of one thread, executed out of order,    *)
(* deferred, blocked, rescheduled, squashed and committed in order.  The   *)
(* ROB, the instruction queue and the LSQUnit are outside src/; what they  *)
(* may do is what the calls in iew.cc and lsq.cc rely on.                  *)
EXTENDS LSQ

Init ==
  /\ form \in Programs /\ phase = [i \in Insts |-> "none"]
  /\ started = [i \in Insts |-> FALSE]
  /\ saved = [i \in Insts |-> NoId] /\ entry = [i \in Insts |-> NoId]
  /\ req = [d \in Ids |-> NoReq] /\ mmu = {} /\ inCache = {} /\ wbEvent = {}
  /\ cacheBlocked = FALSE /\ usedLoadPorts = 0 /\ usedStorePorts = 0
  /\ waitingForStale = FALSE /\ flushes = 0 /\ mustWait = {}
  /\ memoryBarrierExecuted = FALSE /\ before = [i \in Insts |-> FALSE]
  /\ owed = FALSE

Gone     == {"done", "squashed"}
Older(i) == {j \in Insts : j < i}
InROB(i) == phase[i] \notin {"none", "committed", "annulled"} \cup Gone
AtHead(i) == InROB(i) /\ \A j \in Older(i) : ~InROB(j)

\* A store of the queue whose data has not reached the cache.
Pending(i) == form[i] \in Stores /\ phase[i] \in {"executed", "committed"}

-----------------------------------------------------------------------------
(* Dispatch and the barrier. *)

Dispatch(i) ==
  /\ phase[i] = "none" /\ \A j \in Older(i) : phase[j] # "none"
  /\ phase' = [phase EXCEPT ![i] = "queued"]
  /\ UNCHANGED <<form, started, ptrVars, reqVars, portVars, flushVars, fenceVars>>

\* Commit has a barrier scheduled at the head of the ROB, with the stores
\* before it written back.
ScheduleBarrier(i) ==
  /\ form[i] = "barrier" /\ phase[i] = "queued" /\ AtHead(i)
  /\ \A j \in Older(i) : ~Pending(j)
  /\ phase' = [phase EXCEPT ![i] = "scheduled"]
  /\ UNCHANGED <<form, started, ptrVars, reqVars, portVars, flushVars, fenceVars>>

\* The flag is set before the squash is looked at.
ExecuteBarrier(i) ==
  /\ phase[i] \in {"scheduled", "annulled"}
  /\ phase' = [phase EXCEPT ![i] = IF @ = "annulled" THEN "squashed" ELSE "done"]
  /\ memoryBarrierExecuted' = TRUE /\ owed' = (owed \/ phase[i] = "scheduled")
  /\ UNCHANGED <<form, started, ptrVars, reqVars, portVars, flushVars, before>>

-----------------------------------------------------------------------------
(* Execution of a memory instruction. *)

\* What the instruction queue offers to executeInsts.
Ready(i) ==
  /\ form[i] \in Loads \cup Stores
  /\ \/ phase[i] \in {"queued", "retry"}
     \/ phase[i] = "deferred" /\ isTranslationComplete(req[entry[i]])
     \/ phase[i] = "stalled" /\ \A j \in Older(i) : ~Pending(j)
  /\ \A j \in Older(i) : form[j] = "barrier" => phase[j] \in Gone \cup {"annulled"}

ConsumeFlag(i) ==
  /\ before' = [before EXCEPT ![i] = memoryBarrierExecuted]
  /\ memoryBarrierExecuted' = FALSE

MoveTo(i, p) == phase' = [phase EXCEPT ![i] = p]

\* LSQUnit::read.  A store before the load may hold all of its data, or a
\* part: then the load has to come again with a new request.
LocalAccess(i, d, r) ==
  /\ form[i] = "localLoad" /\ MoveTo(i, "memory")
  /\ wbEvent' = wbEvent \cup {d}
  /\ req' = [req EXCEPT ![d] = [r EXCEPT !.flags = @ \cup {"WritebackScheduled"}]]
  /\ UNCHANGED <<inCache, portVars, owed>>

Forward(i, d, r) ==
  LET r1 == [r EXCEPT !.flags = @ \cup {"WritebackScheduled"}] IN
  /\ form[i] \in {"load", "splitLoad"} /\ \E j \in Older(i) : Pending(j)
  /\ MoveTo(i, "memory")
  /\ wbEvent' = wbEvent \cup {d}
  /\ req' = [req EXCEPT ![d] = IF r.outstanding > 0 THEN release(r1) ELSE r1]
  /\ UNCHANGED <<inCache, portVars, owed>>

\* A load that had sent a packet before the store was known is also in
\* violation of the memory order: it waits for its squash.
\* Mutant: it is executed again like the others.
Reschedule_violating(i, d, r) ==
  /\ form[i] \in {"load", "splitLoad"} /\ \E j \in Older(i) : Pending(j)
  /\ MoveTo(i, "stalled")
  /\ req' = [req EXCEPT ![d] = release(r)]
  /\ UNCHANGED <<inCache, wbEvent, portVars, owed>>

Reschedule(i, d, r) ==
  /\ form[i] \in {"load", "splitLoad"} /\ \E j \in Older(i) : Pending(j)
  /\ MoveTo(i, IF r.outstanding = 0 THEN "stalled" ELSE "violation")
  /\ req' = [req EXCEPT ![d] = release(r)]
  /\ UNCHANGED <<inCache, wbEvent, portVars, owed>>

SendLoad(i, d, r) ==
  /\ form[i] # "localLoad"
  /\ SendPackets(d, [r EXCEPT !.packets = Built(r)], usedLoadPorts, LoadPorts)
  /\ MoveTo(i, IF AllSent(d) THEN "memory" ELSE "blocked")        \* blockMemInst
  /\ UNCHANGED wbEvent

\* The rest of pushRequest, once the request d of i is in value r, with
\* what becomes of the pointers and of `started`.
Access(i, d, r) ==
  LET owner == [entry EXCEPT ![i] = d]  mine == [saved EXCEPT ![i] = d] IN
  \/ /\ ~isTranslationComplete(r)                                 \* deferMemInst
     /\ MoveTo(i, "deferred") /\ req' = [req EXCEPT ![d] = r]
     /\ entry' = owner /\ saved' = mine /\ started' = [started EXCEPT ![i] = TRUE]
     /\ UNCHANGED <<inCache, wbEvent, portVars, owed>>
  \/ /\ isTranslationComplete(r) /\ (form[i] \in Stores \/ ~isMemAccessRequired(r))
     /\ MoveTo(i, IF isMemAccessRequired(r) THEN "executed" ELSE "faulted")
     /\ req' = [req EXCEPT ![d] = r]
     /\ entry' = owner /\ saved' = mine /\ started' = [started EXCEPT ![i] = TRUE]
     /\ UNCHANGED <<inCache, wbEvent, portVars, owed>>
  \/ /\ isTranslationComplete(r) /\ isLoad(r) /\ isMemAccessRequired(r)
     /\ \/ LocalAccess(i, d, r) \/ SendLoad(i, d, r)
        \/ r.outstanding = 0 /\ Forward(i, d, r)
     /\ entry' = owner /\ saved' = mine /\ started' = [started EXCEPT ![i] = TRUE]
  \/ /\ isTranslationComplete(r) /\ isLoad(r) /\ isMemAccessRequired(r)
     /\ r.outstanding > 0 /\ Forward(i, d, r)
     /\ entry' = [entry EXCEPT ![i] = NoId] /\ UNCHANGED <<saved, started>>
  \/ /\ isTranslationComplete(r) /\ isLoad(r) /\ isMemAccessRequired(r)
     /\ Reschedule(i, d, r)
     /\ entry' = [entry EXCEPT ![i] = NoId] /\ started' = [started EXCEPT ![i] = FALSE]
     /\ saved' = IF r.outstanding = 0 THEN [saved EXCEPT ![i] = NoId] ELSE mine

\* pushRequest, the first time.  The MMU answers some fragments at once.
Execute(i) ==
  /\ Ready(i) /\ ~started[i]
  /\ ConsumeFlag(i)
  /\ \E d \in Ids : /\ req[d] = NoReq /\ \A e \in Ids : req[e] = NoReq => d <= e
                    /\ \E now \in SUBSET FragmentsOf(form[i]) : \E bad \in SUBSET now :
                         LET r == NewRequest(i, before'[i]) IN
                         /\ form[i] # "command"
                         /\ mmu' = mmu \cup {<<d, f>> : f \in FragmentsOf(form[i]) \ now}
                         /\ Access(i, d, Translate(r, now, bad))
  /\ UNCHANGED <<form, flushVars>>

ExecuteCommand(i) ==
  /\ Ready(i) /\ ~started[i] /\ form[i] = "command"
  /\ ConsumeFlag(i)
  /\ \E d \in Ids : /\ req[d] = NoReq /\ \A e \in Ids : req[e] = NoReq => d <= e
                    /\ Access(i, d, NewDirectRequest(i, before'[i]))
  /\ UNCHANGED <<form, mmu, flushVars>>

\* pushRequest with translationStarted: the saved request is used again.
ExecuteAgain(i) ==
  /\ Ready(i) /\ started[i]
  /\ ConsumeFlag(i)
  /\ Access(i, saved[i], req[saved[i]])
  /\ UNCHANGED <<form, mmu, flushVars>>

-----------------------------------------------------------------------------
(* Answers. *)

TranslationDone(d, f) ==
  /\ <<d, f>> \in mmu
  /\ mmu' = mmu \ {<<d, f>>}
  /\ \E faulty \in BOOLEAN : req' = [req EXCEPT ![d] = Finish(@, f, faulty)]
  /\ saved' = Forget(req[d], req'[d])
  /\ UNCHANGED <<instVars, entry, inCache, wbEvent, portVars, flushVars, fenceVars>>

\* The event of a forwarded load runs in the tick that schedules it, so a
\* reply to the same request comes after it.
WritebackEvent(d) ==
  LET i == req[d].inst  e == saved[i] IN
  /\ d \in wbEvent
  /\ wbEvent' = wbEvent \ {d}
  /\ req' = [req EXCEPT ![e] = writebackDone(@)]
  /\ saved' = Forget(req[e], req'[e])
  /\ phase' = [phase EXCEPT ![i] = IF @ = "memory" THEN "executed" ELSE @]
  /\ UNCHANGED <<form, started, entry, mmu, inCache, portVars, flushVars, fenceVars>>

\* LSQ::recvTimingResp.  The reply of a released request is only counted.
RecvTimingResp(d, f) ==
  LET r  == req[d]  i == r.inst
      r1 == IF isReleased(r) THEN r ELSE Received(r)
      finished == ~isReleased(r) /\ "Complete" \in r1.flags
      r2 == IF finished /\ form[i] \in Stores THEN release(r1) ELSE r1 IN
  /\ <<d, f>> \in inCache /\ d \notin wbEvent
  /\ inCache' = inCache \ {<<d, f>>}
  /\ req' = [req EXCEPT ![d] = packetReplied(r2)]
  /\ saved' = Forget(r, req'[d])
  /\ entry' = IF finished /\ form[i] \in Stores THEN [entry EXCEPT ![i] = NoId] ELSE entry
  /\ phase' = IF finished /\ ~squashed(r)
              THEN [phase EXCEPT ![i] = IF form[i] \in Stores THEN "done"
                                        ELSE IF r.state = "PartialFault" THEN "faulted"
                                        ELSE "executed"]
              ELSE phase
  /\ mustWait' = Awaited(req', entry')
  /\ checkStaleTranslations(waitingForStale)
  /\ UNCHANGED <<form, started, mmu, wbEvent, portVars, flushes, fenceVars>>

-----------------------------------------------------------------------------
(* Retries. *)

Unblocked == phase' = [i \in Insts |-> IF phase[i] = "blocked" THEN "retry" ELSE phase[i]]

\* Mutant: the ports are counted anew before they are looked at.
Tick_early ==
  /\ usedLoadPorts + usedStorePorts > 0
  /\ UNCHANGED phase
  /\ usedLoadPorts' = 0 /\ usedStorePorts' = 0
  /\ UNCHANGED <<form, started, ptrVars, reqVars, cacheBlocked, flushVars, fenceVars>>

Tick ==                                                    \* LSQ::tick
  /\ usedLoadPorts + usedStorePorts > 0
  /\ IF usedLoadPorts = LoadPorts /\ ~cacheBlocked THEN Unblocked ELSE UNCHANGED phase
  /\ usedLoadPorts' = 0 /\ usedStorePorts' = 0
  /\ UNCHANGED <<form, started, ptrVars, reqVars, cacheBlocked, flushVars, fenceVars>>

RecvReqRetry ==
  /\ cacheBlocked
  /\ Unblocked /\ cacheBlocked' = FALSE
  /\ UNCHANGED <<form, started, ptrVars, reqVars, usedLoadPorts, usedStorePorts,
                 flushVars, fenceVars>>

-----------------------------------------------------------------------------
(* Commit, store write-back and squash. *)

CommitLoad(i) ==
  /\ AtHead(i) /\ form[i] \in Loads /\ phase[i] = "executed"
  /\ phase' = [phase EXCEPT ![i] = "done"]
  /\ entry' = [entry EXCEPT ![i] = NoId]
  /\ req' = IF entry[i] = NoId THEN req ELSE [req EXCEPT ![entry[i]] = release(@)]
  /\ saved' = IF entry[i] = NoId THEN saved ELSE Forget(req[entry[i]], req'[entry[i]])
  /\ mustWait' = Awaited(req', entry')
  /\ UNCHANGED <<form, started, mmu, inCache, wbEvent, portVars, waitingForStale, flushes,
                 fenceVars>>

CommitStore(i) ==
  /\ AtHead(i) /\ form[i] \in Stores /\ phase[i] = "executed"
  /\ phase' = [phase EXCEPT ![i] = "committed"]
  /\ UNCHANGED <<form, started, ptrVars, reqVars, portVars, flushVars, fenceVars>>

\* TSO: one store at a time, the oldest committed one.
WritebackStore(i) ==
  /\ form[i] \in Stores /\ phase[i] = "committed"
  /\ \A j \in Older(i) : ~Pending(j)
  /\ LET r == req[entry[i]] IN
     /\ "Sent" \notin r.flags
     /\ SendPackets(entry[i], [r EXCEPT !.packets = Built(r)], usedStorePorts, StorePorts)
  /\ UNCHANGED <<instVars, ptrVars, mmu, wbEvent, flushVars, memoryBarrierExecuted, before>>

\* Commit squashes i and all that follows it: the ROB marks them first, the
\* LSQ frees their entries when the signal has come to IEW.
Squash(i) ==
  /\ InROB(i)
  /\ phase' = [j \in Insts |-> IF j < i \/ ~InROB(j) THEN phase[j]
                              ELSE IF phase[j] = "scheduled" THEN "annulled" ELSE "squashed"]
  /\ UNCHANGED <<form, started, ptrVars, reqVars, portVars, flushVars, fenceVars>>

SquashLSQ ==
  LET out   == {j \in Insts : phase[j] = "squashed" /\ entry[j] # NoId}
      freed == {entry[j] : j \in out} IN
  /\ out # {}
  /\ entry' = [j \in Insts |-> IF j \in out THEN NoId ELSE entry[j]]
  /\ req' = [d \in Ids |-> IF d \in freed THEN release(req[d]) ELSE req[d]]
  /\ saved' = [j \in Insts |-> IF j \in out /\ req'[entry[j]] = NoReq
                               THEN NoId ELSE saved[j]]
  /\ mustWait' = Awaited(req', entry')
  /\ UNCHANGED <<instVars, mmu, inCache, wbEvent, portVars, waitingForStale, flushes,
                 fenceVars>>

\* A fault of the oldest instruction, or a load that violated the order.
Trap(i) ==
  /\ phase[i] = "violation" \/ (phase[i] = "faulted" /\ AtHead(i))
  /\ Squash(i)

Halt == (\A i \in Insts : phase[i] \in Gone) /\ UNCHANGED vars

Next ==
  \/ \E i \in Insts : \/ Dispatch(i) \/ ScheduleBarrier(i) \/ ExecuteBarrier(i)
                      \/ Execute(i) \/ ExecuteCommand(i) \/ ExecuteAgain(i)
                      \/ CommitLoad(i) \/ CommitStore(i) \/ WritebackStore(i)
                      \/ Squash(i) \/ Trap(i)
  \/ SquashLSQ
  \/ \E d \in Ids : WritebackEvent(d)
  \/ \E d \in Ids, f \in Fragments : TranslationDone(d, f) \/ RecvTimingResp(d, f)
  \/ Tick \/ RecvReqRetry \/ RecvTlbiSync
  \/ Halt

Spec == Init /\ [][Next]_vars

(* What IEW::tick and commit do, they do in every cycle; the MMU and the   *)
(* cache answer, and the cache sends its retry.  Nothing has to be fetched *)
(* or squashed.                                                            *)
FairSpec ==
  /\ Spec
  /\ \A i \in Insts : /\ WF_vars(ScheduleBarrier(i)) /\ WF_vars(ExecuteBarrier(i))
                      /\ WF_vars(Execute(i))
                      /\ WF_vars(ExecuteCommand(i)) /\ WF_vars(ExecuteAgain(i))
                      /\ WF_vars(CommitLoad(i)) /\ WF_vars(CommitStore(i))
                      /\ WF_vars(WritebackStore(i)) /\ WF_vars(Trap(i))
  /\ \A d \in Ids : /\ WF_vars(WritebackEvent(d))
                    /\ \A f \in Fragments : /\ WF_vars(TranslationDone(d, f))
                                            /\ WF_vars(RecvTimingResp(d, f))
  /\ WF_vars(SquashLSQ) /\ WF_vars(Tick) /\ WF_vars(RecvReqRetry)

-----------------------------------------------------------------------------
(* Properties. *)

Phases == {"none", "queued", "deferred", "stalled", "violation", "blocked", "retry",
           "memory", "faulted", "executed", "committed", "scheduled", "annulled"} \cup Gone

Requests == [inst : Insts, translated : SUBSET Fragments, fault : SUBSET Fragments,
             inTranslation : SUBSET Fragments, state : States, flags : SUBSET Flags,
             packets : 0 .. 2, outstanding : 0 .. 2, received : 0 .. 2,
             stale : BOOLEAN, isMemBarrier : BOOLEAN]

\* Every variable keeps its type, and the ports are never over-committed
\* (the assertion of LSQ::cachePortBusy).
TypeOK ==
  /\ \A i \in Insts : /\ form[i] \in AllForms /\ phase[i] \in Phases
                      /\ started[i] \in BOOLEAN /\ before[i] \in BOOLEAN
                      /\ saved[i] \in Ids \cup {NoId} /\ entry[i] \in Ids \cup {NoId}
  /\ \A d \in Ids : req[d] = NoReq \/ req[d] \in Requests
  /\ mmu \subseteq Ids \X Fragments /\ inCache \subseteq Ids \X Fragments
  /\ wbEvent \subseteq Ids /\ mustWait \subseteq Ids
  /\ usedLoadPorts \in 0 .. LoadPorts /\ usedStorePorts \in 0 .. StorePorts
  /\ cacheBlocked \in BOOLEAN /\ waitingForStale \in BOOLEAN /\ flushes \in 0 .. Flushes
  /\ memoryBarrierExecuted \in BOOLEAN /\ owed \in BOOLEAN

\* A request object lives as long as the MMU, the cache or a write-back
\* event holds a pointer to it, whatever became of its instruction, and
\* counts exactly what is out (~LSQRequest, recvTimingResp's senderState).
RequestOutlives ==
  /\ \A d \in Ids : req[d] # NoReq =>
       /\ req[d].inTranslation = {f \in Fragments : <<d, f>> \in mmu}
       /\ req[d].outstanding = Cardinality({f \in Fragments : <<d, f>> \in inCache})
  /\ \A p \in mmu \cup inCache : req[p[1]] # NoReq
  /\ \A d \in wbEvent : req[d] # NoReq

\* No request leaks and none has two owners: its instruction's LQ or SQ entry
\* holds it, or it is released and something is out that will delete it
\* (the life of an LSQRequest, lsq.hh).
OneOwner ==
  \A d \in Live : IF isReleased(req[d])
                  THEN isAnyOutstandingRequest(req[d]) /\ \A i \in Insts : entry[i] # d
                  ELSE \A i \in Insts : entry[i] = d <=> i = req[d].inst

\* An instruction whose translation has started finds its request when it
\* is executed again or written back: the destructor of an earlier request
\* of the same instruction has not reset savedRequest.
SavedIsLive ==
  \A i \in Insts : \/ started[i] /\ phase[i] \in {"deferred", "stalled", "blocked", "retry"}
                   \/ \E d \in wbEvent : req[d].inst = i
                   => saved[i] # NoId /\ req[saved[i]].inst = i

\* A request is complete exactly when each of the packets built for it has
\* been answered, and its instruction has a result only then.
CompleteIsWhole ==
  \A d \in Live : /\ req[d].received + req[d].outstanding <= req[d].packets
                  /\ "Complete" \in req[d].flags =>
                       req[d].packets > 0 /\ req[d].received = req[d].packets

\* A load that waits to be sent again waits for something that will come:
\* a refused packet's retry, or the ports of the next cycle (LSQ::tick).
BlockedIsAwaited ==
  (\E i \in Insts : phase[i] = "blocked") => cacheBlocked \/ usedLoadPorts = LoadPorts

\* Every instruction retires or is squashed, whatever is deferred, refused,
\* blocked or rescheduled on the way.
InstEnds == \A i \in Insts : phase[i] # "none" ~> phase[i] \in Gone

\* The first packet to leave after a full barrier carries its mark ("Flag
\* for full memory barrier", RubySlicc_Types.sm): no packet leaves before.
FenceFirst ==
  [][(owed /\ inCache' \ inCache # {}) =>
       \E p \in inCache' \ inCache : req'[p[1]].isMemBarrier]_vars

\* The completion of a TLBI sync is sent when every access that used a stale
\* translation has been answered (checkStaleTranslations).
SyncAfterStale == ~waitingForStale => mustWait = {}

\* A TLBI sync is answered.
SyncEnds == waitingForStale ~> ~waitingForStale
=============================================================================
