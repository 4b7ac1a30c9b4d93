-------------------------------- MODULE LSQ --------------------------------
(* The load/store queue of the O3 CPU (cpu/o3/lsq.cc, lsq.hh), one thread: *)
(* the life of an LSQRequest through translation, sending and reply, the   *)
(* cache ports and the flush of stale translations.  A request is an       *)
(* object that may outlive its instruction's entry in the queue; `req`     *)
(* holds the objects, and a record of it goes from one value to the next   *)
(* as the methods of LSQRequest change its fields.  The LSQUnit (read,     *)
(* write, store write-back), the MMU and the data cache are outside src/.  *)
EXTENDS Naturals, FiniteSets

CONSTANTS NumInsts,     \* length of the instruction stream
          Programs,     \* the streams, each a function from Insts to forms
          LoadPorts, StorePorts,
          Flushes       \* TLBI syncs that are snooped

Single   == {"load", "store"}
Split    == {"splitLoad", "splitStore"}
Loads    == {"load", "splitLoad", "localLoad", "command"}
Stores   == {"store", "splitStore"}
AllForms == Loads \cup Stores \cup {"barrier"}

ASSUME LSQAssumption ==
  /\ Programs \subseteq [1 .. NumInsts -> AllForms]
  /\ NumInsts \in Nat /\ LoadPorts \in Nat \ {0} /\ StorePorts \in Nat \ {0}
  /\ Flushes \in Nat

Insts     == 1 .. NumInsts              \* sequence numbers: program order
Ids       == 1 .. NumInsts + 1          \* request objects that exist at a time
NoId      == 0
Fragments == {1, 2}
FragmentsOf(f) == IF f \in Split THEN Fragments ELSE {1}

VARIABLES
  form,          \* instruction -> its form
  phase,         \* instruction -> where it is between issue and retirement
  started,       \* translationStarted of an instruction
  saved,         \* savedRequest of an instruction
  entry,         \* the request its LQ or SQ entry points to
  req,           \* the request objects, by id
  mmu, inCache,  \* <<id, fragment>> being translated; in the memory system
  wbEvent,       \* requests with a WritebackEvent scheduled
  cacheBlocked, usedLoadPorts, usedStorePorts,
  waitingForStale, flushes,
  memoryBarrierExecuted, before,     \* IEW's flag, memBarrierExecutedBefore
  owed,          \* history: no marked packet has left since the barrier
  mustWait       \* history: stale requests whose replies are not complete

instVars == <<form, phase, started>>
ptrVars  == <<saved, entry>>
reqVars  == <<req, mmu, inCache, wbEvent>>
portVars == <<cacheBlocked, usedLoadPorts, usedStorePorts>>
flushVars == <<waitingForStale, flushes, mustWait>>
fenceVars == <<memoryBarrierExecuted, before, owed>>
vars == <<instVars, ptrVars, reqVars, portVars, flushVars, fenceVars>>

Flags == {"TranslationStarted", "TranslationFinished", "TranslationSquashed",
          "Sent", "Retry", "Complete", "Released", "WritebackScheduled", "WritebackDone"}
States == {"NotIssued", "Translation", "Request", "Fault", "PartialFault"}
NoReq == [inst |-> 0]

Live    == {d \in Ids : req[d] # NoReq}
FormOf(r) == form[r.inst]
isLoad(r) == FormOf(r) \in Loads
squashed(r) == phase[r.inst] = "squashed"

-----------------------------------------------------------------------------
(* LSQRequest. *)

\* The constructor, addReq and initiateTranslation, which counts a fragment
\* as in translation before the MMU may call finish.
NewRequest(i, mark) ==
  [inst |-> i, translated |-> {}, fault |-> {}, inTranslation |-> FragmentsOf(form[i]),
   state |-> "Translation", flags |-> {"TranslationStarted"},
   packets |-> 0, outstanding |-> 0, received |-> 0,
   stale |-> FALSE, isMemBarrier |-> mark]

\* UnsquashableDirectRequest::initiateTranslation
NewDirectRequest(i, mark) ==
  [NewRequest(i, mark) EXCEPT !.inTranslation = {}, !.translated = {1}, !.state = "Request",
                              !.flags = {"TranslationStarted", "TranslationFinished"}]

isReleased(r) == "Released" \in r.flags

\* Mutant: a writeback that is scheduled does not keep the request alive.
isAnyOutstandingRequest_noWriteback(r) ==
  r.inTranslation # {} \/ r.outstanding > 0

isAnyOutstandingRequest(r) ==
  \/ r.inTranslation # {} \/ r.outstanding > 0
  \/ "WritebackScheduled" \in r.flags /\ "WritebackDone" \notin r.flags

isTranslationComplete(r) == "TranslationStarted" \in r.flags /\ r.state # "Translation"
isMemAccessRequired(r) ==
  r.state = "Request" \/ (r.state = "PartialFault" /\ isLoad(r))

\* release, for freeLSQEntry and discard: the object goes now, or when the
\* last of what it waits for has come.
release(r) == IF isAnyOutstandingRequest(r)
              THEN [r EXCEPT !.flags = @ \cup {"Released"}] ELSE NoReq

\* Mutant: a squashed translation does not look whether it was released.
Finish_kept(r, f, faulty) ==
  LET bad  == IF faulty THEN r.fault \cup {f} ELSE r.fault
      done == r.translated \cup {f}
      r1   == [r EXCEPT !.inTranslation = @ \ {f}, !.translated = done, !.fault = bad] IN
  IF done # FragmentsOf(FormOf(r)) THEN r1
  ELSE IF squashed(r) THEN [r1 EXCEPT !.flags = @ \cup {"TranslationSquashed"}]
  ELSE [r1 EXCEPT !.flags = @ \cup {"TranslationFinished"},
                  !.state = IF bad = {} THEN "Request"
                            ELSE IF 1 \in bad THEN "Fault" ELSE "PartialFault"]

\* SingleDataRequest::finish and SplitDataRequest::finish; squashTranslation.
Finish(r, f, faulty) ==
  LET bad  == IF faulty THEN r.fault \cup {f} ELSE r.fault
      done == r.translated \cup {f}
      r1   == [r EXCEPT !.inTranslation = @ \ {f}, !.translated = done, !.fault = bad] IN
  IF done # FragmentsOf(FormOf(r)) THEN r1
  ELSE IF squashed(r)
  THEN IF isReleased(r) THEN NoReq
       ELSE [r1 EXCEPT !.flags = @ \cup {"TranslationSquashed"}]
  ELSE [r1 EXCEPT !.flags = @ \cup {"TranslationFinished"},
                  !.state = IF bad = {} THEN "Request"
                            ELSE IF 1 \in bad THEN "Fault" ELSE "PartialFault"]

\* The fragments fs, of which bad fault, come back from the MMU, in order.
Translate(r, fs, bad) ==
  LET r1 == IF 1 \in fs THEN Finish(r, 1, 1 \in bad) ELSE r IN
  IF 2 \in fs THEN Finish(r1, 2, 2 \in bad) ELSE r1

\* buildPackets: up to the first fragment that faulted.
Built(r) == IF r.fault = {} THEN Cardinality(FragmentsOf(FormOf(r))) ELSE 1

NextPacket(r) == r.received + r.outstanding + 1        \* its fragment

\* Mutant: one reply is counted for all the packets.
packetReplied_all(r) ==
  IF isReleased(r) THEN NoReq ELSE [r EXCEPT !.outstanding = @ - r.packets]

packetReplied(r) ==
  IF r.outstanding = 1 /\ isReleased(r) THEN NoReq
  ELSE [r EXCEPT !.outstanding = @ - 1]

writebackDone(r) ==
  IF r.outstanding = 0 /\ isReleased(r) THEN NoReq
  ELSE [r EXCEPT !.flags = @ \cup {"WritebackDone"}]

\* Mutant: a split request is complete with its first packet.
Received_first(r) ==
  [r EXCEPT !.received = @ + 1, !.stale = FALSE, !.flags = @ \cup {"Complete"}]

\* recvTimingResp of a request that still has its entry: it is complete
\* with its last packet, and its translation is taken for fresh with any.
Received(r) ==
  [r EXCEPT !.received = @ + 1, !.stale = FALSE,
            !.flags = IF r.received + 1 = r.packets THEN @ \cup {"Complete"} ELSE @]

markAsStaleTranslation(r) ==
  IF "Complete" \notin r.flags /\ FormOf(r) # "command" THEN [r EXCEPT !.stale = TRUE] ELSE r

\* The destructor forgets the instruction's request, whichever it is now.
Forget(r, now) == IF now = NoReq THEN [saved EXCEPT ![r.inst] = NoId] ELSE saved

-----------------------------------------------------------------------------
(* Sending.  trySendPacket asks for a port, and the cache may refuse. *)

\* What a call of sendPacketToCache can do: n packets leave, and the loop
\* ends with the last packet, for want of a port, or refused by the cache.
\* The cache refuses only while it has something to do for this CPU.
\* Mutant: a refusal is not recorded.
SendPackets_unblocked(d, r, used, ports) ==
  \E n \in 0 .. r.packets - r.received - r.outstanding :
    LET sent == {<<d, NextPacket(r) + k>> : k \in 0 .. n - 1}
        all  == n = r.packets - r.received - r.outstanding IN
    /\ used + n <= ports
    /\ cacheBlocked => n = 0
    /\ inCache' = inCache \cup sent
    /\ UNCHANGED cacheBlocked
    /\ req' = [req EXCEPT ![d] =
                 [r EXCEPT !.outstanding = @ + n,
                           !.flags = IF all THEN @ \cup {"Sent"}
                                     ELSE (@ \cup {"Retry"}) \ {"Sent"}]]
    /\ IF isLoad(r) THEN usedLoadPorts' = used + n /\ UNCHANGED usedStorePorts
       ELSE usedStorePorts' = used + n /\ UNCHANGED usedLoadPorts
    /\ owed' = (owed /\ (n = 0 \/ ~r.isMemBarrier))

SendPackets(d, r, used, ports) ==
  \E n \in 0 .. r.packets - r.received - r.outstanding :
    LET sent == {<<d, NextPacket(r) + k>> : k \in 0 .. n - 1}
        all  == n = r.packets - r.received - r.outstanding
        refused == ~all /\ ~cacheBlocked /\ used + n < ports IN
    /\ used + n <= ports
    /\ cacheBlocked => n = 0
    /\ refused => inCache \cup sent # {}
    /\ inCache' = inCache \cup sent
    /\ cacheBlocked' = (cacheBlocked \/ refused)
    /\ req' = [req EXCEPT ![d] =
                 [r EXCEPT !.outstanding = @ + n,
                           !.flags = IF all THEN @ \cup {"Sent"}
                                     ELSE (@ \cup {"Retry"}) \ {"Sent"}]]
    /\ IF isLoad(r) THEN usedLoadPorts' = used + n /\ UNCHANGED usedStorePorts
       ELSE usedStorePorts' = used + n /\ UNCHANGED usedLoadPorts
    /\ owed' = (owed /\ (n = 0 \/ ~r.isMemBarrier))

AllSent(d) == "Sent" \in req'[d].flags

-----------------------------------------------------------------------------
(* The flush of stale translations. *)

Stale(r, es) == \E i \in Insts : es[i] # NoId /\ r[es[i]] # NoReq /\ r[es[i]].stale

\* checkStaleTranslations, at the end of a step that has changed req, entry
\* and, in `waiting`, waitingForStaleTranslation.
checkStaleTranslations(waiting) ==
  waitingForStale' = (waiting /\ Stale(req', entry'))

\* recvTimingSnoopReq with a TLBI sync; each entry's request is marked.
RecvTlbiSync ==
  /\ flushes < Flushes /\ ~waitingForStale
  /\ flushes' = flushes + 1
  /\ req' = [d \in Ids |-> IF \E i \in Insts : entry[i] = d /\ req[d] # NoReq
                           THEN markAsStaleTranslation(req[d]) ELSE req[d]]
  /\ mustWait' = {d \in Live : req'[d].stale /\ req[d].outstanding > 0}
  /\ UNCHANGED ptrVars
  /\ checkStaleTranslations(TRUE)
  /\ UNCHANGED <<instVars, mmu, inCache, wbEvent, portVars, fenceVars>>

\* What is still waited for: the marked requests that keep their entry.
Awaited(rs, es) == {d \in mustWait : /\ \E i \in Insts : es[i] = d
                                   /\ rs[d] # NoReq /\ "Complete" \notin rs[d].flags}
=============================================================================
