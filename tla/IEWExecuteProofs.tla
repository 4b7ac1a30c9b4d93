-------------------------- MODULE IEWExecuteProofs --------------------------
(* Proofs about IEWExecute, for any program, ports and number of syncs:    *)
(* the life of the request objects of the load/store queue.                *)
EXTENDS IEWExecute, FiniteSetTheorems, TLAPS

-----------------------------------------------------------------------------
(* The inductive invariant.  A request is looked at together with what     *)
(* surrounds it: the fragments the MMU and the cache hold of it, {d} if    *)
(* its write-back is scheduled, and its instruction's form, phase, saved   *)
(* request and entry.                                                      *)

In(d)  == {f \in Fragments : <<d, f>> \in mmu}
Out(d) == {f \in Fragments : <<d, f>> \in inCache}
Ev(d)  == wbEvent \cap {d}

\* Phases of an instruction that may still be given to executeInsts.
Waiting == {"queued", "deferred", "stalled", "blocked", "retry"}

Translating(r, in, fm) ==
  /\ r.inTranslation = in
  /\ r.translated \cup in = FragmentsOf(fm) /\ r.translated \cap in = {}
  /\ in # {} => /\ r.state = "Translation" /\ r.packets = 0
                /\ "WritebackScheduled" \notin r.flags

Sending(r, out, fm) ==
  /\ r.outstanding = Cardinality(out)
  /\ r.packets \in {0, IF r.fault = {} THEN Cardinality(FragmentsOf(fm)) ELSE 1}
  /\ r.received + r.outstanding <= r.packets
  /\ "Complete" \in r.flags => r.packets > 0 /\ r.received = r.packets
  /\ isReleased(r) \/ \A f \in out : f <= r.received + r.outstanding
  /\ fm = "localLoad" => r.packets = 0

Forwarding(d, r, ev, fm, p, sv) ==
  /\ ev = {} \/ ev = {d}
  /\ ev # {} <=> "WritebackScheduled" \in r.flags /\ "WritebackDone" \notin r.flags
  /\ "WritebackDone" \in r.flags => "WritebackScheduled" \in r.flags
  /\ "WritebackScheduled" \in r.flags =>
       /\ fm \in Loads /\ p \notin Waiting
       /\ r.outstanding > 0 => isReleased(r)
  /\ ev # {} => sv = d

Owned(d, r, p, en) ==
  /\ en = d <=> ~isReleased(r)
  /\ isReleased(r) => /\ isAnyOutstandingRequest(r)
                      /\ r.inTranslation # {} => p = "squashed"

Sound(d, r, in, out, ev, fm, p, sv, en) ==
  /\ Translating(r, in, fm) /\ Sending(r, out, fm)
  /\ Forwarding(d, r, ev, fm, p, sv) /\ Owned(d, r, p, en)

RequestOK(d) ==
  LET i == req[d].inst IN
  IF req[d] = NoReq THEN In(d) = {} /\ Out(d) = {} /\ Ev(d) = {}
  ELSE /\ Sound(d, req[d], In(d), Out(d), Ev(d), form[i], phase[i], saved[i], entry[i])
       /\ started[i] \/ (isReleased(req[d]) /\ phase[i] \in {"violation", "squashed"})
       /\ In(d) # {} => phase[i] \in {"deferred", "squashed"}

InstOK(i) ==
  /\ entry[i] # NoId => req[entry[i]] # NoReq /\ req[entry[i]].inst = i
  /\ Pending(i) => entry[i] # NoId
  /\ started[i] => /\ phase[i] # "none"
                   /\ phase[i] \in Waiting => saved[i] = entry[i] /\ entry[i] # NoId

OneEach == \A d, e \in Live : req[d].inst = req[e].inst => d = e

Arrays ==
  /\ form \in [Insts -> AllForms] /\ phase \in [Insts -> Phases]
  /\ started \in [Insts -> BOOLEAN] /\ before \in [Insts -> BOOLEAN]
  /\ saved \in [Insts -> Ids \cup {NoId}] /\ entry \in [Insts -> Ids \cup {NoId}]
  /\ req \in [Ids -> Requests \cup {NoReq}]
  /\ mmu \subseteq Ids \X Fragments /\ inCache \subseteq Ids \X Fragments
  /\ wbEvent \subseteq Ids

Requested == (\A d \in Ids : RequestOK(d)) /\ (\A i \in Insts : InstOK(i)) /\ OneEach

Others ==
  /\ mustWait \subseteq Ids
  /\ usedLoadPorts \in 0 .. LoadPorts /\ usedStorePorts \in 0 .. StorePorts
  /\ cacheBlocked \in BOOLEAN /\ waitingForStale \in BOOLEAN /\ flushes \in 0 .. Flushes
  /\ memoryBarrierExecuted \in BOOLEAN /\ owed \in BOOLEAN

IInv == Arrays /\ Requested /\ Others /\ BlockedIsAwaited

-----------------------------------------------------------------------------
(* What the methods of LSQRequest do to a sound request.                   *)

\* The constants of the module have the types their uses need.
LEMMA Sorts ==
  /\ Insts \subseteq Nat /\ Ids \subseteq Nat /\ NoId \notin Ids /\ 0 \notin Insts
  /\ LoadPorts \in Nat \ {0} /\ StorePorts \in Nat \ {0} /\ Flushes \in Nat
BY LSQAssumption DEF Insts, Ids, NoId

\* NoReq is no request: its record has another domain.
LEMMA NoReqIsNone == NoReq \notin Requests
<1>1. ASSUME NoReq \in Requests PROVE FALSE
  <2>1. NoReq.inst \in Insts
    BY <1>1 DEF Requests
  <2>2. NoReq.inst = 0
    BY DEF NoReq
  <2>. QED  BY <2>1, <2>2, Sorts
<1>. QED  BY <1>1

\* How many fragments a set of them has.
LEMMA FewFragments ==
  ASSUME NEW S \in SUBSET Fragments
  PROVE  Cardinality(S) = (IF 1 \in S THEN 1 ELSE 0) + (IF 2 \in S THEN 1 ELSE 0)
<1>1. S = {} \/ S = {1} \/ S = {2} \/ S = {1, 2}
  BY DEF Fragments
<1>2. Cardinality({}) = 0 /\ Cardinality({1}) = 1 /\ Cardinality({2}) = 1
  BY FS_EmptySet, FS_Singleton
<1>3. Cardinality({1} \cup {2}) = 2
  <2>1. IsFiniteSet({1}) /\ 2 \notin {1}
    BY FS_Singleton
  <2>2. Cardinality({1} \cup {2}) = Cardinality({1}) + 1
    BY <2>1, FS_AddElement
  <2>. QED  BY <1>2, <2>2
<1>4. {1} \cup {2} = {1, 2}
  OBVIOUS
<1>. QED  BY <1>1, <1>2, <1>3, <1>4

\* The fragments of a form.
LEMMA FormFragments ==
  ASSUME NEW fm
  PROVE  /\ FragmentsOf(fm) \in SUBSET Fragments /\ 1 \in FragmentsOf(fm)
         /\ FragmentsOf(fm) = {1} \/ FragmentsOf(fm) = {1, 2}
         /\ Cardinality(FragmentsOf(fm)) \in {1, 2}
<1>1. FragmentsOf(fm) = {1} \/ FragmentsOf(fm) = {1, 2}
  BY DEF FragmentsOf, Fragments
<1>2. FragmentsOf(fm) \in SUBSET Fragments
  BY <1>1 DEF Fragments
<1>. QED  BY <1>1, <1>2, FewFragments DEF Fragments

\* A new request is sound, with all its fragments at the MMU; a command's
\* is sound with none.
LEMMA NewSound ==
  ASSUME Arrays, NEW i \in Insts, NEW d \in Ids, NEW b \in [Insts -> BOOLEAN], NEW p
  PROVE  /\ NewRequest(i, b[i]) \in Requests
         /\ Sound(d, NewRequest(i, b[i]), FragmentsOf(form[i]), {}, {}, form[i], p, d, d)
         /\ NewRequest(i, b[i]).inst = i
         /\ NewRequest(i, b[i]).flags = {"TranslationStarted"}
<1>1. NewRequest(i, b[i]) \in Requests
  BY FormFragments DEF NewRequest, Requests, States, Flags
<1>2. Translating(NewRequest(i, b[i]), FragmentsOf(form[i]), form[i])
  BY DEF NewRequest, Translating
<1>3. Sending(NewRequest(i, b[i]), {}, form[i])
  BY FS_EmptySet DEF NewRequest, Sending
<1>4. Forwarding(d, NewRequest(i, b[i]), {}, form[i], p, d)
  BY DEF NewRequest, Forwarding
<1>5. Owned(d, NewRequest(i, b[i]), p, d)
  BY DEF NewRequest, Owned, isReleased
<1>. QED  BY <1>1, <1>2, <1>3, <1>4, <1>5 DEF Sound, NewRequest

\* The request of a memory-management command, as it is made, is sound.
LEMMA NewDirectSound ==
  ASSUME Arrays, NEW i \in Insts, NEW d \in Ids, NEW b \in [Insts -> BOOLEAN], NEW p,
         form[i] = "command"
  PROVE  /\ NewDirectRequest(i, b[i]) \in Requests
         /\ Sound(d, NewDirectRequest(i, b[i]), {}, {}, {}, form[i], p, d, d)
         /\ NewDirectRequest(i, b[i]).inst = i
<1>. DEFINE o == NewRequest(i, b[i])
            n == NewDirectRequest(i, b[i])
<1>1. /\ o \in Requests /\ o.inst = i /\ o.packets = 0 /\ o.received = 0
      /\ o.outstanding = 0
  BY NewSound DEF NewRequest
<1>2. n = [o EXCEPT !.inTranslation = {}, !.translated = {1}, !.state = "Request",
                    !.flags = {"TranslationStarted", "TranslationFinished"}]
  BY DEF NewDirectRequest
<1>3. /\ n.inst = i /\ n.inTranslation = {} /\ n.translated = {1} /\ n.packets = 0
      /\ n.received = 0 /\ n.outstanding = 0
      /\ n.flags = {"TranslationStarted", "TranslationFinished"}
      /\ n \in Requests
  <2>. HIDE DEF o
  <2>1. /\ {} \in SUBSET Fragments /\ {1} \in SUBSET Fragments /\ "Request" \in States
        /\ {"TranslationStarted", "TranslationFinished"} \in SUBSET Flags
    BY DEF States, Flags, Fragments
  <2>2. n \in Requests
    BY <1>1, <1>2, <2>1 DEF Requests
  <2>3. /\ n.inTranslation = {} /\ n.translated = {1}
        /\ n.flags = {"TranslationStarted", "TranslationFinished"}
    BY <1>1, <1>2 DEF Requests
  <2>4. n.inst = i /\ n.packets = 0 /\ n.received = 0 /\ n.outstanding = 0
    BY <1>1, <1>2 DEF Requests
  <2>. QED  BY <2>2, <2>3, <2>4
<1>. HIDE DEF o, n
<1>4. Translating(n, {}, form[i])
  BY <1>3 DEF Translating, FragmentsOf, Split
<1>5. Sending(n, {}, form[i])
  BY <1>3, FS_EmptySet DEF Sending
<1>6. Forwarding(d, n, {}, form[i], p, d)
  BY <1>3 DEF Forwarding
<1>7. Owned(d, n, p, d)
  BY <1>3 DEF Owned, isReleased
<1>8. Sound(d, n, {}, {}, {}, form[i], p, d, d)
  BY <1>4, <1>5, <1>6, <1>7 DEF Sound
<1>. QED  BY <1>3, <1>8 DEF n

\* What the MMU's answer leaves of a request is a request of the same
\* instruction.
LEMMA FinishType ==
  ASSUME NEW r \in Requests, NEW f \in Fragments, NEW faulty,
         Finish(r, f, faulty) # NoReq
  PROVE  Finish(r, f, faulty) \in Requests /\ Finish(r, f, faulty).inst = r.inst
<1>. DEFINE bad  == IF faulty THEN r.fault \cup {f} ELSE r.fault
            done == r.translated \cup {f}
            r1   == [r EXCEPT !.inTranslation = @ \ {f}, !.translated = done, !.fault = bad]
            r2   == [r1 EXCEPT !.flags = @ \cup {"TranslationSquashed"}]
            r3   == [r1 EXCEPT !.flags = @ \cup {"TranslationFinished"},
                               !.state = IF bad = {} THEN "Request"
                                         ELSE IF 1 \in bad THEN "Fault" ELSE "PartialFault"]
<1>1. Finish(r, f, faulty) \in {r1, r2, r3}
  BY DEF Finish
<1>2. bad \in SUBSET Fragments /\ done \in SUBSET Fragments
  BY DEF Requests
<1>. HIDE DEF bad, done
<1>3. r1 \in Requests /\ r1.inst = r.inst
  BY <1>2 DEF Requests
<1>. HIDE DEF r1
<1>4. r2 \in Requests /\ r2.inst = r.inst
  BY <1>3 DEF Requests, Flags
<1>5. r3 \in Requests /\ r3.inst = r.inst
  BY <1>3 DEF Requests, Flags, States
<1>. HIDE DEF r2, r3
<1>. QED  BY <1>1, <1>3, <1>4, <1>5

\* A fragment comes back from the MMU: the request stays sound without it,
\* or its owner is gone and it was the last thing it waited for.
LEMMA FinishSound ==
  ASSUME Arrays, NEW d \in Ids, NEW r \in Requests, NEW in, NEW out \in SUBSET Fragments,
         NEW ev, NEW sv, NEW en, NEW f \in in, NEW faulty,
         Sound(d, r, in, out, ev, form[r.inst], phase[r.inst], sv, en),
         NEW rest, rest = in \ {f}, NEW now, now = Finish(r, f, faulty)
  PROVE  /\ now = NoReq => isReleased(r)
         /\ now # NoReq => Sound(d, now, rest, out, ev, form[r.inst], phase[r.inst], sv, en)
<1>. DEFINE fm   == form[r.inst]
            bad  == IF faulty THEN r.fault \cup {f} ELSE r.fault
            done == r.translated \cup {f}
            r1   == [r EXCEPT !.inTranslation = @ \ {f}, !.translated = done, !.fault = bad]
            r2   == [r1 EXCEPT !.flags = @ \cup {"TranslationSquashed"}]
            r3   == [r1 EXCEPT !.flags = @ \cup {"TranslationFinished"},
                               !.state = IF bad = {} THEN "Request"
                                         ELSE IF 1 \in bad THEN "Fault" ELSE "PartialFault"]
<1>1. now = IF done # FragmentsOf(fm) THEN r1
            ELSE IF squashed(r) THEN IF isReleased(r) THEN NoReq ELSE r2
            ELSE r3
  BY DEF Finish, FormOf
<1>2. /\ f \in Fragments /\ f \in r.inTranslation /\ r.inTranslation = in
      /\ r.state = "Translation" /\ r.packets = 0 /\ "WritebackScheduled" \notin r.flags
      /\ r.received = 0 /\ r.outstanding = 0 /\ out = {} /\ ev = {}
      /\ "Complete" \notin r.flags
  <2>1. f \in r.inTranslation /\ r.inTranslation = in /\ f \in Fragments
    BY DEF Sound, Translating, Requests
  <2>2. /\ r.state = "Translation" /\ r.packets = 0
        /\ "WritebackScheduled" \notin r.flags
    BY DEF Sound, Translating
  <2>3. /\ r.received = 0 /\ r.outstanding = 0 /\ "Complete" \notin r.flags
    BY <2>2 DEF Sound, Sending, Requests
  <2>4. out = {}
    <3>1. Cardinality(out) = 0
      BY <2>3 DEF Sound, Sending
    <3>2. 1 \notin out /\ 2 \notin out
      BY <3>1, FewFragments
    <3>. QED  BY <3>2 DEF Fragments
  <2>5. ev = {}
    BY <2>2 DEF Sound, Forwarding
  <2>. QED  BY <2>1, <2>2, <2>3, <2>4, <2>5
<1>3. bad \in SUBSET Fragments /\ done \in SUBSET Fragments
  BY <1>2 DEF Requests
<1>4. done = FragmentsOf(fm) <=> in \ {f} = {}
  BY <1>2 DEF Sound, Translating
<1>. HIDE DEF bad, done
<1>5. /\ r1 \in Requests /\ r1.inst = r.inst /\ r1.flags = r.flags /\ r1.state = r.state
      /\ r1.inTranslation = in \ {f} /\ r1.translated = done /\ r1.packets = 0
      /\ r1.received = 0 /\ r1.outstanding = 0
  BY <1>2, <1>3 DEF Requests
<1>. HIDE DEF r1
<1>6. /\ r2 \in Requests /\ r2.inst = r.inst /\ r2.state = r.state
      /\ r2.flags = r.flags \cup {"TranslationSquashed"}
      /\ r2.inTranslation = in \ {f} /\ r2.translated = done /\ r2.packets = 0
      /\ r2.received = 0 /\ r2.outstanding = 0
  BY <1>5 DEF Requests, Flags
<1>7. /\ r3 \in Requests /\ r3.inst = r.inst
      /\ r3.flags = r.flags \cup {"TranslationFinished"}
      /\ r3.inTranslation = in \ {f} /\ r3.translated = done /\ r3.packets = 0
      /\ r3.received = 0 /\ r3.outstanding = 0
  BY <1>5 DEF Requests, Flags, States
<1>. HIDE DEF r2, r3
<1>8. ASSUME NEW q \in {r1, r2, r3},
             done # FragmentsOf(fm) => q = r1,
             done = FragmentsOf(fm) => ~isReleased(r)
      PROVE  /\ Sound(d, q, in \ {f}, out, ev, fm, phase[r.inst], sv, en)
  <2>1. /\ q \in Requests /\ q.inst = r.inst /\ q.inTranslation = in \ {f}
        /\ q.translated = done /\ q.packets = 0 /\ q.received = 0 /\ q.outstanding = 0
        /\ \A x \in {"WritebackScheduled", "WritebackDone", "Complete", "Released"} :
              x \in q.flags <=> x \in r.flags
    BY <1>5, <1>6, <1>7
  <2>2. Translating(q, in \ {f}, fm)
    <3>1. done \cup (in \ {f}) = FragmentsOf(fm) /\ done \cap (in \ {f}) = {}
      BY <1>2 DEF done, Sound, Translating
    <3>2. in \ {f} # {} => q.state = "Translation"
      BY <1>2, <1>4, <1>5, <1>8
    <3>. QED  BY <2>1, <3>1, <3>2, <1>2 DEF Translating
  <2>3. Sending(q, out, fm)
    BY <2>1, <1>2, FS_EmptySet DEF Sending
  <2>4. Forwarding(d, q, ev, fm, phase[r.inst], sv)
    BY <2>1, <1>2 DEF Forwarding, Sound
  <2>5. Owned(d, q, phase[r.inst], en)
    <3>1. isReleased(q) <=> isReleased(r)
      BY <2>1 DEF isReleased
    <3>2. isReleased(r) => in \ {f} # {} /\ phase[r.inst] = "squashed"
      BY <1>2, <1>4, <1>8 DEF Sound, Owned
    <3>3. isReleased(q) => isAnyOutstandingRequest(q)
      BY <2>1, <3>1, <3>2 DEF isAnyOutstandingRequest
    <3>. QED  BY <3>1, <3>2, <3>3 DEF Sound, Owned
  <2>. QED  BY <2>1, <2>2, <2>3, <2>4, <2>5 DEF Sound
<1>9. isReleased(r) => squashed(r)
  BY <1>2 DEF Sound, Owned, squashed
<1>10. r1 # NoReq /\ r2 # NoReq /\ r3 # NoReq
  BY <1>5, <1>6, <1>7, NoReqIsNone
<1>0. rest = in \ {f} /\ now = Finish(r, f, faulty)
  OBVIOUS
<1>11. CASE done # FragmentsOf(fm)
  BY <1>11, <1>1, <1>8, <1>10
<1>12. CASE done = FragmentsOf(fm) /\ isReleased(r)
  BY <1>12, <1>1, <1>2, <1>4, <1>9
<1>13. CASE done = FragmentsOf(fm) /\ ~isReleased(r)
  <2>1. now \in {r2, r3}
    BY <1>13, <1>1
  <2>. QED  BY <2>1, <1>13, <1>8, <1>10
<1>. QED  BY <1>11, <1>12, <1>13

\* A request that is deleted by the MMU's answer had nothing else out.
LEMMA FinishLast ==
  ASSUME Arrays, NEW d \in Ids, NEW r \in Requests, NEW in, NEW out \in SUBSET Fragments,
         NEW ev, NEW p, NEW sv, NEW en, NEW f \in in, NEW faulty,
         Sound(d, r, in, out, ev, form[r.inst], p, sv, en),
         Finish(r, f, faulty) = NoReq
  PROVE  in = {f} /\ out = {} /\ ev = {}
<1>1. /\ f \in Fragments /\ r.inTranslation = in /\ r.packets = 0
      /\ "WritebackScheduled" \notin r.flags
  BY DEF Sound, Translating, Requests
<1>2. r.outstanding = 0
  BY <1>1 DEF Sound, Sending, Requests
<1>3. out = {}
  <2>1. Cardinality(out) = 0
    BY <1>2 DEF Sound, Sending
  <2>2. 1 \notin out /\ 2 \notin out
    BY <2>1, FewFragments
  <2>. QED  BY <2>2 DEF Fragments
<1>4. ev = {}
  BY <1>1 DEF Sound, Forwarding
<1>. DEFINE bad  == IF faulty THEN r.fault \cup {f} ELSE r.fault
            done == r.translated \cup {f}
            r1   == [r EXCEPT !.inTranslation = @ \ {f}, !.translated = done, !.fault = bad]
            r2   == [r1 EXCEPT !.flags = @ \cup {"TranslationSquashed"}]
            r3   == [r1 EXCEPT !.flags = @ \cup {"TranslationFinished"},
                               !.state = IF bad = {} THEN "Request"
                                         ELSE IF 1 \in bad THEN "Fault" ELSE "PartialFault"]
<1>5. CASE done # FragmentsOf(form[r.inst])
  <2>1. Finish(r, f, faulty) = r1
    BY <1>5 DEF Finish, FormOf
  <2>2. bad \in SUBSET Fragments /\ done \in SUBSET Fragments
    BY <1>1 DEF Requests
  <2>. HIDE DEF bad, done
  <2>3. r1 \in Requests
    BY <2>2 DEF Requests
  <2>. QED  BY <2>1, <2>3, NoReqIsNone
<1>6. CASE done = FragmentsOf(form[r.inst])
  BY <1>1, <1>3, <1>4, <1>6 DEF Sound, Translating
<1>. QED  BY <1>5, <1>6

\* What the MMU answers at once leaves a request sound that has its owner.
LEMMA TranslateSound ==
  ASSUME Arrays, NEW d \in Ids, NEW r \in Requests, NEW in \in SUBSET Fragments,
         NEW fs \in SUBSET in, NEW bad,
         Sound(d, r, in, {}, {}, form[r.inst], phase[r.inst], d, d)
  PROVE  LET now == Translate(r, fs, bad) IN
         /\ now \in Requests /\ now.inst = r.inst
         /\ Sound(d, now, in \ fs, {}, {}, form[r.inst], phase[r.inst], d, d)
<1>. DEFINE y1  == 1 \in bad
            y2  == 2 \in bad
            r1  == IF 1 \in fs THEN Finish(r, 1, y1) ELSE r
            in1 == in \ (fs \cap {1})
<1>0. {} \in SUBSET Fragments
  OBVIOUS
<1>1. Translate(r, fs, bad) = IF 2 \in fs THEN Finish(r1, 2, y2) ELSE r1
  BY DEF Translate
<1>. HIDE DEF y1, y2
<1>2. /\ r1 \in Requests /\ r1.inst = r.inst
      /\ Sound(d, r1, in1, {}, {}, form[r.inst], phase[r.inst], d, d)
  <2>1. CASE 1 \in fs
    <3>1. ~isReleased(r)
      BY DEF Sound, Owned
    <3>2. 1 \in in /\ in1 = in \ {1} /\ r1 = Finish(r, 1, y1)
      BY <2>1
    <3>. HIDE DEF in1, r1
    <3>3. r1 # NoReq /\ Sound(d, r1, in1, {}, {}, form[r.inst], phase[r.inst], d, d)
      BY <1>0, <3>1, <3>2, FinishSound, ZenonT(30)
    <3>. QED  BY <3>2, <3>3, FinishType DEF Fragments
  <2>2. CASE 1 \notin fs
    <3>1. in1 = in
      BY <2>2
    <3>. QED  BY <2>2, <3>1, <1>0
  <2>. QED  BY <2>1, <2>2
<1>3. CASE 2 \in fs
  <2>1. ~isReleased(r1)
    BY <1>2 DEF Sound, Owned
  <2>2. 2 \in in1 /\ in1 \ {2} = in \ fs
        /\ Sound(d, r1, in1, {}, {}, form[r1.inst], phase[r1.inst], d, d)
    <3>1. \A f \in in : f = 1 \/ f = 2
      BY DEF Fragments
    <3>2. 2 \in in1 /\ in1 \ {2} = in \ fs
      BY <1>3, <3>1
    <3>. QED  BY <3>2, <1>2
  <2>. HIDE DEF in1, r1
  <2>3. ASSUME NEW now, now = Finish(r1, 2, y2), NEW rest, rest = in1 \ {2}
        PROVE  now # NoReq /\ Sound(d, now, rest, {}, {}, form[r1.inst], phase[r1.inst], d, d)
    BY <2>1, <2>3, <1>0, <1>2, <2>2, FinishSound
  <2>4. Finish(r1, 2, y2) \in Requests /\ Finish(r1, 2, y2).inst = r.inst
    BY <1>2, <2>3, FinishType DEF Fragments
  <2>. QED  BY <1>1, <1>2, <1>3, <2>2, <2>3, <2>4
<1>4. CASE 2 \notin fs
  <2>1. in1 = in \ fs
    BY <1>4 DEF Fragments
  <2>2. Translate(r, fs, bad) = r1
    BY <1>4, <1>1
  <2>. QED  BY <1>2, <2>1, <2>2
<1>. QED  BY <1>3, <1>4

\* The packets that leave are counted, and are not those already out.
LEMMA SendSound ==
  ASSUME Arrays, NEW d \in Ids, NEW r \in Requests, NEW p, NEW used \in Nat,
         NEW ports \in Nat,
         Sound(d, r, {}, Out(d), Ev(d), form[r.inst], p, d, d),
         form[r.inst] # "localLoad", "WritebackScheduled" \notin r.flags,
         SendPackets(d, [r EXCEPT !.packets = Built(r)], used, ports)
  PROVE  /\ req' = [req EXCEPT ![d] = req'[d]]
         /\ req'[d] \in Requests /\ req'[d].inst = r.inst
         /\ \A q : Sound(d, req'[d], {}, Out(d)', Ev(d), form[r.inst], q, d, d)
         /\ \A e \in Ids \ {d} : Out(e)' = Out(e)
         /\ inCache' \subseteq Ids \X Fragments
<1>. DEFINE fm == form[r.inst]
            q == [r EXCEPT !.packets = Built(r)]
            b == r.received + r.outstanding
<1>1. Built(r) \in {1, 2} /\ Built(r) = IF r.fault = {} THEN Cardinality(FragmentsOf(fm)) ELSE 1
  BY FormFragments DEF Built, FormOf
<1>2. /\ r.received \in 0 .. 2 /\ r.outstanding \in 0 .. 2 /\ b <= Built(r) /\ b \in Nat
      /\ r.packets \in {0, Built(r)} /\ r.packets \in Nat
  BY <1>1 DEF Sound, Sending, Requests
<1>3. /\ q \in Requests /\ q.packets = Built(r) /\ q.inst = r.inst /\ q.flags = r.flags
      /\ q.received = r.received /\ q.outstanding = r.outstanding
      /\ q.inTranslation = r.inTranslation /\ q.translated = r.translated
      /\ q.state = r.state /\ q.fault = r.fault
  BY <1>1 DEF Requests
<1>. HIDE DEF q
<1>4. PICK n \in 0 .. q.packets - q.received - q.outstanding :
        /\ inCache' = inCache \cup {<<d, NextPacket(q) + k>> : k \in 0 .. n - 1}
        /\ req' = [req EXCEPT ![d] =
              [q EXCEPT !.outstanding = @ + n,
                        !.flags = IF n = q.packets - q.received - q.outstanding
                                  THEN @ \cup {"Sent"} ELSE (@ \cup {"Retry"}) \ {"Sent"}]]
  BY DEF SendPackets, q
<1>. DEFINE fl  == IF n = q.packets - q.received - q.outstanding
                   THEN q.flags \cup {"Sent"} ELSE (q.flags \cup {"Retry"}) \ {"Sent"}
            now == [q EXCEPT !.outstanding = @ + n, !.flags = fl]
<1>5. /\ n \in 0 .. 2 /\ b + n <= Built(r) /\ NextPacket(q) = b + 1 /\ q.outstanding + n \in 0 .. 2
  <2>1. n \in 0 .. Built(r) - r.received - r.outstanding
    BY <1>3
  <2>2. n \in 0 .. 2 /\ b + n <= Built(r) /\ r.outstanding + n \in 0 .. 2
    BY <1>1, <1>2, <2>1
  <2>. QED  BY <2>2, <1>3 DEF NextPacket
<1>6. fl \in SUBSET Flags /\ \A x \in {"WritebackScheduled", "WritebackDone", "Complete", "Released"} :
                                x \in fl <=> x \in r.flags
  BY <1>3 DEF Requests, Flags
<1>7. req' = [req EXCEPT ![d] = now]
  BY <1>4
<1>. HIDE DEF fl
<1>8. /\ now \in Requests /\ now.inst = r.inst /\ now.flags = fl
      /\ now.outstanding = r.outstanding + n /\ now.received = r.received
      /\ now.packets = Built(r) /\ now.inTranslation = r.inTranslation
      /\ now.translated = r.translated /\ now.state = r.state /\ now.fault = r.fault
  BY <1>3, <1>5, <1>6 DEF Requests
<1>. HIDE DEF now
<1>9. req'[d] = now /\ req' = [req EXCEPT ![d] = req'[d]]
  BY <1>7 DEF Arrays
<1>10. \A f \in Fragments : f \in Out(d)' <=> f \in Out(d) \/ f \in b + 1 .. b + n
  <2>1. ASSUME NEW f \in Fragments
        PROVE  (\E k \in 0 .. n - 1 : <<d, f>> = <<d, b + 1 + k>>) <=> f \in b + 1 .. b + n
    <3>1. ASSUME f \in b + 1 .. b + n PROVE \E k \in 0 .. n - 1 : f = b + 1 + k
      <4>1. f - (b + 1) \in 0 .. n - 1 /\ f = b + 1 + (f - (b + 1))
        BY <3>1, <1>2, <1>5 DEF Fragments
      <4>. QED  BY <4>1
    <3>2. ASSUME NEW k \in 0 .. n - 1, f = b + 1 + k PROVE f \in b + 1 .. b + n
      BY <3>2, <1>2, <1>5
    <3>. QED  BY <3>1, <3>2
  <2>. HIDE DEF b
  <2>2. inCache' = inCache \cup {<<d, b + 1 + k>> : k \in 0 .. n - 1}
    BY <1>4, <1>5
  <2>. QED  BY <2>1, <2>2 DEF Out
<1>11. \A e \in Ids \ {d} : Out(e)' = Out(e)
  BY <1>4 DEF Out
<1>12. inCache' \subseteq Ids \X Fragments
  <2>1. \A k \in 0 .. n - 1 : b + 1 + k \in Fragments
    BY <1>1, <1>2, <1>5, SMTT(30) DEF Fragments
  <2>. HIDE DEF b
  <2>. QED  BY <2>1, <1>4, <1>5 DEF Arrays
<1>13. ~isReleased(r) /\ \A f \in Out(d) : f <= b
  BY DEF Sound, Owned, Sending
<1>14. Sending(now, Out(d)', fm)
  <2>1. Out(d) \in SUBSET Fragments /\ Out(d)' \in SUBSET Fragments
    BY DEF Out
  <2>2. r.outstanding = (IF 1 \in Out(d) THEN 1 ELSE 0) + (IF 2 \in Out(d) THEN 1 ELSE 0)
    BY <2>1, FewFragments DEF Sound, Sending
  <2>3. Cardinality(Out(d)') = (IF 1 \in Out(d)' THEN 1 ELSE 0) + (IF 2 \in Out(d)' THEN 1 ELSE 0)
    BY <2>1, FewFragments
  <2>4. /\ 1 \in Out(d)' <=> 1 \in Out(d) \/ 1 \in b + 1 .. b + n
        /\ 2 \in Out(d)' <=> 2 \in Out(d) \/ 2 \in b + 1 .. b + n
    BY <1>10 DEF Fragments
  <2>5. now.outstanding = Cardinality(Out(d)')
    <3>1. /\ 1 \in Out(d) => 1 <= b
          /\ 2 \in Out(d) => 2 <= b
      BY <1>13
    <3>. HIDE DEF b
    <3>2. b \in 0 .. 2 /\ n \in 0 .. 2 /\ b + n <= 2
      BY <1>1, <1>2, <1>5
    <3>3. /\ 1 \in b + 1 .. b + n <=> b = 0 /\ n >= 1
          /\ 2 \in b + 1 .. b + n <=> (b = 0 /\ n = 2) \/ (b = 1 /\ n = 1)
      BY <3>2
    <3>. QED  BY <2>2, <2>3, <2>4, <3>1, <3>2, <3>3, <1>2, <1>8
  <2>6. now.packets = IF now.fault = {} THEN Cardinality(FragmentsOf(fm)) ELSE 1
    BY <1>1, <1>8
  <2>7. now.received + now.outstanding <= now.packets
    BY <1>2, <1>5, <1>8
  <2>8. "Complete" \in now.flags => now.packets > 0 /\ now.received = now.packets
    <3>1. "Complete" \in now.flags => r.packets > 0 /\ r.received = r.packets
      BY <1>6, <1>8 DEF Sound, Sending
    <3>. QED  BY <3>1, <1>1, <1>2, <1>8
  <2>9. \A f \in Out(d)' : f <= now.received + now.outstanding
    <3>1. now.received + now.outstanding = b + n
      BY <1>2, <1>5, <1>8
    <3>2. \A f \in Out(d)' : f \in Fragments /\ (f \in Out(d) \/ f \in b + 1 .. b + n)
      BY <1>10, <2>1
    <3>. HIDE DEF b
    <3>. QED  BY <3>1, <3>2, <1>13, <1>2, <1>5 DEF Fragments
  <2>. QED  BY <2>5, <2>6, <2>7, <2>8, <2>9 DEF Sending
<1>15. ASSUME NEW p2
       PROVE  Sound(d, now, {}, Out(d)', Ev(d), fm, p2, d, d)
  <2>1. Translating(now, {}, fm)
    BY <1>8 DEF Sound, Translating
  <2>2. Forwarding(d, now, Ev(d), fm, p2, d)
    BY <1>6, <1>8 DEF Sound, Forwarding
  <2>3. Owned(d, now, p2, d)
    BY <1>6, <1>8, <1>13 DEF Owned, isReleased
  <2>. QED  BY <1>14, <2>1, <2>2, <2>3 DEF Sound
<1>. QED  BY <1>8, <1>9, <1>11, <1>12, <1>15

\* A request that its entry lets go, and that stays, is the same but for a
\* flag.
LEMMA ReleaseType ==
  ASSUME NEW r \in Requests, release(r) # NoReq
  PROVE  /\ release(r) \in Requests /\ release(r).inst = r.inst
         /\ release(r).outstanding = r.outstanding
         /\ release(r).flags = r.flags \cup {"Released"}
         /\ isReleased(release(r))
<1>1. release(r) = [r EXCEPT !.flags = @ \cup {"Released"}]
  BY DEF release
<1>2. r.flags \cup {"Released"} \in SUBSET Flags
  BY DEF Requests, Flags
<1>. QED  BY <1>1, <1>2 DEF Requests, isReleased

\* It is deleted only with nothing out.
LEMMA ReleaseLast ==
  ASSUME NEW d \in Ids, NEW r \in Requests, NEW in, NEW out \in SUBSET Fragments, NEW ev,
         NEW fm, NEW p, NEW sv, NEW en,
         Sound(d, r, in, out, ev, fm, p, sv, en), release(r) = NoReq
  PROVE  in = {} /\ out = {} /\ ev = {}
<1>1. ~isAnyOutstandingRequest(r)
  <2>1. CASE isAnyOutstandingRequest(r)
    <3>1. release(r) = [r EXCEPT !.flags = @ \cup {"Released"}]
      BY <2>1 DEF release
    <3>2. release(r).inst = r.inst
      BY <3>1 DEF Requests
    <3>. QED  BY <3>2, Sorts DEF NoReq, Requests
  <2>. QED  BY <2>1
<1>2. in = {}
  BY <1>1 DEF isAnyOutstandingRequest, Sound, Translating
<1>3. r.outstanding = 0
  BY <1>1 DEF isAnyOutstandingRequest, Requests
<1>4. Cardinality(out) = 0
  BY <1>3 DEF Sound, Sending
<1>5. 1 \notin out /\ 2 \notin out
  BY <1>4, FewFragments
<1>6. ev = {}
  BY <1>1 DEF isAnyOutstandingRequest, Sound, Forwarding
<1>. QED  BY <1>2, <1>5, <1>6 DEF Fragments

\* It is sound without its entry.
LEMMA ReleaseSound ==
  ASSUME NEW d \in Ids, NEW r \in Requests, NEW in, NEW out \in SUBSET Fragments, NEW ev,
         NEW fm, NEW p, NEW sv, NEW en, NEW p2, NEW en2,
         Sound(d, r, in, out, ev, fm, p, sv, en), en2 # d,
         "WritebackScheduled" \in r.flags => p2 \notin Waiting,
         in # {} => p2 = "squashed", release(r) # NoReq
  PROVE  Sound(d, release(r), in, out, ev, fm, p2, sv, en2)
<1>. DEFINE q == release(r)
<1>1. isAnyOutstandingRequest(r) /\ q = [r EXCEPT !.flags = @ \cup {"Released"}]
  BY DEF release
<1>2. /\ q.flags = r.flags \cup {"Released"} /\ q.inTranslation = r.inTranslation
      /\ q.translated = r.translated /\ q.state = r.state /\ q.packets = r.packets
      /\ q.outstanding = r.outstanding /\ q.received = r.received /\ q.fault = r.fault
  BY <1>1 DEF Requests
<1>. HIDE DEF q
<1>3. Translating(q, in, fm)
  BY <1>2 DEF Sound, Translating
<1>4. Sending(q, out, fm)
  BY <1>2 DEF Sound, Sending, isReleased
<1>5. Forwarding(d, q, ev, fm, p2, sv)
  BY <1>2 DEF Sound, Forwarding, isReleased
<1>6. Owned(d, q, p2, en2)
  <2>1. isReleased(q) /\ isAnyOutstandingRequest(q)
    BY <1>1, <1>2 DEF isReleased, isAnyOutstandingRequest
  <2>2. q.inTranslation # {} => p2 = "squashed"
    BY <1>2 DEF Sound, Translating
  <2>. QED  BY <2>1, <2>2 DEF Owned
<1>. QED  BY <1>3, <1>4, <1>5, <1>6 DEF Sound, q

\* Soundness of a request depends on its instruction's phase and on its
\* flags only as far as these say.
LEMMA SoundInPhase ==
  ASSUME NEW d, NEW r, NEW in, NEW out, NEW ev, NEW fm, NEW p, NEW sv, NEW en, NEW p2,
         Sound(d, r, in, out, ev, fm, p, sv, en),
         p = "squashed" => p2 = "squashed",
         p2 \in Waiting => p \in Waiting
  PROVE  Sound(d, r, in, out, ev, fm, p2, sv, en)
BY DEF Sound, Forwarding, Owned

\* A write-back is scheduled for a request with nothing out, or which its
\* entry lets go at once.
LEMMA ScheduleSound ==
  ASSUME NEW d \in Ids, NEW r \in Requests, NEW out, NEW fm \in Loads, NEW p, NEW sv, NEW en,
         NEW p2, NEW q,
         Sound(d, r, {}, out, {}, fm, p, sv, en), r.outstanding = 0,
         "WritebackScheduled" \notin r.flags, p2 \notin Waiting, sv = d,
         q = [r EXCEPT !.flags = @ \cup {"WritebackScheduled"}]
  PROVE  q \in Requests /\ q.inst = r.inst /\ Sound(d, q, {}, out, {d}, fm, p2, sv, en)
<1>1. /\ q.flags = r.flags \cup {"WritebackScheduled"} /\ q.inTranslation = r.inTranslation
      /\ q.translated = r.translated /\ q.state = r.state /\ q.packets = r.packets
      /\ q.outstanding = r.outstanding /\ q.received = r.received /\ q.fault = r.fault
      /\ q.inst = r.inst
  BY DEF Requests
<1>2. q \in Requests
  <2>1. r.flags \cup {"WritebackScheduled"} \in SUBSET Flags
    BY DEF Requests, Flags
  <2>. QED  BY <2>1 DEF Requests
<1>3. Translating(q, {}, fm)
  BY <1>1 DEF Sound, Translating
<1>4. Sending(q, out, fm)
  BY <1>1 DEF Sound, Sending, isReleased
<1>5. Forwarding(d, q, {d}, fm, p2, sv)
  BY <1>1 DEF Sound, Forwarding, isReleased
<1>6. Owned(d, q, p2, en)
  <2>1. isReleased(q) <=> isReleased(r)
    BY <1>1 DEF isReleased
  <2>2. isAnyOutstandingRequest(q)
    BY <1>1 DEF isAnyOutstandingRequest, Sound, Forwarding
  <2>. QED  BY <1>1, <2>1, <2>2 DEF Owned, Sound, Translating
<1>. QED  BY <1>1, <1>2, <1>3, <1>4, <1>5, <1>6 DEF Sound

-----------------------------------------------------------------------------
(* Which steps keep the invariant's parts.                                 *)

\* No request but d belongs to instruction i.
Alone(i, d) ==
  /\ req[d] # NoReq => req[d].inst = i
  /\ \A e \in Ids : req[e] # NoReq /\ req[e].inst = i => e = d

\* A step that is about the request d and the instruction i alone.
Touches(i, d) ==
  /\ form' = form
  /\ phase' = [phase EXCEPT ![i] = phase'[i]] /\ phase'[i] \in Phases
  /\ started' = [started EXCEPT ![i] = started'[i]] /\ started' \in [Insts -> BOOLEAN]
  /\ saved' = [saved EXCEPT ![i] = saved'[i]] /\ saved'[i] \in Ids \cup {NoId}
  /\ entry' = [entry EXCEPT ![i] = entry'[i]] /\ entry'[i] \in Ids \cup {NoId}
  /\ req' = [req EXCEPT ![d] = req'[d]]
  /\ req'[d] = NoReq \/ (req'[d] \in Requests /\ req'[d].inst = i)
  /\ \A e \in Ids \ {d} : In(e)' = In(e) /\ Out(e)' = Out(e) /\ Ev(e)' = Ev(e)

\* Such a step keeps what is true of all requests and instructions when it
\* keeps it of these two.
LEMMA OneRequestStep ==
  ASSUME Arrays, Requested, NEW i \in Insts, NEW d \in Ids, Alone(i, d), Touches(i, d),
         before' \in [Insts -> BOOLEAN],
         mmu' \subseteq Ids \X Fragments, inCache' \subseteq Ids \X Fragments,
         wbEvent' \subseteq Ids, RequestOK(d)', InstOK(i)'
  PROVE  Arrays' /\ Requested'
<1>1. Arrays'
  <2>1. /\ form' \in [Insts -> AllForms] /\ phase' \in [Insts -> Phases]
        /\ saved' \in [Insts -> Ids \cup {NoId}] /\ entry' \in [Insts -> Ids \cup {NoId}]
    BY DEF Arrays, Touches
  <2>2. req' \in [Ids -> Requests \cup {NoReq}]
    BY DEF Arrays, Touches
  <2>. QED  BY <2>1, <2>2 DEF Arrays, Touches
<1>2. \A e \in Ids \ {d} : req'[e] = req[e]
  BY DEF Arrays, Touches
<1>3. /\ \A j \in Insts \ {i} : /\ form'[j] = form[j] /\ phase'[j] = phase[j]
                               /\ saved'[j] = saved[j] /\ entry'[j] = entry[j]
      /\ \A j \in Insts \ {i} : started'[j] = started[j]
  BY DEF Arrays, Touches
<1>4. ASSUME NEW e \in Ids PROVE RequestOK(e)'
  <2>1. CASE e = d
    BY <2>1
  <2>2. CASE e # d /\ req[e] = NoReq
    BY <2>2, <1>2 DEF Touches, Requested, RequestOK
  <2>3. CASE e # d /\ req[e] # NoReq
    <3>. DEFINE j == req[e].inst
    <3>1. j \in Insts \ {i} /\ req'[e] = req[e] /\ RequestOK(e)
      BY <2>3, <1>2 DEF Alone, Arrays, Requests, Requested
    <3>2. /\ form'[j] = form[j] /\ phase'[j] = phase[j] /\ started'[j] = started[j]
          /\ saved'[j] = saved[j] /\ entry'[j] = entry[j]
      BY <3>1, <1>3
    <3>3. In(e)' = In(e) /\ Out(e)' = Out(e) /\ Ev(e)' = Ev(e)
      BY <2>3 DEF Touches
    <3>. QED  BY <2>3, <3>1, <3>2, <3>3 DEF RequestOK
  <2>. QED  BY <2>1, <2>2, <2>3
<1>5. ASSUME NEW j \in Insts PROVE InstOK(j)'
  <2>1. CASE j = i
    BY <2>1
  <2>2. CASE j # i
    <3>1. InstOK(j) /\ (entry[j] # NoId => entry[j] \in Ids)
      BY DEF Requested, Arrays
    <3>2. entry[j] # NoId => entry[j] # d
      BY <2>2, <3>1 DEF InstOK, Alone
    <3>3. entry[j] # NoId => req'[entry[j]] = req[entry[j]]
      BY <3>1, <3>2, <1>2
    <3>4. Pending(j)' <=> Pending(j)
      BY <2>2, <1>3 DEF Pending
    <3>. QED  BY <2>2, <1>3, <3>1, <3>3, <3>4 DEF InstOK
  <2>. QED  BY <2>1, <2>2
<1>6. OneEach'
  <2>1. ASSUME NEW e \in Ids, NEW g \in Ids, req'[e] # NoReq, req'[g] # NoReq,
               req'[e].inst = req'[g].inst
        PROVE  e = g
    <3>1. CASE e # d /\ g # d
      BY <3>1, <2>1, <1>2 DEF Requested, OneEach, Live
    <3>2. CASE e = d /\ g # d
      BY <3>2, <2>1, <1>2 DEF Alone, Touches
    <3>3. CASE e # d /\ g = d
      BY <3>3, <2>1, <1>2 DEF Alone, Touches
    <3>. QED  BY <3>1, <3>2, <3>3
  <2>. QED  BY <2>1 DEF OneEach, Live
<1>. QED  BY <1>1, <1>4, <1>5, <1>6 DEF Requested

\* A step that only moves instructions, out of execution or on to it.
LEMMA PhaseStep ==
  ASSUME Arrays, Requested, phase' \in [Insts -> Phases],
         UNCHANGED <<form, started, ptrVars, reqVars, before>>,
         \A j \in Insts :
            /\ phase[j] = "squashed" => phase'[j] = "squashed"
            /\ phase[j] = "violation" => phase'[j] \in {"violation", "squashed"}
            /\ phase[j] = "deferred" => phase'[j] \in {"deferred", "squashed"}
            /\ phase'[j] \in Waiting => phase[j] \in Waiting \cup {"none"}
            /\ phase'[j] = "none" => phase[j] = "none"
            /\ Pending(j)' => Pending(j)
  PROVE  Arrays' /\ Requested'
<1>1. Arrays'
  BY DEF Arrays, ptrVars, reqVars
<1>2. /\ form' = form /\ started' = started /\ saved' = saved /\ entry' = entry
      /\ req' = req /\ \A d : In(d)' = In(d) /\ Out(d)' = Out(d) /\ Ev(d)' = Ev(d)
  BY DEF ptrVars, reqVars, In, Out, Ev
<1>3. ASSUME NEW d \in Ids PROVE RequestOK(d)'
  <2>. DEFINE i == req[d].inst
  <2>1. RequestOK(d)
    BY DEF Requested
  <2>2. CASE req[d] = NoReq
    BY <2>1, <2>2, <1>2 DEF RequestOK
  <2>3. CASE req[d] # NoReq
    <3>1. i \in Insts /\ InstOK(i)
      BY <2>3 DEF Arrays, Requests, Requested
    <3>2. phase[i] # "none"
      BY <2>1, <2>3, <3>1 DEF RequestOK, InstOK
    <3>3. phase'[i] \in Waiting => phase[i] \in Waiting
      BY <3>1, <3>2
    <3>4. Sound(d, req[d], In(d), Out(d), Ev(d), form[i], phase'[i], saved[i], entry[i])
      BY <2>1, <2>3, <3>1, <3>3, SoundInPhase DEF RequestOK
    <3>5. started[i] \/ (isReleased(req[d]) /\ phase'[i] \in {"violation", "squashed"})
      BY <2>1, <2>3, <3>1 DEF RequestOK
    <3>6. In(d) # {} => phase'[i] \in {"deferred", "squashed"}
      BY <2>1, <2>3, <3>1 DEF RequestOK
    <3>. QED  BY <2>3, <3>4, <3>5, <3>6, <1>2 DEF RequestOK
  <2>. QED  BY <2>2, <2>3
<1>4. ASSUME NEW j \in Insts PROVE InstOK(j)'
  <2>1. InstOK(j)
    BY DEF Requested
  <2>2. phase'[j] \in Waiting => phase[j] \in Waiting \cup {"none"}
    OBVIOUS
  <2>. QED  BY <2>1, <2>2, <1>2 DEF InstOK
<1>5. OneEach'
  BY <1>2 DEF Requested, OneEach, Live
<1>. QED  BY <1>1, <1>3, <1>4, <1>5 DEF Requested

\* A step that blocks no load and leaves the ports alone.
LEMMA BlocksNone ==
  ASSUME BlockedIsAwaited, UNCHANGED portVars,
         \A j \in Insts : phase'[j] = "blocked" => phase[j] = "blocked"
  PROVE  BlockedIsAwaited'
BY DEF BlockedIsAwaited, portVars

-----------------------------------------------------------------------------
(* Access: what becomes of a request that is looked at in pushRequest.     *)

\* The state in which Access finds instruction i with its request, which
\* has the value r after what the MMU answers in this step.
Offered(i, d, r) ==
  /\ form' = form
  /\ \A e \in Ids \ {d} : In(e)' = In(e)
  /\ r \in Requests /\ r.inst = i /\ phase[i] \in Waiting
  /\ Sound(d, r, In(d)', Out(d), Ev(d), form[i], phase[i], d, d)
  /\ r.outstanding > 0 => started[i] /\ saved[i] = d

\* Such a request has no write-back and its entry, and a translation that
\* is complete has no fragment at the MMU.
LEMMA OfferedFacts ==
  ASSUME Arrays, NEW i \in Insts, NEW d \in Ids, NEW r, Offered(i, d, r)
  PROVE  /\ "WritebackScheduled" \notin r.flags /\ Ev(d) = {} /\ ~isReleased(r)
         /\ isTranslationComplete(r) => In(d)' = {}
         /\ form[i] = "localLoad" => r.outstanding = 0
         /\ r.outstanding \in Nat
<1>1. "WritebackScheduled" \notin r.flags
  BY DEF Offered, Sound, Forwarding
<1>2. Ev(d) = {}
  BY <1>1 DEF Offered, Sound, Forwarding
<1>3. ~isReleased(r)
  BY DEF Offered, Sound, Owned
<1>4. isTranslationComplete(r) => In(d)' = {}
  BY DEF Offered, Sound, Translating, isTranslationComplete
<1>5. r.outstanding \in Nat /\ r.received \in Nat
  BY DEF Offered, Requests
<1>6. form[i] = "localLoad" => r.outstanding = 0
  BY <1>5 DEF Offered, Sound, Sending
<1>. QED  BY <1>1, <1>2, <1>3, <1>4, <1>5, <1>6

\* The request that keeps its entry.
LEMMA KeepsEntry ==
  ASSUME Arrays, NEW i \in Insts, NEW d \in Ids, form' = form,
         req'[d] \in Requests, req'[d].inst = i,
         started' = [started EXCEPT ![i] = TRUE],
         saved' = [saved EXCEPT ![i] = d], entry' = [entry EXCEPT ![i] = d],
         Sound(d, req'[d], In(d)', Out(d)', Ev(d)', form[i], phase'[i], d, d),
         In(d)' # {} => phase'[i] = "deferred", phase'[i] # "none"
  PROVE  RequestOK(d)' /\ InstOK(i)'
<1>1. started'[i] /\ saved'[i] = d /\ entry'[i] = d
  BY DEF Arrays
<1>2. req'[d] # NoReq
  BY NoReqIsNone
<1>3. RequestOK(d)'
  BY <1>1, <1>2 DEF RequestOK
<1>4. InstOK(i)'
  BY <1>1, <1>2, Sorts DEF InstOK
<1>. QED  BY <1>3, <1>4

\* deferMemInst, a store, or a fault.
LEMMA AccessLater ==
  ASSUME Arrays, NEW i \in Insts, NEW d \in Ids, NEW r, Offered(i, d, r),
         NEW p \in {"deferred", "executed", "faulted"}, MoveTo(i, p),
         In(d)' # {} => p = "deferred", req' = [req EXCEPT ![d] = r],
         started' = [started EXCEPT ![i] = TRUE],
         saved' = [saved EXCEPT ![i] = d], entry' = [entry EXCEPT ![i] = d],
         UNCHANGED <<inCache, wbEvent>>
  PROVE  Touches(i, d) /\ RequestOK(d)' /\ InstOK(i)'
<1>1. phase'[i] = p /\ req'[d] = r /\ p \in Phases
  BY DEF MoveTo, Arrays, Phases
<1>2. \A e : Out(e)' = Out(e) /\ Ev(e)' = Ev(e)
  BY DEF Out, Ev
<1>3. Sound(d, r, In(d)', Out(d), Ev(d), form[i], p, d, d)
  BY SoundInPhase DEF Offered, Waiting
<1>4. RequestOK(d)' /\ InstOK(i)'
  BY <1>1, <1>2, <1>3, KeepsEntry DEF Offered
<1>5. Touches(i, d)
  BY <1>1, <1>2 DEF Touches, Arrays, Offered, MoveTo
<1>. QED  BY <1>4, <1>5

\* The write-back of a request with nothing out is scheduled.
LEMMA AccessNow ==
  ASSUME Arrays, NEW i \in Insts, NEW d \in Ids, NEW r, Offered(i, d, r),
         In(d)' = {}, r.outstanding = 0, form[i] \in Loads, MoveTo(i, "memory"),
         req' = [req EXCEPT ![d] = [r EXCEPT !.flags = @ \cup {"WritebackScheduled"}]],
         wbEvent' = wbEvent \cup {d},
         started' = [started EXCEPT ![i] = TRUE],
         saved' = [saved EXCEPT ![i] = d], entry' = [entry EXCEPT ![i] = d],
         UNCHANGED inCache
  PROVE  Touches(i, d) /\ RequestOK(d)' /\ InstOK(i)'
<1>1. phase'[i] = "memory" /\ "memory" \in Phases /\ "memory" \notin Waiting
      /\ req'[d] = [r EXCEPT !.flags = @ \cup {"WritebackScheduled"}]
  BY DEF MoveTo, Arrays, Phases, Waiting
<1>2. Ev(d)' = {d} /\ \A e : Out(e)' = Out(e) /\ (e # d => Ev(e)' = Ev(e))
  BY DEF Out, Ev
<1>3. r \in Requests /\ r.inst = i /\ Ev(d) = {} /\ "WritebackScheduled" \notin r.flags
  BY OfferedFacts DEF Offered
<1>4. Sound(d, r, {}, Out(d), {}, form[i], phase[i], d, d)
  BY <1>3 DEF Offered
<1>5. req'[d] \in Requests /\ req'[d].inst = i
      /\ Sound(d, req'[d], {}, Out(d), {d}, form[i], "memory", d, d)
  <2>1. ASSUME NEW q, q = [r EXCEPT !.flags = @ \cup {"WritebackScheduled"}]
        PROVE  q \in Requests /\ q.inst = i
               /\ Sound(d, q, {}, Out(d), {d}, form[i], "memory", d, d)
    BY <1>1, <1>3, <1>4, <2>1, ScheduleSound, SMTT(30)
  <2>. QED  BY <2>1, <1>1
<1>6. RequestOK(d)' /\ InstOK(i)'
  BY <1>1, <1>2, <1>5, KeepsEntry DEF Offered
<1>7. Touches(i, d)
  BY <1>1, <1>2, <1>5 DEF Touches, Arrays, Offered, MoveTo
<1>. QED  BY <1>6, <1>7

\* Packets are sent.
LEMMA AccessSend ==
  ASSUME Arrays, Others, NEW i \in Insts, NEW d \in Ids, NEW r, Offered(i, d, r),
         In(d)' = {}, SendLoad(i, d, r),
         started' = [started EXCEPT ![i] = TRUE],
         saved' = [saved EXCEPT ![i] = d], entry' = [entry EXCEPT ![i] = d]
  PROVE  Touches(i, d) /\ RequestOK(d)' /\ InstOK(i)' /\ inCache' \subseteq Ids \X Fragments
<1>1. phase'[i] \in {"memory", "blocked"} /\ phase' = [phase EXCEPT ![i] = phase'[i]]
  BY DEF SendLoad, MoveTo, Arrays
<1>2. \A e : Ev(e)' = Ev(e)
  BY DEF SendLoad, Ev
<1>3. /\ r \in Requests /\ r.inst = i /\ "WritebackScheduled" \notin r.flags
      /\ form[i] # "localLoad" /\ LoadPorts \in Nat /\ usedLoadPorts \in Nat
  <2>1. LoadPorts \in Nat /\ usedLoadPorts \in Nat
    BY Sorts DEF Others
  <2>2. "WritebackScheduled" \notin r.flags
    BY OfferedFacts
  <2>. QED  BY <2>1, <2>2 DEF Offered, SendLoad
<1>4. Sound(d, r, {}, Out(d), Ev(d), form[r.inst], phase[i], d, d)
  BY <1>3 DEF Offered
<1>5. SendPackets(d, [r EXCEPT !.packets = Built(r)], usedLoadPorts, LoadPorts)
  BY DEF SendLoad
<1>6. /\ req' = [req EXCEPT ![d] = req'[d]]
      /\ req'[d] \in Requests /\ req'[d].inst = r.inst
      /\ \A q : Sound(d, req'[d], {}, Out(d)', Ev(d), form[r.inst], q, d, d)
      /\ \A e \in Ids \ {d} : Out(e)' = Out(e)
      /\ inCache' \subseteq Ids \X Fragments
  BY <1>3, <1>4, <1>5, SendSound
<1>7. Sound(d, req'[d], In(d)', Out(d)', Ev(d)', form[i], phase'[i], d, d)
  BY <1>2, <1>3, <1>6
<1>8. RequestOK(d)' /\ InstOK(i)'
  BY <1>1, <1>3, <1>6, <1>7, KeepsEntry DEF Offered
<1>9. Touches(i, d)
  BY <1>1, <1>2, <1>3, <1>6 DEF Touches, Arrays, Offered, Phases
<1>. QED  BY <1>6, <1>8, <1>9

\* A forwarded load that had sent packets lets its request go at once.
LEMMA AccessForwarded ==
  ASSUME Arrays, NEW i \in Insts, NEW d \in Ids, NEW r, Offered(i, d, r),
         In(d)' = {}, r.outstanding > 0, form[i] \in Loads, MoveTo(i, "memory"),
         NEW r1, r1 = [r EXCEPT !.flags = @ \cup {"WritebackScheduled"}],
         req' = [req EXCEPT ![d] = release(r1)],
         wbEvent' = wbEvent \cup {d}, entry' = [entry EXCEPT ![i] = NoId],
         UNCHANGED <<saved, started, inCache>>
  PROVE  Touches(i, d) /\ RequestOK(d)' /\ InstOK(i)'
<1>1. phase'[i] = "memory" /\ "memory" \in Phases /\ "memory" \notin Waiting
      /\ req'[d] = release(r1) /\ entry'[i] = NoId
  BY DEF MoveTo, Arrays, Phases, Waiting
<1>2. Ev(d)' = {d} /\ \A e : Out(e)' = Out(e) /\ (e # d => Ev(e)' = Ev(e))
  BY DEF Out, Ev
<1>3. /\ r \in Requests /\ r.inst = i /\ Ev(d) = {} /\ "WritebackScheduled" \notin r.flags
      /\ started[i] /\ saved[i] = d
      /\ Sound(d, r, {}, Out(d), {}, form[i], phase[i], d, d)
  BY OfferedFacts DEF Offered
<1>4. r1 \in Requests /\ r1.inst = i /\ r1.flags = r.flags \cup {"WritebackScheduled"}
      /\ r1.inTranslation = r.inTranslation /\ r1.translated = r.translated
      /\ r1.state = r.state /\ r1.packets = r.packets /\ r1.fault = r.fault
      /\ r1.outstanding = r.outstanding /\ r1.received = r.received
  <2>1. r.flags \cup {"WritebackScheduled"} \in SUBSET Flags
    BY <1>3 DEF Requests, Flags
  <2>. QED  BY <1>3, <2>1 DEF Requests
<1>. DEFINE q == release(r1)
<1>5. q = [r1 EXCEPT !.flags = @ \cup {"Released"}]
  BY <1>4 DEF release, isAnyOutstandingRequest
<1>6. /\ q \in Requests /\ q.inst = i /\ q.inTranslation = r.inTranslation
      /\ q.flags = r.flags \cup {"WritebackScheduled"} \cup {"Released"}
      /\ q.translated = r.translated /\ q.state = r.state /\ q.packets = r.packets
      /\ q.fault = r.fault /\ q.outstanding = r.outstanding /\ q.received = r.received
  <2>1. r1.flags \cup {"Released"} \in SUBSET Flags
    BY <1>4 DEF Requests, Flags
  <2>. HIDE DEF q
  <2>. QED  BY <1>4, <1>5, <2>1 DEF Requests
<1>. HIDE DEF q
<1>7. Sound(d, q, {}, Out(d), {d}, form[i], "memory", d, NoId)
  <2>1. Translating(q, {}, form[i])
    BY <1>3, <1>6 DEF Sound, Translating
  <2>2. Sending(q, Out(d), form[i])
    BY <1>3, <1>6 DEF Sound, Sending, isReleased
  <2>3. Forwarding(d, q, {d}, form[i], "memory", d)
    BY <1>3, <1>6 DEF Sound, Forwarding, Waiting, isReleased
  <2>4. Owned(d, q, "memory", NoId)
    <3>1. isAnyOutstandingRequest(q)
      BY <1>6 DEF isAnyOutstandingRequest
    <3>. QED  BY <1>3, <1>6, <3>1, Sorts DEF Owned, isReleased, Sound, Translating
  <2>. QED  BY <2>1, <2>2, <2>3, <2>4 DEF Sound
<1>8. req'[d] = q
  BY <1>1 DEF q
<1>9. RequestOK(d)'
  <2>1. /\ req'[d] # NoReq /\ req'[d].inst = i /\ form'[i] = form[i] /\ started'[i]
        /\ saved'[i] = d
    BY <1>3, <1>6, <1>8, NoReqIsNone DEF Offered
  <2>. QED  BY <1>1, <1>2, <1>7, <1>8, <2>1 DEF RequestOK
<1>10. InstOK(i)'
  <2>1. ~Pending(i)'
    BY <1>1 DEF Pending
  <2>. QED  BY <1>1, <2>1 DEF InstOK
<1>11. Touches(i, d)
  BY <1>1, <1>2, <1>6, <1>8 DEF Touches, Arrays, Offered, MoveTo
<1>. QED  BY <1>9, <1>10, <1>11

\* A load that has to come again with a new request: the old one goes, or
\* stays until its packets are answered and the load waits for its squash.
LEMMA AccessRescheduled ==
  ASSUME Arrays, NEW i \in Insts, NEW d \in Ids, NEW r, Offered(i, d, r),
         In(d)' = {}, Reschedule(i, d, r),
         entry' = [entry EXCEPT ![i] = NoId], started' = [started EXCEPT ![i] = FALSE],
         saved' = IF r.outstanding = 0 THEN [saved EXCEPT ![i] = NoId]
                  ELSE [saved EXCEPT ![i] = d]
  PROVE  Touches(i, d) /\ RequestOK(d)' /\ InstOK(i)'
<1>1. /\ phase'[i] = (IF r.outstanding = 0 THEN "stalled" ELSE "violation")
      /\ phase' = [phase EXCEPT ![i] = phase'[i]]
      /\ req'[d] = release(r) /\ req' = [req EXCEPT ![d] = release(r)]
      /\ entry'[i] = NoId /\ ~started'[i] /\ saved'[i] \in {d, NoId}
  BY DEF Reschedule, MoveTo, Arrays
<1>2. \A e : Out(e)' = Out(e) /\ Ev(e)' = Ev(e)
  BY DEF Reschedule, Out, Ev
<1>3. /\ r \in Requests /\ r.inst = i /\ Ev(d) = {} /\ "WritebackScheduled" \notin r.flags
      /\ Sound(d, r, {}, Out(d), {}, form[i], phase[i], d, d)
      /\ r.inTranslation = {} /\ r.outstanding \in Nat /\ NoId # d
  <2>1. /\ r \in Requests /\ r.inst = i /\ Ev(d) = {} /\ "WritebackScheduled" \notin r.flags
        /\ Sound(d, r, {}, Out(d), {}, form[i], phase[i], d, d)
    BY OfferedFacts DEF Offered
  <2>2. r.inTranslation = {}
    BY <2>1 DEF Sound, Translating
  <2>. QED  BY <2>1, <2>2, OfferedFacts, Sorts
<1>4. InstOK(i)'
  <2>1. ~Pending(i)'
    BY <1>1 DEF Pending
  <2>. QED  BY <1>1, <2>1 DEF InstOK
<1>5. Out(d) \in SUBSET Fragments
  BY DEF Out
<1>6. CASE r.outstanding = 0
  <2>1. release(r) = NoReq
    BY <1>3, <1>6 DEF release, isAnyOutstandingRequest
  <2>2. Out(d) = {}
    <3>1. Cardinality(Out(d)) = 0
      BY <1>3, <1>6 DEF Sound, Sending
    <3>2. 1 \notin Out(d) /\ 2 \notin Out(d)
      BY <1>5, <3>1, FewFragments
    <3>. QED  BY <1>5, <3>2 DEF Fragments
  <2>3. RequestOK(d)'
    BY <1>1, <1>2, <1>3, <2>1, <2>2 DEF RequestOK
  <2>4. Touches(i, d)
    BY <1>1, <1>2, <1>3, <1>6, <2>1 DEF Touches, Arrays, Offered, Phases
  <2>. QED  BY <1>4, <2>3, <2>4
<1>7. CASE r.outstanding > 0
  <2>1. isAnyOutstandingRequest(r)
    BY <1>7 DEF isAnyOutstandingRequest
  <2>2. release(r) = [r EXCEPT !.flags = @ \cup {"Released"}]
    BY <2>1 DEF release
  <2>3. release(r).inst = i
    BY <2>2, <1>3 DEF Requests
  <2>4. release(r) # NoReq
    BY <2>3, Sorts DEF NoReq
  <2>5. release(r) \in Requests /\ isReleased(release(r))
    BY <1>3, <2>4, ReleaseType
  <2>6. Sound(d, release(r), {}, Out(d), {}, form[i], "violation", d, NoId)
    BY <1>3, <1>5, <2>4, ReleaseSound
  <2>7. phase'[i] = "violation" /\ saved'[i] = d
    BY <1>1, <1>3, <1>7 DEF Arrays
  <2>8. RequestOK(d)'
    <3>1. req'[d] = release(r) /\ req'[d].inst = i /\ form'[i] = form[i]
      BY <1>1, <2>3 DEF Offered
    <3>. QED  BY <1>1, <1>2, <1>3, <2>4, <2>5, <2>6, <2>7, <3>1 DEF RequestOK
  <2>9. Touches(i, d)
    BY <1>1, <1>2, <1>3, <2>3, <2>5, <2>7 DEF Touches, Arrays, Offered, Phases
  <2>. QED  BY <1>4, <2>8, <2>9
<1>. QED  BY <1>3, <1>6, <1>7

\* Whatever comes of it, Access leaves the request and its instruction as
\* the invariant wants them.
LEMMA AccessSound ==
  ASSUME Arrays, Others, NEW i \in Insts, NEW d \in Ids, NEW r, Offered(i, d, r),
         Access(i, d, r)
  PROVE  /\ Touches(i, d) /\ RequestOK(d)' /\ InstOK(i)'
         /\ inCache' \subseteq Ids \X Fragments /\ wbEvent' \subseteq Ids
<1>0. inCache \subseteq Ids \X Fragments /\ wbEvent \subseteq Ids
  BY DEF Arrays
<1>1. CASE /\ MoveTo(i, "deferred") /\ req' = [req EXCEPT ![d] = r]
           /\ entry' = [entry EXCEPT ![i] = d] /\ saved' = [saved EXCEPT ![i] = d]
           /\ started' = [started EXCEPT ![i] = TRUE]
           /\ UNCHANGED <<inCache, wbEvent, portVars, owed>>
  <2>1. UNCHANGED <<inCache, wbEvent>>
    BY <1>1
  <2>. QED  BY <1>0, <1>1, <2>1, AccessLater
<1>2. CASE /\ isTranslationComplete(r)
           /\ MoveTo(i, IF isMemAccessRequired(r) THEN "executed" ELSE "faulted")
           /\ req' = [req EXCEPT ![d] = r]
           /\ entry' = [entry EXCEPT ![i] = d] /\ saved' = [saved EXCEPT ![i] = d]
           /\ started' = [started EXCEPT ![i] = TRUE]
           /\ UNCHANGED <<inCache, wbEvent, portVars, owed>>
  <2>1. UNCHANGED <<inCache, wbEvent>> /\ In(d)' = {}
    BY <1>2, OfferedFacts
  <2>2. MoveTo(i, "executed") \/ MoveTo(i, "faulted")
    BY <1>2
  <2>. QED  BY <1>0, <1>2, <2>1, <2>2, AccessLater
<1>3. CASE /\ isTranslationComplete(r) /\ isLoad(r)
           /\ \/ LocalAccess(i, d, r) \/ SendLoad(i, d, r)
              \/ r.outstanding = 0 /\ Forward(i, d, r)
           /\ entry' = [entry EXCEPT ![i] = d] /\ saved' = [saved EXCEPT ![i] = d]
           /\ started' = [started EXCEPT ![i] = TRUE]
  <2>0. In(d)' = {} /\ form[i] \in Loads
    BY <1>3, OfferedFacts DEF isLoad, FormOf, Offered
  <2>1. CASE LocalAccess(i, d, r)
    <3>1. r.outstanding = 0
      BY <2>1, OfferedFacts DEF LocalAccess
    <3>. QED  BY <1>0, <1>3, <2>0, <2>1, <3>1, AccessNow DEF LocalAccess
  <2>2. CASE SendLoad(i, d, r)
    <3>1. wbEvent' = wbEvent
      BY <2>2 DEF SendLoad
    <3>. QED  BY <1>0, <1>3, <2>0, <2>2, <3>1, AccessSend
  <2>3. CASE r.outstanding = 0 /\ Forward(i, d, r)
    <3>1. req' = [req EXCEPT ![d] = [r EXCEPT !.flags = @ \cup {"WritebackScheduled"}]]
      BY <2>3 DEF Forward
    <3>. QED  BY <1>0, <1>3, <2>0, <2>3, <3>1, AccessNow DEF Forward
  <2>. QED  BY <1>3, <2>1, <2>2, <2>3
<1>4. CASE /\ isTranslationComplete(r) /\ isLoad(r)
           /\ r.outstanding > 0 /\ Forward(i, d, r)
           /\ entry' = [entry EXCEPT ![i] = NoId] /\ UNCHANGED <<saved, started>>
  <2>0. In(d)' = {} /\ form[i] \in Loads
    BY <1>4, OfferedFacts DEF isLoad, FormOf, Offered
  <2>1. ASSUME NEW r1, r1 = [r EXCEPT !.flags = @ \cup {"WritebackScheduled"}]
        PROVE  Touches(i, d) /\ RequestOK(d)' /\ InstOK(i)'
    <3>1. /\ req' = [req EXCEPT ![d] = release(r1)] /\ MoveTo(i, "memory")
          /\ wbEvent' = wbEvent \cup {d} /\ UNCHANGED <<saved, started, inCache>>
      BY <1>4, <2>1 DEF Forward
    <3>. QED  BY <1>4, <2>0, <2>1, <3>1, AccessForwarded
  <2>2. inCache' = inCache /\ wbEvent' = wbEvent \cup {d}
    BY <1>4 DEF Forward
  <2>. QED  BY <1>0, <2>1, <2>2
<1>5. CASE /\ isTranslationComplete(r) /\ Reschedule(i, d, r)
           /\ entry' = [entry EXCEPT ![i] = NoId] /\ started' = [started EXCEPT ![i] = FALSE]
           /\ saved' = IF r.outstanding = 0 THEN [saved EXCEPT ![i] = NoId]
                       ELSE [saved EXCEPT ![i] = d]
  <2>1. In(d)' = {} /\ UNCHANGED <<inCache, wbEvent>>
    BY <1>5, OfferedFacts DEF Reschedule
  <2>. QED  BY <1>0, <1>5, <2>1, AccessRescheduled
<1>. QED  BY <1>1, <1>2, <1>3, <1>4, <1>5 DEF Access

\* Access keeps the ports in their bounds, and blocks a load only with a
\* refused packet or with no port left.
LEMMA AccessPorts ==
  ASSUME Arrays, Others, BlockedIsAwaited, NEW i \in Insts, NEW d \in Ids, NEW r,
         Offered(i, d, r), Access(i, d, r)
  PROVE  /\ usedLoadPorts' \in 0 .. LoadPorts /\ usedStorePorts' \in 0 .. StorePorts
         /\ cacheBlocked' \in BOOLEAN /\ owed' \in BOOLEAN /\ BlockedIsAwaited'
<1>1. CASE UNCHANGED <<portVars, owed>> /\ phase'[i] # "blocked"
           /\ \A j \in Insts \ {i} : phase'[j] = phase[j]
  <2>1. BlockedIsAwaited'
    BY <1>1, BlocksNone
  <2>. QED  BY <1>1, <2>1 DEF Others, portVars
<1>2. CASE SendLoad(i, d, r) /\ isLoad(r)
  <2>. DEFINE q == [r EXCEPT !.packets = Built(r)]
  <2>0. r \in Requests /\ r.inst = i /\ r.flags \in SUBSET Flags /\ r.outstanding \in Nat
    BY DEF Offered, Requests
  <2>1. q.inst = r.inst /\ q.flags = r.flags /\ q.outstanding = r.outstanding
    BY <2>0 DEF Requests
  <2>2. isLoad(q)
    BY <1>2, <2>1 DEF isLoad, FormOf
  <2>3. SendPackets(d, q, usedLoadPorts, LoadPorts)
    BY <1>2 DEF SendLoad
  <2>4. DOMAIN q = DOMAIN r /\ {"outstanding", "flags"} \subseteq DOMAIN r
    BY <2>0 DEF Requests
  <2>. HIDE DEF q
  <2>5. PICK n \in 0 .. q.packets - q.received - q.outstanding :
          LET all     == n = q.packets - q.received - q.outstanding
              refused == ~all /\ ~cacheBlocked /\ usedLoadPorts + n < LoadPorts IN
          /\ usedLoadPorts + n <= LoadPorts
          /\ cacheBlocked' = (cacheBlocked \/ refused)
          /\ req' = [req EXCEPT ![d] =
                 [q EXCEPT !.outstanding = @ + n,
                           !.flags = IF all THEN @ \cup {"Sent"}
                                     ELSE (@ \cup {"Retry"}) \ {"Sent"}]]
          /\ usedLoadPorts' = usedLoadPorts + n /\ UNCHANGED usedStorePorts
          /\ owed' = (owed /\ (n = 0 \/ ~q.isMemBarrier))
    BY <2>2, <2>3 DEF SendPackets
  <2>6. usedLoadPorts' \in 0 .. LoadPorts /\ usedStorePorts' \in 0 .. StorePorts
    BY <2>5, Sorts DEF Others
  <2>7. cacheBlocked' \in BOOLEAN /\ owed' \in BOOLEAN
    BY <2>5 DEF Others
  <2>8. BlockedIsAwaited'
    <3>1. CASE n = q.packets - q.received - q.outstanding
      <4>1. req'[d] = [q EXCEPT !.outstanding = @ + n, !.flags = @ \cup {"Sent"}]
        BY <2>5, <3>1 DEF Arrays
      <4>2. "Sent" \in req'[d].flags
        BY <4>1, <2>4
      <4>3. phase'[i] = "memory" /\ \A j \in Insts \ {i} : phase'[j] = phase[j]
        BY <1>2, <4>2 DEF SendLoad, AllSent, MoveTo, Arrays
      <4>4. n = 0 \/ n > 0
        OBVIOUS
      <4>5. \A j \in Insts : phase'[j] = "blocked" => phase[j] = "blocked"
        BY <4>3
      <4>6. usedLoadPorts = LoadPorts => usedLoadPorts' = LoadPorts
        BY <2>5, <2>6, Sorts DEF Others
      <4>7. cacheBlocked => cacheBlocked'
        BY <2>5
      <4>. QED  BY <4>5, <4>6, <4>7 DEF BlockedIsAwaited
    <3>2. CASE n # q.packets - q.received - q.outstanding
      <4>1. cacheBlocked' <=> cacheBlocked \/ usedLoadPorts + n < LoadPorts
        BY <2>5, <3>2
      <4>2. cacheBlocked' \/ usedLoadPorts' = LoadPorts
        BY <2>5, <4>1, Sorts DEF Others
      <4>. QED  BY <4>2 DEF BlockedIsAwaited
    <3>. QED  BY <3>1, <3>2
  <2>. QED  BY <2>6, <2>7, <2>8
<1>3. ASSUME NEW p \in {"deferred", "executed", "faulted", "memory", "stalled", "violation"},
             MoveTo(i, p)
      PROVE  phase'[i] # "blocked" /\ \A j \in Insts \ {i} : phase'[j] = phase[j]
  BY <1>3 DEF MoveTo, Arrays
<1>4. \/ SendLoad(i, d, r) /\ isLoad(r)
      \/ /\ UNCHANGED <<portVars, owed>>
         /\ \E p \in {"deferred", "executed", "faulted", "memory", "stalled", "violation"} :
               MoveTo(i, p)
  BY DEF Access, LocalAccess, Forward, Reschedule
<1>. QED  BY <1>1, <1>2, <1>3, <1>4

-----------------------------------------------------------------------------
(* The actions keep the invariant.                                         *)

\* An instruction that executeInsts is offered is waiting, and if its
\* translation has not started it has no request.
LEMMA ReadyFacts ==
  ASSUME IInv, NEW i \in Insts, Ready(i)
  PROVE  /\ phase[i] \in Waiting \ {"blocked"}
         /\ ~started[i] => \A e \in Ids : req[e] = NoReq \/ req[e].inst # i
         /\ started[i] => /\ saved[i] \in Ids /\ saved[i] = entry[i]
                          /\ req[saved[i]] # NoReq /\ req[saved[i]].inst = i
<1>1. phase[i] \in Waiting \ {"blocked"}
  BY DEF Ready, Waiting
<1>2. ASSUME ~started[i], NEW e \in Ids, req[e] # NoReq, req[e].inst = i PROVE FALSE
  BY <1>1, <1>2 DEF IInv, Requested, RequestOK, Waiting
<1>3. ASSUME started[i]
      PROVE  /\ saved[i] \in Ids /\ saved[i] = entry[i]
             /\ req[saved[i]] # NoReq /\ req[saved[i]].inst = i
  BY <1>1, <1>3 DEF IInv, Requested, InstOK, Arrays
<1>. QED  BY <1>1, <1>2, <1>3

\* A step in which pushRequest gets to Access keeps the invariant.
LEMMA AccessKeeps ==
  ASSUME IInv, NEW i \in Insts, NEW d \in Ids, NEW r, Offered(i, d, r), Access(i, d, r),
         Alone(i, d), ConsumeFlag(i), mmu' \subseteq Ids \X Fragments, UNCHANGED flushVars
  PROVE  IInv'
<1>1. Arrays /\ Requested /\ Others /\ BlockedIsAwaited
  BY DEF IInv
<1>2. before' \in [Insts -> BOOLEAN] /\ memoryBarrierExecuted' \in BOOLEAN
  BY <1>1 DEF ConsumeFlag, Arrays, Others
<1>3. /\ Touches(i, d) /\ RequestOK(d)' /\ InstOK(i)'
      /\ inCache' \subseteq Ids \X Fragments /\ wbEvent' \subseteq Ids
  BY <1>1, AccessSound
<1>4. Arrays' /\ Requested'
  BY <1>1, <1>2, <1>3, OneRequestStep
<1>5. /\ usedLoadPorts' \in 0 .. LoadPorts /\ usedStorePorts' \in 0 .. StorePorts
      /\ cacheBlocked' \in BOOLEAN /\ owed' \in BOOLEAN /\ BlockedIsAwaited'
  BY <1>1, AccessPorts
<1>6. Others'
  BY <1>1, <1>2, <1>5 DEF Others, flushVars
<1>. QED  BY <1>4, <1>5, <1>6 DEF IInv

\* pushRequest for the first time.
LEMMA ExecuteKeeps ==
  ASSUME IInv, NEW i \in Insts, Execute(i)
  PROVE  IInv'
<1>1. Arrays /\ Requested /\ Others
  BY DEF IInv
<1>2. /\ Ready(i) /\ ~started[i] /\ ConsumeFlag(i) /\ form' = form /\ UNCHANGED flushVars
  BY DEF Execute
<1>3. before' \in [Insts -> BOOLEAN]
  BY <1>1, <1>2 DEF ConsumeFlag, Arrays, Others
<1>4. PICK d \in Ids, now \in SUBSET FragmentsOf(form[i]), bad \in SUBSET FragmentsOf(form[i]) :
        /\ req[d] = NoReq
        /\ mmu' = mmu \cup {<<d, f>> : f \in FragmentsOf(form[i]) \ now}
        /\ Access(i, d, Translate(NewRequest(i, before'[i]), now, bad))
  BY DEF Execute
<1>. DEFINE r0 == NewRequest(i, before'[i])
            r  == Translate(r0, now, bad)
            fs == FragmentsOf(form[i])
<1>5. In(d) = {} /\ Out(d) = {} /\ Ev(d) = {}
  BY <1>1, <1>4 DEF Requested, RequestOK
<1>6. fs \in SUBSET Fragments
  BY FormFragments
<1>7. In(d)' = fs \ now
  <2>. HIDE DEF fs
  <2>1. In(d)' = {f \in Fragments : <<d, f>> \in mmu'}
    BY DEF In
  <2>2. \A f \in Fragments : <<d, f>> \notin mmu
    BY <1>5 DEF In
  <2>3. mmu' = mmu \cup {<<d, f>> : f \in fs \ now}
    BY <1>4 DEF fs
  <2>4. \A f \in Fragments : <<d, f>> \in mmu' <=> f \in fs \ now
    BY <2>2, <2>3
  <2>. QED  BY <2>1, <2>4, <1>6
<1>8. \A e \in Ids \ {d} : In(e)' = In(e)
  BY <1>4 DEF In
<1>9. mmu' \subseteq Ids \X Fragments
  BY <1>1, <1>4, <1>6 DEF Arrays
<1>10. /\ r0 \in Requests /\ r0.inst = i
       /\ Sound(d, r0, fs, {}, {}, form[i], phase[i], d, d)
  BY <1>1, <1>3, NewSound
<1>. HIDE DEF r0, fs
<1>11. /\ r \in Requests /\ r.inst = i
       /\ Sound(d, r, fs \ now, {}, {}, form[i], phase[i], d, d)
  <2>1. now \in SUBSET fs
    BY <1>4 DEF fs
  <2>2. /\ r0 \in Requests
        /\ Sound(d, r0, fs, {}, {}, form[r0.inst], phase[r0.inst], d, d)
    BY <1>10
  <2>3. /\ r \in Requests /\ r.inst = r0.inst
        /\ Sound(d, r, fs \ now, {}, {}, form[r0.inst], phase[r0.inst], d, d)
    <3>. HIDE DEF r
    <3>1. r = Translate(r0, now, bad)
      BY DEF r
    <3>. QED  BY <1>1, <1>6, <2>1, <2>2, <3>1, TranslateSound
  <2>. QED  BY <1>10, <2>3
<1>12. Access(i, d, r)
  BY <1>4 DEF r0
<1>. HIDE DEF r
<1>13. r.outstanding = 0
  BY <1>11, FS_EmptySet DEF Sound, Sending
<1>14. Offered(i, d, r)
  <2>1. phase[i] \in Waiting
    BY <1>2, ReadyFacts
  <2>. QED  BY <1>2, <1>5, <1>7, <1>8, <1>11, <1>13, <2>1 DEF Offered
<1>15. Alone(i, d)
  BY <1>2, <1>4, ReadyFacts DEF Alone
<1>. QED  BY <1>2, <1>9, <1>12, <1>14, <1>15, AccessKeeps

\* The same for a command, which is not translated.
LEMMA ExecuteCommandKeeps ==
  ASSUME IInv, NEW i \in Insts, ExecuteCommand(i)
  PROVE  IInv'
<1>1. Arrays /\ Requested /\ Others
  BY DEF IInv
<1>2. /\ Ready(i) /\ ~started[i] /\ form[i] = "command" /\ ConsumeFlag(i) /\ form' = form
      /\ mmu' = mmu /\ UNCHANGED flushVars
  BY DEF ExecuteCommand
<1>3. before' \in [Insts -> BOOLEAN]
  BY <1>1, <1>2 DEF ConsumeFlag, Arrays, Others
<1>4. PICK d \in Ids : req[d] = NoReq /\ Access(i, d, NewDirectRequest(i, before'[i]))
  BY DEF ExecuteCommand
<1>. DEFINE r == NewDirectRequest(i, before'[i])
<1>5. /\ In(d) = {} /\ Out(d) = {} /\ Ev(d) = {}
      /\ \A e : In(e)' = In(e)
  <2>1. \A e : In(e)' = In(e)
    BY <1>2 DEF In
  <2>. QED  BY <1>1, <1>4, <2>1 DEF Requested, RequestOK
<1>6. /\ r \in Requests /\ r.inst = i
      /\ Sound(d, r, {}, {}, {}, form[i], phase[i], d, d)
  BY <1>1, <1>2, <1>3, NewDirectSound
<1>7. Access(i, d, r)
  BY <1>4
<1>. HIDE DEF r
<1>8. r.outstanding = 0
  BY <1>6, FS_EmptySet DEF Sound, Sending
<1>9. Offered(i, d, r)
  <2>1. phase[i] \in Waiting
    BY <1>2, ReadyFacts
  <2>. QED  BY <1>2, <1>5, <1>6, <1>8, <2>1 DEF Offered
<1>10. Alone(i, d)
  BY <1>2, <1>4, ReadyFacts DEF Alone
<1>11. mmu' \subseteq Ids \X Fragments
  BY <1>1, <1>2 DEF Arrays
<1>. QED  BY <1>2, <1>7, <1>9, <1>10, <1>11, AccessKeeps

\* The same for an instruction whose request is used again.
LEMMA ExecuteAgainKeeps ==
  ASSUME IInv, NEW i \in Insts, ExecuteAgain(i)
  PROVE  IInv'
<1>1. Arrays /\ Requested /\ Others
  BY DEF IInv
<1>2. /\ Ready(i) /\ started[i] /\ ConsumeFlag(i) /\ form' = form
      /\ mmu' = mmu /\ UNCHANGED flushVars /\ Access(i, saved[i], req[saved[i]])
  BY DEF ExecuteAgain
<1>3. PICK d \in Ids : d = saved[i]
  BY <1>2, ReadyFacts
<1>4. PICK r \in Requests : r = req[d]
  BY <1>1, <1>2, <1>3, ReadyFacts DEF Arrays
<1>5. /\ phase[i] \in Waiting /\ d = entry[i] /\ req[d] # NoReq /\ r.inst = i
  BY <1>2, <1>3, <1>4, ReadyFacts
<1>6. Sound(d, r, In(d), Out(d), Ev(d), form[i], phase[i], d, d)
  BY <1>1, <1>3, <1>4, <1>5 DEF Requested, RequestOK
<1>7. \A e \in Ids : In(e)' = In(e)
  BY <1>2 DEF In
<1>8. Offered(i, d, r)
  BY <1>2, <1>3, <1>5, <1>6, <1>7 DEF Offered
<1>9. Alone(i, d)
  BY <1>1, <1>4, <1>5 DEF Alone, Requested, OneEach, Live
<1>10. mmu' \subseteq Ids \X Fragments
  BY <1>1, <1>2 DEF Arrays
<1>. QED  BY <1>2, <1>3, <1>4, <1>8, <1>9, <1>10, AccessKeeps

\* The actions that only move instructions, and the retries.
LEMMA PhaseActionsKeep ==
  ASSUME IInv,
         \/ \E i \in Insts : \/ Dispatch(i) \/ ScheduleBarrier(i) \/ ExecuteBarrier(i)
                             \/ CommitStore(i) \/ Squash(i)
         \/ Tick \/ RecvReqRetry
  PROVE  IInv'
<1>1. Arrays /\ Requested /\ Others /\ BlockedIsAwaited
  BY DEF IInv
<1>2. phase \in [Insts -> Phases]
  BY <1>1 DEF Arrays
<1>3. UNCHANGED <<form, started, ptrVars, reqVars, before, flushVars>>
  BY DEF Dispatch, ScheduleBarrier, ExecuteBarrier, CommitStore, Squash, Tick, RecvReqRetry,
         fenceVars
<1>4. ASSUME NEW i \in Insts, NEW p \in Phases \ {"none", "blocked"},
             phase' = [phase EXCEPT ![i] = p],
             phase[i] \notin {"squashed", "violation", "deferred"},
             p \in Waiting => phase[i] = "none",
             p = "committed" => Pending(i), p # "executed", UNCHANGED portVars
      PROVE  Arrays' /\ Requested' /\ BlockedIsAwaited'
  <2>1. phase' \in [Insts -> Phases]
    BY <1>2, <1>4
  <2>2. \A j \in Insts \ {i} : phase'[j] = phase[j]
    BY <1>2, <1>4
  <2>3. phase'[i] = p /\ form' = form
    BY <1>2, <1>3, <1>4
  <2>4. \A j \in Insts : Pending(j)' => Pending(j)
    BY <1>4, <2>2, <2>3 DEF Pending
  <2>5. Arrays' /\ Requested'
    BY <1>1, <1>3, <1>4, <2>1, <2>2, <2>3, <2>4, PhaseStep
  <2>6. BlockedIsAwaited'
    BY <1>1, <1>4, <2>2, <2>3, BlocksNone
  <2>. QED  BY <2>5, <2>6
<1>5. ASSUME NEW i \in Insts, Dispatch(i) PROVE IInv'
  <2>1. phase' = [phase EXCEPT ![i] = "queued"] /\ phase[i] = "none" /\ UNCHANGED portVars
    BY <1>5 DEF Dispatch
  <2>2. Arrays' /\ Requested' /\ BlockedIsAwaited'
    BY <1>4, <2>1 DEF Phases
  <2>3. Others'
    BY <1>1, <1>5 DEF Dispatch, Others, portVars, flushVars, fenceVars
  <2>. QED  BY <2>2, <2>3 DEF IInv
<1>6. ASSUME NEW i \in Insts, ScheduleBarrier(i) PROVE IInv'
  <2>1. /\ phase' = [phase EXCEPT ![i] = "scheduled"] /\ phase[i] = "queued"
        /\ UNCHANGED portVars
    BY <1>6 DEF ScheduleBarrier
  <2>2. Arrays' /\ Requested' /\ BlockedIsAwaited'
    BY <1>4, <2>1 DEF Phases, Waiting
  <2>3. Others'
    BY <1>1, <1>6 DEF ScheduleBarrier, Others, portVars, flushVars, fenceVars
  <2>. QED  BY <2>2, <2>3 DEF IInv
<1>7. ASSUME NEW i \in Insts, ExecuteBarrier(i) PROVE IInv'
  <2>1. /\ phase' = [phase EXCEPT ![i] = "squashed"] \/ phase' = [phase EXCEPT ![i] = "done"]
        /\ phase[i] \in {"scheduled", "annulled"} /\ UNCHANGED portVars
    BY <1>7 DEF ExecuteBarrier
  <2>2. Arrays' /\ Requested' /\ BlockedIsAwaited'
    BY <1>4, <2>1 DEF Phases, Waiting, Gone
  <2>3. memoryBarrierExecuted' \in BOOLEAN /\ owed' \in BOOLEAN
    BY <1>7 DEF ExecuteBarrier
  <2>4. Others'
    BY <1>1, <1>7, <2>3 DEF ExecuteBarrier, Others, portVars, flushVars
  <2>. QED  BY <2>2, <2>4 DEF IInv
<1>8. ASSUME NEW i \in Insts, CommitStore(i) PROVE IInv'
  <2>1. /\ phase' = [phase EXCEPT ![i] = "committed"] /\ phase[i] = "executed"
        /\ Pending(i) /\ UNCHANGED portVars
    BY <1>8 DEF CommitStore, Pending
  <2>2. Arrays' /\ Requested' /\ BlockedIsAwaited'
    BY <1>4, <2>1 DEF Phases, Waiting
  <2>3. Others'
    BY <1>1, <1>8 DEF CommitStore, Others, portVars, flushVars, fenceVars
  <2>. QED  BY <2>2, <2>3 DEF IInv
<1>9. ASSUME NEW i \in Insts, Squash(i) PROVE IInv'
  <2>1. \A j \in Insts : phase'[j] = IF j < i \/ ~InROB(j) THEN phase[j]
                                     ELSE IF phase[j] = "scheduled" THEN "annulled"
                                     ELSE "squashed"
    BY <1>9 DEF Squash
  <2>2. phase' \in [Insts -> Phases]
    BY <1>2, <1>9, <2>1 DEF Squash, Phases, Gone
  <2>3. \A j \in Insts : phase'[j] \in {phase[j], "squashed"}
                         \/ (phase[j] = "scheduled" /\ phase'[j] = "annulled")
    BY <2>1
  <2>4. form' = form /\ UNCHANGED portVars
    BY <1>9 DEF Squash
  <2>5. \A j \in Insts : Pending(j)' => Pending(j)
    BY <2>3, <2>4 DEF Pending
  <2>6. Arrays' /\ Requested'
    BY <1>1, <1>3, <2>2, <2>3, <2>5, PhaseStep DEF Waiting
  <2>7. BlockedIsAwaited'
    BY <1>1, <2>3, <2>4, BlocksNone
  <2>8. Others'
    BY <1>1, <1>9 DEF Squash, Others, portVars, flushVars, fenceVars
  <2>. QED  BY <2>6, <2>7, <2>8 DEF IInv
<1>10. ASSUME Unblocked \/ UNCHANGED phase
       PROVE  /\ Arrays' /\ Requested'
              /\ Unblocked => \A j \in Insts : phase'[j] # "blocked"
  <2>1. \A j \in Insts : phase'[j] = phase[j] \/ (phase[j] = "blocked" /\ phase'[j] = "retry")
    BY <1>10 DEF Unblocked
  <2>2. phase' \in [Insts -> Phases]
    BY <1>2, <1>10, <2>1 DEF Unblocked, Phases
  <2>3. \A j \in Insts : Pending(j)' => Pending(j)
    BY <1>3, <2>1 DEF Pending
  <2>4. Arrays' /\ Requested'
    BY <1>1, <1>3, <2>1, <2>2, <2>3, PhaseStep DEF Waiting
  <2>. QED  BY <2>4 DEF Unblocked
<1>11. ASSUME Tick PROVE IInv'
  <2>1. Unblocked \/ (UNCHANGED phase /\ (usedLoadPorts # LoadPorts \/ cacheBlocked))
    BY <1>11 DEF Tick
  <2>2. cacheBlocked' = cacheBlocked /\ usedLoadPorts' = 0 /\ usedStorePorts' = 0
    BY <1>11 DEF Tick
  <2>3. Arrays' /\ Requested'
    BY <1>10, <2>1
  <2>4. BlockedIsAwaited'
    <3>1. CASE Unblocked
      BY <1>10, <3>1 DEF BlockedIsAwaited
    <3>2. CASE UNCHANGED phase /\ (usedLoadPorts # LoadPorts \/ cacheBlocked)
      BY <1>1, <2>2, <3>2 DEF BlockedIsAwaited
    <3>. QED  BY <2>1, <3>1, <3>2
  <2>5. Others'
    BY <1>1, <1>11, <2>2, Sorts DEF Tick, Others, flushVars, fenceVars
  <2>. QED  BY <2>3, <2>4, <2>5 DEF IInv
<1>12. ASSUME RecvReqRetry PROVE IInv'
  <2>1. Unblocked
    BY <1>12 DEF RecvReqRetry
  <2>2. Arrays' /\ Requested' /\ BlockedIsAwaited'
    BY <1>10, <2>1 DEF BlockedIsAwaited
  <2>3. Others'
    BY <1>1, <1>12 DEF RecvReqRetry, Others, flushVars, fenceVars
  <2>. QED  BY <2>2, <2>3 DEF IInv
<1>. QED  BY <1>5, <1>6, <1>7, <1>8, <1>9, <1>11, <1>12

\* What the invariant says of a request that exists.
LEMMA LiveFacts ==
  ASSUME Arrays, Requested, NEW d \in Ids, req[d] # NoReq,
         NEW r, r = req[d], NEW i, i = r.inst
  PROVE  /\ r \in Requests /\ i \in Insts /\ Alone(i, d) /\ InstOK(i)
         /\ Sound(d, r, In(d), Out(d), Ev(d), form[i], phase[i], saved[i], entry[i])
         /\ started[i] \/ (isReleased(r) /\ phase[i] \in {"violation", "squashed"})
         /\ In(d) # {} => phase[i] \in {"deferred", "squashed"}
         /\ entry[i] \in {d, NoId}
<1>1. r \in Requests /\ i \in Insts
  BY DEF Arrays, Requests
<1>2. Alone(i, d)
  BY DEF Requested, OneEach, Live, Alone
<1>3. /\ Sound(d, r, In(d), Out(d), Ev(d), form[i], phase[i], saved[i], entry[i])
      /\ started[i] \/ (isReleased(r) /\ phase[i] \in {"violation", "squashed"})
      /\ In(d) # {} => phase[i] \in {"deferred", "squashed"}
  BY DEF Requested, RequestOK
<1>4. InstOK(i)
  BY <1>1 DEF Requested
<1>5. entry[i] \in {d, NoId}
  BY <1>1, <1>2, <1>4 DEF InstOK, Alone, Arrays
<1>. QED  BY <1>1, <1>2, <1>3, <1>4, <1>5

\* A step in which the request d of instruction i, of value r, becomes q, or
\* is deleted after its instruction has let it go; the instruction moves to
\* p, and its entry is en.
Answers(i, d, r, q, p, en) ==
  /\ r = req[d] /\ r # NoReq /\ r.inst = i /\ p \in Phases /\ en \in {entry[i], NoId}
  /\ form' = form /\ started' = started /\ before' = before
  /\ mmu' \subseteq Ids \X Fragments /\ inCache' \subseteq Ids \X Fragments
  /\ wbEvent' \subseteq Ids
  /\ \A e \in Ids \ {d} : In(e)' = In(e) /\ Out(e)' = Out(e) /\ Ev(e)' = Ev(e)
  /\ req' = [req EXCEPT ![d] = q] /\ phase' = [phase EXCEPT ![i] = p]
  /\ entry' = [entry EXCEPT ![i] = en] /\ saved' = Forget(r, q)
  /\ p = phase[i] \/ (p \notin Waiting \cup {"none"} /\ started[i])
  /\ p \in Waiting => en = entry[i]
  /\ In(d)' # {} => p \in {"deferred", "squashed"}
  /\ form[i] \in Stores /\ p \in {"executed", "committed"} => en # NoId
  /\ q = NoReq => /\ In(d)' = {} /\ Out(d)' = {} /\ Ev(d)' = {}
                  /\ isReleased(r) \/ en = NoId
  /\ q # NoReq => /\ q \in Requests /\ q.inst = i /\ (isReleased(r) => isReleased(q))
                  /\ Sound(d, q, In(d)', Out(d)', Ev(d)', form[i], p, saved[i], en)

\* Such a step keeps what is true of all requests and instructions.
LEMMA AnswerStep ==
  ASSUME Arrays, Requested, NEW i \in Insts, NEW d \in Ids, NEW r, NEW q, NEW p, NEW en,
         Answers(i, d, r, q, p, en)
  PROVE  Arrays' /\ Requested'
<1>. USE DEF Answers
<1>1. /\ Alone(i, d) /\ InstOK(i) /\ entry[i] \in {d, NoId}
      /\ started[i] \/ (isReleased(r) /\ phase[i] \in {"violation", "squashed"})
      /\ isReleased(r) => entry[i] # d
  <2>1. Sound(d, r, In(d), Out(d), Ev(d), form[i], phase[i], saved[i], entry[i])
    BY LiveFacts
  <2>2. isReleased(r) => entry[i] # d
    BY <2>1 DEF Sound, Owned
  <2>. QED  BY <2>2, LiveFacts
<1>2. /\ req'[d] = q /\ phase'[i] = p /\ entry'[i] = en
      /\ saved'[i] = (IF q = NoReq THEN NoId ELSE saved[i])
      /\ saved' = [saved EXCEPT ![i] = saved'[i]]
  BY DEF Arrays, Forget
<1>3. Touches(i, d)
  <2>1. /\ phase' = [phase EXCEPT ![i] = phase'[i]] /\ phase'[i] \in Phases
        /\ started' = [started EXCEPT ![i] = started'[i]] /\ started' \in [Insts -> BOOLEAN]
    BY <1>2 DEF Arrays
  <2>2. /\ saved'[i] \in Ids \cup {NoId} /\ entry'[i] \in Ids \cup {NoId}
        /\ entry' = [entry EXCEPT ![i] = entry'[i]] /\ req' = [req EXCEPT ![d] = req'[d]]
    BY <1>2 DEF Arrays
  <2>. QED  BY <1>2, <2>1, <2>2 DEF Touches
<1>4. RequestOK(d)'
  <2>1. CASE q = NoReq
    BY <1>2, <2>1 DEF RequestOK
  <2>2. CASE q # NoReq
    <3>1. started[i] \/ (isReleased(q) /\ p \in {"violation", "squashed"})
      BY <1>1, <2>2
    <3>. QED  BY <1>2, <2>2, <3>1 DEF RequestOK
  <2>. QED  BY <2>1, <2>2
<1>5. InstOK(i)'
  <2>1. en # NoId => req'[en] # NoReq /\ req'[en].inst = i
    BY <1>1, <1>2
  <2>2. Pending(i)' => en # NoId
    BY <1>2 DEF Pending
  <2>3. ASSUME started[i] PROVE p # "none" /\ (p \in Waiting => saved'[i] = en /\ en # NoId)
    BY <1>1, <1>2, <2>3 DEF InstOK
  <2>. QED  BY <1>2, <2>1, <2>2, <2>3 DEF InstOK
<1>6. before' \in [Insts -> BOOLEAN]
  BY DEF Arrays
<1>. QED  BY <1>1, <1>3, <1>4, <1>5, <1>6, OneRequestStep

\* A fragment comes back from the MMU.
LEMMA TranslationDoneKeeps ==
  ASSUME IInv, NEW d \in Ids, NEW f \in Fragments, TranslationDone(d, f)
  PROVE  IInv'
<1>1. Arrays /\ Requested /\ Others /\ BlockedIsAwaited
  BY DEF IInv
<1>2. /\ <<d, f>> \in mmu /\ mmu' = mmu \ {<<d, f>>}
      /\ UNCHANGED <<instVars, entry, inCache, wbEvent, portVars, flushVars, fenceVars>>
  BY DEF TranslationDone
<1>3. f \in In(d) /\ In(d)' = In(d) \ {f} /\ Out(d)' = Out(d) /\ Ev(d)' = Ev(d)
      /\ \A e \in Ids \ {d} : In(e)' = In(e) /\ Out(e)' = Out(e) /\ Ev(e)' = Ev(e)
  BY <1>2 DEF In, Out, Ev
<1>4. req[d] # NoReq
  BY <1>1, <1>3 DEF Requested, RequestOK
<1>5. PICK r, i : r = req[d] /\ i = r.inst
  OBVIOUS
<1>6. /\ r \in Requests /\ i \in Insts
      /\ Sound(d, r, In(d), Out(d), Ev(d), form[r.inst], phase[r.inst], saved[i], entry[i])
      /\ phase[i] \in {"deferred", "squashed"}
  BY <1>1, <1>3, <1>4, <1>5, LiveFacts
<1>7. PICK q : /\ q = Finish(r, f, TRUE) \/ q = Finish(r, f, FALSE)
               /\ req' = [req EXCEPT ![d] = q]
  BY <1>5 DEF TranslationDone
<1>8. req'[d] = q /\ saved' = Forget(r, q)
  BY <1>1, <1>5, <1>7 DEF TranslationDone, Arrays
<1>9. PICK in, out, ev, sv, en, rest :
        /\ in = In(d) /\ out = Out(d) /\ ev = Ev(d) /\ sv = saved[i] /\ en = entry[i]
        /\ rest = in \ {f}
  OBVIOUS
<1>10. /\ out \in SUBSET Fragments /\ f \in in
       /\ Sound(d, r, in, out, ev, form[r.inst], phase[r.inst], sv, en)
  BY <1>3, <1>6, <1>9 DEF Out
<1>11. ASSUME NEW y, q = Finish(r, f, y)
       PROVE  /\ q = NoReq => isReleased(r) /\ In(d) = {f} /\ Out(d) = {} /\ Ev(d) = {}
              /\ q # NoReq => q \in Requests /\ q.inst = i /\ rest = In(d) \ {f}
              /\ q # NoReq =>
                   Sound(d, q, rest, Out(d), Ev(d), form[r.inst], phase[r.inst], saved[i], entry[i])
  <2>1. q # NoReq => q \in Requests /\ q.inst = i
    BY <1>5, <1>6, <1>11, FinishType
  <2>2. /\ q = NoReq => isReleased(r)
        /\ q # NoReq => Sound(d, q, rest, out, ev, form[r.inst], phase[r.inst], sv, en)
    <3>1. rest = in \ {f}
      BY <1>9
    <3>. QED  BY <1>1, <1>6, <1>10, <1>11, <3>1, FinishSound
  <2>3. q = NoReq => in = {f} /\ out = {} /\ ev = {}
    BY <1>1, <1>6, <1>10, <1>11, FinishLast
  <2>. QED  BY <1>9, <2>1, <2>2, <2>3
<1>12. isReleased(r) => (q # NoReq => isReleased(q))
  <2>1. CASE q = NoReq
    BY <2>1
  <2>2. CASE q # NoReq
    <3>1. ASSUME NEW y, q = Finish(r, f, y) PROVE isReleased(r) => isReleased(q)
      <4>. DEFINE bad  == IF y THEN r.fault \cup {f} ELSE r.fault
                  done == r.translated \cup {f}
                  r1   == [r EXCEPT !.inTranslation = @ \ {f}, !.translated = done,
                                    !.fault = bad]
                  r2   == [r1 EXCEPT !.flags = @ \cup {"TranslationSquashed"}]
                  r3   == [r1 EXCEPT !.flags = @ \cup {"TranslationFinished"},
                                     !.state = IF bad = {} THEN "Request"
                                               ELSE IF 1 \in bad THEN "Fault"
                                               ELSE "PartialFault"]
      <4>1. q \in {r1, r2, r3}
        BY <2>2, <3>1 DEF Finish
      <4>. HIDE DEF bad, done
      <4>2. r1.flags = r.flags /\ DOMAIN r1 = DOMAIN r
        BY <1>6 DEF Requests
      <4>3. "flags" \in DOMAIN r /\ "state" \in DOMAIN r
        BY <1>6 DEF Requests
      <4>. HIDE DEF r1
      <4>4. r2.flags = r.flags \cup {"TranslationSquashed"}
            /\ r3.flags = r.flags \cup {"TranslationFinished"}
        BY <4>2, <4>3
      <4>. HIDE DEF r2, r3
      <4>. QED  BY <4>1, <4>2, <4>4 DEF isReleased
    <3>. QED  BY <1>7, <3>1
  <2>. QED  BY <2>1, <2>2
<1>13. Arrays' /\ Requested'
  <2>1. /\ form' = form /\ started' = started /\ before' = before
        /\ inCache' = inCache /\ wbEvent' = wbEvent /\ phase' = phase /\ entry' = entry
    BY <1>2 DEF instVars, fenceVars
  <2>2. /\ mmu' \subseteq Ids \X Fragments /\ inCache' \subseteq Ids \X Fragments
        /\ wbEvent' \subseteq Ids /\ phase' = [phase EXCEPT ![i] = phase[i]]
        /\ entry' = [entry EXCEPT ![i] = entry[i]] /\ phase[i] \in Phases
    BY <1>1, <1>2, <1>6, <2>1 DEF Arrays
  <2>3. /\ q = NoReq => In(d)' = {} /\ Out(d)' = {} /\ Ev(d)' = {} /\ isReleased(r)
        /\ q # NoReq => /\ q \in Requests /\ q.inst = i
                        /\ Sound(d, q, In(d)', Out(d)', Ev(d)', form[i], phase[i],
                                 saved[i], entry[i])
    BY <1>3, <1>5, <1>7, <1>11
  <2>4. form[i] \in Stores /\ phase[i] \in {"executed", "committed"} => entry[i] # NoId
    BY <1>6
  <2>5. Answers(i, d, r, q, phase[i], entry[i])
    BY <1>3, <1>4, <1>5, <1>6, <1>7, <1>8, <1>12, <2>1, <2>2, <2>3, <2>4 DEF Answers
  <2>. QED  BY <1>1, <1>6, <2>5, AnswerStep
<1>14. Others' /\ BlockedIsAwaited'
  <2>1. UNCHANGED portVars /\ phase' = phase
    BY <1>2 DEF instVars
  <2>2. BlockedIsAwaited'
    BY <1>1, <2>1, BlocksNone
  <2>. QED  BY <1>1, <1>2, <2>2 DEF Others, portVars, flushVars, fenceVars
<1>. QED  BY <1>13, <1>14 DEF IInv

\* The write-back of a request happens: the request goes with it, if
\* nothing else is out and its entry has let it go.
LEMMA WritebackLast ==
  ASSUME NEW d \in Ids, NEW r \in Requests, NEW in, NEW out \in SUBSET Fragments,
         NEW fm, NEW p, NEW sv, NEW en,
         Sound(d, r, in, out, {d}, fm, p, sv, en)
  PROVE  /\ in = {} /\ fm \in Loads /\ sv = d
         /\ writebackDone(r) = NoReq => out = {} /\ isReleased(r)
<1>1. /\ "WritebackScheduled" \in r.flags /\ "WritebackDone" \notin r.flags /\ sv = d
      /\ fm \in Loads
  BY DEF Sound, Forwarding
<1>2. in = {}
  BY <1>1 DEF Sound, Translating
<1>3. ASSUME r.outstanding = 0 PROVE out = {}
  <2>1. Cardinality(out) = 0
    BY <1>3 DEF Sound, Sending
  <2>2. 1 \notin out /\ 2 \notin out
    BY <2>1, FewFragments
  <2>. QED  BY <2>2 DEF Fragments
<1>4. ASSUME ~(r.outstanding = 0 /\ isReleased(r)) PROVE writebackDone(r) # NoReq
  <2>1. writebackDone(r) = [r EXCEPT !.flags = @ \cup {"WritebackDone"}]
    BY <1>4 DEF writebackDone
  <2>2. writebackDone(r).inst = r.inst
    BY <2>1 DEF Requests
  <2>. QED  BY <2>2, Sorts DEF NoReq, Requests
<1>. QED  BY <1>1, <1>2, <1>3, <1>4

\* A request that is still there then is the same with the event done.
LEMMA WritebackType ==
  ASSUME NEW r \in Requests, writebackDone(r) # NoReq
  PROVE  /\ writebackDone(r) \in Requests /\ writebackDone(r).inst = r.inst
         /\ isReleased(r) => isReleased(writebackDone(r))
<1>1. writebackDone(r) = [r EXCEPT !.flags = @ \cup {"WritebackDone"}]
  BY DEF writebackDone
<1>2. r.flags \cup {"WritebackDone"} \in SUBSET Flags
  BY DEF Requests, Flags
<1>. QED  BY <1>1, <1>2 DEF Requests, isReleased

\* It is as sound as before.
LEMMA WritebackSound ==
  ASSUME NEW d \in Ids, NEW r \in Requests, NEW in, NEW out \in SUBSET Fragments,
         NEW fm, NEW p, NEW p2, NEW sv, NEW en,
         Sound(d, r, in, out, {d}, fm, p, sv, en), p2 \notin Waiting,
         writebackDone(r) # NoReq
  PROVE  Sound(d, writebackDone(r), in, out, {}, fm, p2, sv, en)
<1>. DEFINE q == writebackDone(r)
<1>1. /\ "WritebackScheduled" \in r.flags /\ fm \in Loads
  BY DEF Sound, Forwarding
<1>2. in = {} /\ r.inTranslation = {} /\ r.outstanding \in Nat
  BY <1>1 DEF Sound, Translating, Requests
<1>3. q = [r EXCEPT !.flags = @ \cup {"WritebackDone"}] /\ ~(r.outstanding = 0 /\ isReleased(r))
  BY DEF writebackDone
<1>. HIDE DEF q
<1>4. /\ q.flags = r.flags \cup {"WritebackDone"} /\ q.inTranslation = r.inTranslation
      /\ q.translated = r.translated /\ q.state = r.state /\ q.packets = r.packets
      /\ q.outstanding = r.outstanding /\ q.received = r.received /\ q.fault = r.fault
  BY <1>3 DEF Requests
<1>5. Translating(q, in, fm)
  BY <1>2, <1>4 DEF Sound, Translating
<1>6. Sending(q, out, fm)
  BY <1>4 DEF Sound, Sending, isReleased
<1>7. Forwarding(d, q, {}, fm, p2, sv)
  BY <1>1, <1>4 DEF Sound, Forwarding, isReleased
<1>8. Owned(d, q, p2, en)
  <2>1. isReleased(q) <=> isReleased(r)
    BY <1>4 DEF isReleased
  <2>2. isReleased(q) => isAnyOutstandingRequest(q)
    BY <1>2, <1>3, <1>4, <2>1 DEF isAnyOutstandingRequest
  <2>. QED  BY <1>2, <1>4, <2>1, <2>2 DEF Owned, Sound
<1>. QED  BY <1>5, <1>6, <1>7, <1>8 DEF Sound, q

\* A WritebackEvent runs: it finds its request by its instruction.
LEMMA WritebackEventKeeps ==
  ASSUME IInv, NEW d \in Ids, WritebackEvent(d)
  PROVE  IInv'
<1>1. Arrays /\ Requested /\ Others /\ BlockedIsAwaited
  BY DEF IInv
<1>2. d \in wbEvent /\ wbEvent' = wbEvent \ {d}
      /\ UNCHANGED <<form, started, entry, mmu, inCache, portVars, flushVars, fenceVars>>
  BY DEF WritebackEvent
<1>3. Ev(d) = {d} /\ Ev(d)' = {} /\ In(d)' = In(d) /\ Out(d)' = Out(d)
      /\ \A e \in Ids \ {d} : In(e)' = In(e) /\ Out(e)' = Out(e) /\ Ev(e)' = Ev(e)
  BY <1>2 DEF In, Out, Ev
<1>4. req[d] # NoReq
  BY <1>1, <1>3 DEF Requested, RequestOK
<1>5. PICK r, i : r = req[d] /\ i = r.inst
  OBVIOUS
<1>6. /\ r \in Requests /\ i \in Insts
      /\ Sound(d, r, In(d), Out(d), {d}, form[i], phase[i], saved[i], entry[i])
      /\ started[i] \/ phase[i] \in {"violation", "squashed"}
  BY <1>1, <1>3, <1>4, <1>5, LiveFacts
<1>7. saved[i] = d /\ phase[i] \notin Waiting /\ form[i] \in Loads
  BY <1>6 DEF Sound, Forwarding
<1>8. PICK q, p : q = writebackDone(r) /\ p = IF phase[i] = "memory" THEN "executed" ELSE phase[i]
  OBVIOUS
<1>9. /\ req' = [req EXCEPT ![d] = q] /\ phase' = [phase EXCEPT ![i] = p]
      /\ saved' = Forget(r, req'[d])
  BY <1>5, <1>7, <1>8 DEF WritebackEvent
<1>10. req'[d] = q /\ saved' = Forget(r, q)
  BY <1>1, <1>9 DEF Arrays
<1>11. p \in Phases /\ p \notin Waiting
  BY <1>1, <1>6, <1>7, <1>8 DEF Arrays, Phases, Waiting
<1>12. PICK in, out, sv, en : in = In(d) /\ out = Out(d) /\ sv = saved[i] /\ en = entry[i]
  OBVIOUS
<1>13. /\ in = {}
       /\ q = NoReq => out = {} /\ isReleased(r)
       /\ q # NoReq => q \in Requests /\ q.inst = i /\ (isReleased(r) => isReleased(q))
       /\ q # NoReq => Sound(d, q, in, out, {}, form[i], p, sv, en)
  <2>1. out \in SUBSET Fragments
    BY <1>12 DEF Out
  <2>2. Sound(d, r, in, out, {d}, form[i], phase[i], sv, en)
    BY <1>6, <1>12
  <2>3. in = {} /\ (writebackDone(r) = NoReq => out = {} /\ isReleased(r))
    BY <1>6, <2>1, <2>2, WritebackLast
  <2>4. writebackDone(r) # NoReq =>
          /\ writebackDone(r) \in Requests /\ writebackDone(r).inst = r.inst
          /\ isReleased(r) => isReleased(writebackDone(r))
    BY <1>6, WritebackType
  <2>5. writebackDone(r) # NoReq =>
          Sound(d, writebackDone(r), in, out, {}, form[i], p, sv, en)
    BY <1>6, <1>11, <2>1, <2>2, WritebackSound
  <2>. QED  BY <1>5, <1>8, <2>3, <2>4, <2>5
<1>14. Arrays' /\ Requested'
  <2>1. /\ form' = form /\ started' = started /\ before' = before
        /\ mmu' = mmu /\ inCache' = inCache /\ entry' = entry
    BY <1>2 DEF fenceVars
  <2>2. /\ mmu' \subseteq Ids \X Fragments /\ inCache' \subseteq Ids \X Fragments
        /\ wbEvent' \subseteq Ids /\ entry' = [entry EXCEPT ![i] = entry[i]]
    BY <1>1, <1>2, <1>6, <2>1 DEF Arrays
  <2>3. /\ q = NoReq => In(d)' = {} /\ Out(d)' = {} /\ Ev(d)' = {} /\ isReleased(r)
        /\ q # NoReq => /\ q \in Requests /\ q.inst = i
                        /\ Sound(d, q, In(d)', Out(d)', Ev(d)', form[i], p, saved[i], entry[i])
    BY <1>3, <1>12, <1>13
  <2>4. p = phase[i] \/ (p \notin Waiting \cup {"none"} /\ started[i])
    BY <1>6, <1>8 DEF Waiting
  <2>5. form[i] \notin Stores /\ In(d)' = {}
    BY <1>3, <1>7, <1>12, <1>13 DEF Loads, Stores
  <2>6. Answers(i, d, r, q, p, entry[i])
    BY <1>3, <1>4, <1>5, <1>6, <1>9, <1>10, <1>11, <1>13, <2>1, <2>2, <2>3, <2>4, <2>5
       DEF Answers
  <2>. QED  BY <1>1, <1>6, <2>6, AnswerStep
<1>15. Others' /\ BlockedIsAwaited'
  <2>1. \A j \in Insts : phase'[j] = "blocked" => phase[j] = "blocked"
    BY <1>1, <1>8, <1>9 DEF Arrays
  <2>2. UNCHANGED portVars
    BY <1>2
  <2>3. BlockedIsAwaited'
    BY <1>1, <2>1, <2>2, BlocksNone
  <2>. QED  BY <1>1, <1>2, <2>3 DEF Others, portVars, flushVars, fenceVars
<1>. QED  BY <1>14, <1>15 DEF IInv

\* The last use of an executed load's request is its commit.
LEMMA CommitLoadKeeps ==
  ASSUME IInv, NEW i \in Insts, CommitLoad(i)
  PROVE  IInv'
<1>1. Arrays /\ Requested /\ Others /\ BlockedIsAwaited
  BY DEF IInv
<1>2. /\ form[i] \in Loads /\ phase[i] = "executed"
      /\ phase' = [phase EXCEPT ![i] = "done"] /\ entry' = [entry EXCEPT ![i] = NoId]
      /\ mustWait' = Awaited(req', entry')
      /\ UNCHANGED <<form, started, mmu, inCache, wbEvent, portVars, waitingForStale, flushes,
                     fenceVars>>
  BY DEF CommitLoad
<1>3. \A e : In(e)' = In(e) /\ Out(e)' = Out(e) /\ Ev(e)' = Ev(e)
  BY <1>2 DEF In, Out, Ev
<1>4. "done" \in Phases /\ "done" \notin Waiting /\ form[i] \notin Stores
  BY <1>2 DEF Phases, Gone, Waiting, Loads, Stores
<1>5. Arrays' /\ Requested'
  <2>1. CASE entry[i] = NoId
    <3>1. entry' = entry
      BY <1>1, <1>2, <2>1 DEF Arrays
    <3>2. req' = req /\ saved' = saved
      BY <2>1 DEF CommitLoad
    <3>3. UNCHANGED <<form, started, ptrVars, reqVars, before>>
      BY <1>2, <3>1, <3>2 DEF ptrVars, reqVars, fenceVars
    <3>4. phase' \in [Insts -> Phases] /\ phase'[i] = "done"
          /\ \A j \in Insts \ {i} : phase'[j] = phase[j]
      BY <1>1, <1>2, <1>4 DEF Arrays
    <3>5. \A j \in Insts : Pending(j)' => Pending(j)
      BY <3>3, <3>4 DEF Pending
    <3>6. \A j \in Insts : /\ phase[j] = "squashed" => phase'[j] = "squashed"
                           /\ phase[j] = "violation" => phase'[j] \in {"violation", "squashed"}
                           /\ phase[j] = "deferred" => phase'[j] \in {"deferred", "squashed"}
                           /\ phase'[j] \in Waiting => phase[j] \in Waiting \cup {"none"}
                           /\ phase'[j] = "none" => phase[j] = "none"
      BY <1>2, <1>4, <3>4
    <3>. QED  BY <1>1, <3>3, <3>4, <3>5, <3>6, PhaseStep
  <2>2. CASE entry[i] # NoId
    <3>1. PICK d \in Ids : d = entry[i]
      BY <1>1, <2>2 DEF Arrays
    <3>2. req[d] # NoReq /\ req[d].inst = i
      BY <1>1, <2>2, <3>1 DEF Requested, InstOK
    <3>3. PICK r, q : r = req[d] /\ q = release(r)
      OBVIOUS
    <3>4. /\ req' = [req EXCEPT ![d] = q] /\ saved' = Forget(r, req'[d])
      BY <2>2, <3>1, <3>3 DEF CommitLoad
    <3>5. saved' = Forget(r, q)
      BY <1>1, <3>4 DEF Arrays
    <3>6. /\ r \in Requests /\ In(d) = {} /\ r.inst = i
          /\ Sound(d, r, In(d), Out(d), Ev(d), form[i], phase[i], saved[i], entry[i])
          /\ started[i]
      BY <1>1, <1>2, <3>2, <3>3, LiveFacts
    <3>7. PICK out, ev, sv, en : out = Out(d) /\ ev = Ev(d) /\ sv = saved[i] /\ en = entry[i]
      OBVIOUS
    <3>8. out \in SUBSET Fragments /\ Sound(d, r, {}, out, ev, form[i], "executed", sv, en)
      BY <1>2, <3>6, <3>7 DEF Out
    <3>9. /\ q = NoReq => out = {} /\ ev = {}
          /\ q # NoReq => Sound(d, q, {}, out, ev, form[i], "done", sv, NoId)
      <4>1. NoId # d /\ r \in Requests
        BY <3>6, Sorts
      <4>2. release(r) = NoReq => out = {} /\ ev = {}
        BY <3>8, <4>1, ReleaseLast
      <4>3. release(r) # NoReq => Sound(d, release(r), {}, out, ev, form[i], "done", sv, NoId)
        BY <1>4, <3>8, <4>1, ReleaseSound
      <4>. QED  BY <3>3, <4>2, <4>3
    <3>10. q # NoReq => q \in Requests /\ q.inst = i /\ isReleased(q)
      BY <3>3, <3>6, ReleaseType
    <3>11. /\ form' = form /\ started' = started /\ before' = before
           /\ mmu' = mmu /\ inCache' = inCache /\ wbEvent' = wbEvent
      BY <1>2 DEF fenceVars
    <3>12. /\ mmu' \subseteq Ids \X Fragments /\ inCache' \subseteq Ids \X Fragments
           /\ wbEvent' \subseteq Ids
      BY <1>1, <3>11 DEF Arrays
    <3>13. /\ q = NoReq => In(d)' = {} /\ Out(d)' = {} /\ Ev(d)' = {}
           /\ q # NoReq => Sound(d, q, In(d)', Out(d)', Ev(d)', form[i], "done", saved[i], NoId)
           /\ In(d)' = {} /\ "done" \notin Waiting \cup {"none"}
      BY <1>3, <1>4, <3>6, <3>7, <3>9
    <3>14. Answers(i, d, r, q, "done", NoId)
      BY <1>2, <1>3, <1>4, <3>2, <3>3, <3>4, <3>5, <3>6, <3>10, <3>11, <3>12, <3>13
         DEF Answers
    <3>. QED  BY <1>1, <3>14, AnswerStep
  <2>. QED  BY <2>1, <2>2
<1>6. Others' /\ BlockedIsAwaited'
  <2>1. \A j \in Insts : phase'[j] = "blocked" => phase[j] = "blocked"
    BY <1>1, <1>2 DEF Arrays
  <2>2. UNCHANGED portVars
    BY <1>2
  <2>3. BlockedIsAwaited'
    BY <1>1, <2>1, <2>2, BlocksNone
  <2>4. mustWait' \subseteq Ids
    BY <1>1, <1>2 DEF Awaited, Others
  <2>. QED  BY <1>1, <1>2, <2>3, <2>4 DEF Others, portVars, fenceVars
<1>. QED  BY <1>5, <1>6 DEF IInv

\* Packets of the oldest committed store are sent.
LEMMA WritebackStoreKeeps ==
  ASSUME IInv, NEW i \in Insts, WritebackStore(i)
  PROVE  IInv'
<1>1. Arrays /\ Requested /\ Others /\ BlockedIsAwaited
  BY DEF IInv
<1>2. /\ form[i] \in Stores /\ phase[i] = "committed"
      /\ UNCHANGED <<instVars, ptrVars, mmu, wbEvent, flushVars, memoryBarrierExecuted, before>>
  BY DEF WritebackStore
<1>3. entry[i] # NoId
  BY <1>1, <1>2 DEF Requested, InstOK, Pending
<1>4. PICK d \in Ids : d = entry[i]
  BY <1>1, <1>3 DEF Arrays
<1>5. req[d] # NoReq /\ req[d].inst = i
  BY <1>1, <1>3, <1>4 DEF Requested, InstOK
<1>6. PICK r : r = req[d]
  OBVIOUS
<1>7. /\ r \in Requests /\ In(d) = {} /\ r.inst = i /\ r # NoReq
      /\ Sound(d, r, In(d), Out(d), Ev(d), form[i], phase[i], saved[i], entry[i])
      /\ started[i]
  BY <1>1, <1>2, <1>5, <1>6, LiveFacts
<1>8. form[i] \notin Loads /\ form[i] # "localLoad"
  BY <1>2 DEF Loads, Stores
<1>9. "WritebackScheduled" \notin r.flags /\ Ev(d) = {}
  BY <1>7, <1>8 DEF Sound, Forwarding
<1>10. Sound(d, r, {}, Out(d), Ev(d), form[r.inst], "committed", d, d)
  BY <1>2, <1>4, <1>7, <1>9 DEF Sound, Forwarding
<1>11. SendPackets(d, [r EXCEPT !.packets = Built(r)], usedStorePorts, StorePorts)
  BY <1>4, <1>6 DEF WritebackStore
<1>12. usedStorePorts \in Nat /\ StorePorts \in Nat
  BY <1>1, Sorts DEF Others
<1>13. /\ req' = [req EXCEPT ![d] = req'[d]]
       /\ req'[d] \in Requests /\ req'[d].inst = r.inst
       /\ \A q : Sound(d, req'[d], {}, Out(d)', Ev(d), form[r.inst], q, d, d)
       /\ \A e \in Ids \ {d} : Out(e)' = Out(e)
       /\ inCache' \subseteq Ids \X Fragments
  BY <1>1, <1>7, <1>8, <1>9, <1>10, <1>11, <1>12, SendSound
<1>14. PICK q : q = req'[d]
  OBVIOUS
<1>15. Arrays' /\ Requested'
  <2>1. /\ form' = form /\ started' = started /\ before' = before /\ phase' = phase
        /\ mmu' = mmu /\ wbEvent' = wbEvent /\ entry' = entry /\ saved' = saved
    BY <1>2 DEF instVars, ptrVars
  <2>2. /\ mmu' \subseteq Ids \X Fragments /\ wbEvent' \subseteq Ids
        /\ entry' = [entry EXCEPT ![i] = entry[i]] /\ phase' = [phase EXCEPT ![i] = phase[i]]
        /\ phase[i] \in Phases
    BY <1>1, <2>1 DEF Arrays
  <2>3. \A e : In(e)' = In(e) /\ Ev(e)' = Ev(e)
    BY <2>1 DEF In, Ev
  <2>4. q # NoReq /\ q \in Requests /\ q.inst = i
    BY <1>7, <1>13, <1>14, NoReqIsNone
  <2>5. saved' = Forget(r, q)
    BY <2>1, <2>4 DEF Forget
  <2>6. Sound(d, q, {}, Out(d)', Ev(d), form[i], phase[i], d, d)
    BY <1>7, <1>13, <1>14
  <2>7. Sound(d, q, In(d)', Out(d)', Ev(d)', form[i], phase[i], saved[i], entry[i])
    BY <1>4, <1>7, <1>9, <2>3, <2>6 DEF Sound, Forwarding
  <2>8. ~isReleased(r) /\ In(d)' = {}
    BY <1>7, <1>10, <2>3 DEF Sound, Owned
  <2>9. /\ req' = [req EXCEPT ![d] = q] /\ inCache' \subseteq Ids \X Fragments
        /\ \A e \in Ids \ {d} : In(e)' = In(e) /\ Out(e)' = Out(e) /\ Ev(e)' = Ev(e)
    BY <1>13, <1>14, <2>3
  <2>10. Answers(i, d, r, q, phase[i], entry[i])
    BY <1>2, <1>3, <1>6, <1>7, <2>1, <2>2, <2>4, <2>5, <2>7, <2>8, <2>9 DEF Answers
  <2>. QED  BY <1>1, <2>10, AnswerStep
<1>16. Others' /\ BlockedIsAwaited'
  <2>. DEFINE b == [r EXCEPT !.packets = Built(r)]
  <2>1. b.inst = r.inst
    BY <1>7 DEF Requests
  <2>2. ~isLoad(b)
    BY <1>7, <1>8, <2>1 DEF isLoad, FormOf
  <2>3. SendPackets(d, b, usedStorePorts, StorePorts)
    BY <1>11
  <2>. HIDE DEF b
  <2>4. PICK n \in 0 .. b.packets - b.received - b.outstanding :
          LET refused == n # b.packets - b.received - b.outstanding /\ ~cacheBlocked
                         /\ usedStorePorts + n < StorePorts IN
          /\ usedStorePorts + n <= StorePorts
          /\ cacheBlocked' = (cacheBlocked \/ refused)
          /\ usedStorePorts' = usedStorePorts + n /\ UNCHANGED usedLoadPorts
          /\ owed' = (owed /\ (n = 0 \/ ~b.isMemBarrier))
    BY <2>2, <2>3 DEF SendPackets
  <2>5. usedLoadPorts' = usedLoadPorts /\ (cacheBlocked => cacheBlocked') /\ phase' = phase
    BY <1>2, <2>4 DEF instVars
  <2>6. BlockedIsAwaited'
    BY <1>1, <2>5 DEF BlockedIsAwaited
  <2>7. usedStorePorts' \in 0 .. StorePorts
    BY <1>12, <2>4
  <2>8. cacheBlocked' \in BOOLEAN /\ owed' \in BOOLEAN
    BY <2>4
  <2>. QED  BY <1>1, <1>2, <2>5, <2>6, <2>7, <2>8 DEF Others, flushVars
<1>. QED  BY <1>15, <1>16 DEF IInv

\* The packet f of the request r, which has no write-back, is answered.
Answered(d, r, in, out, fm, p, sv, en, f, rest) ==
  /\ r \in Requests /\ out \in SUBSET Fragments /\ f \in out /\ rest = out \ {f}
  /\ Sound(d, r, in, out, {}, fm, p, sv, en)

\* What a packet that is out says of its request.
LEMMA ReplyFacts ==
  ASSUME NEW d \in Ids, NEW r, NEW in, NEW out, NEW fm, NEW p, NEW sv, NEW en, NEW f,
         NEW rest, Answered(d, r, in, out, fm, p, sv, en, f, rest)
  PROVE  /\ in = {} /\ r.inTranslation = {} /\ r.outstanding \in {1, 2} /\ r.packets \in {1, 2}
         /\ r.received \in Nat /\ r.received + r.outstanding <= r.packets
         /\ Cardinality(rest) = r.outstanding - 1
         /\ r.outstanding = 1 => rest = {}
         /\ "Complete" \notin r.flags
         /\ ~isReleased(r) => "WritebackScheduled" \notin r.flags
<1>0. /\ r \in Requests /\ out \in SUBSET Fragments /\ f \in out /\ rest = out \ {f}
      /\ Sound(d, r, in, out, {}, fm, p, sv, en)
  BY DEF Answered
<1>1. r.outstanding \in 0 .. 2 /\ r.received \in 0 .. 2 /\ r.packets \in 0 .. 2
  BY <1>0 DEF Requests
<1>2. r.outstanding = Cardinality(out) /\ r.received + r.outstanding <= r.packets
  BY <1>0 DEF Sound, Sending
<1>3. /\ Cardinality(out) = (IF 1 \in out THEN 1 ELSE 0) + (IF 2 \in out THEN 1 ELSE 0)
      /\ Cardinality(rest) = (IF 1 \in rest THEN 1 ELSE 0) + (IF 2 \in rest THEN 1 ELSE 0)
  BY <1>0, FewFragments
<1>4. f = 1 \/ f = 2
  BY <1>0 DEF Fragments
<1>5. /\ 1 \in rest <=> 1 \in out /\ f # 1
      /\ 2 \in rest <=> 2 \in out /\ f # 2
  BY <1>0
<1>6. r.outstanding > 0 /\ Cardinality(rest) = r.outstanding - 1
  BY <1>0, <1>2, <1>3, <1>4, <1>5
<1>7. r.outstanding = 1 => rest = {}
  <2>1. ASSUME r.outstanding = 1 PROVE 1 \notin rest /\ 2 \notin rest
    BY <1>0, <2>1, <1>3, <1>6
  <2>. QED  BY <1>0, <2>1 DEF Fragments
<1>8. r.outstanding \in {1, 2} /\ r.packets \in {1, 2}
  BY <1>0, <1>1, <1>2, <1>6
<1>9. in = {} /\ r.inTranslation = {}
  BY <1>0, <1>8 DEF Sound, Translating
<1>10. "Complete" \notin r.flags
  BY <1>0, <1>1, <1>2, <1>6 DEF Sound, Sending
<1>11. ~isReleased(r) => "WritebackScheduled" \notin r.flags
  BY <1>0, <1>6 DEF Sound, Forwarding
<1>. QED  BY <1>0, <1>1, <1>2, <1>6, <1>7, <1>8, <1>9, <1>10, <1>11

\* A packet of a released request is answered: the request goes with the
\* last one.
LEMMA ReplyReleased ==
  ASSUME NEW d \in Ids, NEW r, NEW in, NEW out, NEW fm, NEW p, NEW sv, NEW en, NEW f,
         NEW rest, Answered(d, r, in, out, fm, p, sv, en, f, rest), isReleased(r),
         NEW q, q = packetReplied(r)
  PROVE  \/ q = NoReq /\ rest = {} /\ in = {}
         \/ /\ q \in Requests /\ q.inst = r.inst /\ isReleased(q)
            /\ Sound(d, q, {}, rest, {}, fm, p, sv, en)
<1>0. /\ r \in Requests /\ out \in SUBSET Fragments /\ f \in out /\ rest = out \ {f}
      /\ Sound(d, r, in, out, {}, fm, p, sv, en)
  BY DEF Answered
<1>1. /\ in = {} /\ r.inTranslation = {} /\ r.outstanding \in {1, 2} /\ r.packets \in {1, 2}
      /\ r.received \in Nat /\ r.received + r.outstanding <= r.packets
      /\ Cardinality(rest) = r.outstanding - 1
      /\ r.outstanding = 1 => rest = {}
  BY <1>0, ReplyFacts
<1>2. CASE r.outstanding = 1
  BY <1>0, <1>1, <1>2 DEF packetReplied
<1>3. CASE r.outstanding = 2
  <2>1. q = [r EXCEPT !.outstanding = 1]
    BY <1>0, <1>3 DEF packetReplied
  <2>2. /\ q.flags = r.flags /\ q.inTranslation = r.inTranslation
        /\ q.translated = r.translated /\ q.state = r.state /\ q.packets = r.packets
        /\ q.outstanding = 1 /\ q.received = r.received /\ q.fault = r.fault
        /\ q.inst = r.inst /\ q \in Requests
    BY <1>0, <2>1 DEF Requests
  <2>3. Translating(q, {}, fm)
    BY <1>0, <1>1, <2>2 DEF Sound, Translating
  <2>4. Sending(q, rest, fm)
    BY <1>0, <1>1, <1>3, <2>2 DEF Sound, Sending, isReleased
  <2>5. Forwarding(d, q, {}, fm, p, sv)
    BY <1>0, <2>2 DEF Sound, Forwarding, isReleased
  <2>6. Owned(d, q, p, en)
    <3>1. isAnyOutstandingRequest(q) /\ isReleased(q)
      BY <1>0, <2>2 DEF isAnyOutstandingRequest, isReleased
    <3>. QED  BY <1>0, <1>1, <2>2, <3>1 DEF Owned, Sound
  <2>. QED  BY <1>0, <2>2, <2>3, <2>4, <2>5, <2>6 DEF Sound, isReleased
<1>. QED  BY <1>0, <1>1, <1>2, <1>3

\* A packet of a request that has its entry is answered: the request stays,
\* complete with the last one.
LEMMA ReplyKept ==
  ASSUME NEW d \in Ids, NEW r, NEW in, NEW out, NEW fm, NEW p, NEW sv, NEW en, NEW f,
         NEW rest, Answered(d, r, in, out, fm, p, sv, en, f, rest), ~isReleased(r),
         NEW p2, NEW q, q = packetReplied(Received(r))
  PROVE  /\ in = {} /\ q \in Requests /\ q.inst = r.inst /\ ~isReleased(Received(r))
         /\ Sound(d, q, {}, rest, {}, fm, p2, sv, en)
<1>0. /\ r \in Requests /\ out \in SUBSET Fragments /\ f \in out /\ rest = out \ {f}
      /\ Sound(d, r, in, out, {}, fm, p, sv, en)
  BY DEF Answered
<1>1. /\ in = {} /\ r.inTranslation = {} /\ r.outstanding \in {1, 2} /\ r.packets \in {1, 2}
      /\ r.received \in Nat /\ r.received + r.outstanding <= r.packets
      /\ Cardinality(rest) = r.outstanding - 1
      /\ "Complete" \notin r.flags /\ "WritebackScheduled" \notin r.flags
  BY <1>0, ReplyFacts
<1>. DEFINE fl == IF r.received + 1 = r.packets THEN r.flags \cup {"Complete"} ELSE r.flags
            s  == [r EXCEPT !.received = @ + 1, !.stale = FALSE, !.flags = fl]
<1>2. s = Received(r)
  BY <1>0 DEF Received
<1>3. /\ fl \in SUBSET Flags /\ r.received + 1 \in 0 .. 2
      /\ "Released" \in fl <=> "Released" \in r.flags
      /\ "WritebackScheduled" \notin fl
      /\ "WritebackDone" \in fl <=> "WritebackDone" \in r.flags
      /\ "Complete" \in fl <=> r.received + 1 = r.packets
  BY <1>0, <1>1 DEF Requests, Flags
<1>. HIDE DEF fl
<1>4. /\ s \in Requests /\ s.flags = fl /\ s.inTranslation = r.inTranslation
      /\ s.translated = r.translated /\ s.state = r.state /\ s.packets = r.packets
      /\ s.outstanding = r.outstanding /\ s.received = r.received + 1 /\ s.fault = r.fault
      /\ s.inst = r.inst
  BY <1>0, <1>3 DEF Requests
<1>. HIDE DEF s
<1>5. ~isReleased(s)
  BY <1>0, <1>3, <1>4 DEF isReleased
<1>6. q = [s EXCEPT !.outstanding = @ - 1]
  BY <1>0, <1>2, <1>5 DEF packetReplied
<1>7. /\ q.flags = fl /\ q.inTranslation = r.inTranslation
      /\ q.translated = r.translated /\ q.state = r.state /\ q.packets = r.packets
      /\ q.outstanding = r.outstanding - 1 /\ q.received = r.received + 1 /\ q.fault = r.fault
      /\ q.inst = r.inst
  BY <1>0, <1>4, <1>6 DEF Requests
<1>8. q \in Requests
  <2>1. s.outstanding - 1 \in 0 .. 2
    BY <1>0, <1>1, <1>4
  <2>. QED  BY <1>0, <1>4, <1>6, <2>1 DEF Requests
<1>9. Translating(q, {}, fm)
  BY <1>0, <1>1, <1>7 DEF Sound, Translating
<1>10. Sending(q, rest, fm)
  <2>1. q.outstanding = Cardinality(rest)
    BY <1>0, <1>1, <1>7
  <2>2. /\ q.packets \in {0, IF q.fault = {} THEN Cardinality(FragmentsOf(fm)) ELSE 1}
        /\ fm = "localLoad" => q.packets = 0
    BY <1>0, <1>7 DEF Sound, Sending
  <2>3. q.received + q.outstanding = r.received + r.outstanding
    BY <1>0, <1>1, <1>7
  <2>4. "Complete" \in q.flags => q.packets > 0 /\ q.received = q.packets
    BY <1>0, <1>1, <1>3, <1>7
  <2>5. \A g \in out : g <= r.received + r.outstanding
    BY <1>0 DEF Sound, Sending
  <2>6. \A g \in rest : g <= q.received + q.outstanding
    BY <1>0, <2>3, <2>5
  <2>. QED  BY <1>0, <1>1, <1>7, <2>1, <2>2, <2>3, <2>4, <2>6 DEF Sending
<1>11. Forwarding(d, q, {}, fm, p2, sv)
  BY <1>0, <1>1, <1>3, <1>7 DEF Sound, Forwarding
<1>12. Owned(d, q, p2, en)
  <2>1. ~isReleased(q)
    BY <1>0, <1>3, <1>5, <1>4, <1>7 DEF isReleased
  <2>. QED  BY <1>0, <2>1 DEF Owned, Sound
<1>. QED  BY <1>0, <1>1, <1>2, <1>5, <1>7, <1>8, <1>9, <1>10, <1>11, <1>12 DEF Sound

\* With its last packet a finished store's request is deleted.
LEMMA ReplyLast ==
  ASSUME NEW d \in Ids, NEW r, NEW in, NEW out, NEW fm, NEW p, NEW sv, NEW en, NEW f,
         NEW rest, Answered(d, r, in, out, fm, p, sv, en, f, rest), ~isReleased(r),
         "Complete" \in Received(r).flags
  PROVE  packetReplied(release(Received(r))) = NoReq /\ rest = {} /\ in = {}
<1>0. /\ r \in Requests /\ out \in SUBSET Fragments /\ f \in out /\ rest = out \ {f}
      /\ Sound(d, r, in, out, {}, fm, p, sv, en)
  BY DEF Answered
<1>1. /\ in = {} /\ r.outstanding \in {1, 2} /\ r.packets \in {1, 2}
      /\ r.received \in Nat /\ r.received + r.outstanding <= r.packets
      /\ r.outstanding = 1 => rest = {}
      /\ "Complete" \notin r.flags
  BY <1>0, ReplyFacts
<1>. DEFINE s == Received(r)
<1>2. /\ s.outstanding = r.outstanding /\ {"flags", "outstanding"} \subseteq DOMAIN s
      /\ s.flags = IF r.received + 1 = r.packets THEN r.flags \cup {"Complete"} ELSE r.flags
  BY <1>0 DEF Received, Requests
<1>3. r.outstanding = 1
  BY <1>0, <1>1, <1>2
<1>. HIDE DEF s
<1>4. release(s) = [s EXCEPT !.flags = @ \cup {"Released"}]
  BY <1>0, <1>2, <1>3 DEF release, isAnyOutstandingRequest
<1>5. release(s).outstanding = 1 /\ isReleased(release(s))
  BY <1>0, <1>2, <1>3, <1>4 DEF isReleased
<1>6. packetReplied(release(s)) = NoReq
  BY <1>0, <1>5 DEF packetReplied
<1>. QED  BY <1>0, <1>1, <1>3, <1>6 DEF s

\* LSQ::recvTimingResp: the last packet of a store frees its entry, the last
\* of a load gives its result, and a released request is only counted down.
LEMMA RecvTimingRespKeeps ==
  ASSUME IInv, NEW d \in Ids, NEW f \in Fragments, RecvTimingResp(d, f)
  PROVE  IInv'
<1>1. Arrays /\ Requested /\ Others /\ BlockedIsAwaited
  BY DEF IInv
<1>2. /\ <<d, f>> \in inCache /\ d \notin wbEvent /\ inCache' = inCache \ {<<d, f>>}
      /\ mustWait' = Awaited(req', entry') /\ checkStaleTranslations(waitingForStale)
      /\ UNCHANGED <<form, started, mmu, wbEvent, portVars, flushes, fenceVars>>
  BY DEF RecvTimingResp
<1>3. /\ f \in Out(d) /\ Out(d)' = Out(d) \ {f} /\ In(d)' = In(d) /\ Ev(d)' = Ev(d) /\ Ev(d) = {}
      /\ \A e \in Ids \ {d} : In(e)' = In(e) /\ Out(e)' = Out(e) /\ Ev(e)' = Ev(e)
  BY <1>2 DEF In, Out, Ev
<1>4. req[d] # NoReq
  BY <1>1, <1>3 DEF Requested, RequestOK
<1>5. PICK r, i : r = req[d] /\ i = r.inst
  OBVIOUS
<1>6. /\ r \in Requests /\ i \in Insts /\ InstOK(i)
      /\ Sound(d, r, In(d), Out(d), Ev(d), form[i], phase[i], saved[i], entry[i])
      /\ started[i] \/ isReleased(r)
  BY <1>1, <1>4, <1>5, LiveFacts
<1>7. PICK in, out, sv, en, rest :
        in = In(d) /\ out = Out(d) /\ sv = saved[i] /\ en = entry[i] /\ rest = out \ {f}
  OBVIOUS
<1>8. /\ r \in Requests /\ out \in SUBSET Fragments /\ f \in out /\ rest = out \ {f}
      /\ Answered(d, r, in, out, form[i], phase[i], sv, en, f, rest)
  BY <1>3, <1>6, <1>7 DEF Out, Answered
<1>9. ASSUME NEW q, NEW p \in Phases, NEW e \in {entry[i], NoId},
             req' = [req EXCEPT ![d] = q], phase' = [phase EXCEPT ![i] = p],
             entry' = [entry EXCEPT ![i] = e], saved' = Forget(r, q),
             p = phase[i] \/ (p \notin Waiting \cup {"none"} /\ started[i]),
             p \in Waiting => e = entry[i],
             form[i] \in Stores /\ p \in {"executed", "committed"} => e # NoId,
             in = {},
             q = NoReq => rest = {} /\ (isReleased(r) \/ e = NoId),
             q # NoReq => /\ q \in Requests /\ q.inst = i /\ (isReleased(r) => isReleased(q))
                          /\ Sound(d, q, {}, rest, {}, form[i], p, sv, e)
      PROVE  Arrays' /\ Requested'
  <2>1. /\ form' = form /\ started' = started /\ before' = before
    BY <1>2 DEF fenceVars
  <2>2. /\ mmu' \subseteq Ids \X Fragments /\ inCache' \subseteq Ids \X Fragments
        /\ wbEvent' \subseteq Ids
    BY <1>1, <1>2 DEF Arrays
  <2>3. In(d)' = {} /\ Out(d)' = rest /\ Ev(d)' = {}
    BY <1>3, <1>7, <1>9
  <2>4. /\ q = NoReq => /\ In(d)' = {} /\ Out(d)' = {} /\ Ev(d)' = {}
                        /\ isReleased(r) \/ e = NoId
        /\ q # NoReq => /\ q \in Requests /\ q.inst = i /\ (isReleased(r) => isReleased(q))
                        /\ Sound(d, q, In(d)', Out(d)', Ev(d)', form[i], p, saved[i], e)
    BY <1>7, <1>9, <2>3
  <2>5. /\ i \in Insts /\ r # NoReq /\ r.inst = i /\ r = req[d]
        /\ \A g \in Ids \ {d} : In(g)' = In(g) /\ Out(g)' = Out(g) /\ Ev(g)' = Ev(g)
        /\ In(d)' # {} => p \in {"deferred", "squashed"}
    BY <1>3, <1>4, <1>5, <1>6, <2>3
  <2>6. Answers(i, d, r, q, p, e)
    BY <1>9, <2>1, <2>2, <2>4, <2>5 DEF Answers
  <2>. QED  BY <1>1, <1>6, <2>6, AnswerStep
<1>10. phase[i] \in Phases /\ phase' \in [Insts -> Phases] /\ phase = [phase EXCEPT ![i] = phase[i]]
       /\ entry = [entry EXCEPT ![i] = entry[i]]
  <2>1. /\ "done" \in Phases /\ "faulted" \in Phases /\ "executed" \in Phases
    BY DEF Phases, Gone
  <2>. QED  BY <1>1, <1>6, <2>1 DEF Arrays, RecvTimingResp
<1>11. form[i] \in Stores /\ phase[i] \in {"executed", "committed"} => entry[i] # NoId
  BY <1>6 DEF InstOK, Pending
<1>12. Arrays' /\ Requested'
  <2>1. CASE isReleased(r)
    <3>1. PICK q : q = packetReplied(r)
      OBVIOUS
    <3>2. /\ req' = [req EXCEPT ![d] = q] /\ saved' = Forget(r, req'[d])
          /\ entry' = entry /\ phase' = phase
      BY <1>5, <2>1, <3>1 DEF RecvTimingResp
    <3>3. saved' = Forget(r, q)
      BY <1>1, <3>2 DEF Arrays
    <3>4. \/ q = NoReq /\ rest = {} /\ in = {}
          \/ /\ q \in Requests /\ q.inst = r.inst /\ isReleased(q)
             /\ Sound(d, q, {}, rest, {}, form[i], phase[i], sv, en)
      BY <1>8, <2>1, <3>1, ReplyReleased
    <3>5. in = {}
      BY <1>8, ReplyFacts
    <3>6. q # NoReq => /\ q \in Requests /\ q.inst = i /\ isReleased(q)
                       /\ Sound(d, q, {}, rest, {}, form[i], phase[i], sv, entry[i])
      BY <1>5, <1>7, <3>4
    <3>7. q = NoReq => rest = {}
      BY <3>4, NoReqIsNone
    <3>8. phase' = [phase EXCEPT ![i] = phase[i]] /\ entry' = [entry EXCEPT ![i] = entry[i]]
      BY <1>10, <3>2
    <3>. QED  BY <1>9, <1>10, <1>11, <2>1, <3>2, <3>3, <3>5, <3>6, <3>7, <3>8
  <2>2. CASE ~isReleased(r)
    <3>. DEFINE r1 == Received(r)
    <3>0. ~isReleased(r1) /\ in = {}
      <4>1. ASSUME NEW q, q = packetReplied(Received(r)) PROVE ~isReleased(Received(r)) /\ in = {}
        BY <1>8, <2>2, <4>1, ReplyKept
      <4>. QED  BY <4>1
    <3>1. PICK p : p = IF "Complete" \in r1.flags /\ ~squashed(r)
                       THEN IF form[i] \in Stores THEN "done"
                            ELSE IF r.state = "PartialFault" THEN "faulted" ELSE "executed"
                       ELSE phase[i]
      OBVIOUS
    <3>2. phase' = [phase EXCEPT ![i] = p] /\ saved' = Forget(r, req'[d])
      BY <1>5, <1>10, <2>2, <3>1 DEF RecvTimingResp
    <3>3. /\ p \in Phases
          /\ p = phase[i] \/ (p \notin Waiting \cup {"none"} /\ started[i])
      BY <1>6, <1>10, <2>2, <3>1 DEF Phases, Gone, Waiting
    <3>4. CASE "Complete" \in r1.flags /\ form[i] \in Stores
      <4>1. PICK q : q = packetReplied(release(r1))
        OBVIOUS
      <4>2. req' = [req EXCEPT ![d] = q] /\ entry' = [entry EXCEPT ![i] = NoId]
        BY <1>5, <2>2, <3>4, <4>1 DEF RecvTimingResp
      <4>3. saved' = Forget(r, q)
        BY <1>1, <3>2, <4>2 DEF Arrays
      <4>4. q = NoReq /\ rest = {}
        BY <1>8, <2>2, <3>4, <4>1, ReplyLast
      <4>5. p \in {"done", "squashed"} /\ p \notin Waiting
        BY <1>5, <3>1, <3>4 DEF squashed, Waiting
      <4>. QED  BY <1>9, <3>0, <3>2, <3>3, <4>2, <4>3, <4>4, <4>5
    <3>5. CASE ~("Complete" \in r1.flags /\ form[i] \in Stores)
      <4>1. PICK q : q = packetReplied(r1)
        OBVIOUS
      <4>2. req' = [req EXCEPT ![d] = q] /\ entry' = entry
        BY <1>5, <2>2, <3>5, <4>1 DEF RecvTimingResp
      <4>3. saved' = Forget(r, q) /\ entry' = [entry EXCEPT ![i] = entry[i]]
        BY <1>1, <1>10, <3>2, <4>2 DEF Arrays
      <4>4. q \in Requests /\ q.inst = r.inst
            /\ Sound(d, q, {}, rest, {}, form[i], p, sv, en)
        BY <1>8, <2>2, <4>1, ReplyKept
      <4>5. q # NoReq /\ q.inst = i /\ Sound(d, q, {}, rest, {}, form[i], p, sv, entry[i])
        BY <1>5, <1>7, <4>4, NoReqIsNone
      <4>6. form[i] \in Stores /\ p \in {"executed", "committed"} => entry[i] # NoId
        BY <1>11, <3>1, <3>5
      <4>. QED  BY <1>9, <2>2, <3>0, <3>2, <3>3, <4>2, <4>3, <4>4, <4>5, <4>6
    <3>. QED  BY <3>4, <3>5
  <2>. QED  BY <2>1, <2>2
<1>13. Others' /\ BlockedIsAwaited'
  <2>1. \A j \in Insts : phase'[j] = "blocked" => phase[j] = "blocked"
    BY <1>1, <1>5 DEF Arrays, RecvTimingResp
  <2>2. UNCHANGED portVars
    BY <1>2
  <2>3. BlockedIsAwaited'
    BY <1>1, <2>1, <2>2, BlocksNone
  <2>4. mustWait' \subseteq Ids
    BY <1>1, <1>2 DEF Awaited, Others
  <2>5. waitingForStale' \in BOOLEAN
    BY <1>2 DEF checkStaleTranslations
  <2>. QED  BY <1>1, <1>2, <2>3, <2>4, <2>5 DEF Others, portVars, fenceVars
<1>. QED  BY <1>12, <1>13 DEF IInv

\* The stale translations are marked; nothing else changes of a request.
LEMMA RecvTlbiSyncKeeps ==
  ASSUME IInv, RecvTlbiSync
  PROVE  IInv'
<1>1. Arrays /\ Requested /\ Others /\ BlockedIsAwaited
  BY DEF IInv
<1>2. /\ flushes < Flushes /\ flushes' = flushes + 1 /\ checkStaleTranslations(TRUE)
      /\ mustWait' \subseteq Live
      /\ form' = form /\ phase' = phase /\ started' = started /\ saved' = saved
      /\ entry' = entry /\ mmu' = mmu /\ inCache' = inCache /\ wbEvent' = wbEvent
      /\ before' = before /\ UNCHANGED <<portVars, memoryBarrierExecuted, owed>>
  BY DEF RecvTlbiSync, instVars, ptrVars, fenceVars
<1>3. ASSUME NEW d \in Ids
      PROVE  /\ req[d] = NoReq => req'[d] = NoReq
             /\ req[d] # NoReq =>
                  /\ req'[d] \in Requests /\ req'[d] # NoReq
                  /\ req'[d].inst = req[d].inst /\ req'[d].flags = req[d].flags
                  /\ req'[d].inTranslation = req[d].inTranslation
                  /\ req'[d].translated = req[d].translated
                  /\ req'[d].state = req[d].state /\ req'[d].packets = req[d].packets
                  /\ req'[d].outstanding = req[d].outstanding
                  /\ req'[d].received = req[d].received /\ req'[d].fault = req[d].fault
  <2>1. req'[d] = IF \E i \in Insts : entry[i] = d /\ req[d] # NoReq
                  THEN markAsStaleTranslation(req[d]) ELSE req[d]
    BY DEF RecvTlbiSync
  <2>2. req'[d] = req[d] \/ (req[d] # NoReq /\ req'[d] = [req[d] EXCEPT !.stale = TRUE])
    BY <2>1 DEF markAsStaleTranslation
  <2>3. req[d] # NoReq => req[d] \in Requests
    BY <1>1 DEF Arrays
  <2>4. CASE req'[d] = req[d]
    BY <2>3, <2>4
  <2>5. CASE req[d] # NoReq /\ req'[d] = [req[d] EXCEPT !.stale = TRUE]
    <3>1. req'[d] \in Requests
      BY <2>3, <2>5 DEF Requests
    <3>2. req'[d] # NoReq
      BY <3>1, NoReqIsNone
    <3>. QED  BY <2>3, <2>5, <3>1, <3>2 DEF Requests
  <2>. QED  BY <2>2, <2>4, <2>5
<1>4. Arrays'
  <2>1. req' \in [Ids -> Requests \cup {NoReq}]
    <3>1. req' = [d \in Ids |-> req'[d]]
      BY DEF RecvTlbiSync
    <3>2. \A d \in Ids : req'[d] \in Requests \cup {NoReq}
      BY <1>3
    <3>. QED  BY <3>1, <3>2
  <2>. QED  BY <1>1, <1>2, <2>1 DEF Arrays
<1>5. ASSUME NEW d \in Ids PROVE RequestOK(d)'
  <2>1. RequestOK(d) /\ In(d)' = In(d) /\ Out(d)' = Out(d) /\ Ev(d)' = Ev(d)
    BY <1>1, <1>2 DEF Requested, In, Out, Ev
  <2>2. CASE req[d] = NoReq
    BY <1>3, <2>1, <2>2 DEF RequestOK
  <2>3. CASE req[d] # NoReq
    <3>1. PICK r, q, i : r = req[d] /\ q = req'[d] /\ i = r.inst
      OBVIOUS
    <3>2. /\ q # NoReq /\ q.inst = i /\ q.flags = r.flags /\ q.inTranslation = r.inTranslation
          /\ q.translated = r.translated /\ q.state = r.state /\ q.packets = r.packets
          /\ q.outstanding = r.outstanding /\ q.received = r.received /\ q.fault = r.fault
      BY <1>3, <2>3, <3>1
    <3>3. /\ Sound(d, r, In(d), Out(d), Ev(d), form[i], phase[i], saved[i], entry[i])
          /\ started[i] \/ (isReleased(r) /\ phase[i] \in {"violation", "squashed"})
          /\ In(d) # {} => phase[i] \in {"deferred", "squashed"}
      BY <2>1, <2>3, <3>1 DEF RequestOK
    <3>4. Sound(d, q, In(d), Out(d), Ev(d), form[i], phase[i], saved[i], entry[i])
      <4>1. Translating(q, In(d), form[i])
        BY <3>2, <3>3 DEF Sound, Translating
      <4>2. Sending(q, Out(d), form[i])
        BY <3>2, <3>3 DEF Sound, Sending, isReleased
      <4>3. Forwarding(d, q, Ev(d), form[i], phase[i], saved[i])
        BY <3>2, <3>3 DEF Sound, Forwarding, isReleased
      <4>4. Owned(d, q, phase[i], entry[i])
        BY <3>2, <3>3 DEF Sound, Owned, isReleased, isAnyOutstandingRequest
      <4>. QED  BY <4>1, <4>2, <4>3, <4>4 DEF Sound
    <3>5. isReleased(q) <=> isReleased(r)
      BY <3>2 DEF isReleased
    <3>. QED  BY <1>2, <2>1, <3>1, <3>2, <3>3, <3>4, <3>5 DEF RequestOK
  <2>. QED  BY <2>2, <2>3
<1>6. ASSUME NEW i \in Insts PROVE InstOK(i)'
  <2>1. InstOK(i) /\ entry[i] \in Ids \cup {NoId}
    BY <1>1 DEF Requested, Arrays
  <2>2. entry[i] # NoId => req'[entry[i]] # NoReq /\ req'[entry[i]].inst = i
    BY <1>3, <2>1 DEF InstOK
  <2>. QED  BY <1>2, <2>1, <2>2 DEF InstOK, Pending
<1>7. OneEach'
  <2>1. \A d \in Ids : /\ req'[d] # NoReq <=> req[d] # NoReq
                       /\ req[d] # NoReq => req'[d].inst = req[d].inst
    BY <1>3
  <2>. QED  BY <1>1, <2>1 DEF Requested, OneEach, Live
<1>8. Others' /\ BlockedIsAwaited'
  <2>1. waitingForStale' \in BOOLEAN
    BY <1>2 DEF checkStaleTranslations
  <2>2. BlockedIsAwaited'
    BY <1>1, <1>2, BlocksNone
  <2>3. flushes' \in 0 .. Flushes
    BY <1>1, <1>2, Sorts DEF Others
  <2>4. mustWait' \subseteq Ids
    BY <1>2 DEF Live
  <2>. QED  BY <1>1, <1>2, <2>1, <2>2, <2>3, <2>4 DEF Others, portVars
<1>. QED  BY <1>4, <1>5, <1>6, <1>7, <1>8 DEF IInv, Requested

\* The LSQ frees the entries of the squashed instructions, all at once.
LEMMA SquashLSQKeeps ==
  ASSUME IInv, SquashLSQ
  PROVE  IInv'
<1>1. Arrays /\ Requested /\ Others /\ BlockedIsAwaited
  BY DEF IInv
<1>. DEFINE left  == {j \in Insts : phase[j] = "squashed" /\ entry[j] # NoId}
            freed == {entry[j] : j \in left}
<1>2. /\ entry' = [j \in Insts |-> IF j \in left THEN NoId ELSE entry[j]]
      /\ req' = [d \in Ids |-> IF d \in freed THEN release(req[d]) ELSE req[d]]
      /\ saved' = [j \in Insts |-> IF j \in left /\ req'[entry[j]] = NoReq
                                   THEN NoId ELSE saved[j]]
      /\ mustWait' = Awaited(req', entry')
      /\ form' = form /\ phase' = phase /\ started' = started /\ before' = before
      /\ mmu' = mmu /\ inCache' = inCache /\ wbEvent' = wbEvent
      /\ UNCHANGED <<portVars, waitingForStale, flushes, memoryBarrierExecuted, owed>>
  BY DEF SquashLSQ, instVars, fenceVars
<1>3. \A e : In(e)' = In(e) /\ Out(e)' = Out(e) /\ Ev(e)' = Ev(e)
  BY <1>2 DEF In, Out, Ev
<1>4. ASSUME NEW d \in Ids, req[d] # NoReq, NEW r, r = req[d], NEW i, i = r.inst
      PROVE  /\ i \in Insts /\ r \in Requests
             /\ d \in freed <=> i \in left
             /\ i \in left => entry[i] = d
             /\ req'[d] = IF i \in left THEN release(r) ELSE r
             /\ entry'[i] = IF i \in left THEN NoId ELSE entry[i]
             /\ req'[d] # NoReq => saved'[i] = saved[i]
  <2>1. i \in Insts /\ r \in Requests /\ Alone(i, d) /\ InstOK(i) /\ entry[i] \in {d, NoId}
    BY <1>1, <1>4, LiveFacts
  <2>2. i \in left => entry[i] = d
    BY <2>1
  <2>3. d \in freed => i \in left
    <3>1. ASSUME NEW j \in left, entry[j] = d PROVE j = i
      BY <1>1, <1>4, <3>1 DEF Requested, InstOK
    <3>. QED  BY <3>1
  <2>4. d \in freed <=> i \in left
    BY <2>2, <2>3
  <2>. HIDE DEF left, freed
  <2>5. req'[d] = IF i \in left THEN release(r) ELSE r
    BY <1>2, <1>4, <2>4
  <2>6. entry'[i] = IF i \in left THEN NoId ELSE entry[i]
    BY <1>2, <2>1
  <2>7. req'[d] # NoReq => saved'[i] = saved[i]
    BY <1>2, <2>1, <2>2
  <2>. QED  BY <2>1, <2>2, <2>4, <2>5, <2>6, <2>7
<1>5. ASSUME NEW d \in Ids PROVE RequestOK(d)' /\ req'[d] \in Requests \cup {NoReq}
                                 /\ (req'[d] # NoReq => req[d] # NoReq
                                                        /\ req'[d].inst = req[d].inst)
  <2>1. CASE req[d] = NoReq
    <3>1. d \notin freed
      BY <1>1, <2>1 DEF Requested, InstOK
    <3>2. req'[d] = NoReq
      BY <1>2, <2>1, <3>1
    <3>. QED  BY <1>1, <1>3, <2>1, <3>2 DEF Requested, RequestOK
  <2>2. CASE req[d] # NoReq
    <3>1. PICK r, i : r = req[d] /\ i = r.inst
      OBVIOUS
    <3>2. /\ r \in Requests /\ i \in Insts
          /\ Sound(d, r, In(d), Out(d), Ev(d), form[i], phase[i], saved[i], entry[i])
          /\ started[i] \/ (isReleased(r) /\ phase[i] \in {"violation", "squashed"})
          /\ In(d) # {} => phase[i] \in {"deferred", "squashed"}
      BY <1>1, <2>2, <3>1, LiveFacts
    <3>3. /\ req'[d] = IF i \in left THEN release(r) ELSE r
          /\ entry'[i] = IF i \in left THEN NoId ELSE entry[i]
          /\ req'[d] # NoReq => saved'[i] = saved[i]
      BY <1>4, <2>2, <3>1
    <3>4. CASE i \notin left
      <4>1. req'[d] = r /\ entry'[i] = entry[i] /\ saved'[i] = saved[i]
        BY <2>2, <3>1, <3>3, <3>4
      <4>2. RequestOK(d)'
        BY <1>2, <1>3, <2>2, <3>1, <3>2, <4>1 DEF RequestOK
      <4>. QED  BY <2>2, <3>1, <3>2, <4>1, <4>2
    <3>5. CASE i \in left
      <4>1. phase[i] = "squashed" /\ NoId # d /\ "squashed" \notin Waiting
        BY <3>5, Sorts DEF Waiting
      <4>2. PICK in, out, ev, sv, en : /\ in = In(d) /\ out = Out(d) /\ ev = Ev(d)
                                       /\ sv = saved[i] /\ en = entry[i]
        OBVIOUS
      <4>3. out \in SUBSET Fragments /\ Sound(d, r, in, out, ev, form[i], phase[i], sv, en)
        BY <3>2, <4>2 DEF Out
      <4>. HIDE DEF left, freed
      <4>4. CASE release(r) = NoReq
        <5>1. in = {} /\ out = {} /\ ev = {}
          BY <3>2, <4>3, <4>4, ReleaseLast
        <5>2. req'[d] = NoReq
          BY <3>3, <3>5, <4>4
        <5>. QED  BY <1>3, <4>2, <5>1, <5>2 DEF RequestOK
      <4>5. CASE release(r) # NoReq
        <5>1. Sound(d, release(r), in, out, ev, form[i], "squashed", sv, NoId)
          BY <3>2, <4>1, <4>3, <4>5, ReleaseSound
        <5>2. release(r) \in Requests /\ release(r).inst = i /\ isReleased(release(r))
          BY <3>1, <3>2, <4>5, ReleaseType
        <5>3. PICK q : q = release(r)
          OBVIOUS
        <5>4. req'[d] = q /\ entry'[i] = NoId /\ saved'[i] = sv /\ q # NoReq
          BY <3>3, <3>5, <4>2, <4>5, <5>3
        <5>5. RequestOK(d)'
          BY <1>2, <1>3, <4>1, <4>2, <5>1, <5>2, <5>3, <5>4 DEF RequestOK
        <5>. QED  BY <2>2, <3>1, <5>2, <5>3, <5>4, <5>5
      <4>. QED  BY <4>4, <4>5
    <3>. QED  BY <3>4, <3>5
  <2>. QED  BY <2>1, <2>2
<1>6. Arrays'
  <2>1. req' \in [Ids -> Requests \cup {NoReq}]
    <3>1. \A d \in Ids : req'[d] \in Requests \cup {NoReq}
      BY <1>5
    <3>2. req' = [d \in Ids |-> req'[d]]
      BY <1>2
    <3>. QED  BY <3>1, <3>2
  <2>. HIDE DEF left, freed
  <2>2. /\ entry' \in [Insts -> Ids \cup {NoId}] /\ saved' \in [Insts -> Ids \cup {NoId}]
    BY <1>1, <1>2 DEF Arrays
  <2>. QED  BY <1>1, <1>2, <2>1, <2>2 DEF Arrays
<1>7. ASSUME NEW i \in Insts PROVE InstOK(i)'
  <2>1. InstOK(i) /\ entry[i] \in Ids \cup {NoId}
    BY <1>1 DEF Requested, Arrays
  <2>2. CASE i \in left
    <3>1. entry'[i] = NoId /\ phase[i] = "squashed"
      BY <1>2, <2>2
    <3>. QED  BY <1>2, <2>1, <3>1 DEF InstOK, Pending, Waiting
  <2>3. CASE i \notin left
    <3>1. entry'[i] = entry[i] /\ saved'[i] = saved[i]
      BY <1>2, <2>3
    <3>2. entry[i] # NoId => req'[entry[i]] = req[entry[i]]
      BY <1>4, <2>1, <2>3 DEF InstOK
    <3>. QED  BY <1>2, <2>1, <3>1, <3>2 DEF InstOK, Pending
  <2>. QED  BY <2>2, <2>3
<1>8. OneEach'
  BY <1>1, <1>5 DEF Requested, OneEach, Live
<1>9. Others' /\ BlockedIsAwaited'
  <2>1. BlockedIsAwaited'
    BY <1>1, <1>2, BlocksNone
  <2>2. mustWait' \subseteq Ids
    BY <1>1, <1>2 DEF Awaited, Others
  <2>. QED  BY <1>1, <1>2, <2>1, <2>2 DEF Others, portVars
<1>. QED  BY <1>5, <1>6, <1>7, <1>8, <1>9 DEF IInv, Requested

\* The invariant holds at first.
LEMMA InitInv ==
  ASSUME Init
  PROVE  IInv
<1>1. /\ form \in [Insts -> AllForms] /\ phase = [i \in Insts |-> "none"]
      /\ req = [d \in Ids |-> NoReq] /\ mmu = {} /\ inCache = {} /\ wbEvent = {}
      /\ entry = [i \in Insts |-> NoId] /\ started = [i \in Insts |-> FALSE]
  BY LSQAssumption DEF Init, Insts
<1>2. Arrays
  BY <1>1 DEF Init, Arrays, Phases
<1>3. \A d \in Ids : RequestOK(d)
  BY <1>1 DEF RequestOK, In, Out, Ev
<1>4. \A i \in Insts : InstOK(i)
  BY <1>1 DEF InstOK, Pending
<1>5. OneEach
  BY <1>1 DEF OneEach, Live
<1>6. Others
  <2>1. 0 \in 0 .. LoadPorts /\ 0 \in 0 .. StorePorts /\ 0 \in 0 .. Flushes
    BY Sorts
  <2>. QED  BY <2>1 DEF Init, Others
<1>7. BlockedIsAwaited
  BY <1>1 DEF BlockedIsAwaited
<1>. QED  BY <1>2, <1>3, <1>4, <1>5, <1>6, <1>7 DEF IInv, Requested

\* Every step keeps it.
LEMMA NextInv ==
  ASSUME IInv, [Next]_vars
  PROVE  IInv'
<1>1. CASE UNCHANGED vars
  <2>1. /\ UNCHANGED <<form, started, ptrVars, reqVars, before, phase, portVars, flushVars>>
        /\ UNCHANGED <<memoryBarrierExecuted, owed>>
    BY <1>1 DEF vars, instVars, fenceVars
  <2>2. Arrays /\ Requested /\ Others /\ BlockedIsAwaited
    BY DEF IInv
  <2>3. Arrays' /\ Requested'
    <3>1. phase' = phase /\ form' = form /\ phase' \in [Insts -> Phases]
      BY <2>1, <2>2 DEF Arrays
    <3>2. \A j \in Insts : Pending(j)' => Pending(j)
      BY <3>1 DEF Pending
    <3>. QED  BY <2>1, <2>2, <3>1, <3>2, PhaseStep
  <2>4. BlockedIsAwaited'
    BY <2>1, <2>2, BlocksNone
  <2>5. Others'
    BY <2>1, <2>2 DEF Others, portVars, flushVars
  <2>. QED  BY <2>3, <2>4, <2>5 DEF IInv
<1>2. ASSUME NEW i \in Insts,
             \/ Dispatch(i) \/ ScheduleBarrier(i) \/ ExecuteBarrier(i) \/ CommitStore(i)
             \/ Squash(i)
      PROVE  IInv'
  BY <1>2, PhaseActionsKeep
<1>3. CASE Tick \/ RecvReqRetry
  BY <1>3, PhaseActionsKeep
<1>4. ASSUME NEW i \in Insts, Trap(i) PROVE IInv'
  BY <1>4, <1>2 DEF Trap
<1>5. ASSUME NEW i \in Insts, Execute(i) PROVE IInv'
  BY <1>5, ExecuteKeeps
<1>6. ASSUME NEW i \in Insts, ExecuteCommand(i) PROVE IInv'
  BY <1>6, ExecuteCommandKeeps
<1>7. ASSUME NEW i \in Insts, ExecuteAgain(i) PROVE IInv'
  BY <1>7, ExecuteAgainKeeps
<1>8. ASSUME NEW i \in Insts, CommitLoad(i) PROVE IInv'
  BY <1>8, CommitLoadKeeps
<1>9. ASSUME NEW i \in Insts, WritebackStore(i) PROVE IInv'
  BY <1>9, WritebackStoreKeeps
<1>10. CASE SquashLSQ
  BY <1>10, SquashLSQKeeps
<1>11. ASSUME NEW d \in Ids, WritebackEvent(d) PROVE IInv'
  BY <1>11, WritebackEventKeeps
<1>12. ASSUME NEW d \in Ids, NEW f \in Fragments, TranslationDone(d, f) PROVE IInv'
  BY <1>12, TranslationDoneKeeps
<1>13. ASSUME NEW d \in Ids, NEW f \in Fragments, RecvTimingResp(d, f) PROVE IInv'
  BY <1>13, RecvTimingRespKeeps
<1>14. CASE RecvTlbiSync
  BY <1>14, RecvTlbiSyncKeeps
<1>15. CASE Halt
  BY <1>15, <1>1 DEF Halt
<1>. QED  BY <1>1, <1>2, <1>3, <1>4, <1>5, <1>6, <1>7, <1>8, <1>9, <1>10, <1>11, <1>12, <1>13,
             <1>14, <1>15 DEF Next

-----------------------------------------------------------------------------
(* What follows from it.                                                   *)

\* The invariant implies that every variable has its type.
LEMMA InvImpliesTypeOK ==
  ASSUME IInv
  PROVE  TypeOK
<1>1. Arrays /\ Others
  BY DEF IInv
<1>2. \A i \in Insts : /\ form[i] \in AllForms /\ phase[i] \in Phases
                       /\ started[i] \in BOOLEAN /\ before[i] \in BOOLEAN
                       /\ saved[i] \in Ids \cup {NoId} /\ entry[i] \in Ids \cup {NoId}
  BY <1>1 DEF Arrays
<1>3. \A d \in Ids : req[d] = NoReq \/ req[d] \in Requests
  BY <1>1 DEF Arrays
<1>. QED  BY <1>1, <1>2, <1>3 DEF TypeOK, Arrays, Others

\* A request outlives what points to it, and counts it.
LEMMA InvImpliesOutlives ==
  ASSUME IInv
  PROVE  RequestOutlives
<1>1. ASSUME NEW d \in Ids, req[d] # NoReq
      PROVE  /\ req[d].inTranslation = {f \in Fragments : <<d, f>> \in mmu}
             /\ req[d].outstanding = Cardinality({f \in Fragments : <<d, f>> \in inCache})
  <2>1. RequestOK(d)
    BY DEF IInv, Requested
  <2>2. req[d].inTranslation = In(d) /\ req[d].outstanding = Cardinality(Out(d))
    BY <1>1, <2>1 DEF RequestOK, Sound, Translating, Sending
  <2>. QED  BY <2>2 DEF In, Out
<1>2. ASSUME NEW p \in mmu \cup inCache PROVE req[p[1]] # NoReq
  <2>1. p = <<p[1], p[2]>> /\ p[1] \in Ids /\ p[2] \in Fragments
    BY DEF IInv, Arrays
  <2>2. In(p[1]) # {} \/ Out(p[1]) # {}
    BY <2>1 DEF In, Out
  <2>. QED  BY <2>1, <2>2 DEF IInv, Requested, RequestOK
<1>3. ASSUME NEW d \in wbEvent PROVE req[d] # NoReq
  <2>1. d \in Ids /\ Ev(d) # {}
    BY DEF IInv, Arrays, Ev
  <2>. QED  BY <2>1 DEF IInv, Requested, RequestOK
<1>. QED  BY <1>1, <1>2, <1>3 DEF RequestOutlives

\* A request has one owner.
LEMMA InvImpliesOneOwner ==
  ASSUME IInv
  PROVE  OneOwner
<1>1. ASSUME NEW d \in Live
      PROVE  IF isReleased(req[d])
             THEN isAnyOutstandingRequest(req[d]) /\ \A i \in Insts : entry[i] # d
             ELSE \A i \in Insts : entry[i] = d <=> i = req[d].inst
  <2>1. d \in Ids /\ req[d] # NoReq /\ Arrays /\ Requested
    BY DEF Live, IInv
  <2>2. PICK r, o : r = req[d] /\ o = r.inst
    OBVIOUS
  <2>3. /\ o \in Insts
        /\ Sound(d, r, In(d), Out(d), Ev(d), form[o], phase[o], saved[o], entry[o])
    BY <2>1, <2>2, LiveFacts
  <2>4. /\ entry[o] = d <=> ~isReleased(r)
        /\ isReleased(r) => isAnyOutstandingRequest(r)
    BY <2>3 DEF Sound, Owned
  <2>5. \A i \in Insts : entry[i] = d => i = o
    BY <2>1, <2>2, Sorts DEF Requested, InstOK
  <2>. QED  BY <2>2, <2>3, <2>4, <2>5
<1>. QED  BY <1>1 DEF OneOwner

\* An instruction finds its request where it needs it.
LEMMA InvImpliesSaved ==
  ASSUME IInv
  PROVE  SavedIsLive
<1>1. ASSUME NEW i \in Insts, started[i], phase[i] \in {"deferred", "stalled", "blocked", "retry"}
      PROVE  saved[i] # NoId /\ req[saved[i]].inst = i
  BY <1>1 DEF IInv, Requested, InstOK, Waiting
<1>2. ASSUME NEW i \in Insts, NEW d \in wbEvent, req[d].inst = i
      PROVE  saved[i] # NoId /\ req[saved[i]].inst = i
  <2>1. d \in Ids /\ Ev(d) # {}
    BY DEF IInv, Arrays, Ev
  <2>2. req[d] # NoReq /\ RequestOK(d)
    BY <2>1 DEF IInv, Requested, RequestOK
  <2>3. saved[i] = d
    BY <1>2, <2>1, <2>2 DEF RequestOK, Sound, Forwarding
  <2>. QED  BY <1>2, <2>1, <2>3, Sorts
<1>. QED  BY <1>1, <1>2 DEF SavedIsLive

\* A complete request has all its answers.
LEMMA InvImpliesWhole ==
  ASSUME IInv
  PROVE  CompleteIsWhole
<1>1. ASSUME NEW d \in Live
      PROVE  /\ req[d].received + req[d].outstanding <= req[d].packets
             /\ "Complete" \in req[d].flags =>
                  req[d].packets > 0 /\ req[d].received = req[d].packets
  BY DEF Live, IInv, Requested, RequestOK, Sound, Sending
<1>. QED  BY <1>1 DEF CompleteIsWhole

\* The invariant holds in every state of every behaviour.
LEMMA Invariant == Spec => []IInv
<1>1. Init => IInv
  BY InitInv
<1>2. IInv /\ [Next]_vars => IInv'
  BY NextInv
<1>. QED  BY <1>1, <1>2, PTL DEF Spec

\* Every variable keeps its type, and the cache ports are never
\* over-committed (LSQ::cachePortBusy).
THEOREM ExecuteTypeCorrect == Spec => []TypeOK
<1>1. IInv => TypeOK
  BY InvImpliesTypeOK
<1>. QED  BY <1>1, Invariant, PTL

\* A request object lives as long as the MMU, the cache or a write-back
\* event points to it, and counts exactly what is out.
THEOREM RequestsOutlive == Spec => []RequestOutlives
<1>1. IInv => RequestOutlives
  BY InvImpliesOutlives
<1>. QED  BY <1>1, Invariant, PTL

\* No request leaks and none has two owners.
THEOREM RequestsOwned == Spec => []OneOwner
<1>1. IInv => OneOwner
  BY InvImpliesOneOwner
<1>. QED  BY <1>1, Invariant, PTL

\* An instruction that is executed again or written back finds its request.
THEOREM SavedRequestsLive == Spec => []SavedIsLive
<1>1. IInv => SavedIsLive
  BY InvImpliesSaved
<1>. QED  BY <1>1, Invariant, PTL

\* A request is complete exactly with the last of its packets.
THEOREM CompleteRequestsWhole == Spec => []CompleteIsWhole
<1>1. IInv => CompleteIsWhole
  BY InvImpliesWhole
<1>. QED  BY <1>1, Invariant, PTL

\* A blocked load waits for a retry of the cache or for the next cycle's
\* ports.
THEOREM BlockedLoadsAwaited == Spec => []BlockedIsAwaited
<1>1. IInv => BlockedIsAwaited
  BY DEF IInv
<1>. QED  BY <1>1, Invariant, PTL
=============================================================================
