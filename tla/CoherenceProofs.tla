---------------------------- MODULE CoherenceProofs ----------------------------
(***************************************************************************)
(* TypeOK and OneWriter hold in every reachable state, whatever the        *)
(* numbers of caches, lines, counters, LLC lines and operations.           *)
(*                                                                         *)
(* The permission to write a line is followed as a token (Coherence): one  *)
(* lemma per way a token moves, one lemma per machine that shows its steps *)
(* move it in one of these ways, and the two facts are then inductive.     *)
(* On top of them the conversation about a line is followed in the same    *)
(* way, from which RepliesExpected and RecallsMeetOwner follow.            *)
(*                                                                         *)
(* The type comes first: every step of an L1 cache, and every step of the  *)
(* directory, keeps its machine and the network well typed. The lemmas are *)
(* about the operators of L1Cache and of Directory, then one per kind of   *)
(* step.                                                                   *)
(***************************************************************************)
EXTENDS Coherence, TLAPS, WellFoundedInduction, SequenceTheorems

-----------------------------------------------------------------------------
(* The larger of two clocks is a clock. *)
LEMMA MaxType == \A x, y \in Nat : max(x, y) \in Nat
  BY DEF max

(* The request at the head of the mandatory queue, and the clocks it is
   looked at with. *)
LEMMA HeadType ==
  ASSUME TypeOK, NEW c \in Caches, mandatory[c] # None
  PROVE  /\ mandatory[c] \in CoreRequest /\ Line(c) \in Data
         /\ Fenced(c) \in Nat /\ fencedSts(c) \in Nat /\ peekLts(c) \in Nat
<1>1. mandatory[c] \in CoreRequest
  BY DEF TypeOK, L1TypeOK
<1>2. mandatory[c] \in CoreRequest /\ Line(c) \in Data
  BY <1>1 DEF Line, CoreRequest
<1>3. lts[c] \in Nat /\ sts[c] \in Nat
  BY DEF TypeOK, L1TypeOK
<1>4. Fenced(c) \in Nat /\ fencedSts(c) \in Nat
  BY <1>3, MaxType DEF Fenced, fencedSts
<1> QED
  BY <1>2, <1>4 DEF peekLts

-----------------------------------------------------------------------------
(* The pieces several actions of a cache share. *)

(* Counting a load towards the livelock period keeps both counters typed. *)
LEMMA CountLoadType ==
  ASSUME TypeOK, NEW c \in Caches, mandatory[c] # None, CountLoad(c)
  PROVE  loads' \in [Caches -> [Data -> Nat]] /\ period' \in [Caches -> [Data -> Nat \ {0}]]
<1>1. Line(c) \in Data /\ loads[c][Line(c)] \in Nat /\ period[c][Line(c)] \in Nat \ {0}
  BY HeadType DEF TypeOK, L1TypeOK
<1>2. period[c][Line(c)] # 1 => period[c][Line(c)] \div 2 \in Nat \ {0}
  BY <1>1
<1>3. loads' \in [Caches -> [Data -> Nat]]
  BY <1>1 DEF CountLoad, TypeOK, L1TypeOK
<1>4. period' \in [Caches -> [Data -> Nat \ {0}]]
  BY <1>1, <1>2 DEF CountLoad, TypeOK, L1TypeOK
<1> QED
  BY <1>3, <1>4

(* A line that leaves the cache is as if it had never been there. *)
LEMMA ResetType ==
  ASSUME TypeOK, NEW c \in Caches, NEW a \in Data, ResetLine(c, a)
  PROVE  /\ l1State' \in [Caches -> [Data -> L1State]]
         /\ l1Wts' \in [Caches -> [Data -> Nat]]
         /\ l1Rts' \in [Caches -> [Data -> Nat]]
         /\ l1Data' \in [Caches -> [Data -> Nat]]
         /\ loads' \in [Caches -> [Data -> Nat]]
         /\ period' \in [Caches -> [Data -> Nat \ {0}]]
  BY L1Assumption DEF ResetLine, TypeOK, L1TypeOK, L1State

(* A store moves the line and the clock of stores to the same time. *)
LEMMA StoreType ==
  ASSUME TypeOK, NEW c \in Caches, NEW a \in Data,
         NEW clock \in Nat, NEW rts \in Nat, PerformStore(c, a, clock, rts)
  PROVE  /\ sts' \in [Caches -> Nat]
         /\ l1Wts' \in [Caches -> [Data -> Nat]]
         /\ l1Rts' \in [Caches -> [Data -> Nat]]
         /\ l1Data' \in [Caches -> [Data -> Nat]]
         /\ latest' \in [Data -> Nat]
<1>1. max(clock, rts + 1) \in Nat /\ latest[a] + 1 \in Nat
  BY DEF max, TypeOK, L1TypeOK
<1> QED
  BY <1>1 DEF PerformStore, writeCallback, TypeOK, L1TypeOK

(* A request that carries a fence moves both clocks. *)
LEMMA FenceType ==
  ASSUME TypeOK, NEW c \in Caches, mandatory[c] # None, FenceOnly(c)
  PROVE  lts' \in [Caches -> Nat] /\ sts' \in [Caches -> Nat]
  BY HeadType DEF FenceOnly, TypeOK, L1TypeOK

(* Every step of a cache leaves the caches and the network well typed. *)
LEMMA L1StepType ==
  ASSUME TypeOK, NEW c \in Caches, L1Step(c)
  PROVE  L1TypeOK' /\ NetTypeOK'
<1>f. UNCHANGED fault
  BY DEF L1Step

<1>1. CASE Issue(c)
  <2>1. mandatory' \in [Caches -> CoreRequest \cup {None}]
    BY <1>1, L1Assumption DEF Issue, CoreRequest, TypeOK, L1TypeOK
  <2>2. issued' \in [Caches -> 0 .. MaxOps]
    BY <1>1, L1Assumption DEF Issue, TypeOK, L1TypeOK
  <2>3. UNCHANGED <<lts, sts, l1State, l1Wts, l1Rts, l1Data, loads, period, latest,
                    requests, forwards, replies, responses>>
    BY <1>1, <1>f
      DEF Issue, cacheVars, coreVars, historyVars, netVars, popMandatoryQueue,
      readCallback
  <2> QED
    BY <1>f, <2>1, <2>2, <2>3 DEF TypeOK, L1TypeOK, NetTypeOK

<1>2. CASE LoadMiss(c)
  <2>h. /\ mandatory[c] # None /\ Line(c) \in Data
        /\ Fenced(c) \in Nat /\ fencedSts(c) \in Nat /\ peekLts(c) \in Nat
    BY <1>2, HeadType DEF LoadMiss, Head1, VictimOf
  <2>1. l1State' \in [Caches -> [Data -> L1State]]
    BY <1>2, <2>h DEF LoadMiss, TypeOK, L1TypeOK, L1State
  <2>2. requests' \subseteq Request
    BY <1>2, <2>h DEF LoadMiss, Request, TypeOK, L1TypeOK, NetTypeOK
  <2>3. lts' \in [Caches -> Nat] /\ sts' \in [Caches -> Nat]
    BY <1>2, <2>h DEF LoadMiss, TypeOK, L1TypeOK
  <2>4. mandatory' \in [Caches -> CoreRequest \cup {None}]
    BY <1>2, <2>h DEF LoadMiss, popMandatoryQueue, TypeOK, L1TypeOK
  <2>5. UNCHANGED <<l1Wts, l1Rts, l1Data, loads, period, issued, latest, forwards,
                    replies, responses>>
    BY <1>2, <1>f
      DEF LoadMiss, cacheVars, coreVars, historyVars, netVars, popMandatoryQueue,
      readCallback
  <2> QED
    BY <1>f, <2>1, <2>2, <2>3, <2>4, <2>5 DEF TypeOK, L1TypeOK, NetTypeOK

<1>3. CASE StoreMiss(c)
  <2>h. /\ mandatory[c] # None /\ Line(c) \in Data
        /\ Fenced(c) \in Nat /\ fencedSts(c) \in Nat /\ peekLts(c) \in Nat
    BY <1>3, HeadType DEF StoreMiss, Head1, VictimOf
  <2>1. l1State' \in [Caches -> [Data -> L1State]]
    BY <1>3, <2>h DEF StoreMiss, TypeOK, L1TypeOK, L1State
  <2>2. requests' \subseteq Request
    BY <1>3, <2>h DEF StoreMiss, Request, TypeOK, L1TypeOK, NetTypeOK
  <2>3. lts' \in [Caches -> Nat] /\ sts' \in [Caches -> Nat]
    BY <1>3, <2>h DEF StoreMiss, TypeOK, L1TypeOK
  <2>4. mandatory' \in [Caches -> CoreRequest \cup {None}]
    BY <1>3, <2>h DEF StoreMiss, popMandatoryQueue, TypeOK, L1TypeOK
  <2>5. UNCHANGED <<l1Wts, l1Rts, l1Data, loads, period, issued, latest, forwards,
                    replies, responses>>
    BY <1>3, <1>f
      DEF StoreMiss, cacheVars, coreVars, historyVars, netVars, popMandatoryQueue,
      readCallback
  <2> QED
    BY <1>f, <2>1, <2>2, <2>3, <2>4, <2>5 DEF TypeOK, L1TypeOK, NetTypeOK

<1>4. CASE LoadHit(c)
  <2>h. /\ mandatory[c] # None /\ Line(c) \in Data
        /\ Fenced(c) \in Nat /\ fencedSts(c) \in Nat /\ peekLts(c) \in Nat
    BY <1>4, HeadType DEF LoadHit, Head1, VictimOf
  <2>1. lts' \in [Caches -> Nat] /\ sts' \in [Caches -> Nat]
    BY <1>4, <2>h DEF LoadHit, max, TypeOK, L1TypeOK
  <2>2. loads' \in [Caches -> [Data -> Nat]] /\ period' \in [Caches -> [Data -> Nat \ {0}]]
    BY <1>4, <2>h, CountLoadType DEF LoadHit
  <2>3. mandatory' \in [Caches -> CoreRequest \cup {None}]
    BY <1>4, <2>h DEF LoadHit, popMandatoryQueue, TypeOK, L1TypeOK
  <2>4. UNCHANGED <<l1State, l1Wts, l1Rts, l1Data, issued, latest, requests, forwards,
                    replies, responses>>
    BY <1>4, <1>f
      DEF LoadHit, cacheVars, coreVars, historyVars, netVars, popMandatoryQueue,
      readCallback
  <2> QED
    BY <1>f, <2>1, <2>2, <2>3, <2>4 DEF TypeOK, L1TypeOK, NetTypeOK

<1>5. CASE RenewLease(c)
  <2>h. /\ mandatory[c] # None /\ Line(c) \in Data
        /\ Fenced(c) \in Nat /\ fencedSts(c) \in Nat /\ peekLts(c) \in Nat
    BY <1>5, HeadType DEF RenewLease, Head1, VictimOf
  <2>1. l1State' \in [Caches -> [Data -> L1State]]
    BY <1>5, <2>h DEF RenewLease, TypeOK, L1TypeOK, L1State
  <2>2. requests' \subseteq Request
    BY <1>5, <2>h DEF RenewLease, Request, TypeOK, L1TypeOK, NetTypeOK
  <2>3. lts' \in [Caches -> Nat] /\ sts' \in [Caches -> Nat]
    BY <1>5, <2>h DEF RenewLease, TypeOK, L1TypeOK
  <2>4. loads' \in [Caches -> [Data -> Nat]] /\ period' \in [Caches -> [Data -> Nat \ {0}]]
    BY <1>5, <2>h, CountLoadType DEF RenewLease
  <2>5. mandatory' \in [Caches -> CoreRequest \cup {None}]
    BY <1>5, <2>h DEF RenewLease, popMandatoryQueue, TypeOK, L1TypeOK
  <2>6. UNCHANGED <<l1Wts, l1Rts, l1Data, issued, latest, forwards, replies, responses>>
    BY <1>5, <1>f
      DEF RenewLease, cacheVars, coreVars, historyVars, netVars, popMandatoryQueue,
      readCallback
  <2> QED
    BY <1>f, <2>1, <2>2, <2>3, <2>4, <2>5, <2>6 DEF TypeOK, L1TypeOK, NetTypeOK

<1>6. CASE RequestUpgrade(c)
  <2>h. /\ mandatory[c] # None /\ Line(c) \in Data
        /\ Fenced(c) \in Nat /\ fencedSts(c) \in Nat /\ peekLts(c) \in Nat
    BY <1>6, HeadType DEF RequestUpgrade, Head1, VictimOf
  <2>1. l1State' \in [Caches -> [Data -> L1State]]
    BY <1>6, <2>h DEF RequestUpgrade, TypeOK, L1TypeOK, L1State
  <2>2. requests' \subseteq Request
    BY <1>6, <2>h DEF RequestUpgrade, Request, TypeOK, L1TypeOK, NetTypeOK
  <2>3. lts' \in [Caches -> Nat] /\ sts' \in [Caches -> Nat]
    BY <1>6, <2>h DEF RequestUpgrade, TypeOK, L1TypeOK
  <2>4. mandatory' \in [Caches -> CoreRequest \cup {None}]
    BY <1>6, <2>h DEF RequestUpgrade, popMandatoryQueue, TypeOK, L1TypeOK
  <2>5. UNCHANGED <<l1Wts, l1Rts, l1Data, loads, period, issued, latest, forwards,
                    replies, responses>>
    BY <1>6, <1>f
      DEF RequestUpgrade, cacheVars, coreVars, historyVars, netVars, popMandatoryQueue,
      readCallback
  <2> QED
    BY <1>f, <2>1, <2>2, <2>3, <2>4, <2>5 DEF TypeOK, L1TypeOK, NetTypeOK

<1>7. CASE LoadExclusive(c)
  <2>h. /\ mandatory[c] # None /\ Line(c) \in Data
        /\ Fenced(c) \in Nat /\ fencedSts(c) \in Nat /\ peekLts(c) \in Nat
    BY <1>7, HeadType DEF LoadExclusive, Head1, VictimOf
  <2>1. lts' \in [Caches -> Nat] /\ sts' \in [Caches -> Nat]
    BY <1>7, <2>h DEF LoadExclusive, max, TypeOK, L1TypeOK
  <2>2. l1Rts' \in [Caches -> [Data -> Nat]]
    BY <1>7, <2>h, <2>1 DEF LoadExclusive, max, TypeOK, L1TypeOK
  <2>3. loads' \in [Caches -> [Data -> Nat]] /\ period' \in [Caches -> [Data -> Nat \ {0}]]
    BY <1>7, <2>h, CountLoadType DEF LoadExclusive
  <2>4. mandatory' \in [Caches -> CoreRequest \cup {None}]
    BY <1>7, <2>h DEF LoadExclusive, popMandatoryQueue, TypeOK, L1TypeOK
  <2>5. UNCHANGED <<l1State, l1Wts, l1Data, issued, latest, requests, forwards,
                    replies, responses>>
    BY <1>7, <1>f
      DEF LoadExclusive, cacheVars, coreVars, historyVars, netVars, popMandatoryQueue,
      readCallback
  <2> QED
    BY <1>f, <2>1, <2>2, <2>3, <2>4, <2>5 DEF TypeOK, L1TypeOK, NetTypeOK

<1>8. CASE StoreExclusive(c)
  <2>h. /\ mandatory[c] # None /\ Line(c) \in Data
        /\ Fenced(c) \in Nat /\ fencedSts(c) \in Nat /\ peekLts(c) \in Nat
    BY <1>8, HeadType DEF StoreExclusive, Head1, VictimOf
  <2>1. /\ sts' \in [Caches -> Nat]
        /\ l1Wts' \in [Caches -> [Data -> Nat]]
        /\ l1Rts' \in [Caches -> [Data -> Nat]]
        /\ l1Data' \in [Caches -> [Data -> Nat]]
        /\ latest' \in [Data -> Nat]
    BY <1>8, <2>h, StoreType DEF StoreExclusive, TypeOK, L1TypeOK
  <2>2. lts' \in [Caches -> Nat]
    BY <1>8, <2>h DEF StoreExclusive, TypeOK, L1TypeOK
  <2>3. mandatory' \in [Caches -> CoreRequest \cup {None}]
    BY <1>8, <2>h DEF StoreExclusive, popMandatoryQueue, TypeOK, L1TypeOK
  <2>4. UNCHANGED <<l1State, loads, period, issued, requests, forwards, replies, responses>>
    BY <1>8, <1>f
      DEF StoreExclusive, cacheVars, coreVars, historyVars, netVars, popMandatoryQueue,
      readCallback
  <2> QED
    BY <1>f, <2>1, <2>2, <2>3, <2>4 DEF TypeOK, L1TypeOK, NetTypeOK

<1>9. CASE EvictShared(c)
  <2>h. /\ mandatory[c] # None /\ Line(c) \in Data
        /\ Fenced(c) \in Nat /\ fencedSts(c) \in Nat /\ peekLts(c) \in Nat
    BY <1>9, HeadType DEF EvictShared, Head1, VictimOf
  <2>1. /\ l1State' \in [Caches -> [Data -> L1State]]
        /\ l1Wts' \in [Caches -> [Data -> Nat]]
        /\ l1Rts' \in [Caches -> [Data -> Nat]]
        /\ l1Data' \in [Caches -> [Data -> Nat]]
        /\ loads' \in [Caches -> [Data -> Nat]]
        /\ period' \in [Caches -> [Data -> Nat \ {0}]]
    BY <1>9, <2>h, ResetType DEF EvictShared
  <2>2. lts' \in [Caches -> Nat] /\ sts' \in [Caches -> Nat]
    BY <1>9, <2>h, FenceType DEF EvictShared
  <2>3. UNCHANGED <<mandatory, issued, latest, requests, forwards, replies, responses>>
    BY <1>9, <1>f
      DEF EvictShared, cacheVars, coreVars, historyVars, netVars, popMandatoryQueue,
      readCallback
  <2> QED
    BY <1>f, <2>1, <2>2, <2>3 DEF TypeOK, L1TypeOK, NetTypeOK

<1>10. CASE EvictExclusive(c)
  <2>h. /\ mandatory[c] # None /\ Line(c) \in Data
        /\ Fenced(c) \in Nat /\ fencedSts(c) \in Nat /\ peekLts(c) \in Nat
    BY <1>10, HeadType DEF EvictExclusive, Head1, VictimOf
  <2>1. l1State' \in [Caches -> [Data -> L1State]]
    BY <1>10, <2>h DEF EvictExclusive, TypeOK, L1TypeOK, L1State
  <2>2. responses' \subseteq Response
    BY <1>10, <2>h DEF EvictExclusive, Response, TypeOK, L1TypeOK, NetTypeOK
  <2>3. lts' \in [Caches -> Nat] /\ sts' \in [Caches -> Nat]
    BY <1>10, <2>h, FenceType DEF EvictExclusive
  <2>4. UNCHANGED <<l1Wts, l1Rts, l1Data, loads, period, mandatory, issued, latest,
                    requests, forwards, replies>>
    BY <1>10, <1>f
      DEF EvictExclusive, cacheVars, coreVars, historyVars, netVars, popMandatoryQueue,
      readCallback
  <2> QED
    BY <1>f, <2>1, <2>2, <2>3, <2>4 DEF TypeOK, L1TypeOK, NetTypeOK

<1>11. CASE StallMandatory(c)
  <2>h. /\ mandatory[c] # None /\ Line(c) \in Data
        /\ Fenced(c) \in Nat /\ fencedSts(c) \in Nat /\ peekLts(c) \in Nat
    BY <1>11, HeadType DEF StallMandatory, Head1, VictimOf
  <2>1. lts' \in [Caches -> Nat] /\ sts' \in [Caches -> Nat]
    BY <1>11, <2>h DEF StallMandatory, TypeOK, L1TypeOK
  <2>2. loads' \in [Caches -> [Data -> Nat]] /\ period' \in [Caches -> [Data -> Nat \ {0}]]
    BY <1>11, <2>h, CountLoadType DEF StallMandatory
  <2>3. UNCHANGED <<l1State, l1Wts, l1Rts, l1Data, mandatory, issued, latest,
                    requests, forwards, replies, responses>>
    BY <1>11, <1>f
      DEF StallMandatory, cacheVars, coreVars, historyVars, netVars, popMandatoryQueue,
      readCallback
  <2> QED
    BY <1>f, <2>1, <2>2, <2>3 DEF TypeOK, L1TypeOK, NetTypeOK

<1>12. CASE FillShared(c)
  <2>m. \A m \in replies : m \in Reply /\ m.addr \in Data /\ m.data \in Nat /\ m.wts \in Nat /\ m.rts \in Nat
    BY DEF TypeOK, NetTypeOK, Reply
  <2>1. l1State' \in [Caches -> [Data -> L1State]]
    BY <1>12, <2>m DEF FillShared, TypeOK, L1TypeOK, L1State
  <2>2. /\ l1Wts' \in [Caches -> [Data -> Nat]]
        /\ l1Rts' \in [Caches -> [Data -> Nat]]
        /\ l1Data' \in [Caches -> [Data -> Nat]]
    BY <1>12, <2>m DEF FillShared, TypeOK, L1TypeOK
  <2>3. lts' \in [Caches -> Nat]
    BY <1>12, <2>m DEF FillShared, max, TypeOK, L1TypeOK
  <2>4. replies' \subseteq Reply
    BY <1>12, <2>m DEF FillShared, TypeOK, NetTypeOK
  <2>5. UNCHANGED <<sts, loads, period, mandatory, issued, latest, requests, forwards,
                    responses>>
    BY <1>12, <1>f
      DEF FillShared, cacheVars, coreVars, historyVars, netVars, popMandatoryQueue,
      readCallback
  <2> QED
    BY <1>f, <2>1, <2>2, <2>3, <2>4, <2>5 DEF TypeOK, L1TypeOK, NetTypeOK

<1>13. CASE ExtendLease(c)
  <2>m. \A m \in replies : m \in Reply /\ m.addr \in Data /\ m.data \in Nat /\ m.wts \in Nat /\ m.rts \in Nat
    BY DEF TypeOK, NetTypeOK, Reply
  <2>1. l1State' \in [Caches -> [Data -> L1State]]
    BY <1>13, <2>m DEF ExtendLease, TypeOK, L1TypeOK, L1State
  <2>2. l1Rts' \in [Caches -> [Data -> Nat]]
    BY <1>13, <2>m DEF ExtendLease, TypeOK, L1TypeOK
  <2>3. lts' \in [Caches -> Nat]
    BY <1>13, <2>m DEF ExtendLease, max, TypeOK, L1TypeOK
  <2>4. replies' \subseteq Reply
    BY <1>13, <2>m DEF ExtendLease, TypeOK, NetTypeOK
  <2>5. UNCHANGED <<sts, l1Wts, l1Data, loads, period, mandatory, issued, latest,
                    requests, forwards, responses>>
    BY <1>13, <1>f
      DEF ExtendLease, cacheVars, coreVars, historyVars, netVars, popMandatoryQueue,
      readCallback
  <2> QED
    BY <1>f, <2>1, <2>2, <2>3, <2>4, <2>5 DEF TypeOK, L1TypeOK, NetTypeOK

<1>14. CASE FillExclusive(c)
  <2>m. \A m \in replies : m \in Reply /\ m.addr \in Data /\ m.data \in Nat /\ m.wts \in Nat /\ m.rts \in Nat
    BY DEF TypeOK, NetTypeOK, Reply
  <2>1. l1State' \in [Caches -> [Data -> L1State]]
    BY <1>14, <2>m DEF FillExclusive, TypeOK, L1TypeOK, L1State
  <2>2. /\ sts' \in [Caches -> Nat]
        /\ l1Wts' \in [Caches -> [Data -> Nat]]
        /\ l1Rts' \in [Caches -> [Data -> Nat]]
        /\ l1Data' \in [Caches -> [Data -> Nat]]
        /\ latest' \in [Data -> Nat]
    BY <1>14, <2>m, StoreType DEF FillExclusive, TypeOK, L1TypeOK
  <2>3. replies' \subseteq Reply
    BY <1>14, <2>m DEF FillExclusive, TypeOK, NetTypeOK
  <2>4. UNCHANGED <<lts, loads, period, mandatory, issued, requests, forwards, responses>>
    BY <1>14, <1>f
      DEF FillExclusive, cacheVars, coreVars, historyVars, netVars, popMandatoryQueue,
      readCallback
  <2> QED
    BY <1>f, <2>1, <2>2, <2>3, <2>4 DEF TypeOK, L1TypeOK, NetTypeOK

<1>15. CASE Upgrade(c)
  <2>m. \A m \in replies : m \in Reply /\ m.addr \in Data /\ m.data \in Nat /\ m.wts \in Nat /\ m.rts \in Nat
    BY DEF TypeOK, NetTypeOK, Reply
  <2>1. l1State' \in [Caches -> [Data -> L1State]]
    BY <1>15, <2>m DEF Upgrade, TypeOK, L1TypeOK, L1State
  <2>2. /\ sts' \in [Caches -> Nat]
        /\ l1Wts' \in [Caches -> [Data -> Nat]]
        /\ l1Rts' \in [Caches -> [Data -> Nat]]
        /\ l1Data' \in [Caches -> [Data -> Nat]]
        /\ latest' \in [Data -> Nat]
    BY <1>15, <2>m, StoreType DEF Upgrade, TypeOK, L1TypeOK
  <2>3. replies' \subseteq Reply
    BY <1>15, <2>m DEF Upgrade, TypeOK, NetTypeOK
  <2>4. UNCHANGED <<lts, loads, period, mandatory, issued, requests, forwards, responses>>
    BY <1>15, <1>f
      DEF Upgrade, cacheVars, coreVars, historyVars, netVars, popMandatoryQueue,
      readCallback
  <2> QED
    BY <1>f, <2>1, <2>2, <2>3, <2>4 DEF TypeOK, L1TypeOK, NetTypeOK

<1>16. CASE PutAcknowledged(c)
  <2>m. \A m \in replies : m \in Reply /\ m.addr \in Data /\ m.data \in Nat /\ m.wts \in Nat /\ m.rts \in Nat
    BY DEF TypeOK, NetTypeOK, Reply
  <2>1. /\ l1State' \in [Caches -> [Data -> L1State]]
        /\ l1Wts' \in [Caches -> [Data -> Nat]]
        /\ l1Rts' \in [Caches -> [Data -> Nat]]
        /\ l1Data' \in [Caches -> [Data -> Nat]]
        /\ loads' \in [Caches -> [Data -> Nat]]
        /\ period' \in [Caches -> [Data -> Nat \ {0}]]
    BY <1>16, <2>m, ResetType DEF PutAcknowledged
  <2>2. replies' \subseteq Reply
    BY <1>16, <2>m DEF PutAcknowledged, TypeOK, NetTypeOK
  <2>3. UNCHANGED <<lts, sts, mandatory, issued, latest, requests, forwards, responses>>
    BY <1>16, <1>f
      DEF PutAcknowledged, cacheVars, coreVars, historyVars, netVars, popMandatoryQueue,
      readCallback
  <2> QED
    BY <1>f, <2>1, <2>2, <2>3 DEF TypeOK, L1TypeOK, NetTypeOK

<1>17. CASE GiveBack(c)
  <2>m. \A m \in forwards : m \in Forward /\ m.addr \in Data /\ m.rts \in Nat
    BY DEF TypeOK, NetTypeOK, Forward
  <2>1. l1State' \in [Caches -> [Data -> L1State]]
    BY <1>17, <2>m DEF GiveBack, TypeOK, L1TypeOK, L1State
  <2>2. l1Rts' \in [Caches -> [Data -> Nat]]
    BY <1>17, <2>m, LeaseAssumption DEF GiveBack, max, max3, TypeOK, L1TypeOK
  <2>3. responses' \subseteq Response
    BY <1>17, <2>m, LeaseAssumption
      DEF GiveBack, max, max3, Response, TypeOK, L1TypeOK, NetTypeOK
  <2>4. forwards' \subseteq Forward
    BY <1>17, <2>m DEF GiveBack, TypeOK, NetTypeOK
  <2>5. UNCHANGED <<lts, sts, l1Wts, l1Data, loads, period, mandatory, issued, latest,
                    requests, replies>>
    BY <1>17, <1>f
      DEF GiveBack, cacheVars, coreVars, historyVars, netVars, popMandatoryQueue,
      readCallback
  <2> QED
    BY <1>f, <2>1, <2>2, <2>3, <2>4, <2>5 DEF TypeOK, L1TypeOK, NetTypeOK

<1>18. CASE GivenBackAlready(c)
  <2>m. \A m \in forwards : m \in Forward /\ m.addr \in Data /\ m.rts \in Nat
    BY DEF TypeOK, NetTypeOK, Forward
  <2>1. /\ l1State' \in [Caches -> [Data -> L1State]]
        /\ l1Wts' \in [Caches -> [Data -> Nat]]
        /\ l1Rts' \in [Caches -> [Data -> Nat]]
        /\ l1Data' \in [Caches -> [Data -> Nat]]
        /\ loads' \in [Caches -> [Data -> Nat]]
        /\ period' \in [Caches -> [Data -> Nat \ {0}]]
    BY <1>18, <2>m, ResetType DEF GivenBackAlready
  <2>2. forwards' \subseteq Forward
    BY <1>18, <2>m DEF GivenBackAlready, TypeOK, NetTypeOK
  <2>3. UNCHANGED <<lts, sts, mandatory, issued, latest, requests, replies, responses>>
    BY <1>18, <1>f
      DEF GivenBackAlready, cacheVars, coreVars, historyVars, netVars,
      popMandatoryQueue, readCallback
  <2> QED
    BY <1>f, <2>1, <2>2, <2>3 DEF TypeOK, L1TypeOK, NetTypeOK

<1> QED
  BY <1>1, <1>2, <1>3, <1>4, <1>5, <1>6, <1>7, <1>8, <1>9, <1>10, <1>11, <1>12, <1>13, <1>14, <1>15, <1>16, <1>17, <1>18 DEF L1Step, OnMandatory, OnReply, OnForward


-----------------------------------------------------------------------------
(* A nonempty set of naturals has a least element, which Min picks. *)
LEMMA MinOfNaturals ==
  ASSUME NEW S \in SUBSET Nat, S # {}
  PROVE  Min(S) \in S /\ \A y \in S : Min(S) =< y
<1> DEFINE Less == {p \in Nat \X Nat : p[1] < p[2]}
<1>1. IsWellFoundedOn(Less, Nat)
  BY NatLessThanWellFounded DEF OpToRel
<1>2. \A y, z \in Nat : y < z => <<y, z>> \in Less
  OBVIOUS
<1> HIDE DEF Less
<1>3. PICK x \in S : \A y \in S : ~(<<y, x>> \in Less)
  BY <1>1, WFMin
<1>4. \A y \in S : y \in Nat /\ x \in Nat
  BY <1>3
<1>5. \A y \in S : ~(y < x)
  BY <1>2, <1>3, <1>4
<1>6. \A y \in S : x =< y
  BY <1>4, <1>5
<1> QED
  BY <1>6 DEF Min

-----------------------------------------------------------------------------
(* The chain of counters of a block. *)

(* The chain of a block is a sequence of counters. *)
LEMMA PathType ==
  ASSUME NEW a \in Addr
  PROVE  /\ Path[a] \in Seq(Counters)
         /\ \A i \in DOMAIN Path[a] : Path[a][i] \in Counters
         /\ DOMAIN Path[a] = 1 .. Len(Path[a]) /\ Len(Path[a]) \in Nat
         /\ ToSet(Path[a]) \subseteq Counters
<1>1. Path[a] \in Seq(Counters)
  BY PathAssumption
<1> QED
  BY <1>1 DEF ToSet

(* The part of the chain that is in the LLC holds counters only. *)
LEMMA ChainType ==
  ASSUME NEW a \in Addr
  PROVE  ToSet(PresentChain(a)) \subseteq Counters
<1>1. CASE Missing(a, resident) = {}
  BY <1>1, PathType DEF PresentChain
<1>2. CASE Missing(a, resident) # {}
  <2>1. Missing(a, resident) \subseteq 1 .. Len(Path[a])
    BY PathType DEF Missing
  <2>2. Min(Missing(a, resident)) \in 1 .. Len(Path[a])
    BY <1>2, <2>1, MinOfNaturals, PathType
  <2>3. PresentChain(a) = SubSeq(Path[a], 1, Min(Missing(a, resident)) - 1)
    BY <1>2 DEF PresentChain
  <2>4. PresentChain(a) \in Seq(Counters)
    BY <2>2, <2>3, PathType, SubSeqProperties
  <2> QED
    BY <2>4 DEF ToSet
<1> QED
  BY <1>1, <1>2

(* The first counter of a's chain that T lacks, if any, is a counter. *)
LEMMA FirstMissingType ==
  ASSUME NEW a \in Addr, NEW T
  PROVE  /\ FirstMissingIn(a, T) \in Counters \cup {None}
         /\ Missing(a, T) # {} => FirstMissingIn(a, T) \in Counters
<1>1. CASE Missing(a, T) = {}
  BY <1>1 DEF FirstMissingIn
<1>2. CASE Missing(a, T) # {}
  <2>1. Missing(a, T) \in SUBSET Nat /\ Missing(a, T) \subseteq DOMAIN Path[a]
    BY PathType DEF Missing
  <2>2. Min(Missing(a, T)) \in Missing(a, T)
    BY <1>2, <2>1, MinOfNaturals
  <2> QED
    BY <1>2, <2>1, <2>2, PathType DEF FirstMissingIn
<1> QED
  BY <1>1, <1>2

(* The parent of a block that has one is a counter. *)
LEMMA ParentType ==
  ASSUME NEW a \in Addr, Path[a] # <<>>
  PROVE  /\ Parent(a) \in Counters
         /\ Parent(a) \notin resident => Missing(a, resident) # {}
<1>1. Len(Path[a]) > 0 /\ Head(Path[a]) = Path[a][1] /\ 1 \in DOMAIN Path[a]
  BY PathType
<1> QED
  BY <1>1, PathType DEF Parent, Missing

-----------------------------------------------------------------------------
(* The tables of state changes. *)
LEMMA StateMaps ==
  /\ \A s \in Stable :
       FetchAuth[s] \in InFetchAuth /\ (FetchAuth[s] = "E_Fetch_Auth" <=> s = "E")
  /\ \A s \in InFetchAuth \cup InEvicting :
       Base[s] \in Stable /\ (Base[s] = "E" <=> s = "E_Fetch_Auth")
  /\ \A s \in InEvicting : Base[s] # "E" /\ (s = "I_Evicting" => Base[s] = "I")
  /\ \A s \in {"I", "S", "C_M"} :
       /\ Evicting[s] \in InEvicting /\ (s # "S" => Evicting[s] = "I_Evicting")
       /\ EvictAuth[s] \in InEvictAuth /\ (s # "S" => EvictAuth[s] = "I_Evict_Auth")
  /\ \A s \in InEvictAuth :
       Resumed[s] \in InEvicting /\ (s = "I_Evict_Auth" => Resumed[s] = "I_Evicting")
<1>1. /\ FetchAuth["I"] = "I_Fetch_Auth" /\ FetchAuth["S"] = "S_Fetch_Auth"
      /\ FetchAuth["E"] = "E_Fetch_Auth"
  BY DEF FetchAuth
<1>2. /\ Base["I_Fetch_Auth"] = "I" /\ Base["S_Fetch_Auth"] = "S"
      /\ Base["E_Fetch_Auth"] = "E" /\ Base["I_Evicting"] = "I"
      /\ Base["S_Evicting"] = "S"
  BY DEF Base
<1>3. /\ Evicting["I"] = "I_Evicting" /\ Evicting["S"] = "S_Evicting"
      /\ Evicting["C_M"] = "I_Evicting"
  BY DEF Evicting
<1>4. /\ EvictAuth["I"] = "I_Evict_Auth" /\ EvictAuth["S"] = "S_Evict_Auth"
      /\ EvictAuth["C_M"] = "I_Evict_Auth"
  BY DEF EvictAuth
<1>5. /\ Resumed["I_Evict_Auth"] = "I_Evicting" /\ Resumed["S_Evict_Auth"] = "S_Evicting"
  BY DEF Resumed
<1> QED
  BY <1>1, <1>2, <1>3, <1>4, <1>5 DEF Stable, InFetchAuth, InEvicting, InEvictAuth

-----------------------------------------------------------------------------
(* The pieces several actions of the directory share. *)
Heads == [memory : Addr \cup {None}, response : Response \cup {None},
          request : Request \cup {None}]

(* What a request, ... *)
LEMMA RequestType ==
  ASSUME TypeOK, NEW m \in requests
  PROVE  /\ m \in Request /\ m.addr \in Data /\ m.addr \in Addr /\ m.from \in Caches
         /\ m.addr \notin Counters /\ m.wts \in Nat /\ m.lts \in Nat
  BY AddressAssumption DEF TypeOK, NetTypeOK, Request, Addr

(* ... and a response, hold. *)
LEMMA ResponseType ==
  ASSUME TypeOK, NEW m \in responses
  PROVE  /\ m \in Response /\ m.addr \in Data /\ m.addr \in Addr /\ m.from \in Caches
         /\ m.addr \notin Counters /\ m.data \in Nat /\ m.wts \in Nat /\ m.rts \in Nat
  BY AddressAssumption DEF TypeOK, NetTypeOK, Response, Addr

(* The lease a request renews ends at a time. *)
LEMMA LeasedType ==
  ASSUME TypeOK, NEW m \in requests
  PROVE  LeasedRts(m) \in Nat
<1>1. dirRts[m.addr] \in Nat /\ dirWts[m.addr] \in Nat
  BY RequestType DEF TypeOK, DirTypeOK
<1> QED
  BY <1>1, RequestType, LeaseAssumption DEF LeasedRts, max3, max

(* A message to memory joins the queue of its address. *)
LEMMA SendType ==
  ASSUME TypeOK, NEW a \in Addr, NEW d \in Nat
  PROVE  /\ SendMem(a, READ) => memQ' \in [Addr -> Seq(MemMsg)]
         /\ SendMem(a, WB(d)) => memQ' \in [Addr -> Seq(MemMsg)]
<1>1. READ \in MemMsg /\ WB(d) \in MemMsg
  BY DEF READ, WB, MemMsg
<1>2. memQ \in [Addr -> Seq(MemMsg)] /\ memQ[a] \in Seq(MemMsg)
  BY DEF TypeOK, DirTypeOK
<1>3. Append(memQ[a], READ) \in Seq(MemMsg) /\ Append(memQ[a], WB(d)) \in Seq(MemMsg)
  BY <1>1, <1>2
<1> QED
  BY <1>2, <1>3 DEF SendMem

(* A reply to a cache joins the replies. *)
LEMMA ReplyType ==
  ASSUME TypeOK, NEW type \in {"SH_REP", "EX_REP", "UPGR_REP", "RENEW_REP", "ACK_REP"},
         NEW a \in Data, NEW to \in Caches, NEW data \in Nat, NEW w \in Nat, NEW r \in Nat,
         Reply1(type, a, to, data, w, r)
  PROVE  replies' \subseteq Reply
  BY DEF Reply1, Reply, TypeOK, NetTypeOK

(* A recall goes to the owner, which is a cache. *)
LEMMA ForwardType ==
  ASSUME TypeOK, NEW type \in {"WB_REQ", "FLUSH_REQ"}, NEW a \in Data,
         owner[a] \in Caches, NEW r \in Nat,
         sendToOwner(type, a, r)
  PROVE  forwards' \subseteq Forward
  BY DEF sendToOwner, Forward, TypeOK, NetTypeOK

(* The read of a counter, sent or not, leaves the queues typed. *)
LEMMA ReadOnceType ==
  ASSUME TypeOK, NEW k \in Counters, ReadOnce(k)
  PROVE  memQ' \in [Addr -> Seq(MemMsg)]
<1>1. k \in Addr /\ memQ \in [Addr -> Seq(MemMsg)]
  BY DEF Addr, TypeOK, DirTypeOK
<1> QED
  BY <1>1, SendType DEF ReadOnce

(* So does taking the head of a queue, ... *)
LEMMA TailType ==
  ASSUME TypeOK, NEW a \in Addr, memQ[a] # <<>>
  PROVE  [memQ EXCEPT ![a] = Tail(@)] \in [Addr -> Seq(MemMsg)]
<1>1. memQ \in [Addr -> Seq(MemMsg)]
  BY DEF TypeOK, DirTypeOK
<1>2. Tail(memQ[a]) \in Seq(MemMsg)
  BY <1>1
<1> QED
  BY <1>1, <1>2

(* ... and taking an acknowledged write from the middle of one. *)
LEMMA RemoveType ==
  ASSUME TypeOK, NEW a \in Addr, NEW i \in DOMAIN memQ[a]
  PROVE  [memQ EXCEPT ![a] = RemoveAt(@, i)] \in [Addr -> Seq(MemMsg)]
<1>1. memQ \in [Addr -> Seq(MemMsg)] /\ memQ[a] \in Seq(MemMsg)
  BY DEF TypeOK, DirTypeOK
<1>2. i \in 1 .. Len(memQ[a]) /\ Len(memQ[a]) \in Nat
  BY <1>1
<1>3. SubSeq(memQ[a], 1, i - 1) \in Seq(MemMsg)
  BY <1>1, <1>2, SubSeqProperties
<1>4. SubSeq(memQ[a], i + 1, Len(memQ[a])) \in Seq(MemMsg)
  BY <1>1, <1>2, SubSeqProperties
<1>5. RemoveAt(memQ[a], i) \in Seq(MemMsg)
  BY <1>3, <1>4, ConcatProperties DEF RemoveAt
<1> QED
  BY <1>1, <1>5

(* Waiters that enter the free slots of an AuthTBE leave blocks in its slots. *)
LEMMA EnterType ==
  ASSUME NEW to \in [Slot -> Addr \cup {None}], NEW from, NEW moved,
         \A j \in moved : from[j] \in Addr \cup {None}
  PROVE  Enter(to, from, moved) \in [Slot -> Addr \cup {None}]
<1> DEFINE free == {i \in Slot : to[i] = None}
           Meets(i, j) == Before(moved, j) = Before(free, i)
<1>1. ASSUME NEW i \in Slot, \E j \in moved : Meets(i, j)
      PROVE  from[CHOOSE j \in moved : Meets(i, j)] \in Addr \cup {None}
  <2>1. (CHOOSE j \in moved : Meets(i, j)) \in moved
    BY <1>1, Zenon
  <2> QED
    BY <2>1
<1> QED
  BY <1>1 DEF Enter

(* So does a single one. *)
LEMMA WaitersType ==
  ASSUME TypeOK, NEW k \in Counters, NEW w \in Addr
  PROVE  [waiters EXCEPT ![k] = Enter(@, [i \in {1} |-> w], {1})]
           \in [Counters -> [Slot -> Addr \cup {None}]]
<1>1. waiters \in [Counters -> [Slot -> Addr \cup {None}]]
  BY DEF TypeOK, DirTypeOK
<1>2. Enter(waiters[k], [i \in {1} |-> w], {1}) \in [Slot -> Addr \cup {None}]
  BY <1>1, EnterType
<1> QED
  BY <1>1, <1>2

(* An evicted block is parked in a well-typed TBE. *)
LEMMA ParkType ==
  ASSUME TypeOK, NEW v \in Addr, Park(v)
  PROVE  tbe' \in [Addr -> TBE]
  BY DEF Park, TBE, TypeOK, DirTypeOK

(* A message that demands room moves the clock and holds its port. *)
LEMMA DemandType ==
  ASSUME TypeOK, Demand
  PROVE  mts' \in Nat /\ atHead' \in Heads
<1>1. CASE \E a \in Addr : MemoryNeedsRoom(a) /\ Hold("memory", a) /\ UNCHANGED mts
  BY <1>1 DEF Hold, Heads, TypeOK, DirTypeOK
<1>2. CASE \E m \in responses : ResponseNeedsRoom(m) /\ Hold("response", m) /\ SeeRts(m)
  BY <1>2, ResponseType DEF Hold, Heads, SeeRts, max, TypeOK, DirTypeOK
<1> QED
  BY <1>1, <1>2 DEF Demand

(* A request that misses authentication has a counter to fetch, ... *)
LEMMA AuthMissType ==
  ASSUME TypeOK, NEW m \in requests, Event(m) = "Auth_Miss"
  PROVE  Parent(m.addr) \in Counters
<1>1. ParentMissing(m.addr, resident)
  BY DEF Event
<1> QED
  BY <1>1, RequestType, ParentType DEF ParentMissing

(* ... and so has a flushed block whose parent is missing. *)
LEMMA FlushMissType ==
  ASSUME NEW a \in Data, Parent(a) \notin resident
  PROVE  getFirstMissingParent(a) \in Counters
<1>1. a \in Addr /\ Path[a] # <<>>
  BY PathAssumption DEF Addr
<1> QED
  BY <1>1, ParentType, FirstMissingType DEF getFirstMissingParent

(* The entries stay well formed when the entry of a alone changes, apart   *)
(* from the states of counters, and stays well formed itself.              *)
LEMMA EntryStep ==
  ASSUME TypeOK, NEW a \in Addr,
         \A b \in Addr : b # a =>
           /\ \/ dirState'[b] = dirState[b]
              \/ b \in Counters /\ dirState'[b] \in CounterState
           /\ owner'[b] = owner[b] /\ tbe'[b] = tbe[b],
         a \in Counters => dirState'[a] \in CounterState,
         dirState'[a] \in Owned /\ a \in Data => owner'[a] \in Caches,
         dirState'[a] \in Pending /\ a \in Data => tbe'[a].requestor \in Caches
  PROVE  EntriesOK'
<1>1. \A k \in Counters : dirState'[k] \in CounterState
  BY DEF Addr, TypeOK, DirTypeOK, EntriesOK
<1>2. \A b \in Data : dirState'[b] \in Owned => owner'[b] \in Caches
  BY AddressAssumption DEF Addr, TypeOK, DirTypeOK, EntriesOK
<1>3. \A b \in Data : dirState'[b] \in Pending => tbe'[b].requestor \in Caches
  BY AddressAssumption DEF Addr, TypeOK, DirTypeOK, EntriesOK
<1> QED
  BY <1>1, <1>2, <1>3 DEF EntriesOK

(* Only a line is in a state in which the entry waits for its data. *)
LEMMA PendingData ==
  ASSUME TypeOK, NEW a \in Addr, dirState[a] \in Pending
  PROVE  a \in Data /\ a \in Addr /\ a \notin Counters
  BY AddressAssumption DEF TypeOK, DirTypeOK, EntriesOK, CounterState, Pending, Addr

(* An owned line has an owner, ... *)
LEMMA OwnerType ==
  ASSUME TypeOK, NEW a \in Data, dirState[a] \in Owned
  PROVE  owner[a] \in Caches
  BY DEF TypeOK, DirTypeOK, EntriesOK

(* ... a line whose data is awaited has a requestor, ... *)
LEMMA RequestorType ==
  ASSUME TypeOK, NEW a \in Data, dirState[a] \in Pending
  PROVE  tbe[a].requestor \in Caches
  BY DEF TypeOK, DirTypeOK, EntriesOK

(* ... and the fields of a TBE are typed. *)
LEMMA TBEType ==
  ASSUME TypeOK, NEW a \in Addr
  PROVE  tbe[a] \in TBE /\ tbe[a].data \in Nat /\ tbe[a].lts \in Nat
  BY DEF TypeOK, DirTypeOK, TBE

(* A root counter counts. *)
LEMMA RootCountType ==
  ASSUME TypeOK, NEW a \in Addr, incrementRootCounter(a)
  PROVE  rootCount' \in [0 .. 2 -> Nat]
<1>1. rootCount \in [0 .. 2 -> Nat]
  BY DEF TypeOK, DirTypeOK
<1>2. DOMAIN rootCount = 0 .. 2 /\ \A s \in 0 .. 2 : rootCount[s] \in Nat /\ rootCount[s] + 1 \in Nat
  BY <1>1
<1> QED
  BY <1>2 DEF incrementRootCounter

(* A message to memory carries a block. *)
LEMMA MessageType ==
  ASSUME TypeOK, NEW a \in Addr, NEW i \in DOMAIN memQ[a]
  PROVE  memQ[a][i].data \in Nat
<1>1. memQ[a] \in Seq(MemMsg)
  BY DEF TypeOK, DirTypeOK
<1>2. memQ[a][i] \in MemMsg
  BY <1>1
<1> QED
  BY <1>2 DEF MemMsg

(* What a suspended eviction waits for is a counter. *)
LEMMA AwaitedType ==
  ASSUME NEW v \in Addr, getFirstMissingParent(v) # None
  PROVE  getFirstMissingParent(v) \in Counters
  BY FirstMissingType DEF getFirstMissingParent

-----------------------------------------------------------------------------
(* What the arrival of a counter does to the entry of a: the counter itself *)
(* ends in I, a counter may become C_M, a suspended eviction may resume.    *)
LEMMA CounterDataStates ==
  ASSUME TypeOK, NEW c \in Addr, CounterData(c), NEW a \in Addr
  PROVE  \/ dirState'[a] = dirState[a]
         \/ a \in Counters /\ dirState'[a] = "C_M"
         \/ /\ dirState[a] \in InEvictAuth /\ dirState'[a] \in InEvicting
            /\ dirState[a] = "I_Evict_Auth" => dirState'[a] = "I_Evicting"
<1> DEFINE T == resident \cup {c}
           slot == IF c \notin fetching THEN NoWaiters ELSE waiters[c]
           filled == {i \in Slot : slot[i] # None}
           ready == {i \in filled : FirstMissingIn(slot[i], T) = None}
           written == {slot[i] : i \in ready}
           marked == UNION {ToSet(Path[w]) : w \in written}
<1>1. dirState' = [b \in Addr |->
         CASE b = c -> "I"
           [] b # c /\ b \in marked -> "C_M"
           [] b # c /\ b \notin marked /\ b \in written /\ dirState[b] \in InEvictAuth ->
                Resumed[dirState[b]]
           [] OTHER -> dirState[b]]
  BY DEF CounterData
<1>2. dirState[c] = "I"
  BY DEF CounterData, Answer
<1>3. slot \in [Slot -> Addr \cup {None}]
  BY DEF NoWaiters, TypeOK, DirTypeOK
<1>4. written \subseteq Addr
  BY <1>3
<1>5. marked \subseteq Counters
  BY <1>4, PathType
<1> HIDE DEF T, slot, filled, ready, written, marked
<1> QED
  BY <1>1, <1>2, <1>5, StateMaps

(* The arrival of a counter: what it leaves in each variable, from the sets *)
(* of evictions it resumes, counters it marks and fetches it starts.        *)
LEMMA CounterDataType ==
  ASSUME TypeOK, NEW c \in Addr, CounterData(c), UNCHANGED fault
  PROVE  DirTypeOK' /\ NetTypeOK'
<1> DEFINE T == resident \cup {c}
           orphan == c \notin fetching
           slot == IF orphan THEN NoWaiters ELSE waiters[c]
           filled == {i \in Slot : slot[i] # None}
           MissingFor(i) == FirstMissingIn(slot[i], T)
           ready == {i \in filled : MissingFor(i) = None}
           written == {slot[i] : i \in ready}
           marked == UNION {ToSet(Path[w]) : w \in written}
           above == IF ~orphan /\ ParentMissing(c, T) THEN {Parent(c)} ELSE {}
           started == ({MissingFor(i) : i \in filled \ ready} \cup above) \ fetching
<1>1. slot \in [Slot -> Addr \cup {None}]
  BY DEF NoWaiters, TypeOK, DirTypeOK
<1>2. \A i \in filled : slot[i] \in Addr
  BY <1>1
<1>3. written \subseteq Addr
  BY <1>2
<1>4. marked \subseteq Counters
  BY <1>3, PathType
<1>5. above \subseteq Counters
  BY ParentType DEF ParentMissing
<1>6. \A i \in filled \ ready : MissingFor(i) \in Counters
  BY <1>2, FirstMissingType
<1>7. started \subseteq Counters
  BY <1>5, <1>6
<1>8. Counters \subseteq Addr /\ Counters \cap Data = {}
  BY AddressAssumption DEF Addr
<1>9. /\ resident' = T /\ dirty' = (dirty \ {c}) \cup marked
      /\ llcData' = [llcData EXCEPT ![c] = memory[c]]
  BY DEF CounterData
<1>10. DOMAIN dirState' = Addr /\ dirState' = [a \in Addr |-> dirState'[a]]
  BY DEF CounterData
<1>11. fetching' = (fetching \cup started) \ {c}
  BY DEF CounterData
<1>12. waiters' = [p \in Counters |->
         IF p = c THEN NoWaiters
         ELSE Enter(waiters[p], slot, {i \in filled : MissingFor(i) = p})]
  BY DEF CounterData
<1>13. memQ' = [a \in Addr |->
         IF a = c THEN Tail(memQ[c])
         ELSE memQ[a] \o (IF a \in started THEN <<READ>> ELSE <<>>)
                      \o (IF a \in written THEN <<WB(tbe[a].data)>> ELSE <<>>)]
  BY DEF CounterData
<1>14. memQ[c] # <<>> /\ dirState[c] = "I"
  BY DEF CounterData, Answer, DataReady
<1>15. UNCHANGED <<mts, dirWts, dirRts, owner, tbe, memory, rootCount,
                   forwards, replies, responses>>
  BY DEF CounterData
<1>16. requests' \subseteq Request /\ stalled' \subseteq Request /\ atHead' \in Heads
  BY DEF CounterData, wakeUpAll, Pop, Heads, TypeOK, DirTypeOK, NetTypeOK
<1> HIDE DEF T, orphan, slot, filled, MissingFor, ready, written, marked, above, started
<1>17. resident' \subseteq Addr /\ dirty' \subseteq Addr /\ llcData' \in [Addr -> Nat]
  BY <1>4, <1>8, <1>9 DEF T, TypeOK, DirTypeOK
<1>18. \A a \in Addr :
         \/ dirState'[a] = dirState[a]
         \/ a \in Counters /\ dirState'[a] = "C_M"
         \/ /\ dirState[a] \in InEvictAuth /\ dirState'[a] \in InEvicting
            /\ dirState[a] = "I_Evict_Auth" => dirState'[a] = "I_Evicting"
  BY CounterDataStates
<1>19. dirState' \in [Addr -> DirState]
  BY <1>10, <1>18 DEF DirState, TypeOK, DirTypeOK
<1>20. EntriesOK'
  <2>1. \A k \in Counters : dirState'[k] \in CounterState
    BY <1>8, <1>18 DEF CounterState, InEvictAuth, InEvicting, TypeOK, DirTypeOK, EntriesOK
  <2>2. \A a \in Data : /\ dirState'[a] \in Owned => dirState[a] \in Owned
                        /\ dirState'[a] \in Pending => dirState[a] \in Pending
    BY <1>8, <1>18 DEF Owned, Pending, InEvicting, Addr
  <2> QED
    BY <1>15, <2>1, <2>2, OwnerType, RequestorType DEF EntriesOK
<1>21. fetching' \subseteq Counters
  BY <1>7, <1>11 DEF TypeOK, DirTypeOK
<1>22. waiters' \in [Counters -> [Slot -> Addr \cup {None}]]
  <2>1. ASSUME NEW p \in Counters
        PROVE  Enter(waiters[p], slot, {i \in filled : MissingFor(i) = p})
                 \in [Slot -> Addr \cup {None}]
    <3>1. waiters[p] \in [Slot -> Addr \cup {None}]
      BY DEF TypeOK, DirTypeOK
    <3>2. \A i \in {i \in filled : MissingFor(i) = p} : slot[i] \in Addr \cup {None}
      BY <1>2
    <3> QED
      BY <3>1, <3>2, EnterType
  <2> QED
    BY <1>12, <2>1 DEF NoWaiters
<1>23. memQ' \in [Addr -> Seq(MemMsg)]
  <2>1. ASSUME NEW a \in Addr
        PROVE  /\ memQ[a] \in Seq(MemMsg)
               /\ (IF a \in started THEN <<READ>> ELSE <<>>) \in Seq(MemMsg)
               /\ (IF a \in written THEN <<WB(tbe[a].data)>> ELSE <<>>) \in Seq(MemMsg)
    <3>1. READ \in MemMsg /\ WB(tbe[a].data) \in MemMsg
      BY TBEType DEF READ, WB, MemMsg
    <3> QED
      BY <3>1 DEF TypeOK, DirTypeOK
  <2>2. Tail(memQ[c]) \in Seq(MemMsg)
    BY <1>14, <2>1
  <2> QED
    BY <1>13, <2>1, <2>2, ConcatProperties
<1> QED
  BY <1>15, <1>16, <1>17, <1>19, <1>20, <1>21, <1>22, <1>23
  DEF TypeOK, DirTypeOK, NetTypeOK, Heads

(* A step on a request: one case per transition, one part per group of variables. *)
LEMMA RequestStepType ==
  ASSUME TypeOK, NEW m \in requests, OnRequest(m), UNCHANGED fault
  PROVE  DirTypeOK' /\ NetTypeOK'
<1>f. UNCHANGED fault
  OBVIOUS
<1>h. /\ m \in Request /\ m.addr \in Data /\ m.addr \in Addr /\ m.from \in Caches
      /\ m.addr \notin Counters /\ m.wts \in Nat /\ m.lts \in Nat
  BY RequestType
<1>1. CASE GrantSharedFromLLC(m)
  <2>1. dirState' \in [Addr -> DirState]
    BY <1>1, <1>h
      DEF GrantSharedFromLLC, TypeOK, DirTypeOK, DirState, Stable, InFetchAuth,
      InEvictAuth, InEvicting, Accept
  <2>2. /\ dirWts' \in [Addr -> Nat]
        /\ dirRts' \in [Addr -> Nat]
    BY <1>1, <1>h DEF GrantSharedFromLLC, TypeOK, DirTypeOK
  <2>3. replies' \subseteq Reply
    BY <1>1, <1>h, ReplyType DEF GrantSharedFromLLC, TypeOK, DirTypeOK
  <2>4. /\ requests' \subseteq Request
        /\ atHead' \in Heads
    BY <1>1, <1>h
      DEF GrantSharedFromLLC, PopRequest, Pop, Heads, TypeOK, DirTypeOK, NetTypeOK
  <2>5. UNCHANGED <<mts, owner, resident, dirty, llcData, tbe, fetching, waiters,
                    stalled, memQ, memory, rootCount, forwards, responses>>
    BY <1>1
      DEF GrantSharedFromLLC, entryVars, llcVars, authVars, memVars, netVars, Hold, Pop
  <2>e. \A b \in Addr : b # m.addr =>
         /\ dirState'[b] = dirState[b]
         /\ owner'[b] = owner[b] /\ tbe'[b] = tbe[b]
    BY <1>1, <1>h, <2>5 DEF GrantSharedFromLLC, TypeOK, DirTypeOK
  <2>s. /\ m.addr \in Counters => dirState'[m.addr] \in CounterState
        /\ dirState'[m.addr] \in Owned /\ m.addr \in Data => owner'[m.addr] \in Caches
        /\ dirState'[m.addr] \in Pending /\ m.addr \in Data => tbe'[m.addr].requestor \in Caches
    BY <1>1, <1>h, <2>5
      DEF GrantSharedFromLLC, TypeOK, DirTypeOK, EntriesOK, CounterState, Owned,
      Pending, Accept, Stable
  <2>t. EntriesOK'
    BY <1>h, <2>e, <2>s, EntryStep
  <2> QED
    BY <1>f, <2>1, <2>2, <2>3, <2>4, <2>5, <2>t DEF TypeOK, DirTypeOK, NetTypeOK, Heads

<1>2. CASE GrantExclusiveFromLLC(m)
  <2>1. dirState' \in [Addr -> DirState]
    BY <1>2, <1>h
      DEF GrantExclusiveFromLLC, TypeOK, DirTypeOK, DirState, Stable, InFetchAuth,
      InEvictAuth, InEvicting, Accept
  <2>2. /\ dirWts' \in [Addr -> Nat]
        /\ dirRts' \in [Addr -> Nat]
    BY <1>2, <1>h DEF GrantExclusiveFromLLC, TypeOK, DirTypeOK
  <2>3. owner' \in [Addr -> Caches \cup {None}]
    BY <1>2, <1>h DEF GrantExclusiveFromLLC, TypeOK, DirTypeOK
  <2>4. replies' \subseteq Reply
    BY <1>2, <1>h, ReplyType DEF GrantExclusiveFromLLC, TypeOK, DirTypeOK
  <2>5. /\ requests' \subseteq Request
        /\ atHead' \in Heads
    BY <1>2, <1>h
      DEF GrantExclusiveFromLLC, PopRequest, Pop, Heads, TypeOK, DirTypeOK, NetTypeOK
  <2>6. UNCHANGED <<mts, resident, dirty, llcData, tbe, fetching, waiters, stalled,
                    memQ, memory, rootCount, forwards, responses>>
    BY <1>2
      DEF GrantExclusiveFromLLC, entryVars, llcVars, authVars, memVars, netVars, Hold,
      Pop
  <2>e. \A b \in Addr : b # m.addr =>
         /\ dirState'[b] = dirState[b]
         /\ owner'[b] = owner[b] /\ tbe'[b] = tbe[b]
    BY <1>2, <1>h, <2>6 DEF GrantExclusiveFromLLC, TypeOK, DirTypeOK
  <2>s. /\ m.addr \in Counters => dirState'[m.addr] \in CounterState
        /\ dirState'[m.addr] \in Owned /\ m.addr \in Data => owner'[m.addr] \in Caches
        /\ dirState'[m.addr] \in Pending /\ m.addr \in Data => tbe'[m.addr].requestor \in Caches
    BY <1>2, <1>h, <2>6
      DEF GrantExclusiveFromLLC, TypeOK, DirTypeOK, EntriesOK, CounterState, Owned,
      Pending, Accept, Stable
  <2>t. EntriesOK'
    BY <1>h, <2>e, <2>s, EntryStep
  <2> QED
    BY <1>f, <2>1, <2>2, <2>3, <2>4, <2>5, <2>6, <2>t
      DEF TypeOK, DirTypeOK, NetTypeOK, Heads

<1>3. CASE GrantUpgrade(m)
  <2>1. dirState' \in [Addr -> DirState]
    BY <1>3, <1>h
      DEF GrantUpgrade, TypeOK, DirTypeOK, DirState, Stable, InFetchAuth, InEvictAuth,
      InEvicting, Accept
  <2>2. owner' \in [Addr -> Caches \cup {None}]
    BY <1>3, <1>h DEF GrantUpgrade, TypeOK, DirTypeOK
  <2>3. replies' \subseteq Reply
    BY <1>3, <1>h, ReplyType DEF GrantUpgrade, TypeOK, DirTypeOK
  <2>4. /\ requests' \subseteq Request
        /\ atHead' \in Heads
    BY <1>3, <1>h DEF GrantUpgrade, PopRequest, Pop, Heads, TypeOK, DirTypeOK, NetTypeOK
  <2>5. UNCHANGED <<mts, dirWts, dirRts, resident, dirty, llcData, tbe, fetching,
                    waiters, stalled, memQ, memory, rootCount, forwards, responses>>
    BY <1>3 DEF GrantUpgrade, entryVars, llcVars, authVars, memVars, netVars, Hold, Pop
  <2>e. \A b \in Addr : b # m.addr =>
         /\ dirState'[b] = dirState[b]
         /\ owner'[b] = owner[b] /\ tbe'[b] = tbe[b]
    BY <1>3, <1>h, <2>5 DEF GrantUpgrade, TypeOK, DirTypeOK
  <2>s. /\ m.addr \in Counters => dirState'[m.addr] \in CounterState
        /\ dirState'[m.addr] \in Owned /\ m.addr \in Data => owner'[m.addr] \in Caches
        /\ dirState'[m.addr] \in Pending /\ m.addr \in Data => tbe'[m.addr].requestor \in Caches
    BY <1>3, <1>h, <2>5
      DEF GrantUpgrade, TypeOK, DirTypeOK, EntriesOK, CounterState, Owned, Pending,
      Accept, Stable
  <2>t. EntriesOK'
    BY <1>h, <2>e, <2>s, EntryStep
  <2> QED
    BY <1>f, <2>1, <2>2, <2>3, <2>4, <2>5, <2>t DEF TypeOK, DirTypeOK, NetTypeOK, Heads

<1>4. CASE FetchShared(m)
  <2>1. dirState' \in [Addr -> DirState]
    BY <1>4, <1>h
      DEF FetchShared, TypeOK, DirTypeOK, DirState, Stable, InFetchAuth, InEvictAuth,
      InEvicting, Accept
  <2>2. dirRts' \in [Addr -> Nat]
    BY <1>4, <1>h, LeasedType DEF FetchShared, LeaseRts, TypeOK, DirTypeOK
  <2>3. tbe' \in [Addr -> TBE]
    BY <1>4, <1>h
      DEF FetchShared, TBE, NoTBE, allocateTBE_ReqIn, Park, TypeOK, DirTypeOK
  <2>4. memQ' \in [Addr -> Seq(MemMsg)]
    BY <1>4, <1>h, SendType DEF FetchShared, TypeOK
  <2>5. /\ requests' \subseteq Request
        /\ atHead' \in Heads
    BY <1>4, <1>h DEF FetchShared, PopRequest, Pop, Heads, TypeOK, DirTypeOK, NetTypeOK
  <2>6. UNCHANGED <<mts, dirWts, owner, resident, dirty, llcData, fetching, waiters,
                    stalled, memory, rootCount, forwards, replies, responses>>
    BY <1>4 DEF FetchShared, entryVars, llcVars, authVars, memVars, netVars, Hold, Pop
  <2>e. \A b \in Addr : b # m.addr =>
         /\ dirState'[b] = dirState[b]
         /\ owner'[b] = owner[b] /\ tbe'[b] = tbe[b]
    BY <1>4, <1>h, <2>6 DEF FetchShared, TypeOK, DirTypeOK
  <2>s. /\ m.addr \in Counters => dirState'[m.addr] \in CounterState
        /\ dirState'[m.addr] \in Owned /\ m.addr \in Data => owner'[m.addr] \in Caches
        /\ dirState'[m.addr] \in Pending /\ m.addr \in Data => tbe'[m.addr].requestor \in Caches
    BY <1>4, <1>h, <2>6
      DEF FetchShared, TypeOK, DirTypeOK, EntriesOK, CounterState, Owned, Pending,
      Accept, Stable
  <2>t. EntriesOK'
    BY <1>h, <2>e, <2>s, EntryStep
  <2> QED
    BY <1>f, <2>1, <2>2, <2>3, <2>4, <2>5, <2>6, <2>t
      DEF TypeOK, DirTypeOK, NetTypeOK, Heads

<1>5. CASE FetchExclusive(m)
  <2>1. dirState' \in [Addr -> DirState]
    BY <1>5, <1>h
      DEF FetchExclusive, TypeOK, DirTypeOK, DirState, Stable, InFetchAuth, InEvictAuth,
      InEvicting, Accept
  <2>2. tbe' \in [Addr -> TBE]
    BY <1>5, <1>h
      DEF FetchExclusive, TBE, NoTBE, allocateTBE_ReqIn, Park, TypeOK, DirTypeOK
  <2>3. memQ' \in [Addr -> Seq(MemMsg)]
    BY <1>5, <1>h, SendType DEF FetchExclusive, TypeOK
  <2>4. /\ requests' \subseteq Request
        /\ atHead' \in Heads
    BY <1>5, <1>h
      DEF FetchExclusive, PopRequest, Pop, Heads, TypeOK, DirTypeOK, NetTypeOK
  <2>5. UNCHANGED <<mts, dirWts, dirRts, owner, resident, dirty, llcData, fetching,
                    waiters, stalled, memory, rootCount, forwards, replies,
                    responses>>
    BY <1>5
      DEF FetchExclusive, entryVars, llcVars, authVars, memVars, netVars, Hold, Pop
  <2>e. \A b \in Addr : b # m.addr =>
         /\ dirState'[b] = dirState[b]
         /\ owner'[b] = owner[b] /\ tbe'[b] = tbe[b]
    BY <1>5, <1>h, <2>5 DEF FetchExclusive, TypeOK, DirTypeOK, allocateTBE_ReqIn, TBE
  <2>s. /\ m.addr \in Counters => dirState'[m.addr] \in CounterState
        /\ dirState'[m.addr] \in Owned /\ m.addr \in Data => owner'[m.addr] \in Caches
        /\ dirState'[m.addr] \in Pending /\ m.addr \in Data => tbe'[m.addr].requestor \in Caches
    BY <1>5, <1>h, <2>5
      DEF FetchExclusive, TypeOK, DirTypeOK, EntriesOK, CounterState, Owned, Pending,
      Accept, Stable, allocateTBE_ReqIn, TBE
  <2>t. EntriesOK'
    BY <1>h, <2>e, <2>s, EntryStep
  <2> QED
    BY <1>f, <2>1, <2>2, <2>3, <2>4, <2>5, <2>t DEF TypeOK, DirTypeOK, NetTypeOK, Heads

<1>6. CASE RecallForShared(m)
  <2>i. dirState[m.addr] = "E"
    BY <1>6 DEF RecallForShared, Accept
  <2>o. owner[m.addr] \in Caches /\ m.lts + Lease \in Nat
    BY <1>6, <1>h, <2>i, OwnerType, LeaseAssumption DEF RecallForShared, Owned
  <2>1. dirState' \in [Addr -> DirState]
    BY <1>6, <1>h, <2>i, <2>o
      DEF RecallForShared, TypeOK, DirTypeOK, DirState, Stable, InFetchAuth,
      InEvictAuth, InEvicting, Accept
  <2>2. dirRts' \in [Addr -> Nat]
    BY <1>6, <1>h, <2>i, <2>o, LeasedType
      DEF RecallForShared, LeaseRts, TypeOK, DirTypeOK
  <2>3. tbe' \in [Addr -> TBE]
    BY <1>6, <1>h, <2>i, <2>o
      DEF RecallForShared, TBE, NoTBE, allocateTBE_ReqIn, Park, TypeOK, DirTypeOK
  <2>4. forwards' \subseteq Forward
    BY <1>6, <1>h, <2>i, <2>o, ForwardType
      DEF RecallForShared, Owned, Accept, TypeOK, DirTypeOK, EntriesOK
  <2>5. owner' \in [Addr -> Caches \cup {None}]
    BY <1>6, <1>h, <2>i, <2>o DEF RecallForShared, TypeOK, DirTypeOK
  <2>6. /\ requests' \subseteq Request
        /\ atHead' \in Heads
    BY <1>6, <1>h, <2>i, <2>o
      DEF RecallForShared, PopRequest, Pop, Heads, TypeOK, DirTypeOK, NetTypeOK
  <2>7. UNCHANGED <<mts, dirWts, resident, dirty, llcData, fetching, waiters, stalled,
                    memQ, memory, rootCount, replies, responses>>
    BY <1>6
      DEF RecallForShared, entryVars, llcVars, authVars, memVars, netVars, Hold, Pop
  <2>e. \A b \in Addr : b # m.addr =>
         /\ dirState'[b] = dirState[b]
         /\ owner'[b] = owner[b] /\ tbe'[b] = tbe[b]
    BY <1>6, <1>h, <2>i, <2>o, <2>7
      DEF RecallForShared, TypeOK, DirTypeOK, allocateTBE_ReqIn, TBE
  <2>s. /\ m.addr \in Counters => dirState'[m.addr] \in CounterState
        /\ dirState'[m.addr] \in Owned /\ m.addr \in Data => owner'[m.addr] \in Caches
        /\ dirState'[m.addr] \in Pending /\ m.addr \in Data => tbe'[m.addr].requestor \in Caches
    BY <1>6, <1>h, <2>i, <2>o, <2>7
      DEF RecallForShared, TypeOK, DirTypeOK, EntriesOK, CounterState, Owned, Pending,
      Accept, Stable, allocateTBE_ReqIn, TBE
  <2>t. EntriesOK'
    BY <1>h, <2>e, <2>s, EntryStep
  <2> QED
    BY <1>f, <2>1, <2>2, <2>3, <2>4, <2>5, <2>6, <2>7, <2>t
      DEF TypeOK, DirTypeOK, NetTypeOK, Heads

<1>7. CASE RecallForExclusive(m)
  <2>i. dirState[m.addr] = "E"
    BY <1>7 DEF RecallForExclusive, Accept
  <2>o. owner[m.addr] \in Caches /\ m.lts + Lease \in Nat
    BY <1>7, <1>h, <2>i, OwnerType, LeaseAssumption DEF RecallForExclusive, Owned
  <2>1. dirState' \in [Addr -> DirState]
    BY <1>7, <1>h, <2>i, <2>o
      DEF RecallForExclusive, TypeOK, DirTypeOK, DirState, Stable, InFetchAuth,
      InEvictAuth, InEvicting, Accept
  <2>2. tbe' \in [Addr -> TBE]
    BY <1>7, <1>h, <2>i, <2>o
      DEF RecallForExclusive, TBE, NoTBE, allocateTBE_ReqIn, Park, TypeOK, DirTypeOK
  <2>3. forwards' \subseteq Forward
    BY <1>7, <1>h, <2>i, <2>o, ForwardType
      DEF RecallForExclusive, Owned, Accept, TypeOK, DirTypeOK, EntriesOK
  <2>4. owner' \in [Addr -> Caches \cup {None}]
    BY <1>7, <1>h, <2>i, <2>o DEF RecallForExclusive, TypeOK, DirTypeOK
  <2>5. /\ requests' \subseteq Request
        /\ atHead' \in Heads
    BY <1>7, <1>h, <2>i, <2>o
      DEF RecallForExclusive, PopRequest, Pop, Heads, TypeOK, DirTypeOK, NetTypeOK
  <2>6. UNCHANGED <<mts, dirWts, dirRts, resident, dirty, llcData, fetching, waiters,
                    stalled, memQ, memory, rootCount, replies, responses>>
    BY <1>7
      DEF RecallForExclusive, entryVars, llcVars, authVars, memVars, netVars, Hold, Pop
  <2>e. \A b \in Addr : b # m.addr =>
         /\ dirState'[b] = dirState[b]
         /\ owner'[b] = owner[b] /\ tbe'[b] = tbe[b]
    BY <1>7, <1>h, <2>i, <2>o, <2>6
      DEF RecallForExclusive, TypeOK, DirTypeOK, allocateTBE_ReqIn, TBE
  <2>s. /\ m.addr \in Counters => dirState'[m.addr] \in CounterState
        /\ dirState'[m.addr] \in Owned /\ m.addr \in Data => owner'[m.addr] \in Caches
        /\ dirState'[m.addr] \in Pending /\ m.addr \in Data => tbe'[m.addr].requestor \in Caches
    BY <1>7, <1>h, <2>i, <2>o, <2>6
      DEF RecallForExclusive, TypeOK, DirTypeOK, EntriesOK, CounterState, Owned,
      Pending, Accept, Stable, allocateTBE_ReqIn, TBE
  <2>t. EntriesOK'
    BY <1>h, <2>e, <2>s, EntryStep
  <2> QED
    BY <1>f, <2>1, <2>2, <2>3, <2>4, <2>5, <2>6, <2>t
      DEF TypeOK, DirTypeOK, NetTypeOK, Heads

<1>8. CASE FetchCounter(m)
  <2>p. Parent(m.addr) \in Counters
    BY <1>8, AuthMissType DEF FetchCounter, Accept
  <2>i. /\ dirState[m.addr] \in Stable
        /\ dirState'[m.addr] = FetchAuth[dirState[m.addr]]
    BY <1>8, <1>h DEF FetchCounter, Accept, TypeOK, DirTypeOK
  <2>j. /\ dirState'[m.addr] \in InFetchAuth
        /\ dirState'[m.addr] = "E_Fetch_Auth" <=> dirState[m.addr] = "E"
    BY <1>8, <2>i, StateMaps DEF FetchCounter
  <2>1. dirState' \in [Addr -> DirState]
    BY <1>8, <1>h, <2>p, <2>i, <2>j, StateMaps
      DEF FetchCounter, TypeOK, DirTypeOK, DirState, Stable, InFetchAuth, InEvictAuth,
      InEvicting, Accept
  <2>2. dirRts' \in [Addr -> Nat]
    BY <1>8, <1>h, <2>p, <2>i, <2>j, LeasedType
      DEF FetchCounter, LeaseRts, TypeOK, DirTypeOK
  <2>3. fetching' \subseteq Counters
    BY <1>8, <1>h, <2>p, <2>i, <2>j DEF FetchCounter, TypeOK, DirTypeOK
  <2>4. memQ' \in [Addr -> Seq(MemMsg)]
    BY <1>8, <1>h, <2>p, <2>i, <2>j, ReadOnceType DEF FetchCounter, TypeOK
  <2>5. /\ stalled' \subseteq Request
        /\ requests' \subseteq Request
        /\ atHead' \in Heads
    BY <1>8, <1>h, <2>p, <2>i, <2>j
      DEF FetchCounter, StallAndWait, PopRequest, Pop, Heads, TypeOK, DirTypeOK,
      NetTypeOK
  <2>6. UNCHANGED <<mts, dirWts, owner, resident, dirty, llcData, tbe, waiters,
                    memory, rootCount, forwards, replies, responses>>
    BY <1>8 DEF FetchCounter, entryVars, llcVars, authVars, memVars, netVars, Hold, Pop
  <2>e. \A b \in Addr : b # m.addr =>
         /\ dirState'[b] = dirState[b]
         /\ owner'[b] = owner[b] /\ tbe'[b] = tbe[b]
    BY <1>8, <1>h, <2>p, <2>i, <2>j, <2>6
      DEF FetchCounter, TypeOK, DirTypeOK, InFetchAuth
  <2>s. /\ m.addr \in Counters => dirState'[m.addr] \in CounterState
        /\ dirState'[m.addr] \in Owned /\ m.addr \in Data => owner'[m.addr] \in Caches
        /\ dirState'[m.addr] \in Pending /\ m.addr \in Data => tbe'[m.addr].requestor \in Caches
    BY <1>8, <1>h, <2>p, <2>i, <2>j, <2>6, StateMaps
      DEF FetchCounter, TypeOK, DirTypeOK, EntriesOK, CounterState, Owned, Pending,
      Accept, Stable, InFetchAuth
  <2>t. EntriesOK'
    BY <1>h, <2>e, <2>s, EntryStep
  <2> QED
    BY <1>f, <2>1, <2>2, <2>3, <2>4, <2>5, <2>6, <2>t
      DEF TypeOK, DirTypeOK, NetTypeOK, Heads

<1>9. CASE WaitForCounter(m)
  <2>1. dirRts' \in [Addr -> Nat]
    BY <1>9, <1>h, LeasedType DEF WaitForCounter, LeaseRts, TypeOK, DirTypeOK
  <2>2. /\ stalled' \subseteq Request
        /\ requests' \subseteq Request
        /\ atHead' \in Heads
    BY <1>9, <1>h
      DEF WaitForCounter, StallAndWait, PopRequest, Pop, Heads, TypeOK, DirTypeOK,
      NetTypeOK
  <2>3. UNCHANGED <<mts, dirState, dirWts, owner, resident, dirty, llcData, tbe,
                    fetching, waiters, memQ, memory, rootCount, forwards, replies,
                    responses>>
    BY <1>9
      DEF WaitForCounter, entryVars, llcVars, authVars, memVars, netVars, Hold, Pop
  <2>t. EntriesOK'
    BY <2>3 DEF EntriesOK, TypeOK, DirTypeOK
  <2> QED
    BY <1>f, <2>1, <2>2, <2>3, <2>t DEF TypeOK, DirTypeOK, NetTypeOK, Heads

<1>10. CASE Bounce(m)
  <2>i. /\ dirState[m.addr] \in InFetchAuth
        /\ dirState'[m.addr] = Base[dirState[m.addr]]
    BY <1>10, <1>h DEF Bounce, TypeOK, DirTypeOK
  <2>j. /\ dirState'[m.addr] \in Stable
        /\ dirState'[m.addr] = "E" <=> dirState[m.addr] = "E_Fetch_Auth"
    BY <1>10, <2>i, StateMaps DEF Bounce
  <2>1. dirState' \in [Addr -> DirState]
    BY <1>10, <1>h, <2>i, <2>j, StateMaps
      DEF Bounce, TypeOK, DirTypeOK, DirState, Stable, InFetchAuth, InEvictAuth,
      InEvicting, Accept
  <2>2. dirRts' \in [Addr -> Nat]
    BY <1>10, <1>h, <2>i, <2>j, LeasedType DEF Bounce, LeaseRts, TypeOK, DirTypeOK
  <2>3. atHead' \in Heads
    BY <1>10, <1>h, <2>i, <2>j DEF Bounce, Pop, Heads, TypeOK, DirTypeOK
  <2>4. UNCHANGED <<mts, dirWts, owner, resident, dirty, llcData, tbe, fetching,
                    waiters, stalled, memQ, memory, rootCount, requests, forwards,
                    replies, responses>>
    BY <1>10 DEF Bounce, entryVars, llcVars, authVars, memVars, netVars, Hold, Pop
  <2>e. \A b \in Addr : b # m.addr =>
         /\ dirState'[b] = dirState[b]
         /\ owner'[b] = owner[b] /\ tbe'[b] = tbe[b]
    BY <1>10, <1>h, <2>i, <2>j, <2>4 DEF Bounce, TypeOK, DirTypeOK, InFetchAuth
  <2>s. /\ m.addr \in Counters => dirState'[m.addr] \in CounterState
        /\ dirState'[m.addr] \in Owned /\ m.addr \in Data => owner'[m.addr] \in Caches
        /\ dirState'[m.addr] \in Pending /\ m.addr \in Data => tbe'[m.addr].requestor \in Caches
    BY <1>10, <1>h, <2>i, <2>j, <2>4, StateMaps
      DEF Bounce, TypeOK, DirTypeOK, EntriesOK, CounterState, Owned, Pending, Accept,
      Stable, InFetchAuth
  <2>t. EntriesOK'
    BY <1>h, <2>e, <2>s, EntryStep
  <2> QED
    BY <1>f, <2>1, <2>2, <2>3, <2>4, <2>t DEF TypeOK, DirTypeOK, NetTypeOK, Heads

<1>11. CASE StallRequest(m)
  <2>1. dirRts' \in [Addr -> Nat]
    BY <1>11, <1>h, LeasedType DEF StallRequest, LeaseRts, TypeOK, DirTypeOK
  <2>2. atHead' \in Heads
    BY <1>11, <1>h DEF StallRequest, Hold, Heads, TypeOK, DirTypeOK
  <2>3. UNCHANGED <<mts, dirState, dirWts, owner, resident, dirty, llcData, tbe,
                    fetching, waiters, stalled, memQ, memory, rootCount, requests,
                    forwards, replies, responses>>
    BY <1>11 DEF StallRequest, entryVars, llcVars, authVars, memVars, netVars, Hold, Pop
  <2>t. EntriesOK'
    BY <2>3 DEF EntriesOK, TypeOK, DirTypeOK
  <2> QED
    BY <1>f, <2>1, <2>2, <2>3, <2>t DEF TypeOK, DirTypeOK, NetTypeOK, Heads
<1> QED
  BY <1>1, <1>2, <1>3, <1>4, <1>5, <1>6, <1>7, <1>8, <1>9, <1>10, <1>11 DEF OnRequest

-----------------------------------------------------------------------------
(* A step on a message from memory. *)
LEMMA MemoryStepType ==
  ASSUME TypeOK, NEW a \in Addr, OnMemory(a), UNCHANGED fault
  PROVE  DirTypeOK' /\ NetTypeOK'
<1>f. UNCHANGED fault
  OBVIOUS
<1>1. CASE DataForShared(a)
  <2>d. a \in Data
    BY <1>1, PendingData DEF DataForShared, Answer, Pending
  <2>l. mts \in Nat /\ tbe[a].lts \in Nat
    BY <1>1, TBEType DEF DataForShared, TypeOK, DirTypeOK
  <2>r. max(mts + Lease, tbe[a].lts + Lease) \in Nat
    BY <1>1, <2>l, LeaseAssumption DEF DataForShared, max
  <2>q. tbe[a].requestor \in Caches
    BY <1>1, <2>d, RequestorType DEF DataForShared, Answer, Pending
  <2>1. dirState' \in [Addr -> DirState]
    BY <1>1, <2>d, <2>l, <2>r, <2>q
      DEF DataForShared, TypeOK, DirTypeOK, DirState, Stable, InFetchAuth, InEvictAuth,
      InEvicting, Answer
  <2>2. /\ dirWts' \in [Addr -> Nat]
        /\ dirRts' \in [Addr -> Nat]
    BY <1>1, <2>d, <2>l, <2>r, <2>q DEF DataForShared, TypeOK, DirTypeOK
  <2>3. replies' \subseteq Reply
    BY <1>1, <2>d, <2>l, <2>r, <2>q, ReplyType DEF DataForShared, TypeOK, DirTypeOK
  <2>4. /\ resident' \subseteq Addr
        /\ dirty' \subseteq Addr
        /\ llcData' \in [Addr -> Nat]
    BY <1>1, <2>d, <2>l, <2>r, <2>q DEF DataForShared, TypeOK, DirTypeOK
  <2>5. tbe' \in [Addr -> TBE]
    BY <1>1, <2>d, <2>l, <2>r, <2>q
      DEF DataForShared, TBE, NoTBE, allocateTBE_ReqIn, Park, TypeOK, DirTypeOK
  <2>6. memQ' \in [Addr -> Seq(MemMsg)]
    BY <1>1, <2>d, <2>l, <2>r, <2>q, TailType
      DEF DataForShared, PopMemory, Answer, DataReady, TypeOK
  <2>7. atHead' \in Heads
    BY <1>1, <2>d, <2>l, <2>r, <2>q
      DEF DataForShared, PopMemory, Pop, Heads, TypeOK, DirTypeOK
  <2>8. UNCHANGED <<mts, owner, fetching, waiters, stalled, memory, rootCount,
                    requests, forwards, responses>>
    BY <1>1
      DEF DataForShared, entryVars, llcVars, authVars, memVars, netVars, Hold, Pop,
      PopMemory
  <2>e. \A b \in Addr : b # a =>
         /\ dirState'[b] = dirState[b]
         /\ owner'[b] = owner[b] /\ tbe'[b] = tbe[b]
    BY <1>1, <2>d, <2>l, <2>r, <2>q, <2>8 DEF DataForShared, TypeOK, DirTypeOK
  <2>s. /\ a \in Counters => dirState'[a] \in CounterState
        /\ dirState'[a] \in Owned /\ a \in Data => owner'[a] \in Caches
        /\ dirState'[a] \in Pending /\ a \in Data => tbe'[a].requestor \in Caches
    BY <1>1, <2>d, <2>l, <2>r, <2>q, <2>8
      DEF DataForShared, TypeOK, DirTypeOK, EntriesOK, CounterState, Owned, Pending,
      Answer, Stable
  <2>t. EntriesOK'
    BY <2>e, <2>s, EntryStep
  <2> QED
    BY <1>f, <2>1, <2>2, <2>3, <2>4, <2>5, <2>6, <2>7, <2>8, <2>t
      DEF TypeOK, DirTypeOK, NetTypeOK, Heads

<1>2. CASE DataForExclusive(a)
  <2>d. a \in Data
    BY <1>2, PendingData DEF DataForExclusive, Answer, Pending
  <2>q. tbe[a].requestor \in Caches
    BY <1>2, <2>d, RequestorType DEF DataForExclusive, Answer, Pending
  <2>1. dirState' \in [Addr -> DirState]
    BY <1>2, <2>d, <2>q
      DEF DataForExclusive, TypeOK, DirTypeOK, DirState, Stable, InFetchAuth,
      InEvictAuth, InEvicting, Answer, GrantFromMemory
  <2>2. /\ dirWts' \in [Addr -> Nat]
        /\ dirRts' \in [Addr -> Nat]
    BY <1>2, <2>d, <2>q DEF DataForExclusive, GrantFromMemory, TypeOK, DirTypeOK
  <2>3. owner' \in [Addr -> Caches \cup {None}]
    BY <1>2, <2>d, <2>q DEF DataForExclusive, GrantFromMemory, TypeOK, DirTypeOK
  <2>4. replies' \subseteq Reply
    BY <1>2, <2>d, <2>q, ReplyType
      DEF DataForExclusive, GrantFromMemory, TypeOK, DirTypeOK
  <2>5. tbe' \in [Addr -> TBE]
    BY <1>2, <2>d, <2>q
      DEF DataForExclusive, GrantFromMemory, TBE, NoTBE, TypeOK, DirTypeOK
  <2>6. memQ' \in [Addr -> Seq(MemMsg)]
    BY <1>2, <2>d, <2>q, TailType
      DEF DataForExclusive, GrantFromMemory, PopMemory, Answer, DataReady, TypeOK
  <2>7. atHead' \in Heads
    BY <1>2, <2>d, <2>q
      DEF DataForExclusive, GrantFromMemory, PopMemory, Pop, Heads, TypeOK, DirTypeOK
  <2>8. /\ resident' \subseteq Addr
        /\ dirty' \subseteq Addr
        /\ llcData' \in [Addr -> Nat]
    BY <1>2, <2>d, <2>q DEF DataForExclusive, TypeOK, DirTypeOK
  <2>9. UNCHANGED <<mts, fetching, waiters, stalled, memory, rootCount, requests,
                    forwards, responses>>
    BY <1>2
      DEF DataForExclusive, entryVars, llcVars, authVars, memVars, netVars, Hold, Pop,
      PopMemory, GrantFromMemory
  <2>e. \A b \in Addr : b # a =>
         /\ dirState'[b] = dirState[b]
         /\ owner'[b] = owner[b] /\ tbe'[b] = tbe[b]
    BY <1>2, <2>d, <2>q, <2>9 DEF DataForExclusive, TypeOK, DirTypeOK, GrantFromMemory
  <2>s. /\ a \in Counters => dirState'[a] \in CounterState
        /\ dirState'[a] \in Owned /\ a \in Data => owner'[a] \in Caches
        /\ dirState'[a] \in Pending /\ a \in Data => tbe'[a].requestor \in Caches
    BY <1>2, <2>d, <2>q, <2>9
      DEF DataForExclusive, TypeOK, DirTypeOK, EntriesOK, CounterState, Owned, Pending,
      Answer, Stable, GrantFromMemory
  <2>t. EntriesOK'
    BY <2>e, <2>s, EntryStep
  <2> QED
    BY <1>f, <2>1, <2>2, <2>3, <2>4, <2>5, <2>6, <2>7, <2>8, <2>9, <2>t
      DEF TypeOK, DirTypeOK, NetTypeOK, Heads

<1>3. CASE DataForUpgrade(a)
  <2>d. a \in Data
    BY <1>3, PendingData DEF DataForUpgrade, Answer, Pending
  <2>q. tbe[a].requestor \in Caches
    BY <1>3, <2>d, RequestorType DEF DataForUpgrade, Answer, Pending
  <2>1. dirState' \in [Addr -> DirState]
    BY <1>3, <2>d, <2>q
      DEF DataForUpgrade, TypeOK, DirTypeOK, DirState, Stable, InFetchAuth, InEvictAuth,
      InEvicting, Answer, GrantFromMemory
  <2>2. /\ dirWts' \in [Addr -> Nat]
        /\ dirRts' \in [Addr -> Nat]
    BY <1>3, <2>d, <2>q DEF DataForUpgrade, GrantFromMemory, TypeOK, DirTypeOK
  <2>3. owner' \in [Addr -> Caches \cup {None}]
    BY <1>3, <2>d, <2>q DEF DataForUpgrade, GrantFromMemory, TypeOK, DirTypeOK
  <2>4. replies' \subseteq Reply
    BY <1>3, <2>d, <2>q, ReplyType
      DEF DataForUpgrade, GrantFromMemory, TypeOK, DirTypeOK
  <2>5. tbe' \in [Addr -> TBE]
    BY <1>3, <2>d, <2>q
      DEF DataForUpgrade, GrantFromMemory, TBE, NoTBE, TypeOK, DirTypeOK
  <2>6. memQ' \in [Addr -> Seq(MemMsg)]
    BY <1>3, <2>d, <2>q, TailType
      DEF DataForUpgrade, GrantFromMemory, PopMemory, Answer, DataReady, TypeOK
  <2>7. atHead' \in Heads
    BY <1>3, <2>d, <2>q
      DEF DataForUpgrade, GrantFromMemory, PopMemory, Pop, Heads, TypeOK, DirTypeOK
  <2>8. UNCHANGED <<mts, resident, dirty, llcData, fetching, waiters, stalled, memory,
                    rootCount, requests, forwards, responses>>
    BY <1>3
      DEF DataForUpgrade, entryVars, llcVars, authVars, memVars, netVars, Hold, Pop,
      PopMemory, GrantFromMemory
  <2>e. \A b \in Addr : b # a =>
         /\ dirState'[b] = dirState[b]
         /\ owner'[b] = owner[b] /\ tbe'[b] = tbe[b]
    BY <1>3, <2>d, <2>q, <2>8 DEF DataForUpgrade, TypeOK, DirTypeOK, GrantFromMemory
  <2>s. /\ a \in Counters => dirState'[a] \in CounterState
        /\ dirState'[a] \in Owned /\ a \in Data => owner'[a] \in Caches
        /\ dirState'[a] \in Pending /\ a \in Data => tbe'[a].requestor \in Caches
    BY <1>3, <2>d, <2>q, <2>8
      DEF DataForUpgrade, TypeOK, DirTypeOK, EntriesOK, CounterState, Owned, Pending,
      Answer, Stable, GrantFromMemory
  <2>t. EntriesOK'
    BY <2>e, <2>s, EntryStep
  <2> QED
    BY <1>f, <2>1, <2>2, <2>3, <2>4, <2>5, <2>6, <2>7, <2>8, <2>t
      DEF TypeOK, DirTypeOK, NetTypeOK, Heads

<1>4. CASE CounterData(a)
  BY <1>4, <1>f, CounterDataType

<1>5. ASSUME NEW i \in DOMAIN memQ[a], WritebackDone(a, i)
      PROVE  DirTypeOK' /\ NetTypeOK'
  <2>1. dirState' \in [Addr -> DirState]
    BY <1>5, StateMaps
      DEF WritebackDone, TypeOK, DirTypeOK, DirState, Stable, InFetchAuth, InEvictAuth,
      InEvicting, Answer
  <2>2. memory' \in [Addr -> Nat]
    BY <1>5, MessageType DEF WritebackDone, TypeOK, DirTypeOK
  <2>3. memQ' \in [Addr -> Seq(MemMsg)]
    BY <1>5, RemoveType DEF WritebackDone
  <2>4. tbe' \in [Addr -> TBE]
    BY <1>5 DEF WritebackDone, TBE, NoTBE, allocateTBE_ReqIn, Park, TypeOK, DirTypeOK
  <2>5. /\ requests' \subseteq Request
        /\ stalled' \subseteq Request
    BY <1>5 DEF WritebackDone, TypeOK, DirTypeOK, NetTypeOK
  <2>6. UNCHANGED <<mts, dirWts, dirRts, owner, resident, dirty, llcData, fetching,
                    waiters, atHead, rootCount, forwards, replies, responses>>
    BY <1>5 DEF WritebackDone, entryVars, llcVars, authVars, memVars, netVars, Hold, Pop
  <2>e. \A b \in Addr : b # a =>
         /\ dirState'[b] = dirState[b]
         /\ owner'[b] = owner[b] /\ tbe'[b] = tbe[b]
    BY <1>5, <2>6 DEF WritebackDone, TypeOK, DirTypeOK, InEvicting, Addr, NoTBE
  <2>s. /\ a \in Counters => dirState'[a] \in CounterState
        /\ dirState'[a] \in Owned /\ a \in Data => owner'[a] \in Caches
        /\ dirState'[a] \in Pending /\ a \in Data => tbe'[a].requestor \in Caches
    <3>1. dirState[a] \in InEvicting /\ dirState'[a] = Base[dirState[a]]
      BY <1>5 DEF WritebackDone, TypeOK, DirTypeOK
    <3>2. dirState'[a] \in {"I", "S"} /\ (dirState[a] = "I_Evicting" => dirState'[a] = "I")
      BY <3>1, StateMaps DEF Stable
    <3>3. a \in Counters => dirState[a] = "I_Evicting"
      BY <3>1 DEF TypeOK, DirTypeOK, EntriesOK, CounterState, InEvicting
    <3> QED
      BY <3>2, <3>3 DEF CounterState, Owned, Pending
  <2>t. EntriesOK'
    BY <2>e, <2>s, EntryStep
  <2> QED
    BY <1>f, <2>1, <2>2, <2>3, <2>4, <2>5, <2>6, <2>t
      DEF TypeOK, DirTypeOK, NetTypeOK, Heads
<1> QED
  BY <1>1, <1>2, <1>3, <1>4, <1>5 DEF OnMemory

-----------------------------------------------------------------------------
(* A step on a response of a cache. *)
LEMMA ResponseStepType ==
  ASSUME TypeOK, NEW m \in responses, OnResponse(m), UNCHANGED fault
  PROVE  DirTypeOK' /\ NetTypeOK'
<1>f. UNCHANGED fault
  OBVIOUS
<1>h. /\ m \in Response /\ m.addr \in Data /\ m.addr \in Addr /\ m.from \in Caches
      /\ m.addr \notin Counters /\ m.data \in Nat /\ m.wts \in Nat /\ m.rts \in Nat
  BY ResponseType
<1>1. CASE PutBlock(m)
  <2>1. dirState' \in [Addr -> DirState]
    BY <1>1, <1>h
      DEF PutBlock, TypeOK, DirTypeOK, DirState, Stable, InFetchAuth, InEvictAuth,
      InEvicting, FlushRep
  <2>2. mts' \in Nat
    BY <1>1, <1>h DEF PutBlock, SeeRts, max, FlushRep, TypeOK, DirTypeOK
  <2>3. /\ dirWts' \in [Addr -> Nat]
        /\ resident' \subseteq Addr
        /\ dirty' \subseteq Addr
        /\ llcData' \in [Addr -> Nat]
    BY <1>1, <1>h DEF PutBlock, TakeBlock, TypeOK, DirTypeOK
  <2>4. dirRts' \in [Addr -> Nat]
    BY <1>1, <1>h DEF PutBlock, TypeOK, DirTypeOK
  <2>5. replies' \subseteq Reply
    BY <1>1, <1>h, ReplyType DEF PutBlock, TypeOK, DirTypeOK
  <2>6. owner' \in [Addr -> Caches \cup {None}]
    BY <1>1, <1>h DEF PutBlock, TypeOK, DirTypeOK
  <2>7. /\ responses' \subseteq Response
        /\ atHead' \in Heads
    BY <1>1, <1>h DEF PutBlock, PopResponse, Pop, Heads, TypeOK, DirTypeOK, NetTypeOK
  <2>8. UNCHANGED <<tbe, fetching, waiters, stalled, memQ, memory, rootCount,
                    requests, forwards>>
    BY <1>1
      DEF PutBlock, entryVars, llcVars, authVars, memVars, netVars, Hold, Pop, TakeBlock
  <2>e. \A b \in Addr : b # m.addr =>
         /\ dirState'[b] = dirState[b]
         /\ owner'[b] = owner[b] /\ tbe'[b] = tbe[b]
    BY <1>1, <1>h, <2>8 DEF PutBlock, TypeOK, DirTypeOK
  <2>s. /\ m.addr \in Counters => dirState'[m.addr] \in CounterState
        /\ dirState'[m.addr] \in Owned /\ m.addr \in Data => owner'[m.addr] \in Caches
        /\ dirState'[m.addr] \in Pending /\ m.addr \in Data => tbe'[m.addr].requestor \in Caches
    BY <1>1, <1>h, <2>8
      DEF PutBlock, TypeOK, DirTypeOK, EntriesOK, CounterState, Owned, Pending,
      FlushRep, Stable
  <2>t. EntriesOK'
    BY <1>h, <2>e, <2>s, EntryStep
  <2> QED
    BY <1>f, <2>1, <2>2, <2>3, <2>4, <2>5, <2>6, <2>7, <2>8, <2>t
      DEF TypeOK, DirTypeOK, NetTypeOK, Heads

<1>2. CASE FlushForShared(m)
  <2>q. tbe[m.addr].requestor \in Caches
    BY <1>2, <1>h, RequestorType DEF FlushForShared, FlushRep, Pending
  <2>x. max3(m.rts, m.wts + Lease, Lease) \in Nat
    BY <1>2, LeaseAssumption, <1>h DEF FlushForShared, max, max3
  <2>1. dirState' \in [Addr -> DirState]
    BY <1>2, <1>h, <2>q, <2>x
      DEF FlushForShared, TypeOK, DirTypeOK, DirState, Stable, InFetchAuth, InEvictAuth,
      InEvicting, FlushRep
  <2>2. mts' \in Nat
    BY <1>2, <1>h, <2>q, <2>x
      DEF FlushForShared, SeeRts, max, FlushRep, TypeOK, DirTypeOK
  <2>3. /\ dirWts' \in [Addr -> Nat]
        /\ resident' \subseteq Addr
        /\ dirty' \subseteq Addr
        /\ llcData' \in [Addr -> Nat]
    BY <1>2, <1>h, <2>q, <2>x DEF FlushForShared, TakeBlock, TypeOK, DirTypeOK
  <2>4. /\ dirRts' \in [Addr -> Nat]
        /\ replies' \subseteq Reply
    BY <1>2, <1>h, <2>q, <2>x, ReplyType DEF FlushForShared, TypeOK, DirTypeOK
  <2>5. tbe' \in [Addr -> TBE]
    BY <1>2, <1>h, <2>q, <2>x
      DEF FlushForShared, TBE, NoTBE, allocateTBE_ReqIn, Park, TypeOK, DirTypeOK
  <2>6. /\ responses' \subseteq Response
        /\ atHead' \in Heads
    BY <1>2, <1>h, <2>q, <2>x
      DEF FlushForShared, PopResponse, Pop, Heads, TypeOK, DirTypeOK, NetTypeOK
  <2>7. UNCHANGED <<owner, fetching, waiters, stalled, memQ, memory, rootCount,
                    requests, forwards>>
    BY <1>2
      DEF FlushForShared, entryVars, llcVars, authVars, memVars, netVars, Hold, Pop
  <2>e. \A b \in Addr : b # m.addr =>
         /\ dirState'[b] = dirState[b]
         /\ owner'[b] = owner[b] /\ tbe'[b] = tbe[b]
    BY <1>2, <1>h, <2>q, <2>x, <2>7 DEF FlushForShared, TypeOK, DirTypeOK
  <2>s. /\ m.addr \in Counters => dirState'[m.addr] \in CounterState
        /\ dirState'[m.addr] \in Owned /\ m.addr \in Data => owner'[m.addr] \in Caches
        /\ dirState'[m.addr] \in Pending /\ m.addr \in Data => tbe'[m.addr].requestor \in Caches
    BY <1>2, <1>h, <2>q, <2>x, <2>7
      DEF FlushForShared, TypeOK, DirTypeOK, EntriesOK, CounterState, Owned, Pending,
      FlushRep, Stable
  <2>t. EntriesOK'
    BY <1>h, <2>e, <2>s, EntryStep
  <2> QED
    BY <1>f, <2>1, <2>2, <2>3, <2>4, <2>5, <2>6, <2>7, <2>t
      DEF TypeOK, DirTypeOK, NetTypeOK, Heads

<1>3. CASE FlushForExclusive(m)
  <2>q. tbe[m.addr].requestor \in Caches
    BY <1>3, <1>h, RequestorType DEF FlushForExclusive, FlushRep, Pending
  <2>1. dirState' \in [Addr -> DirState]
    BY <1>3, <1>h, <2>q
      DEF FlushForExclusive, TypeOK, DirTypeOK, DirState, Stable, InFetchAuth,
      InEvictAuth, InEvicting, FlushRep
  <2>2. mts' \in Nat
    BY <1>3, <1>h, <2>q DEF FlushForExclusive, SeeRts, max, FlushRep, TypeOK, DirTypeOK
  <2>3. /\ dirWts' \in [Addr -> Nat]
        /\ resident' \subseteq Addr
        /\ dirty' \subseteq Addr
        /\ llcData' \in [Addr -> Nat]
    BY <1>3, <1>h, <2>q DEF FlushForExclusive, TakeBlock, TypeOK, DirTypeOK
  <2>4. dirRts' \in [Addr -> Nat]
    BY <1>3, <1>h, <2>q DEF FlushForExclusive, TypeOK, DirTypeOK
  <2>5. replies' \subseteq Reply
    BY <1>3, <1>h, <2>q, ReplyType DEF FlushForExclusive, TypeOK, DirTypeOK
  <2>6. owner' \in [Addr -> Caches \cup {None}]
    BY <1>3, <1>h, <2>q DEF FlushForExclusive, TypeOK, DirTypeOK
  <2>7. tbe' \in [Addr -> TBE]
    BY <1>3, <1>h, <2>q
      DEF FlushForExclusive, TBE, NoTBE, allocateTBE_ReqIn, Park, TypeOK, DirTypeOK
  <2>8. /\ responses' \subseteq Response
        /\ atHead' \in Heads
    BY <1>3, <1>h, <2>q
      DEF FlushForExclusive, PopResponse, Pop, Heads, TypeOK, DirTypeOK, NetTypeOK
  <2>9. UNCHANGED <<fetching, waiters, stalled, memQ, memory, rootCount, requests,
                    forwards>>
    BY <1>3
      DEF FlushForExclusive, entryVars, llcVars, authVars, memVars, netVars, Hold, Pop
  <2>e. \A b \in Addr : b # m.addr =>
         /\ dirState'[b] = dirState[b]
         /\ owner'[b] = owner[b] /\ tbe'[b] = tbe[b]
    BY <1>3, <1>h, <2>q, <2>9 DEF FlushForExclusive, TypeOK, DirTypeOK
  <2>s. /\ m.addr \in Counters => dirState'[m.addr] \in CounterState
        /\ dirState'[m.addr] \in Owned /\ m.addr \in Data => owner'[m.addr] \in Caches
        /\ dirState'[m.addr] \in Pending /\ m.addr \in Data => tbe'[m.addr].requestor \in Caches
    BY <1>3, <1>h, <2>q, <2>9
      DEF FlushForExclusive, TypeOK, DirTypeOK, EntriesOK, CounterState, Owned, Pending,
      FlushRep, Stable
  <2>t. EntriesOK'
    BY <1>h, <2>e, <2>s, EntryStep
  <2> QED
    BY <1>f, <2>1, <2>2, <2>3, <2>4, <2>5, <2>6, <2>7, <2>8, <2>9, <2>t
      DEF TypeOK, DirTypeOK, NetTypeOK, Heads

<1>4. CASE BounceResponse(m)
  <2>i. /\ dirState[m.addr] \in InFetchAuth
        /\ dirState'[m.addr] = Base[dirState[m.addr]]
    BY <1>4, <1>h DEF BounceResponse, FlushRep, TypeOK, DirTypeOK
  <2>j. /\ dirState'[m.addr] \in Stable
        /\ dirState'[m.addr] = "E" <=> dirState[m.addr] = "E_Fetch_Auth"
    BY <1>4, <2>i, StateMaps DEF BounceResponse
  <2>1. dirState' \in [Addr -> DirState]
    BY <1>4, <1>h, <2>i, <2>j, StateMaps
      DEF BounceResponse, TypeOK, DirTypeOK, DirState, Stable, InFetchAuth, InEvictAuth,
      InEvicting, FlushRep
  <2>2. mts' \in Nat
    BY <1>4, <1>h, <2>i, <2>j
      DEF BounceResponse, SeeRts, max, FlushRep, TypeOK, DirTypeOK
  <2>3. atHead' \in Heads
    BY <1>4, <1>h, <2>i, <2>j
      DEF BounceResponse, Heads, FlushRep, ResponseReady, TypeOK, DirTypeOK
  <2>4. UNCHANGED <<dirWts, dirRts, owner, resident, dirty, llcData, tbe, fetching,
                    waiters, stalled, memQ, memory, rootCount, requests, forwards,
                    replies, responses>>
    BY <1>4
      DEF BounceResponse, entryVars, llcVars, authVars, memVars, netVars, Hold, Pop
  <2>e. \A b \in Addr : b # m.addr =>
         /\ dirState'[b] = dirState[b]
         /\ owner'[b] = owner[b] /\ tbe'[b] = tbe[b]
    BY <1>4, <1>h, <2>i, <2>j, <2>4 DEF BounceResponse, TypeOK, DirTypeOK, InFetchAuth
  <2>s. /\ m.addr \in Counters => dirState'[m.addr] \in CounterState
        /\ dirState'[m.addr] \in Owned /\ m.addr \in Data => owner'[m.addr] \in Caches
        /\ dirState'[m.addr] \in Pending /\ m.addr \in Data => tbe'[m.addr].requestor \in Caches
    BY <1>4, <1>h, <2>i, <2>j, <2>4, StateMaps
      DEF BounceResponse, TypeOK, DirTypeOK, EntriesOK, CounterState, Owned, Pending,
      FlushRep, Stable, InFetchAuth
  <2>t. EntriesOK'
    BY <1>h, <2>e, <2>s, EntryStep
  <2> QED
    BY <1>f, <2>1, <2>2, <2>3, <2>4, <2>t DEF TypeOK, DirTypeOK, NetTypeOK, Heads

<1>5. CASE FlushDirect(m)
  <2>c. ToSet(PresentChain(m.addr)) \subseteq Counters
    BY <1>5, ChainType, <1>h DEF FlushDirect, Addr
  <2>y. tbe[m.addr] \in TBE
    BY <1>5, <1>h DEF FlushDirect, Addr, TypeOK, DirTypeOK
  <2>1. mts' \in Nat
    BY <1>5, <1>h, <2>c, <2>y DEF FlushDirect, SeeRts, max, FlushRep, TypeOK, DirTypeOK
  <2>2. owner' \in [Addr -> Caches \cup {None}]
    BY <1>5, <1>h, <2>c, <2>y DEF FlushDirect, TypeOK, DirTypeOK
  <2>3. tbe' \in [Addr -> TBE]
    BY <1>5, <1>h, <2>c, <2>y DEF FlushDirect, TBE, TypeOK, DirTypeOK
  <2>4. dirState' \in [Addr -> DirState]
    BY <1>5, <1>h, <2>c, <2>y
      DEF FlushDirect, IncrementTo, DirState, InEvicting, TypeOK, DirTypeOK
  <2>5. dirty' \subseteq Addr
    BY <1>5, <1>h, <2>c, <2>y DEF FlushDirect, IncrementTo, Addr, TypeOK, DirTypeOK
  <2>6. rootCount' \in [0 .. 2 -> Nat]
    BY <1>5, <1>h, <2>c, <2>y, RootCountType DEF FlushDirect, TypeOK, DirTypeOK
  <2>7. memQ' \in [Addr -> Seq(MemMsg)]
    BY <1>5, <1>h, <2>c, <2>y, SendType DEF FlushDirect, TypeOK
  <2>8. /\ responses' \subseteq Response
        /\ atHead' \in Heads
    BY <1>5, <1>h, <2>c, <2>y
      DEF FlushDirect, PopResponse, Pop, Heads, TypeOK, DirTypeOK, NetTypeOK
  <2>9. UNCHANGED <<dirWts, dirRts, resident, llcData, fetching, waiters, stalled,
                    memory, requests, forwards, replies>>
    BY <1>5 DEF FlushDirect, entryVars, llcVars, authVars, memVars, netVars, Hold, Pop
  <2>e. \A b \in Addr : b # m.addr =>
         /\ \/ dirState'[b] = dirState[b]
            \/ b \in Counters /\ dirState'[b] \in CounterState
         /\ owner'[b] = owner[b] /\ tbe'[b] = tbe[b]
    BY <1>5, <1>h, <2>c, <2>y, <2>9
      DEF FlushDirect, TypeOK, DirTypeOK, CounterState, IncrementTo
  <2>s. /\ m.addr \in Counters => dirState'[m.addr] \in CounterState
        /\ dirState'[m.addr] \in Owned /\ m.addr \in Data => owner'[m.addr] \in Caches
        /\ dirState'[m.addr] \in Pending /\ m.addr \in Data => tbe'[m.addr].requestor \in Caches
    BY <1>5, <1>h, <2>c, <2>y, <2>9, AddressAssumption
      DEF FlushDirect, TypeOK, DirTypeOK, EntriesOK, CounterState, Owned, Pending,
      FlushRep, Stable, IncrementTo
  <2>t. EntriesOK'
    BY <1>h, <2>e, <2>s, EntryStep
  <2> QED
    BY <1>f, <2>1, <2>2, <2>3, <2>4, <2>5, <2>6, <2>7, <2>8, <2>9, <2>t
      DEF TypeOK, DirTypeOK, NetTypeOK, Heads

<1>6. CASE FlushSuspended(m)
  <2>c. getFirstMissingParent(m.addr) \in Counters
    BY <1>6, FlushMissType, <1>h DEF FlushSuspended
  <2>y. tbe[m.addr] \in TBE
    BY <1>6, <1>h DEF FlushSuspended, Addr, TypeOK, DirTypeOK
  <2>1. mts' \in Nat
    BY <1>6, <1>h, <2>c, <2>y
      DEF FlushSuspended, SeeRts, max, FlushRep, TypeOK, DirTypeOK
  <2>2. dirState' \in [Addr -> DirState]
    BY <1>6, <1>h, <2>c, <2>y
      DEF FlushSuspended, TypeOK, DirTypeOK, DirState, Stable, InFetchAuth, InEvictAuth,
      InEvicting, FlushRep
  <2>3. owner' \in [Addr -> Caches \cup {None}]
    BY <1>6, <1>h, <2>c, <2>y DEF FlushSuspended, TypeOK, DirTypeOK
  <2>4. tbe' \in [Addr -> TBE]
    BY <1>6, <1>h, <2>c, <2>y DEF FlushSuspended, TBE, TypeOK, DirTypeOK
  <2>5. rootCount' \in [0 .. 2 -> Nat]
    BY <1>6, <1>h, <2>c, <2>y, RootCountType DEF FlushSuspended, TypeOK, DirTypeOK
  <2>6. fetching' \subseteq Counters
    BY <1>6, <1>h, <2>c, <2>y
      DEF FlushSuspended, fetchCounterForEviction, TypeOK, DirTypeOK
  <2>7. waiters' \in [Counters -> [Slot -> Addr \cup {None}]]
    <3>1. waiters' = [waiters EXCEPT ![getFirstMissingParent(m.addr)] =
                        Enter(@, [i \in {1} |-> m.addr], {1})]
      BY <1>6 DEF FlushSuspended, fetchCounterForEviction
    <3> QED
      BY <1>h, <2>c, <3>1, WaitersType
  <2>8. memQ' \in [Addr -> Seq(MemMsg)]
    BY <1>6, <1>h, <2>c, <2>y, ReadOnceType
      DEF FlushSuspended, fetchCounterForEviction, TypeOK
  <2>9. /\ responses' \subseteq Response
        /\ atHead' \in Heads
    BY <1>6, <1>h, <2>c, <2>y
      DEF FlushSuspended, PopResponse, Pop, Heads, TypeOK, DirTypeOK, NetTypeOK
  <2>10. UNCHANGED <<dirWts, dirRts, resident, dirty, llcData, stalled, memory,
                     requests, forwards, replies>>
    BY <1>6
      DEF FlushSuspended, entryVars, llcVars, authVars, memVars, netVars, Hold, Pop
  <2>e. \A b \in Addr : b # m.addr =>
         /\ dirState'[b] = dirState[b]
         /\ owner'[b] = owner[b] /\ tbe'[b] = tbe[b]
    BY <1>6, <1>h, <2>c, <2>y, <2>10 DEF FlushSuspended, TypeOK, DirTypeOK
  <2>s. /\ m.addr \in Counters => dirState'[m.addr] \in CounterState
        /\ dirState'[m.addr] \in Owned /\ m.addr \in Data => owner'[m.addr] \in Caches
        /\ dirState'[m.addr] \in Pending /\ m.addr \in Data => tbe'[m.addr].requestor \in Caches
    BY <1>6, <1>h, <2>c, <2>y, <2>10
      DEF FlushSuspended, TypeOK, DirTypeOK, EntriesOK, CounterState, Owned, Pending,
      FlushRep, Stable
  <2>t. EntriesOK'
    BY <1>h, <2>e, <2>s, EntryStep
  <2> QED
    BY <1>f, <2>1, <2>2, <2>3, <2>4, <2>5, <2>6, <2>7, <2>8, <2>9, <2>10, <2>t
      DEF TypeOK, DirTypeOK, NetTypeOK, Heads
<1> QED
  BY <1>1, <1>2, <1>3, <1>4, <1>5, <1>6 DEF OnResponse

-----------------------------------------------------------------------------
(* A step on the victim of an eviction. *)
LEMMA VictimStepType ==
  ASSUME TypeOK, NEW v \in resident, OnVictim(v), UNCHANGED fault
  PROVE  DirTypeOK' /\ NetTypeOK'
<1>f. UNCHANGED fault
  OBVIOUS
<1>h. v \in Addr
  BY DEF TypeOK, DirTypeOK
<1>1. CASE DropClean(v)
  <2>1. /\ mts' \in Nat
        /\ atHead' \in Heads
    BY <1>1, <1>h, DemandType DEF DropClean
  <2>2. /\ resident' \subseteq Addr
        /\ llcData' \in [Addr -> Nat]
    BY <1>1, <1>h DEF DropClean, deallocateLLC, TypeOK, DirTypeOK
  <2>3. UNCHANGED <<dirState, dirWts, dirRts, owner, dirty, tbe, fetching, waiters,
                    stalled, memQ, memory, rootCount, requests, forwards, replies,
                    responses>>
    BY <1>1 DEF DropClean, entryVars, llcVars, authVars, memVars, netVars, Hold, Pop
  <2>t. EntriesOK'
    BY <2>3 DEF EntriesOK, TypeOK, DirTypeOK
  <2> QED
    BY <1>f, <2>1, <2>2, <2>3, <2>t DEF TypeOK, DirTypeOK, NetTypeOK, Heads

<1>2. CASE WriteBackVictim(v)
  <2>n. ToSet(<<>>) \subseteq Counters
    BY <1>2 DEF WriteBackVictim, ToSet
  <2>k. ToSet(PresentChain(v)) \subseteq Counters
    BY <1>2, <1>h, ChainType DEF WriteBackVictim
  <2>c. \A chain \in {<<>>, PresentChain(v)} : ToSet(chain) \subseteq Counters
    BY <1>2, <2>n, <2>k DEF WriteBackVictim
  <2>1. /\ mts' \in Nat
        /\ atHead' \in Heads
    BY <1>2, <1>h, <2>n, <2>k, <2>c, DemandType DEF WriteBackVictim
  <2>2. /\ resident' \subseteq Addr
        /\ llcData' \in [Addr -> Nat]
    BY <1>2, <1>h, <2>n, <2>k, <2>c
      DEF WriteBackVictim, deallocateLLC, TypeOK, DirTypeOK
  <2>3. dirState' \in [Addr -> DirState]
    BY <1>2, <1>h, <2>n, <2>k, <2>c, StateMaps, SMTT(30)
      DEF WriteBackVictim, IncrementTo, DirState, InEvicting, Addr, TypeOK, DirTypeOK
  <2>4. dirty' \subseteq Addr
    BY <1>2, <1>h, <2>n, <2>k, <2>c
      DEF WriteBackVictim, IncrementTo, Addr, TypeOK, DirTypeOK
  <2>5. rootCount' \in [0 .. 2 -> Nat]
    BY <1>2, <1>h, <2>n, <2>k, <2>c, RootCountType
      DEF WriteBackVictim, TypeOK, DirTypeOK
  <2>6. tbe' \in [Addr -> TBE]
    BY <1>2, <1>h, <2>n, <2>k, <2>c, ParkType DEF WriteBackVictim
  <2>7. memQ' \in [Addr -> Seq(MemMsg)]
    BY <1>2, <1>h, <2>n, <2>k, <2>c, SendType DEF WriteBackVictim, TypeOK, DirTypeOK
  <2>8. UNCHANGED <<dirWts, dirRts, owner, fetching, waiters, stalled, memory,
                    requests, forwards, replies, responses>>
    BY <1>2
      DEF WriteBackVictim, entryVars, llcVars, authVars, memVars, netVars, Hold, Pop
  <2>e. \A b \in Addr : b # v =>
         /\ \/ dirState'[b] = dirState[b]
            \/ b \in Counters /\ dirState'[b] \in CounterState
         /\ owner'[b] = owner[b] /\ tbe'[b] = tbe[b]
    BY <1>2, <1>h, <2>n, <2>k, <2>c, <2>8
      DEF WriteBackVictim, TypeOK, DirTypeOK, CounterState, IncrementTo, InEvicting,
      Park
  <2>s. /\ v \in Counters => dirState'[v] \in CounterState
        /\ dirState'[v] \in Owned /\ v \in Data => owner'[v] \in Caches
        /\ dirState'[v] \in Pending /\ v \in Data => tbe'[v].requestor \in Caches
    BY <1>2, <1>h, <2>n, <2>k, <2>c, <2>8, AddressAssumption, StateMaps
      DEF WriteBackVictim, TypeOK, DirTypeOK, EntriesOK, CounterState, Owned, Pending,
      Stable, IncrementTo, InEvicting, Park
  <2>t. EntriesOK'
    BY <1>h, <2>e, <2>s, EntryStep
  <2> QED
    BY <1>f, <2>1, <2>2, <2>3, <2>4, <2>5, <2>6, <2>7, <2>8, <2>t
      DEF TypeOK, DirTypeOK, NetTypeOK, Heads

<1>3. CASE RecallVictim(v)
  <2>d. v \in Data
    BY <1>3 DEF RecallVictim, CounterState, Addr, EntriesOK, TypeOK, DirTypeOK
  <2>1. /\ mts' \in Nat
        /\ atHead' \in Heads
    BY <1>3, <1>h, <2>d, DemandType DEF RecallVictim
  <2>2. /\ resident' \subseteq Addr
        /\ llcData' \in [Addr -> Nat]
    BY <1>3, <1>h, <2>d DEF RecallVictim, deallocateLLC, TypeOK, DirTypeOK
  <2>3. dirState' \in [Addr -> DirState]
    BY <1>3, <1>h, <2>d
      DEF RecallVictim, TypeOK, DirTypeOK, DirState, Stable, InFetchAuth, InEvictAuth,
      InEvicting
  <2>4. tbe' \in [Addr -> TBE]
    BY <1>3, <1>h, <2>d, ParkType DEF RecallVictim
  <2>5. forwards' \subseteq Forward
    BY <1>3, <1>h, <2>d, ForwardType
      DEF RecallVictim, Owned, TypeOK, DirTypeOK, EntriesOK
  <2>6. dirty' \subseteq Addr
    BY <1>3, <1>h, <2>d DEF RecallVictim, TypeOK, DirTypeOK
  <2>7. UNCHANGED <<dirWts, dirRts, owner, fetching, waiters, stalled, memQ, memory,
                    rootCount, requests, replies, responses>>
    BY <1>3 DEF RecallVictim, entryVars, llcVars, authVars, memVars, netVars, Hold, Pop
  <2>e. \A b \in Addr : b # v =>
         /\ dirState'[b] = dirState[b]
         /\ owner'[b] = owner[b] /\ tbe'[b] = tbe[b]
    BY <1>3, <1>h, <2>d, <2>7 DEF RecallVictim, TypeOK, DirTypeOK, Park
  <2>s. /\ v \in Counters => dirState'[v] \in CounterState
        /\ dirState'[v] \in Owned /\ v \in Data => owner'[v] \in Caches
        /\ dirState'[v] \in Pending /\ v \in Data => tbe'[v].requestor \in Caches
    BY <1>3, <1>h, <2>d, <2>7
      DEF RecallVictim, TypeOK, DirTypeOK, EntriesOK, CounterState, Owned, Pending,
      Stable, Park
  <2>t. EntriesOK'
    BY <1>h, <2>e, <2>s, EntryStep
  <2> QED
    BY <1>f, <2>1, <2>2, <2>3, <2>4, <2>5, <2>6, <2>7, <2>t
      DEF TypeOK, DirTypeOK, NetTypeOK, Heads

<1>4. CASE SuspendVictim(v)
  <2>c. getFirstMissingParent(v) \in Counters
    BY <1>4, <1>h, AwaitedType DEF SuspendVictim
  <2>i. /\ dirState[v] \in {"I", "S", "C_M"}
        /\ dirState'[v] = EvictAuth[dirState[v]]
    BY <1>4, <1>h DEF SuspendVictim, TypeOK, DirTypeOK
  <2>j. /\ dirState'[v] \in InEvictAuth
        /\ dirState[v] # "S" => dirState'[v] = "I_Evict_Auth"
    BY <1>4, <2>i, StateMaps DEF SuspendVictim
  <2>1. /\ mts' \in Nat
        /\ atHead' \in Heads
    BY <1>4, <1>h, <2>c, <2>i, <2>j, DemandType DEF SuspendVictim
  <2>2. /\ resident' \subseteq Addr
        /\ llcData' \in [Addr -> Nat]
    BY <1>4, <1>h, <2>c, <2>i, <2>j DEF SuspendVictim, deallocateLLC, TypeOK, DirTypeOK
  <2>3. dirState' \in [Addr -> DirState]
    BY <1>4, <1>h, <2>c, <2>i, <2>j, StateMaps
      DEF SuspendVictim, DirState, InEvictAuth, TypeOK, DirTypeOK
  <2>4. rootCount' \in [0 .. 2 -> Nat]
    BY <1>4, <1>h, <2>c, <2>i, <2>j, RootCountType DEF SuspendVictim, TypeOK, DirTypeOK
  <2>5. tbe' \in [Addr -> TBE]
    BY <1>4, <1>h, <2>c, <2>i, <2>j, ParkType DEF SuspendVictim
  <2>6. fetching' \subseteq Counters
    BY <1>4, <1>h, <2>c, <2>i, <2>j
      DEF SuspendVictim, fetchCounterForEviction, TypeOK, DirTypeOK
  <2>7. waiters' \in [Counters -> [Slot -> Addr \cup {None}]]
    BY <1>4, <1>h, <2>c, <2>i, <2>j, WaitersType
      DEF SuspendVictim, fetchCounterForEviction, TypeOK, DirTypeOK
  <2>8. memQ' \in [Addr -> Seq(MemMsg)]
    BY <1>4, <1>h, <2>c, <2>i, <2>j, ReadOnceType
      DEF SuspendVictim, fetchCounterForEviction, TypeOK
  <2>9. dirty' \subseteq Addr
    BY <1>4, <1>h, <2>c, <2>i, <2>j DEF SuspendVictim, TypeOK, DirTypeOK
  <2>10. UNCHANGED <<dirWts, dirRts, owner, stalled, memory, requests, forwards,
                     replies, responses>>
    BY <1>4 DEF SuspendVictim, entryVars, llcVars, authVars, memVars, netVars, Hold, Pop
  <2>e. \A b \in Addr : b # v =>
         /\ dirState'[b] = dirState[b]
         /\ owner'[b] = owner[b] /\ tbe'[b] = tbe[b]
    BY <1>4, <1>h, <2>c, <2>i, <2>j, <2>10
      DEF SuspendVictim, TypeOK, DirTypeOK, InEvictAuth, Park
  <2>s. /\ v \in Counters => dirState'[v] \in CounterState
        /\ dirState'[v] \in Owned /\ v \in Data => owner'[v] \in Caches
        /\ dirState'[v] \in Pending /\ v \in Data => tbe'[v].requestor \in Caches
    BY <1>4, <1>h, <2>c, <2>i, <2>j, <2>10, AddressAssumption, StateMaps
      DEF SuspendVictim, TypeOK, DirTypeOK, EntriesOK, CounterState, Owned, Pending,
      Stable, InEvictAuth, Park
  <2>t. EntriesOK'
    BY <1>h, <2>e, <2>s, EntryStep
  <2> QED
    BY <1>f, <2>1, <2>2, <2>3, <2>4, <2>5, <2>6, <2>7, <2>8, <2>9, <2>10, <2>t
      DEF TypeOK, DirTypeOK, NetTypeOK, Heads

<1>5. CASE StallVictim(v)
  <2>1. /\ mts' \in Nat
        /\ atHead' \in Heads
    BY <1>5, <1>h, DemandType DEF StallVictim
  <2>2. UNCHANGED <<dirState, dirWts, dirRts, owner, resident, dirty, llcData, tbe,
                    fetching, waiters, stalled, memQ, memory, rootCount, requests,
                    forwards, replies, responses>>
    BY <1>5 DEF StallVictim, entryVars, llcVars, authVars, memVars, netVars, Hold, Pop
  <2>t. EntriesOK'
    BY <2>2 DEF EntriesOK, TypeOK, DirTypeOK
  <2> QED
    BY <1>f, <2>1, <2>2, <2>t DEF TypeOK, DirTypeOK, NetTypeOK, Heads
<1> QED
  BY <1>1, <1>2, <1>3, <1>4, <1>5 DEF OnVictim

-----------------------------------------------------------------------------
(* The token of a line. *)

(* All the places where the token of a can be. *)
Tokens(a) == <<Holders(a), Granted(a), Returned(a)>>

(* The steps that move no token. *)
LEMMA TokensStay ==
  ASSUME NEW a \in Data, Recorded(a),
         Tokens(a)' = Tokens(a), owner'[a] = owner[a],
         dirState'[a] \in Exclusive <=> dirState[a] \in Exclusive,
         dirState'[a] \in Owned <=> dirState[a] \in Owned
  PROVE  Recorded(a)'
<1>1. Holders(a)' = Holders(a) /\ Granted(a)' = Granted(a) /\ Returned(a)' = Returned(a)
  BY DEF Tokens
<1>2. NoToken(a) => NoToken(a)'
  BY <1>1 DEF NoToken
<1>3. OneToken(a) => OneToken(a)'
  <2>1. \A m \in Granted(a)' : m \in replies'
    BY DEF Granted
  <2>2. \A m \in Returned(a)' : m \in responses'
    BY DEF Returned
  <2> QED
    BY <1>1, <2>1, <2>2 DEF OneToken
<1> QED
  BY <1>1, <1>2, <1>3 DEF Recorded

(* The directory grants the line: no token before, the reply r after. *)
LEMMA TokenGranted ==
  ASSUME NEW a \in Data, Recorded(a), dirState[a] \notin Exclusive,
         NEW r \in replies', r.to # None, owner'[a] = r.to, dirState'[a] = "E",
         Holders(a)' = Holders(a), Granted(a)' = Granted(a) \cup {r},
         Returned(a)' = Returned(a)
  PROVE  Recorded(a)'
<1>1. Holders(a)' = {} /\ Granted(a)' = {r} /\ Returned(a)' = {}
  BY DEF Recorded, NoToken
<1>2. OneToken(a)'
  BY <1>1 DEF OneToken
<1> QED
  BY <1>1, <1>2 DEF Recorded, Exclusive, Owned

(* The directory recalls the line: the token stays, the owner is forgotten. *)
LEMMA TokenRecalled ==
  ASSUME NEW a \in Data, Recorded(a), dirState[a] \in Exclusive,
         Tokens(a)' = Tokens(a), owner'[a] = None, dirState'[a] \in {"ES", "EE"}
  PROVE  Recorded(a)'
<1>1. Holders(a)' = Holders(a) /\ Granted(a)' = Granted(a) /\ Returned(a)' = Returned(a)
  BY DEF Tokens
<1>2. OneToken(a)'
  <2>1. \A m \in Granted(a)' : m \in replies'
    BY DEF Granted
  <2>2. \A m \in Returned(a)' : m \in responses'
    BY DEF Returned
  <2> QED
    BY <1>1, <2>1, <2>2 DEF OneToken, Recorded
<1> QED
  BY <1>1, <1>2 DEF Recorded, Exclusive, Owned

(* A returned token is the only one, and the line is exclusive until then. *)
LEMMA ReturnedAlone ==
  ASSUME NEW a \in Data, Recorded(a), NEW m \in Returned(a)
  PROVE  /\ dirState[a] \in Exclusive
         /\ Returned(a) = {m} /\ Holders(a) = {} /\ Granted(a) = {}
<1>1. Returned(a) # {}
  OBVIOUS
<1>2. dirState[a] \in Exclusive /\ OneToken(a)
  BY <1>1 DEF Recorded, NoToken
<1> QED
  BY <1>1, <1>2 DEF OneToken

(* So is a granted one, ... *)
LEMMA GrantedAlone ==
  ASSUME NEW a \in Data, Recorded(a), NEW m \in Granted(a)
  PROVE  /\ dirState[a] \in Exclusive
         /\ Granted(a) = {m} /\ Holders(a) = {} /\ Returned(a) = {}
<1>1. Granted(a) # {}
  OBVIOUS
<1>2. dirState[a] \in Exclusive /\ OneToken(a)
  BY <1>1 DEF Recorded, NoToken
<1> QED
  BY <1>1, <1>2 DEF OneToken

(* ... and one that a cache holds. *)
LEMMA HeldAlone ==
  ASSUME NEW a \in Data, Recorded(a), NEW c \in Holders(a)
  PROVE  /\ dirState[a] \in Exclusive
         /\ Holders(a) = {c} /\ Granted(a) = {} /\ Returned(a) = {}
<1>1. Holders(a) # {}
  OBVIOUS
<1>2. dirState[a] \in Exclusive /\ OneToken(a)
  BY <1>1 DEF Recorded, NoToken
<1> QED
  BY <1>1, <1>2 DEF OneToken

(* The directory takes a returned block in: the token is gone. *)
LEMMA TokenCollected ==
  ASSUME NEW a \in Data, Recorded(a), NEW m \in Returned(a),
         Holders(a)' = Holders(a), Granted(a)' = Granted(a),
         Returned(a)' = Returned(a) \ {m},
         owner'[a] = None, dirState'[a] \notin Exclusive
  PROVE  Recorded(a)'
<1>1. NoToken(a)'
  BY ReturnedAlone DEF NoToken
<1> QED
  BY <1>1 DEF Recorded, Exclusive

(* The directory passes a returned block on to the next owner. *)
LEMMA TokenPassedOn ==
  ASSUME NEW a \in Data, Recorded(a), NEW m \in Returned(a),
         NEW r \in replies', r.to # None,
         Holders(a)' = Holders(a), Granted(a)' = Granted(a) \cup {r},
         Returned(a)' = Returned(a) \ {m},
         owner'[a] = r.to, dirState'[a] = "E"
  PROVE  Recorded(a)'
<1>1. Holders(a)' = {} /\ Granted(a)' = {r} /\ Returned(a)' = {}
  BY ReturnedAlone
<1>2. OneToken(a)'
  BY <1>1 DEF OneToken
<1> QED
  BY <1>1, <1>2 DEF Recorded, Exclusive, Owned

(* A cache takes the token it was sent; the directory does not notice. *)
LEMMA TokenTaken ==
  ASSUME NEW a \in Data, Recorded(a), NEW c \in Caches, NEW m \in Granted(a), m.to = c,
         UNCHANGED <<dirState, owner>>,
         Holders(a)' = Holders(a) \cup {c}, Granted(a)' = Granted(a) \ {m},
         Returned(a)' = Returned(a)
  PROVE  Recorded(a)'
<1>1. dirState[a] \in Exclusive /\ owner[a] # None => owner[a] = c
  BY GrantedAlone DEF Recorded
<1>2. Holders(a)' = {c} /\ Granted(a)' = {} /\ Returned(a)' = {}
  BY GrantedAlone
<1>3. OneToken(a)'
  BY <1>2 DEF OneToken
<1> QED
  BY <1>1, <1>2, <1>3, GrantedAlone DEF Recorded

(* A cache sends the token it holds back with the block. *)
LEMMA TokenGivenBack ==
  ASSUME NEW a \in Data, Recorded(a), NEW c \in Holders(a),
         NEW r \in responses', r.from = c,
         UNCHANGED <<dirState, owner>>,
         Holders(a)' = Holders(a) \ {c}, Granted(a)' = Granted(a),
         Returned(a)' = Returned(a) \cup {r}
  PROVE  Recorded(a)'
<1>1. dirState[a] \in Exclusive /\ (owner[a] # None => owner[a] = c)
  BY HeldAlone DEF Recorded
<1>2. Holders(a)' = {} /\ Granted(a)' = {} /\ Returned(a)' = {r}
  BY HeldAlone
<1>3. OneToken(a)'
  BY <1>2 DEF OneToken
<1> QED
  BY <1>1, <1>2, <1>3 DEF Recorded

-----------------------------------------------------------------------------
(* The steps of a cache. *)

(* A line that neither enters nor leaves E has the same holders. *)
LEMMA HoldersStay ==
  ASSUME TypeOK, NEW a \in Data, NEW c \in Caches, NEW x \in Data, NEW s,
         l1State[c][x] # "E", s # "E", l1State' = [l1State EXCEPT ![c][x] = s]
  PROVE  Holders(a)' = Holders(a)
<1>1. l1State \in [Caches -> [Data -> L1State]]
  BY DEF TypeOK, L1TypeOK
<1>2. \A d \in Caches : l1State'[d][a] = "E" <=> l1State[d][a] = "E"
  BY <1>1
<1> QED
  BY <1>2 DEF Holders

(* A cache that moves no token leaves the record right; one that receives  *)
(* the token, gives it back or evicts it moves the only one there is.      *)
LEMMA L1StepRecorded ==
  ASSUME TypeOK, OneWriter, NEW c \in Caches, L1Step(c), UNCHANGED dirVars
  PROVE  OneWriter'
<1> SUFFICES ASSUME NEW a \in Data
             PROVE  Recorded(a)'
  BY DEF OneWriter
<1>d. UNCHANGED <<dirState, owner>> /\ Recorded(a)
  BY DEF dirVars, entryVars, OneWriter
<1>t. l1State \in [Caches -> [Data -> L1State]]
  BY DEF TypeOK, L1TypeOK
<1>q. ASSUME Holders(a)' = Holders(a), Granted(a)' = Granted(a), Returned(a)' = Returned(a)
      PROVE  Recorded(a)'
  BY <1>q, <1>d, TokensStay DEF Tokens
<1>h. mandatory[c] # None => Line(c) \in Data
  BY HeadType
<1>r. /\ \A m \in replies : m.addr \in Data
      /\ \A m \in forwards : m.addr \in Data
  BY DEF TypeOK, NetTypeOK, Reply, Forward

<1>1. CASE Issue(c)
  <2>1. Holders(a)' = Holders(a)
    BY <1>1 DEF Issue, Holders, cacheVars, historyVars, netVars
  <2>2. Granted(a)' = Granted(a) /\ Returned(a)' = Returned(a)
    BY <1>1 DEF Issue, Granted, Returned, historyVars, netVars
  <2> QED
    BY <1>q, <2>1, <2>2

<1>2. CASE LoadMiss(c)
  <2>1. Holders(a)' = Holders(a)
    BY <1>2, <1>h, HoldersStay DEF LoadMiss, Head1
  <2>2. Granted(a)' = Granted(a) /\ Returned(a)' = Returned(a)
    BY <1>2 DEF LoadMiss, Granted, Returned, historyVars, popMandatoryQueue
  <2> QED
    BY <1>q, <2>1, <2>2

<1>3. CASE StoreMiss(c)
  <2>1. Holders(a)' = Holders(a)
    BY <1>3, <1>h, HoldersStay DEF StoreMiss, Head1
  <2>2. Granted(a)' = Granted(a) /\ Returned(a)' = Returned(a)
    BY <1>3 DEF StoreMiss, Granted, Returned, historyVars, popMandatoryQueue
  <2> QED
    BY <1>q, <2>1, <2>2

<1>4. CASE LoadHit(c)
  <2>1. Holders(a)' = Holders(a)
    BY <1>4 DEF LoadHit, Holders, netVars, popMandatoryQueue, readCallback
  <2>2. Granted(a)' = Granted(a) /\ Returned(a)' = Returned(a)
    BY <1>4 DEF LoadHit, Granted, Returned, netVars, popMandatoryQueue,
      readCallback
  <2> QED
    BY <1>q, <2>1, <2>2

<1>5. CASE RenewLease(c)
  <2>1. Holders(a)' = Holders(a)
    BY <1>5, <1>h, HoldersStay DEF RenewLease, Head1
  <2>2. Granted(a)' = Granted(a) /\ Returned(a)' = Returned(a)
    BY <1>5 DEF RenewLease, Granted, Returned, historyVars, popMandatoryQueue
  <2> QED
    BY <1>q, <2>1, <2>2

<1>6. CASE RequestUpgrade(c)
  <2>1. Holders(a)' = Holders(a)
    BY <1>6, <1>h, HoldersStay DEF RequestUpgrade, Head1
  <2>2. Granted(a)' = Granted(a) /\ Returned(a)' = Returned(a)
    BY <1>6 DEF RequestUpgrade, Granted, Returned, historyVars, popMandatoryQueue
  <2> QED
    BY <1>q, <2>1, <2>2

<1>7. CASE LoadExclusive(c)
  <2>1. Holders(a)' = Holders(a)
    BY <1>7 DEF LoadExclusive, Holders, netVars, popMandatoryQueue, readCallback
  <2>2. Granted(a)' = Granted(a) /\ Returned(a)' = Returned(a)
    BY <1>7 DEF LoadExclusive, Granted, Returned, netVars, popMandatoryQueue,
      readCallback
  <2> QED
    BY <1>q, <2>1, <2>2

<1>8. CASE StoreExclusive(c)
  <2>1. Holders(a)' = Holders(a)
    BY <1>8 DEF StoreExclusive, Holders, netVars, popMandatoryQueue
  <2>2. Granted(a)' = Granted(a) /\ Returned(a)' = Returned(a)
    BY <1>8 DEF StoreExclusive, Granted, Returned, netVars, popMandatoryQueue
  <2> QED
    BY <1>q, <2>1, <2>2

<1>9. CASE EvictShared(c)
  <2>1. Holders(a)' = Holders(a)
    <3>1. PICK v \in Data :
            /\ l1State[c][v] # "E"
            /\ l1State' = [l1State EXCEPT ![c][v] = "I"]
      BY <1>9 DEF EvictShared, ResetLine
    <3> QED
      BY <1>r, <3>1, HoldersStay
  <2>2. Granted(a)' = Granted(a) /\ Returned(a)' = Returned(a)
    BY <1>9 DEF EvictShared, Granted, Returned, coreVars, historyVars, netVars
  <2> QED
    BY <1>q, <2>1, <2>2

<1>10. CASE StallMandatory(c)
  <2>1. Holders(a)' = Holders(a)
    BY <1>10 DEF StallMandatory, Holders, coreVars, historyVars, netVars
  <2>2. Granted(a)' = Granted(a) /\ Returned(a)' = Returned(a)
    BY <1>10 DEF StallMandatory, Granted, Returned, coreVars, historyVars, netVars
  <2> QED
    BY <1>q, <2>1, <2>2

<1>11. CASE FillShared(c)
  <2>1. Holders(a)' = Holders(a)
    <3>1. PICK m \in replies :
            /\ l1State[c][m.addr] # "E"
            /\ l1State' = [l1State EXCEPT ![c][m.addr] = "S_LSD"]
      BY <1>11 DEF FillShared
    <3> QED
      BY <1>r, <3>1, HoldersStay
  <2>2. Granted(a)' = Granted(a) /\ Returned(a)' = Returned(a)
    BY <1>11 DEF FillShared, Granted, Returned, coreVars, readCallback
  <2> QED
    BY <1>q, <2>1, <2>2

<1>12. CASE ExtendLease(c)
  <2>1. Holders(a)' = Holders(a)
    <3>1. PICK m \in replies :
            /\ l1State[c][m.addr] # "E"
            /\ l1State' = [l1State EXCEPT ![c][m.addr] = "S_LSD"]
      BY <1>12 DEF ExtendLease
    <3> QED
      BY <1>r, <3>1, HoldersStay
  <2>2. Granted(a)' = Granted(a) /\ Returned(a)' = Returned(a)
    BY <1>12 DEF ExtendLease, Granted, Returned, coreVars, readCallback
  <2> QED
    BY <1>q, <2>1, <2>2

<1>13. CASE PutAcknowledged(c)
  <2>1. Holders(a)' = Holders(a)
    <3>1. PICK m \in replies :
            /\ l1State[c][m.addr] # "E"
            /\ l1State' = [l1State EXCEPT ![c][m.addr] = "I"]
      BY <1>13 DEF PutAcknowledged, ResetLine
    <3> QED
      BY <1>r, <3>1, HoldersStay
  <2>2. Granted(a)' = Granted(a) /\ Returned(a)' = Returned(a)
    BY <1>13 DEF PutAcknowledged, Granted, Returned, coreVars, historyVars
  <2> QED
    BY <1>q, <2>1, <2>2

<1>14. CASE GivenBackAlready(c)
  <2>1. Holders(a)' = Holders(a)
    <3>1. PICK m \in forwards :
            /\ l1State[c][m.addr] # "E"
            /\ l1State' = [l1State EXCEPT ![c][m.addr] = "I"]
      BY <1>14 DEF GivenBackAlready, ResetLine
    <3> QED
      BY <1>r, <3>1, HoldersStay
  <2>2. Granted(a)' = Granted(a) /\ Returned(a)' = Returned(a)
    BY <1>14 DEF GivenBackAlready, Granted, Returned, coreVars, historyVars
  <2> QED
    BY <1>q, <2>1, <2>2

<1>15. CASE EvictExclusive(c)
  <2>1. PICK v \in Data :
          /\ l1State[c][v] = "E" /\ l1State' = [l1State EXCEPT ![c][v] = "EI"]
          /\ responses' = responses \cup
               {[type |-> "PUT_REP", addr |-> v, from |-> c, data |-> l1Data[c][v],
                 wts |-> l1Wts[c][v], rts |-> l1Rts[c][v]]}
    BY <1>15 DEF EvictExclusive
  <2>2. Granted(a)' = Granted(a)
    BY <1>15 DEF EvictExclusive, Granted
  <2>3. CASE a = v
    <3> DEFINE r == [type |-> "PUT_REP", addr |-> v, from |-> c, data |-> l1Data[c][v],
                     wts |-> l1Wts[c][v], rts |-> l1Rts[c][v]]
    <3>1. c \in Holders(a) /\ Holders(a)' = Holders(a) \ {c}
      BY <1>t, <2>1, <2>3 DEF Holders
    <3>2. r.from = c /\ r.addr = a /\ r \in responses'
      BY <2>1, <2>3
    <3>3. Returned(a)' = Returned(a) \cup {r}
      BY <2>1, <3>2 DEF Returned
    <3> HIDE DEF r
    <3> QED
      BY <1>d, <2>2, <3>1, <3>2, <3>3, TokenGivenBack
  <2>4. CASE a # v
    BY <1>q, <1>t, <2>1, <2>2, <2>4 DEF Holders, Returned
  <2> QED
    BY <2>3, <2>4

<1>16. CASE FillExclusive(c)
  <2>1. PICK m \in replies :
          /\ m.to = c /\ m.type = "EX_REP" /\ l1State[c][m.addr] # "E"
          /\ l1State' = [l1State EXCEPT ![c][m.addr] = "E"]
          /\ replies' = replies \ {m}
    BY <1>16 DEF FillExclusive
  <2>2. Returned(a)' = Returned(a)
    BY <1>16 DEF FillExclusive, Returned
  <2>3. CASE a = m.addr
    <3>1. Holders(a)' = Holders(a) \cup {c}
      BY <1>t, <2>1, <2>3 DEF Holders
    <3>2. m \in Granted(a) /\ Granted(a)' = Granted(a) \ {m}
      BY <2>1, <2>3 DEF Granted
    <3> QED
      BY <1>d, <2>1, <2>2, <3>1, <3>2, TokenTaken
  <2>4. CASE a # m.addr
    BY <1>q, <1>r, <1>t, <2>1, <2>2, <2>4 DEF Holders, Granted
  <2> QED
    BY <2>3, <2>4

<1>17. CASE Upgrade(c)
  <2>1. PICK m \in replies :
          /\ m.to = c /\ m.type = "UPGR_REP" /\ l1State[c][m.addr] # "E"
          /\ l1State' = [l1State EXCEPT ![c][m.addr] = "E"]
          /\ replies' = replies \ {m}
    BY <1>17 DEF Upgrade
  <2>2. Returned(a)' = Returned(a)
    BY <1>17 DEF Upgrade, Returned
  <2>3. CASE a = m.addr
    <3>1. Holders(a)' = Holders(a) \cup {c}
      BY <1>t, <2>1, <2>3 DEF Holders
    <3>2. m \in Granted(a) /\ Granted(a)' = Granted(a) \ {m}
      BY <2>1, <2>3 DEF Granted
    <3> QED
      BY <1>d, <2>1, <2>2, <3>1, <3>2, TokenTaken
  <2>4. CASE a # m.addr
    BY <1>q, <1>r, <1>t, <2>1, <2>2, <2>4 DEF Holders, Granted
  <2> QED
    BY <2>3, <2>4

<1>18. CASE GiveBack(c)
  <2>1. PICK m \in forwards :
          /\ l1State[c][m.addr] = "E" /\ l1State' = [l1State EXCEPT ![c][m.addr] = "S_LSD"]
          /\ responses' = responses \cup
               {[type |-> "WB_REP", addr |-> m.addr, from |-> c, data |-> l1Data[c][m.addr],
                 wts |-> l1Wts[c][m.addr],
                 rts |-> max3(l1Rts[c][m.addr], l1Wts[c][m.addr] + Lease, m.rts)]}
    BY <1>18 DEF GiveBack
  <2>2. Granted(a)' = Granted(a)
    BY <1>18 DEF GiveBack, Granted
  <2>3. CASE a = m.addr
    <3> DEFINE r == [type |-> "WB_REP", addr |-> m.addr, from |-> c,
                     data |-> l1Data[c][m.addr], wts |-> l1Wts[c][m.addr],
                     rts |-> max3(l1Rts[c][m.addr], l1Wts[c][m.addr] + Lease, m.rts)]
    <3>1. c \in Holders(a) /\ Holders(a)' = Holders(a) \ {c}
      BY <1>t, <2>1, <2>3 DEF Holders
    <3>2. r.from = c /\ r.addr = a /\ r \in responses'
      BY <2>1, <2>3
    <3>3. Returned(a)' = Returned(a) \cup {r}
      BY <2>1, <3>2 DEF Returned
    <3> HIDE DEF r
    <3> QED
      BY <1>d, <2>2, <3>1, <3>2, <3>3, TokenGivenBack
  <2>4. CASE a # m.addr
    BY <1>q, <1>r, <1>t, <2>1, <2>2, <2>4 DEF Holders, Returned
  <2> QED
    BY <2>3, <2>4

<1> QED
  BY <1>1, <1>2, <1>3, <1>4, <1>5, <1>6, <1>7, <1>8, <1>9, <1>10, <1>11, <1>12,
    <1>13, <1>14, <1>15, <1>16, <1>17, <1>18
  DEF L1Step, OnMandatory, OnReply, OnForward

-----------------------------------------------------------------------------
(* The steps of the directory. *)

(* A request that is granted makes a token, one that recalls the line lets *)
(* go of its owner, and any other leaves token and owner alone.            *)
LEMMA RequestStepRecorded ==
  ASSUME TypeOK, OneWriter, NEW m \in requests, OnRequest(m), UNCHANGED l1Vars
  PROVE  OneWriter'
<1> SUFFICES ASSUME NEW a \in Data
             PROVE  Recorded(a)'
  BY DEF OneWriter
<1>a. Holders(a)' = Holders(a) /\ Recorded(a)
  BY DEF Holders, l1Vars, cacheVars, OneWriter
<1>t. /\ dirState \in [Addr -> DirState] /\ owner \in [Addr -> Caches \cup {None}]
      /\ a \in Addr /\ a \notin Counters /\ None \notin Caches
  BY AddressAssumption DEF TypeOK, DirTypeOK, Addr
<1>q. ASSUME Granted(a)' = Granted(a), Returned(a)' = Returned(a), owner'[a] = owner[a],
             dirState'[a] \in Exclusive <=> dirState[a] \in Exclusive,
             dirState'[a] \in Owned <=> dirState[a] \in Owned
      PROVE  Recorded(a)'
  BY <1>q, <1>a, TokensStay DEF Tokens

<1>h. m.addr \in Addr /\ m.from \in Caches
  BY RequestType
<1>1. CASE GrantSharedFromLLC(m)
  <2>1. Granted(a)' = Granted(a) /\ Returned(a)' = Returned(a)
    BY <1>1 DEF GrantSharedFromLLC, Granted, Returned, netVars, Reply1
  <2>2. owner'[a] = owner[a]
    BY <1>1 DEF GrantSharedFromLLC
  <2>3. /\ dirState'[a] \in Exclusive <=> dirState[a] \in Exclusive
        /\ dirState'[a] \in Owned <=> dirState[a] \in Owned
    BY <1>1, <1>h, <1>t DEF GrantSharedFromLLC, Accept, Exclusive, Owned
  <2> QED
    BY <1>q, <2>1, <2>2, <2>3

<1>2. CASE GrantExclusiveFromLLC(m)
  <2> DEFINE r == [type |-> "EX_REP", addr |-> m.addr, to |-> m.from, data |-> llcData[m.addr],
                     wts |-> mts, rts |-> mts]
  <2>1. Returned(a)' = Returned(a)
    BY <1>2 DEF GrantExclusiveFromLLC, Returned
  <2>2. /\ dirState[m.addr] \notin Exclusive /\ dirState' = [dirState EXCEPT ![m.addr] = "E"]
        /\ owner' = [owner EXCEPT ![m.addr] = m.from] /\ replies' = replies \cup {r}
    BY <1>2 DEF GrantExclusiveFromLLC, Reply1, Accept, Exclusive, Owned
  <2>3. CASE a = m.addr
    <3>1. r \in replies' /\ r.to = m.from /\ m.from # None /\ r.addr = a /\ r.type = "EX_REP"
      BY <1>h, <1>t, <2>2, <2>3
    <3>2. Granted(a)' = Granted(a) \cup {r}
      BY <2>2, <3>1 DEF Granted
    <3>3. owner'[a] = r.to /\ dirState'[a] = "E" /\ dirState[a] \notin Exclusive
      BY <1>t, <2>2, <2>3, <3>1
    <3> HIDE DEF r
    <3> QED
      BY <1>a, <2>1, <3>1, <3>2, <3>3, TokenGranted
  <2>4. CASE a # m.addr
    <3>1. Granted(a)' = Granted(a)
      BY <2>2, <2>4 DEF Granted
    <3> QED
      BY <1>q, <1>t, <2>1, <2>2, <2>4, <3>1
  <2> QED
    BY <2>3, <2>4

<1>3. CASE GrantUpgrade(m)
  <2> DEFINE r == [type |-> "UPGR_REP", addr |-> m.addr, to |-> m.from, data |-> 0,
                     wts |-> 0, rts |-> dirRts[m.addr]]
  <2>1. Returned(a)' = Returned(a)
    BY <1>3 DEF GrantUpgrade, Returned
  <2>2. /\ dirState[m.addr] \notin Exclusive /\ dirState' = [dirState EXCEPT ![m.addr] = "E"]
        /\ owner' = [owner EXCEPT ![m.addr] = m.from] /\ replies' = replies \cup {r}
    BY <1>3 DEF GrantUpgrade, Reply1, Accept, Exclusive, Owned
  <2>3. CASE a = m.addr
    <3>1. r \in replies' /\ r.to = m.from /\ m.from # None /\ r.addr = a /\ r.type = "UPGR_REP"
      BY <1>h, <1>t, <2>2, <2>3
    <3>2. Granted(a)' = Granted(a) \cup {r}
      BY <2>2, <3>1 DEF Granted
    <3>3. owner'[a] = r.to /\ dirState'[a] = "E" /\ dirState[a] \notin Exclusive
      BY <1>t, <2>2, <2>3, <3>1
    <3> HIDE DEF r
    <3> QED
      BY <1>a, <2>1, <3>1, <3>2, <3>3, TokenGranted
  <2>4. CASE a # m.addr
    <3>1. Granted(a)' = Granted(a)
      BY <2>2, <2>4 DEF Granted
    <3> QED
      BY <1>q, <1>t, <2>1, <2>2, <2>4, <3>1
  <2> QED
    BY <2>3, <2>4

<1>4. CASE FetchShared(m)
  <2>1. Granted(a)' = Granted(a) /\ Returned(a)' = Returned(a)
    BY <1>4 DEF FetchShared, Granted, Returned, netVars
  <2>2. owner'[a] = owner[a]
    BY <1>4 DEF FetchShared
  <2>3. /\ dirState'[a] \in Exclusive <=> dirState[a] \in Exclusive
        /\ dirState'[a] \in Owned <=> dirState[a] \in Owned
    BY <1>4, <1>h, <1>t DEF FetchShared, Accept, Exclusive, Owned
  <2> QED
    BY <1>q, <2>1, <2>2, <2>3

<1>5. CASE FetchExclusive(m)
  <2>1. Granted(a)' = Granted(a) /\ Returned(a)' = Returned(a)
    BY <1>5 DEF FetchExclusive, Granted, Returned, netVars
  <2>2. owner'[a] = owner[a]
    BY <1>5 DEF FetchExclusive
  <2>3. /\ dirState'[a] \in Exclusive <=> dirState[a] \in Exclusive
        /\ dirState'[a] \in Owned <=> dirState[a] \in Owned
    BY <1>5, <1>h, <1>t DEF FetchExclusive, Accept, Exclusive, Owned
  <2> QED
    BY <1>q, <2>1, <2>2, <2>3

<1>6. CASE RecallForShared(m)
  <2>1. Granted(a)' = Granted(a) /\ Returned(a)' = Returned(a)
    BY <1>6 DEF RecallForShared, Granted, Returned
  <2>2. /\ dirState[m.addr] = "E" /\ dirState' = [dirState EXCEPT ![m.addr] = "ES"]
        /\ owner' = [owner EXCEPT ![m.addr] = None]
    BY <1>6 DEF RecallForShared, Accept
  <2>3. CASE a = m.addr
    BY <1>a, <1>t, <2>1, <2>2, <2>3, TokenRecalled DEF Tokens, Exclusive, Owned
  <2>4. CASE a # m.addr
    BY <1>q, <1>t, <2>1, <2>2, <2>4
  <2> QED
    BY <2>3, <2>4

<1>7. CASE RecallForExclusive(m)
  <2>1. Granted(a)' = Granted(a) /\ Returned(a)' = Returned(a)
    BY <1>7 DEF RecallForExclusive, Granted, Returned
  <2>2. /\ dirState[m.addr] = "E" /\ dirState' = [dirState EXCEPT ![m.addr] = "EE"]
        /\ owner' = [owner EXCEPT ![m.addr] = None]
    BY <1>7 DEF RecallForExclusive, Accept
  <2>3. CASE a = m.addr
    BY <1>a, <1>t, <2>1, <2>2, <2>3, TokenRecalled DEF Tokens, Exclusive, Owned
  <2>4. CASE a # m.addr
    BY <1>q, <1>t, <2>1, <2>2, <2>4
  <2> QED
    BY <2>3, <2>4

<1>8. CASE FetchCounter(m)
  <2>1. Granted(a)' = Granted(a) /\ Returned(a)' = Returned(a)
    BY <1>8 DEF FetchCounter, Granted, Returned, netVars
  <2>2. owner'[a] = owner[a]
    BY <1>8 DEF FetchCounter
  <2>i. dirState[m.addr] \in Stable /\ dirState' = [dirState EXCEPT ![m.addr] = FetchAuth[@]]
    BY <1>8 DEF FetchCounter, Accept
  <2>3. /\ dirState'[a] \in Exclusive <=> dirState[a] \in Exclusive
        /\ dirState'[a] \in Owned <=> dirState[a] \in Owned
    BY <2>i, <1>h, <1>t, StateMaps DEF Exclusive, Owned, Stable, InFetchAuth
  <2> QED
    BY <1>q, <2>1, <2>2, <2>3

<1>9. CASE WaitForCounter(m)
  <2>1. Granted(a)' = Granted(a) /\ Returned(a)' = Returned(a)
    BY <1>9 DEF WaitForCounter, Granted, Returned, netVars
  <2>2. UNCHANGED <<dirState, owner>>
    BY <1>9 DEF WaitForCounter, entryVars
  <2> QED
    BY <1>q, <2>1, <2>2

<1>10. CASE Bounce(m)
  <2>1. Granted(a)' = Granted(a) /\ Returned(a)' = Returned(a)
    BY <1>10 DEF Bounce, Granted, Returned, netVars
  <2>2. owner'[a] = owner[a]
    BY <1>10 DEF Bounce
  <2>i. dirState[m.addr] \in InFetchAuth /\ dirState' = [dirState EXCEPT ![m.addr] = Base[@]]
    BY <1>10 DEF Bounce, Accept
  <2>3. /\ dirState'[a] \in Exclusive <=> dirState[a] \in Exclusive
        /\ dirState'[a] \in Owned <=> dirState[a] \in Owned
    BY <2>i, <1>h, <1>t, StateMaps DEF Exclusive, Owned, Stable, InFetchAuth
  <2> QED
    BY <1>q, <2>1, <2>2, <2>3

<1>11. CASE StallRequest(m)
  <2>1. Granted(a)' = Granted(a) /\ Returned(a)' = Returned(a)
    BY <1>11 DEF StallRequest, Granted, Returned, netVars
  <2>2. UNCHANGED <<dirState, owner>>
    BY <1>11 DEF StallRequest, entryVars
  <2> QED
    BY <1>q, <2>1, <2>2

<1> QED
  BY <1>1, <1>2, <1>3, <1>4, <1>5, <1>6, <1>7, <1>8, <1>9, <1>10, <1>11 DEF
    OnRequest

(* Memory answers a request for the line by granting it. *)
LEMMA MemoryStepRecorded ==
  ASSUME TypeOK, OneWriter, NEW b \in Addr, OnMemory(b), UNCHANGED l1Vars
  PROVE  OneWriter'
<1> SUFFICES ASSUME NEW a \in Data
             PROVE  Recorded(a)'
  BY DEF OneWriter
<1>a. Holders(a)' = Holders(a) /\ Recorded(a)
  BY DEF Holders, l1Vars, cacheVars, OneWriter
<1>t. /\ dirState \in [Addr -> DirState] /\ owner \in [Addr -> Caches \cup {None}]
      /\ a \in Addr /\ a \notin Counters /\ None \notin Caches
  BY AddressAssumption DEF TypeOK, DirTypeOK, Addr
<1>q. ASSUME Granted(a)' = Granted(a), Returned(a)' = Returned(a), owner'[a] = owner[a],
             dirState'[a] \in Exclusive <=> dirState[a] \in Exclusive,
             dirState'[a] \in Owned <=> dirState[a] \in Owned
      PROVE  Recorded(a)'
  BY <1>q, <1>a, TokensStay DEF Tokens
<1>1. CASE DataForShared(b)
  <2>1. Granted(a)' = Granted(a) /\ Returned(a)' = Returned(a)
    BY <1>1 DEF DataForShared, Granted, Returned, netVars, Reply1
  <2>2. owner'[a] = owner[a]
    BY <1>1 DEF DataForShared
  <2>3. /\ dirState'[a] \in Exclusive <=> dirState[a] \in Exclusive
        /\ dirState'[a] \in Owned <=> dirState[a] \in Owned
    BY <1>1, <1>t DEF DataForShared, Answer, Exclusive, Owned
  <2> QED
    BY <1>q, <2>1, <2>2, <2>3

<1>2. CASE DataForExclusive(b)
  <2> DEFINE r == [type |-> "EX_REP", addr |-> b, to |-> tbe[b].requestor, data |-> memory[b],
                     wts |-> mts, rts |-> mts]
  <2>1. Returned(a)' = Returned(a)
    BY <1>2 DEF DataForExclusive, Returned, GrantFromMemory
  <2>2. /\ dirState[b] \notin Exclusive /\ dirState' = [dirState EXCEPT ![b] = "E"]
        /\ owner' = [owner EXCEPT ![b] = tbe[b].requestor] /\ replies' = replies \cup {r}
    BY <1>2 DEF DataForExclusive, Reply1, Answer, Exclusive, Owned,
      GrantFromMemory
  <2>3. CASE a = b
    <3>1. r \in replies' /\ r.to = tbe[b].requestor /\ tbe[b].requestor # None
          /\ r.addr = a /\ r.type = "EX_REP"
      BY RequestorType, <1>t, <1>2, <1>t, <2>2, <2>3 DEF DataForExclusive,
        Answer, Pending
    <3>2. Granted(a)' = Granted(a) \cup {r}
      BY <2>2, <3>1 DEF Granted
    <3>3. owner'[a] = r.to /\ dirState'[a] = "E" /\ dirState[a] \notin Exclusive
      BY <1>t, <2>2, <2>3, <3>1
    <3> HIDE DEF r
    <3> QED
      BY <1>a, <2>1, <3>1, <3>2, <3>3, TokenGranted
  <2>4. CASE a # b
    <3>1. Granted(a)' = Granted(a)
      BY <2>2, <2>4 DEF Granted
    <3> QED
      BY <1>q, <1>t, <2>1, <2>2, <2>4, <3>1
  <2> QED
    BY <2>3, <2>4

<1>3. CASE DataForUpgrade(b)
  <2> DEFINE r == [type |-> "EX_REP", addr |-> b, to |-> tbe[b].requestor, data |-> memory[b],
                     wts |-> mts, rts |-> mts]
  <2>1. Returned(a)' = Returned(a)
    BY <1>3 DEF DataForUpgrade, Returned, GrantFromMemory
  <2>2. /\ dirState[b] \notin Exclusive /\ dirState' = [dirState EXCEPT ![b] = "E"]
        /\ owner' = [owner EXCEPT ![b] = tbe[b].requestor] /\ replies' = replies \cup {r}
    BY <1>3 DEF DataForUpgrade, Reply1, Answer, Exclusive, Owned, GrantFromMemory
  <2>3. CASE a = b
    <3>1. r \in replies' /\ r.to = tbe[b].requestor /\ tbe[b].requestor # None
          /\ r.addr = a /\ r.type = "EX_REP"
      BY RequestorType, <1>t, <1>3, <1>t, <2>2, <2>3 DEF DataForUpgrade,
        Answer, Pending
    <3>2. Granted(a)' = Granted(a) \cup {r}
      BY <2>2, <3>1 DEF Granted
    <3>3. owner'[a] = r.to /\ dirState'[a] = "E" /\ dirState[a] \notin Exclusive
      BY <1>t, <2>2, <2>3, <3>1
    <3> HIDE DEF r
    <3> QED
      BY <1>a, <2>1, <3>1, <3>2, <3>3, TokenGranted
  <2>4. CASE a # b
    <3>1. Granted(a)' = Granted(a)
      BY <2>2, <2>4 DEF Granted
    <3> QED
      BY <1>q, <1>t, <2>1, <2>2, <2>4, <3>1
  <2> QED
    BY <2>3, <2>4

<1>4. CASE CounterData(b)
  <2>1. Granted(a)' = Granted(a) /\ Returned(a)' = Returned(a) /\ owner'[a] = owner[a]
    BY <1>4 DEF CounterData, Granted, Returned
  <2>2. \/ dirState'[a] = dirState[a]
        \/ dirState[a] \in InEvictAuth /\ dirState'[a] \in InEvicting
    BY <1>4, <1>t, CounterDataStates
  <2>3. /\ dirState'[a] \in Exclusive <=> dirState[a] \in Exclusive
        /\ dirState'[a] \in Owned <=> dirState[a] \in Owned
    BY <2>2 DEF Exclusive, Owned, InEvictAuth, InEvicting
  <2> QED
    BY <1>q, <2>1, <2>3

<1>5. ASSUME NEW i \in DOMAIN memQ[b], WritebackDone(b, i)
      PROVE  Recorded(a)'
  <2>1. Granted(a)' = Granted(a) /\ Returned(a)' = Returned(a)
    BY <1>5 DEF WritebackDone, Granted, Returned, netVars
  <2>2. owner'[a] = owner[a]
    BY <1>5 DEF WritebackDone
  <2>i. dirState[b] \in InEvicting /\ dirState' = [dirState EXCEPT ![b] = Base[@]]
    BY <1>5 DEF WritebackDone, Accept
  <2>3. /\ dirState'[a] \in Exclusive <=> dirState[a] \in Exclusive
        /\ dirState'[a] \in Owned <=> dirState[a] \in Owned
    BY <2>i, <1>t, StateMaps DEF Exclusive, Owned, Stable, InEvicting, InFetchAuth
  <2> QED
    BY <1>q, <2>1, <2>2, <2>3

<1> QED
  BY <1>1, <1>2, <1>3, <1>4, <1>5 DEF OnMemory

(* A block that comes back ends its token or becomes the next one. *)
LEMMA ResponseStepRecorded ==
  ASSUME TypeOK, OneWriter, NEW m \in responses, OnResponse(m), UNCHANGED l1Vars
  PROVE  OneWriter'
<1> SUFFICES ASSUME NEW a \in Data
             PROVE  Recorded(a)'
  BY DEF OneWriter
<1>a. Holders(a)' = Holders(a) /\ Recorded(a)
  BY DEF Holders, l1Vars, cacheVars, OneWriter
<1>t. /\ dirState \in [Addr -> DirState] /\ owner \in [Addr -> Caches \cup {None}]
      /\ a \in Addr /\ a \notin Counters /\ None \notin Caches
  BY AddressAssumption DEF TypeOK, DirTypeOK, Addr
<1>q. ASSUME Granted(a)' = Granted(a), Returned(a)' = Returned(a), owner'[a] = owner[a],
             dirState'[a] \in Exclusive <=> dirState[a] \in Exclusive,
             dirState'[a] \in Owned <=> dirState[a] \in Owned
      PROVE  Recorded(a)'
  BY <1>q, <1>a, TokensStay DEF Tokens
<1>h. m.addr \in Data /\ m.addr \in Addr
  BY ResponseType
<1>c. ToSet(PresentChain(m.addr)) \subseteq Counters
  BY <1>h, ChainType
<1>1. CASE PutBlock(m)
  <2>1. Granted(a)' = Granted(a)
    BY <1>1 DEF PutBlock, Granted, Reply1
  <2>2. /\ responses' = responses \ {m} /\ owner'[m.addr] = None
        /\ dirState'[m.addr] = "S"
        /\ a # m.addr => dirState'[a] = dirState[a] /\ owner'[a] = owner[a]
    BY <1>1, <1>h, <1>t DEF PutBlock, PopResponse
  <2>3. CASE a = m.addr
    <3>1. m \in Returned(a) /\ Returned(a)' = Returned(a) \ {m}
      BY <2>2, <2>3 DEF Returned
    <3>2. owner'[a] = None /\ dirState'[a] \notin Exclusive
      BY <1>a, <1>t, <2>2, <2>3 DEF Exclusive, Owned
    <3> QED
      BY <1>a, <2>1, <3>1, <3>2, TokenCollected
  <2>4. CASE a # m.addr
    <3>1. Returned(a)' = Returned(a)
      BY <2>2, <2>4 DEF Returned
    <3> QED
      BY <1>q, <2>1, <2>2, <2>4, <3>1
  <2> QED
    BY <2>3, <2>4

<1>2. CASE FlushForShared(m)
  <2>1. Granted(a)' = Granted(a)
    BY <1>2 DEF FlushForShared, Granted, Reply1
  <2>2. /\ responses' = responses \ {m} /\ owner' = owner /\ dirState[m.addr] = "ES"
        /\ dirState'[m.addr] = "S" /\ (a # m.addr => dirState'[a] = dirState[a])
    BY <1>2, <1>h, <1>t DEF FlushForShared, PopResponse, FlushRep
  <2>3. CASE a = m.addr
    <3>1. m \in Returned(a) /\ Returned(a)' = Returned(a) \ {m}
      BY <2>2, <2>3 DEF Returned
    <3>2. owner'[a] = None /\ dirState'[a] \notin Exclusive
      BY <1>a, <1>t, <2>2, <2>3 DEF Exclusive, Owned, Recorded
    <3> QED
      BY <1>a, <2>1, <3>1, <3>2, TokenCollected
  <2>4. CASE a # m.addr
    <3>1. Returned(a)' = Returned(a)
      BY <2>2, <2>4 DEF Returned
    <3> QED
      BY <1>q, <2>1, <2>2, <2>4, <3>1
  <2> QED
    BY <2>3, <2>4

<1>3. CASE FlushForExclusive(m)
  <2> DEFINE q == tbe[m.addr].requestor
             r == [type |-> "EX_REP", addr |-> m.addr, to |-> q, data |-> m.data,
                   wts |-> m.wts, rts |-> m.rts]
  <2>1. /\ responses' = responses \ {m} /\ owner' = [owner EXCEPT ![m.addr] = q]
        /\ dirState[m.addr] = "EE" /\ dirState' = [dirState EXCEPT ![m.addr] = "E"]
        /\ replies' = replies \cup {r}
    BY <1>3 DEF FlushForExclusive, PopResponse, FlushRep, Reply1
  <2>2. CASE a = m.addr
    <3>1. q \in Caches
      BY <1>h, <2>1, RequestorType DEF Pending
    <3>2. r \in replies' /\ r.to = q /\ r.to # None /\ r.addr = a /\ r.type = "EX_REP"
      BY <1>t, <2>1, <2>2, <3>1
    <3>3. Granted(a)' = Granted(a) \cup {r}
      BY <2>1, <3>2 DEF Granted
    <3>4. m \in Returned(a) /\ Returned(a)' = Returned(a) \ {m}
      BY <2>1, <2>2 DEF Returned
    <3>5. owner'[a] = r.to /\ dirState'[a] = "E"
      BY <1>t, <2>1, <2>2, <3>2
    <3> HIDE DEF q, r
    <3> QED
      BY <1>a, <3>2, <3>3, <3>4, <3>5, TokenPassedOn
  <2>3. CASE a # m.addr
    <3>1. Granted(a)' = Granted(a) /\ Returned(a)' = Returned(a)
      BY <2>1, <2>3 DEF Granted, Returned
    <3> QED
      BY <1>q, <1>t, <2>1, <2>3, <3>1
  <2> QED
    BY <2>2, <2>3

<1>4. CASE BounceResponse(m)
  <2>1. Granted(a)' = Granted(a) /\ Returned(a)' = Returned(a)
    BY <1>4 DEF BounceResponse, Granted, Returned, netVars
  <2>2. owner'[a] = owner[a]
    BY <1>4 DEF BounceResponse
  <2>i. dirState[m.addr] \in InFetchAuth /\ dirState' = [dirState EXCEPT ![m.addr] = Base[@]]
    BY <1>4 DEF BounceResponse, FlushRep
  <2>3. /\ dirState'[a] \in Exclusive <=> dirState[a] \in Exclusive
        /\ dirState'[a] \in Owned <=> dirState[a] \in Owned
    BY <2>i, <1>h, <1>t, StateMaps DEF Exclusive, Owned, Stable, InFetchAuth
  <2> QED
    BY <1>q, <2>1, <2>2, <2>3

<1>5. CASE FlushDirect(m)
  <2>1. Granted(a)' = Granted(a)
    BY <1>5 DEF FlushDirect, Granted
  <2>2. /\ responses' = responses \ {m} /\ owner'[m.addr] = None
        /\ dirState'[m.addr] = "I_Evicting"
        /\ a # m.addr => dirState'[a] = dirState[a] /\ owner'[a] = owner[a]
    BY <1>5, <1>h, <1>t, <1>c DEF FlushDirect, PopResponse, IncrementTo
  <2>3. CASE a = m.addr
    <3>1. m \in Returned(a) /\ Returned(a)' = Returned(a) \ {m}
      BY <2>2, <2>3 DEF Returned
    <3>2. owner'[a] = None /\ dirState'[a] \notin Exclusive
      BY <1>a, <1>t, <2>2, <2>3 DEF Exclusive, Owned
    <3> QED
      BY <1>a, <2>1, <3>1, <3>2, TokenCollected
  <2>4. CASE a # m.addr
    <3>1. Returned(a)' = Returned(a)
      BY <2>2, <2>4 DEF Returned
    <3> QED
      BY <1>q, <2>1, <2>2, <2>4, <3>1
  <2> QED
    BY <2>3, <2>4

<1>6. CASE FlushSuspended(m)
  <2>1. Granted(a)' = Granted(a)
    BY <1>6 DEF FlushSuspended, Granted
  <2>2. /\ responses' = responses \ {m} /\ owner'[m.addr] = None
        /\ dirState'[m.addr] = "I_Evict_Auth"
        /\ a # m.addr => dirState'[a] = dirState[a] /\ owner'[a] = owner[a]
    BY <1>6, <1>h, <1>t DEF FlushSuspended, PopResponse
  <2>3. CASE a = m.addr
    <3>1. m \in Returned(a) /\ Returned(a)' = Returned(a) \ {m}
      BY <2>2, <2>3 DEF Returned
    <3>2. owner'[a] = None /\ dirState'[a] \notin Exclusive
      BY <1>a, <1>t, <2>2, <2>3 DEF Exclusive, Owned
    <3> QED
      BY <1>a, <2>1, <3>1, <3>2, TokenCollected
  <2>4. CASE a # m.addr
    <3>1. Returned(a)' = Returned(a)
      BY <2>2, <2>4 DEF Returned
    <3> QED
      BY <1>q, <2>1, <2>2, <2>4, <3>1
  <2> QED
    BY <2>3, <2>4

<1> QED
  BY <1>1, <1>2, <1>3, <1>4, <1>5, <1>6 DEF OnResponse

(* An eviction never drops the token of an owned line. *)
LEMMA VictimStepRecorded ==
  ASSUME TypeOK, OneWriter, NEW v \in resident, OnVictim(v), UNCHANGED l1Vars
  PROVE  OneWriter'
<1> SUFFICES ASSUME NEW a \in Data
             PROVE  Recorded(a)'
  BY DEF OneWriter
<1>a. Holders(a)' = Holders(a) /\ Recorded(a)
  BY DEF Holders, l1Vars, cacheVars, OneWriter
<1>t. /\ dirState \in [Addr -> DirState] /\ owner \in [Addr -> Caches \cup {None}]
      /\ a \in Addr /\ a \notin Counters /\ None \notin Caches
  BY AddressAssumption DEF TypeOK, DirTypeOK, Addr
<1>q. ASSUME Granted(a)' = Granted(a), Returned(a)' = Returned(a), owner'[a] = owner[a],
             dirState'[a] \in Exclusive <=> dirState[a] \in Exclusive,
             dirState'[a] \in Owned <=> dirState[a] \in Owned
      PROVE  Recorded(a)'
  BY <1>q, <1>a, TokensStay DEF Tokens
<1>h. v \in Addr
  BY DEF TypeOK, DirTypeOK
<1>1. CASE DropClean(v)
  <2>1. Granted(a)' = Granted(a) /\ Returned(a)' = Returned(a)
    BY <1>1 DEF DropClean, Granted, Returned, netVars
  <2>2. UNCHANGED <<dirState, owner>>
    BY <1>1 DEF DropClean, entryVars
  <2> QED
    BY <1>q, <2>1, <2>2

<1>2. CASE WriteBackVictim(v)
  <2>1. Granted(a)' = Granted(a) /\ Returned(a)' = Returned(a) /\ owner'[a] = owner[a]
    BY <1>2 DEF WriteBackVictim, Granted, Returned, netVars
  <2>2. PICK chain \in {<<>>, PresentChain(v)} : IncrementTo(v, Evicting[dirState[v]], chain)
    BY <1>2 DEF WriteBackVictim
  <2>3. ToSet(<<>>) = {} /\ ToSet(PresentChain(v)) \subseteq Counters
    BY <1>h, ChainType DEF ToSet
  <2>4. dirState'[a] = dirState[a] \/ (a = v /\ dirState'[a] = Evicting[dirState[a]])
    BY <1>t, <2>2, <2>3 DEF IncrementTo
  <2>5. dirState[v] \in {"I", "S", "C_M"}
    BY <1>2 DEF WriteBackVictim
  <2>6. /\ dirState'[a] \in Exclusive <=> dirState[a] \in Exclusive
        /\ dirState'[a] \in Owned <=> dirState[a] \in Owned
    BY <2>4, <2>5, StateMaps DEF Exclusive, Owned, InEvicting
  <2> QED
    BY <1>q, <2>1, <2>6

<1>3. CASE RecallVictim(v)
  <2>1. Granted(a)' = Granted(a) /\ Returned(a)' = Returned(a)
    BY <1>3 DEF RecallVictim, Granted, Returned, netVars
  <2>2. owner'[a] = owner[a]
    BY <1>3 DEF RecallVictim
  <2>3. /\ dirState'[a] \in Exclusive <=> dirState[a] \in Exclusive
        /\ dirState'[a] \in Owned <=> dirState[a] \in Owned
    BY <1>3, <1>h, <1>t DEF RecallVictim, Stable, Exclusive, Owned
  <2> QED
    BY <1>q, <2>1, <2>2, <2>3

<1>4. CASE SuspendVictim(v)
  <2>1. Granted(a)' = Granted(a) /\ Returned(a)' = Returned(a)
    BY <1>4 DEF SuspendVictim, Granted, Returned, netVars
  <2>2. owner'[a] = owner[a]
    BY <1>4 DEF SuspendVictim
  <2>i. dirState[v] \in {"I", "S", "C_M"} /\ dirState' = [dirState EXCEPT ![v] = EvictAuth[@]]
    BY <1>4 DEF SuspendVictim, Stable
  <2>3. /\ dirState'[a] \in Exclusive <=> dirState[a] \in Exclusive
        /\ dirState'[a] \in Owned <=> dirState[a] \in Owned
    BY <2>i, <1>h, <1>t, StateMaps DEF Exclusive, Owned, InEvictAuth
  <2> QED
    BY <1>q, <2>1, <2>2, <2>3

<1>5. CASE StallVictim(v)
  <2>1. Granted(a)' = Granted(a) /\ Returned(a)' = Returned(a)
    BY <1>5 DEF StallVictim, Granted, Returned, netVars
  <2>2. UNCHANGED <<dirState, owner>>
    BY <1>5 DEF StallVictim, entryVars
  <2> QED
    BY <1>q, <2>1, <2>2

<1> QED
  BY <1>1, <1>2, <1>3, <1>4, <1>5 DEF OnVictim

-----------------------------------------------------------------------------
(* The system. *)

(* What is not touched keeps its type. *)
LEMMA L1TypeStays ==
  ASSUME L1TypeOK, UNCHANGED l1Vars
  PROVE  L1TypeOK'
  BY DEF L1TypeOK, l1Vars, cacheVars, coreVars, historyVars

(* The directory's too. *)
LEMMA DirTypeStays ==
  ASSUME DirTypeOK, UNCHANGED dirVars
  PROVE  DirTypeOK'
  BY DEF DirTypeOK, EntriesOK, dirVars, entryVars, llcVars, authVars, memVars

(* All lines start at no cache, and no counter is in the LLC. *)
LEMMA InitCorrect ==
  ASSUME Init
  PROVE  TypeOK /\ OneWriter
<1>1. L1TypeOK
  BY L1Assumption DEF Init, L1Init, L1TypeOK, L1State
<1>2. NetTypeOK
  BY DEF Init, NetInit, NetTypeOK, Machine
<1>3. DirTypeOK
  <2>1. \A a \in Addr : dirState[a] = "I"
    BY DEF Init, DirInit
  <2>2. EntriesOK
    BY <2>1 DEF EntriesOK, CounterState, Owned, Pending, Addr
  <2>3. memQ \in [Addr -> Seq(MemMsg)] /\ tbe \in [Addr -> TBE]
    BY DEF Init, DirInit, NoTBE, TBE
  <2>4. waiters \in [Counters -> [Slot -> Addr \cup {None}]]
    BY DEF Init, DirInit, NoWaiters
  <2> QED
    BY <2>2, <2>3, <2>4 DEF Init, DirInit, NetInit, DirTypeOK, DirState, Stable
<1>4. OneWriter
  <2> SUFFICES ASSUME NEW a \in Data
               PROVE  Recorded(a)
    BY DEF OneWriter
  <2>1. Holders(a) = {} /\ Granted(a) = {} /\ Returned(a) = {}
    BY DEF Init, L1Init, NetInit, Holders, Granted, Returned
  <2>2. dirState[a] = "I" /\ owner[a] = None
    BY DEF Init, DirInit, Addr
  <2> QED
    BY <2>1, <2>2 DEF Recorded, NoToken, Exclusive, Owned
<1> QED
  BY <1>1, <1>2, <1>3, <1>4 DEF TypeOK

(* The two are inductive together: the type of the directory's entries     *)
(* says that a recall has a cache to go to, and OneWriter that a returned  *)
(* block meets the entry it belongs to.                                    *)
LEMMA NextCorrect ==
  ASSUME TypeOK, OneWriter, [Next]_vars
  PROVE  TypeOK' /\ OneWriter'
<1>1. ASSUME NEW c \in Caches, L1Step(c), UNCHANGED dirVars
      PROVE  TypeOK' /\ OneWriter'
  <2>1. L1TypeOK' /\ NetTypeOK'
    BY <1>1, L1StepType
  <2>2. DirTypeOK'
    BY <1>1, DirTypeStays DEF TypeOK
  <2> QED
    BY <1>1, <2>1, <2>2, L1StepRecorded DEF TypeOK
<1>2. ASSUME DirStep, UNCHANGED l1Vars
      PROVE  TypeOK' /\ OneWriter'
  <2>0. UNCHANGED fault /\ L1TypeOK'
    BY <1>2, L1TypeStays DEF DirStep, TypeOK
  <2>1. ASSUME NEW m \in requests, OnRequest(m)
        PROVE  DirTypeOK' /\ NetTypeOK' /\ OneWriter'
    BY <1>2, <2>0, <2>1, RequestStepType, RequestStepRecorded
  <2>2. ASSUME NEW a \in Addr, OnMemory(a)
        PROVE  DirTypeOK' /\ NetTypeOK' /\ OneWriter'
    BY <1>2, <2>0, <2>2, MemoryStepType, MemoryStepRecorded
  <2>3. ASSUME NEW m \in responses, OnResponse(m)
        PROVE  DirTypeOK' /\ NetTypeOK' /\ OneWriter'
    BY <1>2, <2>0, <2>3, ResponseStepType, ResponseStepRecorded
  <2>4. ASSUME NEW v \in resident, OnVictim(v)
        PROVE  DirTypeOK' /\ NetTypeOK' /\ OneWriter'
    BY <1>2, <2>0, <2>4, VictimStepType, VictimStepRecorded
  <2> QED
    BY <1>2, <2>0, <2>1, <2>2, <2>3, <2>4 DEF DirStep, TypeOK
<1>3. ASSUME UNCHANGED <<l1Vars, dirVars, netVars>>, fault' \in Machine
      PROVE  TypeOK' /\ OneWriter'
  <2>1. DirTypeOK' /\ L1TypeOK'
    BY <1>3, DirTypeStays, L1TypeStays DEF TypeOK
  <2>2. NetTypeOK'
    BY <1>3 DEF TypeOK, NetTypeOK, netVars
  <2>3. ASSUME NEW a \in Data
        PROVE  Recorded(a)'
    <3>1. Tokens(a)' = Tokens(a) /\ UNCHANGED <<dirState, owner>>
      BY <1>3 DEF Tokens, Holders, Granted, Returned, l1Vars, cacheVars, dirVars,
              entryVars, netVars
    <3> QED
      BY <2>3, <3>1, TokensStay DEF OneWriter
  <2> QED
    BY <2>1, <2>2, <2>3 DEF TypeOK, OneWriter
<1>4. CASE L1Undefined /\ UNCHANGED dirVars
  BY <1>3, <1>4 DEF L1Undefined, Machine
<1>5. CASE DirUndefined /\ UNCHANGED l1Vars
  BY <1>3, <1>5 DEF DirUndefined, Machine
<1>6. CASE UNCHANGED vars
  <2>1. fault' \in Machine
    BY <1>6 DEF vars, TypeOK, NetTypeOK
  <2> QED
    BY <1>3, <1>6, <2>1 DEF vars
<1> QED
  BY <1>1, <1>2, <1>4, <1>5, <1>6 DEF Next, Halt

(* Every variable of the caches, the directory and the network keeps its   *)
(* type, the entries of counters stay in the states of counters, an owned  *)
(* line has an owner and a pending one a requestor.                        *)
THEOREM TypeCorrect == Spec => []TypeOK
<1>1. Spec => [](TypeOK /\ OneWriter)
  BY InitCorrect, NextCorrect, PTL DEF Spec
<1> QED
  BY <1>1, PTL

(* For any number of caches, lines, counters and operations: a line has at *)
(* most one writer, the directory knows whether it has one and, until it   *)
(* recalls the line, which cache that is.                                  *)
THEOREM OneWriterCorrect == Spec => []OneWriter
<1>1. Spec => [](TypeOK /\ OneWriter)
  BY InitCorrect, NextCorrect, PTL DEF Spec
<1> QED
  BY <1>1, PTL

-----------------------------------------------------------------------------
(* The conversation about a line. RepliesExpected and RecallsMeetOwner are *)
(* not inductive: whether a reply finds its line waiting depends on what   *)
(* was asked before. Between a cache and the directory there is, about     *)
(* one line, at most one request, TBE or reply (OneAtATime), and it fits   *)
(* the state the line waits in (Fitting); a line is recalled once, from an *)
(* owner who is not being acknowledged a block it put back (Recalling).    *)
Asking == requests \cup stalled
Served(a) == IF dirState[a] \in Pending THEN tbe[a].requestor ELSE None
Wants(t, w, s) ==
  /\ s \in IF t = "SH_REQ" THEN {"IS", "S_EXP"} ELSE {"IE", "SE"}
  /\ w > 0 => s \in {"S_EXP", "SE"}
ServedType(d) == IF d \in {"IS", "ES"} THEN "SH_REQ" ELSE "EX_REQ"
Unrecalled == {"E", "E_Fetch_Auth"}

OneAtATime ==
  /\ requests \cap stalled = {}
  /\ \A m, n \in Asking : m.from = n.from /\ m.addr = n.addr => m = n
  /\ \A m, n \in replies : m.to = n.to /\ m.addr = n.addr => m = n
  /\ \A m \in Asking, n \in replies : ~(m.from = n.to /\ m.addr = n.addr)
  /\ \A m \in Asking : Served(m.addr) # m.from
  /\ \A n \in replies : Served(n.addr) # n.to

Fitting ==
  /\ mts > 0
  /\ \A m \in Asking : Wants(m.type, m.wts, l1State[m.from][m.addr])
  /\ \A a \in Data : dirState[a] \in Pending =>
       Wants(ServedType(dirState[a]), tbe[a].wts, l1State[tbe[a].requestor][a])
  /\ RepliesExpected

Recalling ==
  /\ RecallsMeetOwner
  /\ \A m, n \in forwards : m.to = n.to /\ m.addr = n.addr => m = n
  /\ \A m \in forwards : dirState[m.addr] \in Unrecalled => m.to # owner[m.addr]
  /\ \A m \in forwards, n \in replies :
       n.type = "ACK_REP" => ~(m.to = n.to /\ m.addr = n.addr)
  /\ \A m \in responses : dirState[m.addr] \in Unrecalled =>
       /\ l1State[m.from][m.addr] = "EI"
       /\ \A n \in replies : ~(m.from = n.to /\ m.addr = n.addr)

Expected == OneAtATime /\ Fitting /\ Recalling

(* The types these lemmas need. *)
Typed ==
  /\ NetTypeOK /\ stalled \subseteq Request /\ None \notin Caches
  /\ \A a \in Data : dirState[a] \in Pending => tbe[a].requestor \in Caches
  /\ l1State \in [Caches -> [Data -> L1State]]

(* The messages are about lines of caches. *)
LEMMA MessageTypes ==
  ASSUME Typed
  PROVE  /\ \A m \in Asking : m.from \in Caches /\ m.addr \in Data /\ m.wts \in Nat
                              /\ m.type \in {"SH_REQ", "EX_REQ"}
         /\ \A m \in replies : m.to \in Caches /\ m.addr \in Data
              /\ m.type \in {"SH_REP", "EX_REP", "UPGR_REP", "RENEW_REP", "ACK_REP"}
         /\ \A m \in forwards : m.to \in Caches /\ m.addr \in Data
         /\ \A m \in responses : m.from \in Caches /\ m.addr \in Data
BY DEF Typed, NetTypeOK, Asking, Request, Reply, Forward, Response

(* No reply is expected in I, S_LSD or E. *)
LEMMA ExpectedStates ==
  ASSUME NEW t \in {"SH_REP", "EX_REP", "UPGR_REP", "RENEW_REP", "ACK_REP"}, NEW s,
         s \in ReplyStates[t]
  PROVE  /\ s \in Waiting \cup {"EI"}
         /\ s = "EI" <=> t = "ACK_REP"
         /\ t \in {"EX_REP", "UPGR_REP"} => s \in {"IE", "SE"}
BY DEF ReplyStates, Waiting

(* Steps that neither take up nor answer anything. *)
LEMMA AskingStays ==
  ASSUME Typed, OneAtATime, Fitting, Asking' = Asking, requests' \cap stalled' = {},
         replies' = replies, l1State' = l1State, mts' > 0,
         \A a \in Data : dirState'[a] \in Pending =>
           dirState'[a] = dirState[a] /\ tbe'[a] = tbe[a]
  PROVE  OneAtATime' /\ Fitting'
<1>1. \A m \in Asking' : m.from \in Caches /\ m.addr \in Data
  BY MessageTypes
<1>2. \A m \in replies' : m.to \in Caches /\ m.addr \in Data
  BY MessageTypes
<1>3. \A a \in Data : Served(a)' = Served(a) \/ Served(a)' = None
  BY DEF Served
<1>4. OneAtATime'
  <2>1. \A m \in Asking' : Served(m.addr)' # m.from
    BY <1>1, <1>3 DEF Typed, OneAtATime
  <2>2. \A n \in replies' : Served(n.addr)' # n.to
    BY <1>2, <1>3 DEF Typed, OneAtATime
  <2>. QED  BY <2>1, <2>2 DEF OneAtATime
<1>5. Fitting'
  BY DEF Fitting, RepliesExpected
<1>. QED  BY <1>4, <1>5

(* Steps that neither recall a line nor grant or give one back. *)
LEMMA RecallingStays ==
  ASSUME Typed, Recalling, forwards' = forwards, replies' = replies, responses' \subseteq responses,
         l1State' = l1State,
         \A a \in Data : dirState'[a] \in Unrecalled =>
           dirState[a] \in Unrecalled /\ owner'[a] = owner[a]
  PROVE  Recalling'
<1>1. \A m \in forwards' : m.addr \in Data
  BY MessageTypes
<1>2. \A m \in responses' : m.addr \in Data
  BY MessageTypes
<1>3. RecallsMeetOwner'
  BY DEF Recalling, RecallsMeetOwner, Granted
<1>. QED  BY <1>1, <1>2, <1>3 DEF Recalling

-----------------------------------------------------------------------------
(* The steps of a cache, as moves of the conversation about a line.        *)

(* A miss, a renewal or an upgrade: the line had nothing on its way. *)
LEMMA RequestSent ==
  ASSUME Typed, Expected, NEW c \in Caches, NEW a \in Data,
         l1State[c][a] \in {"I", "S_LSD"},
         \A d \in Caches, b \in Data : d # c \/ b # a => l1State'[d][b] = l1State[d][b],
         NEW m, m.from = c, m.addr = a, Wants(m.type, m.wts, l1State'[c][a]),
         requests' = requests \cup {m}, UNCHANGED <<forwards, replies, responses, dirVars>>
  PROVE  Expected'
<1>0. /\ stalled' = stalled /\ dirState' = dirState /\ tbe' = tbe /\ mts' = mts
      /\ owner' = owner
  BY DEF dirVars, entryVars
<1>2. l1State'[c][a] \in {"IS", "S_EXP", "IE", "SE"}
  BY DEF Wants
<1>3. /\ \A n \in Asking : n.from \in Caches /\ n.addr \in Data
      /\ \A n \in replies : n.to \in Caches /\ n.addr \in Data
           /\ n.type \in {"SH_REP", "EX_REP", "UPGR_REP", "RENEW_REP", "ACK_REP"}
      /\ \A n \in forwards : n.to \in Caches /\ n.addr \in Data
      /\ \A n \in responses : n.from \in Caches /\ n.addr \in Data
  BY MessageTypes
<1>4. \A n \in Asking : ~(n.from = c /\ n.addr = a)
  BY DEF Expected, Fitting, Wants
<1>5. \A n \in replies : ~(n.to = c /\ n.addr = a)
  BY <1>3, ExpectedStates DEF Expected, Fitting, RepliesExpected, Waiting
<1>6. Served(a) # c
  BY DEF Expected, Fitting, Served, Wants, Typed
<1>7. Asking' = Asking \cup {m}
  BY <1>0 DEF Asking
<1>8. OneAtATime'
  <2>1. m \notin stalled
    BY <1>4 DEF Asking
  <2>2. requests' \cap stalled' = {}
    BY <1>0, <2>1 DEF Expected, OneAtATime
  <2>3. \A b : Served(b)' = Served(b)
    BY <1>0 DEF Served
  <2>. QED  BY <1>4, <1>5, <1>6, <1>7, <2>2, <2>3 DEF Expected, OneAtATime
<1>9. Fitting'
  <2>1. \A n \in Asking' : Wants(n.type, n.wts, l1State'[n.from][n.addr])
    BY <1>2, <1>3, <1>4, <1>7 DEF Expected, Fitting
  <2>2. \A b \in Data : dirState[b] \in Pending =>
          Wants(ServedType(dirState[b]), tbe[b].wts, l1State'[tbe[b].requestor][b])
    <3>1. ASSUME NEW b \in Data, dirState[b] \in Pending
          PROVE  tbe[b].requestor = c => b # a
      BY <1>6, <3>1 DEF Served
    <3>. QED  BY <3>1 DEF Expected, Fitting, Typed
  <2>3. RepliesExpected'
    BY <1>3, <1>5 DEF Expected, Fitting, RepliesExpected
  <2>. QED  BY <1>0, <2>1, <2>2, <2>3 DEF Expected, Fitting
<1>10. Recalling'
  <2>1. \A n \in forwards : ~(n.to = c /\ n.addr = a)
    BY <1>5 DEF Expected, Recalling, RecallsMeetOwner, Granted
  <2>2. RecallsMeetOwner'
    BY <1>3, <2>1 DEF Expected, Recalling, RecallsMeetOwner, Granted
  <2>3. \A n \in responses : dirState[n.addr] \in Unrecalled => n.from # c \/ n.addr # a
    BY DEF Expected, Recalling
  <2>. QED  BY <1>0, <1>3, <2>2, <2>3 DEF Expected, Recalling
<1>. QED  BY <1>8, <1>9, <1>10 DEF Expected

(* A reply is taken: a grant makes the line exclusive. *)
LEMMA ReplyTaken ==
  ASSUME Typed, Expected, NEW m \in replies, NEW s,
         l1State' = [l1State EXCEPT ![m.to][m.addr] = s], replies' = replies \ {m},
         m.type \in {"EX_REP", "UPGR_REP"} => s = "E",
         UNCHANGED <<requests, forwards, responses, dirVars>>
  PROVE  Expected'
<1> DEFINE c == m.to
           a == m.addr
<1>0. /\ stalled' = stalled /\ dirState' = dirState /\ tbe' = tbe /\ mts' = mts
      /\ owner' = owner
  BY DEF dirVars, entryVars
<1>3. /\ \A n \in Asking : n.from \in Caches /\ n.addr \in Data
      /\ \A n \in replies : n.to \in Caches /\ n.addr \in Data
           /\ n.type \in {"SH_REP", "EX_REP", "UPGR_REP", "RENEW_REP", "ACK_REP"}
      /\ \A n \in forwards : n.to \in Caches /\ n.addr \in Data
      /\ \A n \in responses : n.from \in Caches /\ n.addr \in Data
  BY MessageTypes
<1>1. \A d \in Caches, b \in Data : d # c \/ b # a => l1State'[d][b] = l1State[d][b]
  BY <1>3 DEF Typed
<1>2. l1State'[c][a] = s
  BY <1>3 DEF Typed
<1>4. \A n \in Asking : ~(n.from = c /\ n.addr = a)
  BY DEF Expected, OneAtATime
<1>5. \A n \in replies' : ~(n.to = c /\ n.addr = a)
  BY DEF Expected, OneAtATime
<1>6. Served(a) # c
  BY DEF Expected, OneAtATime
<1>7. Asking' = Asking
  BY <1>0 DEF Asking
<1>8. OneAtATime'
  <2>3. \A b : Served(b)' = Served(b)
    BY <1>0 DEF Served
  <2>. QED  BY <1>0, <1>7, <2>3 DEF Expected, OneAtATime
<1>9. Fitting'
  <2>1. \A n \in Asking' : Wants(n.type, n.wts, l1State'[n.from][n.addr])
    BY <1>1, <1>2, <1>3, <1>4, <1>7 DEF Expected, Fitting
  <2>2. \A b \in Data : dirState[b] \in Pending =>
          Wants(ServedType(dirState[b]), tbe[b].wts, l1State'[tbe[b].requestor][b])
    <3>1. ASSUME NEW b \in Data, dirState[b] \in Pending
          PROVE  tbe[b].requestor = c => b # a
      BY <1>6, <3>1 DEF Served
    <3>. QED  BY <1>1, <3>1 DEF Expected, Fitting, Typed
  <2>3. RepliesExpected'
    BY <1>1, <1>3, <1>5 DEF Expected, Fitting, RepliesExpected
  <2>. QED  BY <1>0, <2>1, <2>2, <2>3 DEF Expected, Fitting
<1>10. Recalling'
  <2>0. l1State[c][a] \in ReplyStates[m.type]
    BY DEF Expected, Fitting, RepliesExpected
  <2>1. \A n \in forwards : n.to = c /\ n.addr = a => s = "E"
    <3>1. ASSUME NEW n \in forwards, n.to = c, n.addr = a
          PROVE  m.type \in {"EX_REP", "UPGR_REP"}
      <4>1. m.type # "ACK_REP"
        BY <3>1 DEF Expected, Recalling
      <4>2. l1State[c][a] \notin {"E", "EI"}
        BY <1>3, <2>0, <4>1, ExpectedStates DEF Waiting
      <4>3. PICK r \in Granted(a) : r.to = c
        BY <3>1, <4>2 DEF Expected, Recalling, RecallsMeetOwner
      <4>4. r = m
        BY <4>3 DEF Expected, OneAtATime, Granted
      <4>. QED  BY <4>3, <4>4 DEF Granted
    <3>. QED  BY <3>1
  <2>2. RecallsMeetOwner'
    <3>1. ASSUME NEW n \in forwards, n.to # c \/ n.addr # a, NEW r \in Granted(n.addr), r.to = n.to
          PROVE  r \in Granted(n.addr)'
      BY <3>1 DEF Granted
    <3>. QED  BY <1>1, <1>2, <1>3, <2>1, <3>1 DEF Expected, Recalling, RecallsMeetOwner
  <2>3. \A n \in responses : dirState[n.addr] \in Unrecalled => n.from # c \/ n.addr # a
    BY DEF Expected, Recalling
  <2>. QED  BY <1>0, <1>1, <1>3, <2>2, <2>3 DEF Expected, Recalling
<1>. QED  BY <1>8, <1>9, <1>10 DEF Expected

(* A line nobody waits for has no reply on its way. *)
LEMMA NoReplyDue ==
  ASSUME Typed, Fitting, NEW c \in Caches, NEW a \in Data,
         l1State[c][a] \notin Waiting \cup {"EI"}
  PROVE  \A n \in replies : ~(n.to = c /\ n.addr = a)
<1>1. \A n \in replies :
        n.type \in {"SH_REP", "EX_REP", "UPGR_REP", "RENEW_REP", "ACK_REP"}
  BY MessageTypes
<1>. QED  BY <1>1, ExpectedStates DEF Fitting, RepliesExpected

(* A line with nothing on its way changes its state. *)
LEMMA LineMoved ==
  ASSUME Typed, Expected, NEW c \in Caches, NEW a \in Data, l1State[c][a] \in {"S_LSD", "E", "EI"},
         \A d \in Caches, b \in Data : d # c \/ b # a => l1State'[d][b] = l1State[d][b],
         \A n \in replies : ~(n.to = c /\ n.addr = a),
         UNCHANGED <<requests, replies, dirVars>>
  PROVE  OneAtATime' /\ Fitting'
<1>0. stalled' = stalled /\ dirState' = dirState /\ tbe' = tbe /\ mts' = mts
  BY DEF dirVars, entryVars
<1>2. /\ \A n \in Asking : n.from \in Caches /\ n.addr \in Data
      /\ \A n \in replies : n.to \in Caches /\ n.addr \in Data
  BY MessageTypes
<1>3. \A n \in Asking : ~(n.from = c /\ n.addr = a)
  BY DEF Expected, Fitting, Wants
<1>4. Served(a) # c
  BY DEF Expected, Fitting, Served, Wants, Typed
<1>5. Asking' = Asking
  BY <1>0 DEF Asking
<1>6. OneAtATime'
  <2>1. \A b : Served(b)' = Served(b)
    BY <1>0 DEF Served
  <2>. QED  BY <1>0, <1>5, <2>1 DEF Expected, OneAtATime
<1>7. Fitting'
  <2>1. \A n \in Asking' : Wants(n.type, n.wts, l1State'[n.from][n.addr])
    BY <1>2, <1>3, <1>5 DEF Expected, Fitting
  <2>2. \A b \in Data : dirState[b] \in Pending =>
          Wants(ServedType(dirState[b]), tbe[b].wts, l1State'[tbe[b].requestor][b])
    <3>1. ASSUME NEW b \in Data, dirState[b] \in Pending
          PROVE  tbe[b].requestor = c => b # a
      BY <1>4, <3>1 DEF Served
    <3>. QED  BY <3>1 DEF Expected, Fitting, Typed
  <2>3. RepliesExpected'
    BY <1>2 DEF Expected, Fitting, RepliesExpected
  <2>. QED  BY <1>0, <2>1, <2>2, <2>3 DEF Expected, Fitting
<1>. QED  BY <1>6, <1>7

(* A shared line is dropped. *)
LEMMA SharedDropped ==
  ASSUME Typed, Expected, NEW c \in Caches, NEW a \in Data,
         l1State[c][a] = "S_LSD", l1State' = [l1State EXCEPT ![c][a] = "I"],
         UNCHANGED <<requests, forwards, replies, responses, dirVars>>
  PROVE  Expected'
<1>1. \A n \in replies : ~(n.to = c /\ n.addr = a)
  BY NoReplyDue DEF Expected, Waiting
<1>2. \A d \in Caches, b \in Data : d # c \/ b # a => l1State'[d][b] = l1State[d][b]
  BY DEF Typed
<1>3. OneAtATime' /\ Fitting'
  BY <1>1, <1>2, LineMoved
<1>4. /\ \A n \in forwards : n.to \in Caches /\ n.addr \in Data
      /\ \A n \in responses : n.from \in Caches /\ n.addr \in Data
  BY MessageTypes
<1>5. dirState' = dirState /\ owner' = owner
  BY DEF dirVars, entryVars
<1>6. RecallsMeetOwner'
  BY <1>1, <1>2, <1>4 DEF Expected, Recalling, RecallsMeetOwner, Granted
<1>7. Recalling'
  BY <1>2, <1>4, <1>5, <1>6 DEF Expected, Recalling
<1>. QED  BY <1>3, <1>7 DEF Expected

(* An exclusive line is put back: a recall still finds it. *)
LEMMA ExclusivePutBack ==
  ASSUME Typed, Expected, NEW c \in Caches, NEW a \in Data,
         l1State[c][a] = "E", l1State' = [l1State EXCEPT ![c][a] = "EI"],
         NEW r, r.from = c, r.addr = a, responses' = responses \cup {r},
         UNCHANGED <<requests, forwards, replies, dirVars>>
  PROVE  Expected'
<1>1. \A n \in replies : ~(n.to = c /\ n.addr = a)
  BY NoReplyDue DEF Expected, Waiting
<1>2. \A d \in Caches, b \in Data : d # c \/ b # a => l1State'[d][b] = l1State[d][b]
  BY DEF Typed
<1>3. OneAtATime' /\ Fitting'
  BY <1>1, <1>2, LineMoved
<1>s. l1State'[c][a] = "EI"
  BY DEF Typed
<1>4. /\ \A n \in forwards : n.to \in Caches /\ n.addr \in Data
      /\ \A n \in responses : n.from \in Caches /\ n.addr \in Data
  BY MessageTypes
<1>5. dirState' = dirState /\ owner' = owner
  BY DEF dirVars, entryVars
<1>6. RecallsMeetOwner'
  BY <1>1, <1>2, <1>4, <1>s DEF Expected, Recalling, RecallsMeetOwner, Granted
<1>7. Recalling'
  BY <1>1, <1>2, <1>4, <1>5, <1>6, <1>s DEF Expected, Recalling
<1>. QED  BY <1>3, <1>7 DEF Expected

(* An exclusive line is given back on a recall. *)
LEMMA RecallAnswered ==
  ASSUME Typed, Expected, OneWriter, NEW m \in forwards, m.addr \in Data,
         l1State[m.to][m.addr] = "E",
         l1State' = [l1State EXCEPT ![m.to][m.addr] = "S_LSD"],
         NEW r, r.from = m.to, r.addr = m.addr, responses' = responses \cup {r},
         forwards' = forwards \ {m}, UNCHANGED <<requests, replies, dirVars>>
  PROVE  Expected'
<1> DEFINE c == m.to
           a == m.addr
<1>0. /\ \A n \in forwards : n.to \in Caches /\ n.addr \in Data
      /\ \A n \in responses : n.from \in Caches /\ n.addr \in Data
  BY MessageTypes
<1>1. \A n \in replies : ~(n.to = c /\ n.addr = a)
  BY <1>0, NoReplyDue DEF Expected, Waiting
<1>2. \A d \in Caches, b \in Data : d # c \/ b # a => l1State'[d][b] = l1State[d][b]
  BY <1>0 DEF Typed
<1>3. OneAtATime' /\ Fitting'
  BY <1>0, <1>1, <1>2, LineMoved
<1>5. dirState' = dirState /\ owner' = owner
  BY DEF dirVars, entryVars
<1>6. \A n \in forwards' : n.to # c \/ n.addr # a
  BY DEF Expected, Recalling
<1>7. RecallsMeetOwner'
  BY <1>0, <1>2, <1>6 DEF Expected, Recalling, RecallsMeetOwner, Granted
<1>8. dirState[a] \notin Unrecalled
  <2>1. c \in Holders(a) /\ Recorded(a)
    BY <1>0 DEF Holders, OneWriter
  <2>2. dirState[a] \in Unrecalled => owner[a] # None
    BY <2>1 DEF Recorded, Unrecalled, Owned
  <2>3. dirState[a] \in Unrecalled => owner[a] = c
    BY <2>1, <2>2 DEF Recorded
  <2>. QED  BY <2>3 DEF Expected, Recalling
<1>9. \A n \in responses : dirState[n.addr] \in Unrecalled => n.from # c \/ n.addr # a
  BY DEF Expected, Recalling
<1>10. Recalling'
  BY <1>0, <1>2, <1>5, <1>7, <1>8, <1>9 DEF Expected, Recalling
<1>. QED  BY <1>3, <1>10 DEF Expected

(* A recall finds the line on its way back. *)
LEMMA RecallTooLate ==
  ASSUME Typed, Expected, OneWriter, NEW m \in forwards, m.addr \in Data,
         l1State[m.to][m.addr] = "EI",
         l1State' = [l1State EXCEPT ![m.to][m.addr] = "I"],
         forwards' = forwards \ {m}, UNCHANGED <<requests, replies, responses, dirVars>>
  PROVE  Expected'
<1> DEFINE c == m.to
           a == m.addr
<1>0. /\ \A n \in forwards : n.to \in Caches /\ n.addr \in Data
      /\ \A n \in responses : n.from \in Caches /\ n.addr \in Data
      /\ \A n \in replies :
           n.type \in {"SH_REP", "EX_REP", "UPGR_REP", "RENEW_REP", "ACK_REP"}
  BY MessageTypes
<1>1. \A n \in replies : ~(n.to = c /\ n.addr = a)
  <2>1. SUFFICES ASSUME NEW n \in replies, n.to = c, n.addr = a  PROVE FALSE
    OBVIOUS
  <2>2. "EI" \in ReplyStates[n.type]
    BY <2>1 DEF Expected, Fitting, RepliesExpected
  <2>3. n.type = "ACK_REP"
    BY <1>0, <2>2, ExpectedStates
  <2>. QED  BY <2>1, <2>3 DEF Expected, Recalling
<1>2. \A d \in Caches, b \in Data : d # c \/ b # a => l1State'[d][b] = l1State[d][b]
  BY <1>0 DEF Typed
<1>3. OneAtATime' /\ Fitting'
  BY <1>0, <1>1, <1>2, LineMoved
<1>5. dirState' = dirState /\ owner' = owner
  BY DEF dirVars, entryVars
<1>6. \A n \in forwards' : n.to # c \/ n.addr # a
  BY DEF Expected, Recalling
<1>7. RecallsMeetOwner'
  BY <1>0, <1>2, <1>6 DEF Expected, Recalling, RecallsMeetOwner, Granted
<1>8. ASSUME NEW n \in responses, dirState[n.addr] \in Unrecalled
      PROVE  n.from # c \/ n.addr # a
  <2>1. SUFFICES ASSUME n.from = c, n.addr = a  PROVE FALSE
    OBVIOUS
  <2>2. n \in Returned(a) /\ Recorded(a)
    BY <2>1 DEF Returned, OneWriter
  <2>3. owner[a] # None
    BY <1>8, <2>1, <2>2 DEF Recorded, Unrecalled, Owned
  <2>4. owner[a] = c
    BY <2>1, <2>2, <2>3 DEF Recorded
  <2>. QED  BY <1>8, <2>1, <2>4 DEF Expected, Recalling
<1>10. Recalling'
  BY <1>0, <1>2, <1>5, <1>7, <1>8 DEF Expected, Recalling
<1>. QED  BY <1>3, <1>10 DEF Expected

-----------------------------------------------------------------------------
(* The steps of the directory, as moves of the conversation about a line.  *)

(* What they leave alone of the other lines. *)
OthersStay(a) ==
  \A b \in Data : b # a =>
    dirState'[b] = dirState[b] /\ owner'[b] = owner[b] /\ tbe'[b] = tbe[b]

(* A request gets a TBE. *)
LEMMA RequestTaken ==
  ASSUME Typed, Expected, NEW m \in requests, OthersStay(m.addr),
         dirState[m.addr] \notin Pending, dirState'[m.addr] \in Pending,
         m.type = ServedType(dirState'[m.addr]), tbe'[m.addr].requestor = m.from,
         tbe'[m.addr].wts \in {0, m.wts},
         requests' = requests \ {m}, stalled' = stalled, replies' = replies,
         l1State' = l1State, mts' = mts
  PROVE  OneAtATime' /\ Fitting'
<1>1. /\ \A n \in Asking : n.from \in Caches /\ n.addr \in Data
      /\ \A n \in replies : n.to \in Caches /\ n.addr \in Data
  BY MessageTypes
<1>2. m \in Asking /\ m.addr \in Data /\ m \notin stalled
  BY <1>1 DEF Asking, Expected, OneAtATime
<1>3. Asking' = Asking \ {m}
  BY <1>2 DEF Asking
<1>4. \A b \in Data : b # m.addr => Served(b)' = Served(b)
  BY DEF Served, OthersStay
<1>5. Served(m.addr)' = m.from
  BY DEF Served
<1>6. OneAtATime'
  <2>1. requests' \cap stalled' = {}
    BY DEF Expected, OneAtATime
  <2>2. \A n \in Asking' : Served(n.addr)' # n.from
    BY <1>1, <1>2, <1>3, <1>4, <1>5 DEF Expected, OneAtATime
  <2>3. \A n \in replies' : Served(n.addr)' # n.to
    BY <1>1, <1>2, <1>4, <1>5 DEF Expected, OneAtATime
  <2>. QED  BY <1>3, <2>1, <2>2, <2>3 DEF Expected, OneAtATime
<1>7. Fitting'
  <2>1. ASSUME NEW b \in Data, dirState'[b] \in Pending
        PROVE  Wants(ServedType(dirState'[b]), tbe'[b].wts, l1State[tbe'[b].requestor][b])
    <3>1. CASE b # m.addr
      BY <2>1, <3>1 DEF Expected, Fitting, OthersStay
    <3>2. CASE b = m.addr
      <4>1. Wants(m.type, m.wts, l1State[m.from][b])
        BY <1>2, <3>2 DEF Expected, Fitting
      <4>. QED  BY <3>2, <4>1 DEF Wants
    <3>. QED  BY <3>1, <3>2
  <2>. QED  BY <1>3, <2>1 DEF Expected, Fitting, RepliesExpected
<1>. QED  BY <1>6, <1>7

(* A reply goes to a cache that has nothing else on its way. *)
LEMMA AnswerSent ==
  ASSUME Typed, Expected, NEW r, r.to \in Caches, r.addr \in Data, OthersStay(r.addr),
         dirState'[r.addr] \notin Pending,
         Asking' \subseteq Asking, requests' \cap stalled' = {},
         \A n \in Asking' : ~(n.from = r.to /\ n.addr = r.addr),
         \A n \in replies : ~(n.to = r.to /\ n.addr = r.addr),
         l1State[r.to][r.addr] \in ReplyStates[r.type],
         replies' = replies \cup {r}, l1State' = l1State, mts' > 0
  PROVE  OneAtATime' /\ Fitting'
<1>1. /\ \A n \in Asking : n.from \in Caches /\ n.addr \in Data
      /\ \A n \in replies : n.to \in Caches /\ n.addr \in Data
  BY MessageTypes
<1>2. \A b \in Data : Served(b)' = IF b = r.addr THEN None ELSE Served(b)
  BY DEF Served, OthersStay
<1>3. OneAtATime'
  <2>1. \A n \in Asking' : Served(n.addr)' # n.from
    BY <1>1, <1>2 DEF Typed, Expected, OneAtATime
  <2>2. \A n \in replies' : Served(n.addr)' # n.to
    BY <1>1, <1>2 DEF Typed, Expected, OneAtATime
  <2>. QED  BY <2>1, <2>2 DEF Expected, OneAtATime
<1>4. Fitting'
  <2>1. ASSUME NEW b \in Data, dirState'[b] \in Pending
        PROVE  Wants(ServedType(dirState'[b]), tbe'[b].wts, l1State[tbe'[b].requestor][b])
    BY <2>1 DEF Expected, Fitting, OthersStay
  <2>2. RepliesExpected'
    BY DEF Expected, Fitting, RepliesExpected
  <2>. QED  BY <2>1, <2>2 DEF Expected, Fitting
<1>. QED  BY <1>3, <1>4

(* A grant makes a new owner, to whom no recall is on its way. *)
LEMMA GrantSent ==
  ASSUME Typed, Expected, NEW r, r.to \in Caches, r.addr \in Data, OthersStay(r.addr),
         r.type \in {"EX_REP", "UPGR_REP"}, l1State[r.to][r.addr] \in {"IE", "SE"},
         \A n \in replies : ~(n.to = r.to /\ n.addr = r.addr),
         owner'[r.addr] = r.to, replies' = replies \cup {r}, forwards' = forwards,
         responses' \subseteq responses, Returned(r.addr)' = {}, l1State' = l1State
  PROVE  Recalling'
<1>1. /\ \A n \in forwards : n.to \in Caches /\ n.addr \in Data
      /\ \A n \in responses : n.from \in Caches /\ n.addr \in Data
  BY MessageTypes
<1>2. RecallsMeetOwner'
  BY DEF Expected, Recalling, RecallsMeetOwner, Granted
<1>3. \A n \in forwards : n.to # r.to \/ n.addr # r.addr
  BY DEF Expected, Recalling, RecallsMeetOwner, Granted
<1>4. \A n \in responses' : n.addr # r.addr
  BY DEF Returned
<1>5. \A n \in forwards' : dirState'[n.addr] \in Unrecalled => n.to # owner'[n.addr]
  BY <1>1, <1>3 DEF Expected, Recalling, OthersStay
<1>6. \A n \in responses' : dirState'[n.addr] \in Unrecalled =>
        /\ l1State'[n.from][n.addr] = "EI"
        /\ \A q \in replies' : ~(n.from = q.to /\ n.addr = q.addr)
  BY <1>1, <1>4 DEF Expected, Recalling, OthersStay
<1>. QED  BY <1>2, <1>5, <1>6 DEF Expected, Recalling

(* Data or a lease leaves the recalls alone. *)
LEMMA ShareSent ==
  ASSUME Typed, Expected, NEW r, r.addr \in Data, OthersStay(r.addr),
         r.type # "ACK_REP", dirState'[r.addr] \notin Unrecalled,
         replies' = replies \cup {r}, forwards' = forwards,
         responses' \subseteq responses, l1State' = l1State
  PROVE  Recalling'
<1>1. /\ \A n \in forwards : n.to \in Caches /\ n.addr \in Data
      /\ \A n \in responses : n.from \in Caches /\ n.addr \in Data
  BY MessageTypes
<1>2. RecallsMeetOwner'
  BY DEF Expected, Recalling, RecallsMeetOwner, Granted
<1>5. \A n \in forwards' : dirState'[n.addr] \in Unrecalled => n.to # owner'[n.addr]
  BY <1>1 DEF Expected, Recalling, OthersStay
<1>6. \A n \in responses' : dirState'[n.addr] \in Unrecalled =>
        /\ l1State'[n.from][n.addr] = "EI"
        /\ \A q \in replies' : ~(n.from = q.to /\ n.addr = q.addr)
  BY <1>1 DEF Expected, Recalling, OthersStay
<1>. QED  BY <1>2, <1>5, <1>6 DEF Expected, Recalling

(* A recall goes to the owner, who holds the line, is about to receive it  *)
(* or is giving it back.                                                   *)
LEMMA RecallSent ==
  ASSUME Typed, Expected, OneWriter, NEW f, f.addr \in Data, f.to = owner[f.addr],
         dirState[f.addr] = "E", dirState'[f.addr] \notin Unrecalled,
         \A b \in Data : b # f.addr => dirState'[b] = dirState[b] /\ owner'[b] = owner[b],
         forwards' = forwards \cup {f}, replies' = replies, responses' = responses,
         l1State' = l1State
  PROVE  Recalling'
<1> DEFINE a == f.addr
           c == f.to
<1>1. /\ \A n \in forwards : n.to \in Caches /\ n.addr \in Data
      /\ \A n \in responses : n.from \in Caches /\ n.addr \in Data
      /\ \A n \in replies : n.to \in Caches /\ n.addr \in Data
           /\ n.type \in {"SH_REP", "EX_REP", "UPGR_REP", "RENEW_REP", "ACK_REP"}
  BY MessageTypes
<1>2. Recorded(a) /\ dirState[a] \in Unrecalled /\ OneToken(a)
  BY DEF OneWriter, Recorded, Unrecalled, Exclusive, Owned
<1>3. owner[a] # None
  BY <1>2 DEF Recorded, Owned
<1>4. \A n \in forwards : n.to # c \/ n.addr # a
  BY <1>2 DEF Expected, Recalling
<1>5. \/ l1State[c][a] = "E"
      \/ \E r \in Granted(a) : r.to = c
      \/ \E r \in Returned(a) : r.from = c
  BY <1>2, <1>3 DEF OneToken, Recorded, Holders
<1>6. /\ l1State[c][a] \in {"E", "EI"} \/ \E r \in Granted(a) : r.to = c
      /\ \A n \in replies : n.type = "ACK_REP" => ~(n.to = c /\ n.addr = a)
  <2>1. CASE l1State[c][a] = "E"
    <3>1. ASSUME NEW n \in replies, n.to = c, n.addr = a  PROVE FALSE
      BY <1>1, <2>1, <3>1, ExpectedStates DEF Expected, Fitting, RepliesExpected, Waiting
    <3>. QED  BY <2>1, <3>1
  <2>2. ASSUME NEW r \in Granted(a), r.to = c
        PROVE  \A n \in replies : n.to = c /\ n.addr = a => n.type # "ACK_REP"
    BY <2>2 DEF Granted, Expected, OneAtATime
  <2>3. ASSUME NEW r \in Returned(a), r.from = c
        PROVE  /\ l1State[c][a] = "EI"
               /\ \A n \in replies : ~(n.to = c /\ n.addr = a)
    BY <1>2, <2>3 DEF Returned, Expected, Recalling
  <2>. QED  BY <1>5, <2>1, <2>2, <2>3
<1>7. RecallsMeetOwner'
  BY <1>6 DEF Expected, Recalling, RecallsMeetOwner, Granted
<1>8. \A n \in forwards' : dirState'[n.addr] \in Unrecalled => n.to # owner'[n.addr]
  BY <1>1 DEF Expected, Recalling
<1>9. \A n \in responses' : dirState'[n.addr] \in Unrecalled =>
        /\ l1State'[n.from][n.addr] = "EI"
        /\ \A q \in replies' : ~(n.from = q.to /\ n.addr = q.addr)
  BY <1>1 DEF Expected, Recalling
<1>. QED  BY <1>4, <1>6, <1>7, <1>8, <1>9 DEF Expected, Recalling

(* A line put back of its own accord is acknowledged, ... *)
LEMMA PutBackAlone ==
  ASSUME Typed, Expected, OneWriter, NEW m \in responses, dirState[m.addr] = "E"
  PROVE  /\ l1State[m.from][m.addr] = "EI"
         /\ \A n \in replies : ~(n.to = m.from /\ n.addr = m.addr)
         /\ \A n \in forwards : ~(n.to = m.from /\ n.addr = m.addr)
         /\ \A n \in Asking : ~(n.from = m.from /\ n.addr = m.addr)
<1>1. m.from \in Caches /\ m.addr \in Data
  BY MessageTypes
<1>2. m \in Returned(m.addr) /\ Recorded(m.addr) /\ dirState[m.addr] \in Unrecalled
  BY <1>1 DEF Returned, OneWriter, Unrecalled
<1>3. owner[m.addr] = m.from
  BY <1>2 DEF Recorded, Owned
<1>4. l1State[m.from][m.addr] = "EI"
  BY <1>2 DEF Expected, Recalling
<1>5. \A n \in replies : ~(n.to = m.from /\ n.addr = m.addr)
  BY <1>2 DEF Expected, Recalling
<1>6. \A n \in forwards : ~(n.to = m.from /\ n.addr = m.addr)
  BY <1>2, <1>3 DEF Expected, Recalling
<1>7. \A n \in Asking : ~(n.from = m.from /\ n.addr = m.addr)
  BY <1>4 DEF Expected, Fitting, Wants
<1>. QED  BY <1>4, <1>5, <1>6, <1>7

(* ... which leaves the recalls alone. *)
LEMMA AckSent ==
  ASSUME Typed, Expected, OneWriter, NEW m \in responses, NEW r, r.type = "ACK_REP",
         r.to = m.from, r.addr = m.addr, OthersStay(m.addr),
         dirState[m.addr] = "E", dirState'[m.addr] \notin Unrecalled,
         replies' = replies \cup {r}, forwards' = forwards,
         responses' \subseteq responses, l1State' = l1State
  PROVE  Recalling'
<1>1. /\ \A n \in forwards : n.to \in Caches /\ n.addr \in Data
      /\ \A n \in responses : n.from \in Caches /\ n.addr \in Data
  BY MessageTypes
<1>2. RecallsMeetOwner'
  BY DEF Expected, Recalling, RecallsMeetOwner, Granted
<1>3. \A n \in forwards : ~(n.to = r.to /\ n.addr = r.addr)
  BY PutBackAlone
<1>5. \A n \in forwards' : dirState'[n.addr] \in Unrecalled => n.to # owner'[n.addr]
  BY <1>1 DEF Expected, Recalling, OthersStay
<1>6. \A n \in responses' : dirState'[n.addr] \in Unrecalled =>
        /\ l1State'[n.from][n.addr] = "EI"
        /\ \A q \in replies' : ~(n.from = q.to /\ n.addr = q.addr)
  BY <1>1 DEF Expected, Recalling, OthersStay
<1>. QED  BY <1>2, <1>3, <1>5, <1>6 DEF Expected, Recalling

-----------------------------------------------------------------------------
(* TypeOK has them. *)
LEMMA TypedHolds ==
  ASSUME TypeOK
  PROVE  Typed
BY AddressAssumption
DEF Typed, TypeOK, L1TypeOK, DirTypeOK, EntriesOK

(* Nothing of the conversation changes. *)
LEMMA ExpectedStays ==
  ASSUME Typed, Expected, UNCHANGED <<l1State, netVars, dirVars>>
  PROVE  Expected'
<1>1. /\ requests' = requests /\ stalled' = stalled /\ replies' = replies
      /\ forwards' = forwards /\ responses' = responses /\ l1State' = l1State
      /\ dirState' = dirState /\ tbe' = tbe /\ owner' = owner /\ mts' = mts
  BY DEF netVars, dirVars, entryVars
<1>2. OneAtATime' /\ Fitting'
  <2>1. Asking' = Asking /\ requests' \cap stalled' = {} /\ mts' > 0
    BY <1>1 DEF Asking, Expected, OneAtATime, Fitting
  <2>. QED  BY <1>1, <2>1, AskingStays DEF Expected
<1>3. Recalling'
  BY <1>1, RecallingStays DEF Expected
<1>. QED  BY <1>2, <1>3 DEF Expected

(* What a cache does about a line with nothing, a request, a reply or a    *)
(* recall on its way is one of the moves above.                            *)
LEMMA L1StepExpected ==
  ASSUME TypeOK, OneWriter, Expected, NEW c \in Caches, L1Step(c), UNCHANGED dirVars
  PROVE  Expected'
<1>t. Typed
  BY TypedHolds
<1>h. mandatory[c] # None => Line(c) \in Data
  BY HeadType
<1>q. ASSUME l1State' = l1State, netVars' = netVars
      PROVE  Expected'
  BY <1>q, <1>t, ExpectedStays
<1>1. CASE \/ Issue(c) \/ LoadHit(c) \/ LoadExclusive(c) \/ StoreExclusive(c)
           \/ StallMandatory(c)
  <2>1. l1State' = l1State /\ netVars' = netVars
    BY <1>1 DEF Issue, LoadHit, LoadExclusive, StoreExclusive, StallMandatory, cacheVars,
       netVars
  <2>. QED  BY <1>q, <2>1

<1>2. CASE LoadMiss(c)
  <2> DEFINE m == [type |-> "SH_REQ", addr |-> Line(c), from |-> c,
                   wts |-> 0, lts |-> Fenced(c)]
  <2>1. /\ l1State[c][Line(c)] \in {"I", "S_LSD"} /\ Line(c) \in Data
        /\ l1State' = [l1State EXCEPT ![c][Line(c)] = "IS"]
        /\ requests' = requests \cup {m} /\ UNCHANGED <<forwards, replies, responses>>
    BY <1>2, <1>h DEF LoadMiss, Head1
  <2>2. m.from = c /\ m.addr = Line(c) /\ Wants(m.type, m.wts, "IS")
    BY DEF Wants
  <2>3. /\ l1State'[c][Line(c)] = "IS"
        /\ \A d \in Caches, b \in Data : d # c \/ b # Line(c) => l1State'[d][b] = l1State[d][b]
    BY <1>t, <2>1 DEF Typed
  <2> HIDE DEF m
  <2>. QED  BY <1>t, <2>1, <2>2, <2>3, RequestSent

<1>3. CASE StoreMiss(c)
  <2> DEFINE m == [type |-> "EX_REQ", addr |-> Line(c), from |-> c,
                   wts |-> 0, lts |-> 0]
  <2>1. /\ l1State[c][Line(c)] \in {"I", "S_LSD"} /\ Line(c) \in Data
        /\ l1State' = [l1State EXCEPT ![c][Line(c)] = "IE"]
        /\ requests' = requests \cup {m} /\ UNCHANGED <<forwards, replies, responses>>
    BY <1>3, <1>h DEF StoreMiss, Head1
  <2>2. m.from = c /\ m.addr = Line(c) /\ Wants(m.type, m.wts, "IE")
    BY DEF Wants
  <2>3. /\ l1State'[c][Line(c)] = "IE"
        /\ \A d \in Caches, b \in Data : d # c \/ b # Line(c) => l1State'[d][b] = l1State[d][b]
    BY <1>t, <2>1 DEF Typed
  <2> HIDE DEF m
  <2>. QED  BY <1>t, <2>1, <2>2, <2>3, RequestSent

<1>4. CASE RenewLease(c)
  <2> DEFINE m == [type |-> "SH_REQ", addr |-> Line(c), from |-> c,
                   wts |-> l1Wts[c][Line(c)], lts |-> peekLts(c)]
  <2>1. /\ l1State[c][Line(c)] \in {"I", "S_LSD"} /\ Line(c) \in Data
        /\ l1State' = [l1State EXCEPT ![c][Line(c)] = "S_EXP"]
        /\ requests' = requests \cup {m} /\ UNCHANGED <<forwards, replies, responses>>
    BY <1>4, <1>h DEF RenewLease, Head1
  <2>2. m.from = c /\ m.addr = Line(c) /\ Wants(m.type, m.wts, "S_EXP")
    BY DEF Wants
  <2>3. /\ l1State'[c][Line(c)] = "S_EXP"
        /\ \A d \in Caches, b \in Data : d # c \/ b # Line(c) => l1State'[d][b] = l1State[d][b]
    BY <1>t, <2>1 DEF Typed
  <2> HIDE DEF m
  <2>. QED  BY <1>t, <2>1, <2>2, <2>3, RequestSent

<1>5. CASE RequestUpgrade(c)
  <2> DEFINE m == [type |-> "EX_REQ", addr |-> Line(c), from |-> c,
                   wts |-> l1Wts[c][Line(c)], lts |-> 0]
  <2>1. /\ l1State[c][Line(c)] \in {"I", "S_LSD"} /\ Line(c) \in Data
        /\ l1State' = [l1State EXCEPT ![c][Line(c)] = "SE"]
        /\ requests' = requests \cup {m} /\ UNCHANGED <<forwards, replies, responses>>
    BY <1>5, <1>h DEF RequestUpgrade, Head1
  <2>2. m.from = c /\ m.addr = Line(c) /\ Wants(m.type, m.wts, "SE")
    BY DEF Wants
  <2>3. /\ l1State'[c][Line(c)] = "SE"
        /\ \A d \in Caches, b \in Data : d # c \/ b # Line(c) => l1State'[d][b] = l1State[d][b]
    BY <1>t, <2>1 DEF Typed
  <2> HIDE DEF m
  <2>. QED  BY <1>t, <2>1, <2>2, <2>3, RequestSent

<1>6. CASE EvictShared(c)
  <2>1. PICK v \in Data : l1State[c][v] = "S_LSD" /\ l1State' = [l1State EXCEPT ![c][v] = "I"]
    BY <1>6 DEF EvictShared, ResetLine
  <2>2. UNCHANGED <<requests, forwards, replies, responses>>
    BY <1>6 DEF EvictShared, netVars
  <2>. QED  BY <1>t, <2>1, <2>2, SharedDropped

<1>7. CASE EvictExclusive(c)
  <2>1. PICK v \in Data :
          /\ l1State[c][v] = "E" /\ l1State' = [l1State EXCEPT ![c][v] = "EI"]
          /\ responses' = responses \cup
               {[type |-> "PUT_REP", addr |-> v, from |-> c, data |-> l1Data[c][v],
                 wts |-> l1Wts[c][v], rts |-> l1Rts[c][v]]}
    BY <1>7 DEF EvictExclusive
  <2>2. UNCHANGED <<requests, forwards, replies>>
    BY <1>7 DEF EvictExclusive
  <2> DEFINE r == [type |-> "PUT_REP", addr |-> v, from |-> c, data |-> l1Data[c][v],
                   wts |-> l1Wts[c][v], rts |-> l1Rts[c][v]]
  <2>3. r.from = c /\ r.addr = v /\ responses' = responses \cup {r}
    BY <2>1
  <2> HIDE DEF r
  <2>. QED  BY <1>t, <2>1, <2>2, <2>3, ExclusivePutBack

<1>8. CASE \/ FillShared(c) \/ ExtendLease(c) \/ FillExclusive(c) \/ Upgrade(c)
           \/ PutAcknowledged(c)
  <2>1. PICK m \in replies : \E s \in {"I", "S_LSD", "E"} :
          /\ m.to = c /\ l1State' = [l1State EXCEPT ![m.to][m.addr] = s]
          /\ replies' = replies \ {m} /\ (m.type \in {"EX_REP", "UPGR_REP"} => s = "E")
    BY <1>8 DEF FillShared, ExtendLease, FillExclusive, Upgrade, PutAcknowledged, ResetLine
  <2>2. UNCHANGED <<requests, forwards, responses>>
    BY <1>8 DEF FillShared, ExtendLease, FillExclusive, Upgrade, PutAcknowledged
  <2>. QED  BY <1>t, <2>1, <2>2, ReplyTaken

<1>9. CASE GiveBack(c)
  <2>1. PICK m \in forwards :
          /\ m.to = c /\ l1State[c][m.addr] = "E"
          /\ l1State' = [l1State EXCEPT ![c][m.addr] = "S_LSD"]
          /\ responses' = responses \cup
               {[type |-> "WB_REP", addr |-> m.addr, from |-> c, data |-> l1Data[c][m.addr],
                 wts |-> l1Wts[c][m.addr],
                 rts |-> max3(l1Rts[c][m.addr], l1Wts[c][m.addr] + Lease, m.rts)]}
          /\ forwards' = forwards \ {m}
    BY <1>9 DEF GiveBack
  <2>2. UNCHANGED <<requests, replies>>
    BY <1>9 DEF GiveBack
  <2> DEFINE r == [type |-> "WB_REP", addr |-> m.addr, from |-> c,
                   data |-> l1Data[c][m.addr], wts |-> l1Wts[c][m.addr],
                   rts |-> max3(l1Rts[c][m.addr], l1Wts[c][m.addr] + Lease, m.rts)]
  <2>3. r.from = m.to /\ r.addr = m.addr /\ responses' = responses \cup {r}
    BY <2>1
  <2>4. m.addr \in Data
    BY <1>t, MessageTypes
  <2> HIDE DEF r
  <2>. QED  BY <1>t, <2>1, <2>2, <2>3, <2>4, RecallAnswered

<1>10. CASE GivenBackAlready(c)
  <2>1. PICK m \in forwards :
          /\ m.to = c /\ l1State[c][m.addr] = "EI"
          /\ l1State' = [l1State EXCEPT ![c][m.addr] = "I"] /\ forwards' = forwards \ {m}
    BY <1>10 DEF GivenBackAlready, ResetLine
  <2>2. UNCHANGED <<requests, replies, responses>> /\ m.addr \in Data
    BY <1>10, <1>t, MessageTypes DEF GivenBackAlready, Typed
  <2>. QED  BY <1>t, <2>1, <2>2, RecallTooLate

<1>. QED
  BY <1>1, <1>2, <1>3, <1>4, <1>5, <1>6, <1>7, <1>8, <1>9, <1>10
  DEF L1Step, OnMandatory, OnReply, OnForward

(* A request's event tells what it asks for. *)
LEMMA EventType ==
  ASSUME NEW m, m.type \in {"SH_REQ", "EX_REQ"}
  PROVE  /\ Event(m) \in {"ShReq", "ShReq_Hit"} => m.type = "SH_REQ"
         /\ Event(m) \in {"ExReq", "ExReq_Hit", "UpgReq"} => m.type = "EX_REQ"
         /\ Event(m) = "UpgReq" => m.wts > 0
BY DEF Event, Upgrades

(* A directory step that is no part of a conversation. *)
LEMMA DirQuiet ==
  ASSUME Typed, Expected, Asking' = Asking, requests' \cap stalled' = {},
         UNCHANGED <<l1State, forwards, replies>>, responses' \subseteq responses, mts' > 0,
         \A a \in Data :
           /\ dirState'[a] \in Pending => dirState'[a] = dirState[a] /\ tbe'[a] = tbe[a]
           /\ dirState'[a] \in Unrecalled => dirState[a] \in Unrecalled /\ owner'[a] = owner[a]
  PROVE  Expected'
<1>1. OneAtATime' /\ Fitting'
  BY AskingStays DEF Expected
<1>2. Recalling'
  BY RecallingStays DEF Expected
<1>. QED  BY <1>1, <1>2 DEF Expected

(* The steps on a request: it is answered, taken up or put off. *)
LEMMA RequestStepExpected ==
  ASSUME TypeOK, OneWriter, Expected, NEW m \in requests, OnRequest(m), UNCHANGED l1Vars
  PROVE  Expected'
<1>t. Typed
  BY TypedHolds
<1>l. l1State' = l1State
  BY DEF l1Vars, cacheVars
<1>h. /\ m.addr \in Data /\ m.addr \in Addr /\ m.from \in Caches /\ m.wts \in Nat
      /\ m.type \in {"SH_REQ", "EX_REQ"}
  BY RequestType DEF Request
<1>m. /\ dirState \in [Addr -> DirState] /\ owner \in [Addr -> Caches \cup {None}]
      /\ tbe \in [Addr -> TBE] /\ mts \in Nat /\ Data \subseteq Addr
  BY DEF TypeOK, DirTypeOK, Addr
<1>a. /\ m \in Asking /\ m \notin stalled /\ mts > 0
      /\ Wants(m.type, m.wts, l1State[m.from][m.addr])
      /\ \A n \in replies : ~(n.to = m.from /\ n.addr = m.addr)
  BY DEF Asking, Expected, OneAtATime, Fitting
<1>p. ASSUME requests' = requests \ {m}, stalled' = stalled
      PROVE  /\ Asking' \subseteq Asking /\ requests' \cap stalled' = {}
             /\ \A n \in Asking' : ~(n.from = m.from /\ n.addr = m.addr)
  BY <1>p, <1>a DEF Asking, Expected, OneAtATime

<1>1. CASE GrantSharedFromLLC(m)
  <2>1. PICK r : /\ replies' = replies \cup {r} /\ r.to = m.from /\ r.addr = m.addr
                 /\ r.type \in {"SH_REP", "RENEW_REP"}
                 /\ r.type = "RENEW_REP" => m.wts = mts
    <3>1. CASE m.wts = mts
      <4> DEFINE r == [type |-> "RENEW_REP", addr |-> m.addr, to |-> m.from, data |-> 0,
                       wts |-> 0, rts |-> mts]
      <4>1. /\ replies' = replies \cup {r} /\ r.to = m.from /\ r.addr = m.addr
            /\ r.type = "RENEW_REP"
        BY <1>1, <3>1 DEF GrantSharedFromLLC, Reply1
      <4> HIDE DEF r
      <4>. QED  BY <3>1, <4>1
    <3>2. CASE m.wts # mts
      <4> DEFINE r == [type |-> "SH_REP", addr |-> m.addr, to |-> m.from,
                       data |-> llcData[m.addr], wts |-> mts, rts |-> mts]
      <4>1. /\ replies' = replies \cup {r} /\ r.to = m.from /\ r.addr = m.addr
            /\ r.type = "SH_REP"
        BY <1>1, <3>2 DEF GrantSharedFromLLC, Reply1
      <4> HIDE DEF r
      <4>. QED  BY <4>1
    <3>. QED  BY <3>1, <3>2
  <2>2. m.type = "SH_REQ"
    BY <1>1, <1>h, EventType DEF GrantSharedFromLLC, Accept
  <2>3. l1State[r.to][r.addr] \in ReplyStates[r.type]
    BY <1>a, <2>1, <2>2 DEF Wants, ReplyStates
  <2>4. /\ dirState'[m.addr] = "S" /\ OthersStay(m.addr) /\ mts' = mts
        /\ requests' = requests \ {m} /\ stalled' = stalled
        /\ forwards' = forwards /\ responses' = responses
    BY <1>1, <1>h, <1>m DEF GrantSharedFromLLC, PopRequest, OthersStay
  <2>5. OneAtATime' /\ Fitting'
    BY <1>t, <1>l, <1>h, <1>a, <1>p, <2>1, <2>3, <2>4, AnswerSent DEF Pending
  <2>6. Recalling'
    BY <1>t, <1>l, <1>h, <2>1, <2>4, ShareSent DEF Unrecalled
  <2>. QED  BY <2>5, <2>6 DEF Expected

<1>g. ASSUME NEW r, replies' = replies \cup {r}, r.to = m.from, r.addr = m.addr,
             r.type \in {"EX_REP", "UPGR_REP"}, m.type = "EX_REQ",
             r.type = "UPGR_REP" => m.wts > 0,
             dirState[m.addr] \in {"I", "S"}, dirState'[m.addr] = "E",
             owner'[m.addr] = m.from, OthersStay(m.addr),
             mts' = mts, requests' = requests \ {m}, stalled' = stalled,
             forwards' = forwards, responses' = responses
      PROVE  Expected'
  <2>1. l1State[r.to][r.addr] \in ReplyStates[r.type] /\ l1State[r.to][r.addr] \in {"IE", "SE"}
    BY <1>g, <1>a DEF Wants, ReplyStates
  <2>2. OneAtATime' /\ Fitting'
    BY <1>t, <1>l, <1>h, <1>a, <1>p, <1>g, <2>1, AnswerSent DEF Pending
  <2>3. Returned(m.addr) = {}
    BY <1>h, <1>g DEF OneWriter, Recorded, NoToken, Exclusive, Owned
  <2>4. Returned(r.addr)' = {}
    BY <1>g, <2>3 DEF Returned
  <2>5. Recalling'
    BY <1>t, <1>l, <1>h, <1>a, <1>g, <2>1, <2>4, GrantSent
  <2>. QED  BY <2>2, <2>5 DEF Expected

<1>2. CASE GrantExclusiveFromLLC(m)
  <2> DEFINE r == [type |-> "EX_REP", addr |-> m.addr, to |-> m.from, data |-> llcData[m.addr],
                   wts |-> mts, rts |-> mts]
  <2>1. /\ replies' = replies \cup {r} /\ r.to = m.from /\ r.addr = m.addr /\ r.type = "EX_REP"
    BY <1>2 DEF GrantExclusiveFromLLC, Reply1
  <2>2. m.type = "EX_REQ" /\ dirState[m.addr] \in {"I", "S"}
    BY <1>2, <1>h, EventType DEF GrantExclusiveFromLLC, Accept
  <2>3. /\ dirState'[m.addr] = "E" /\ OthersStay(m.addr) /\ mts' = mts
        /\ owner'[m.addr] = m.from
        /\ requests' = requests \ {m} /\ stalled' = stalled
        /\ forwards' = forwards /\ responses' = responses
    BY <1>2, <1>h, <1>m DEF GrantExclusiveFromLLC, PopRequest, OthersStay
  <2> HIDE DEF r
  <2>. QED  BY <1>g, <2>1, <2>2, <2>3

<1>3. CASE GrantUpgrade(m)
  <2> DEFINE r == [type |-> "UPGR_REP", addr |-> m.addr, to |-> m.from, data |-> 0,
                   wts |-> 0, rts |-> dirRts[m.addr]]
  <2>1. /\ replies' = replies \cup {r} /\ r.to = m.from /\ r.addr = m.addr /\ r.type = "UPGR_REP"
    BY <1>3 DEF GrantUpgrade, Reply1
  <2>2. m.type = "EX_REQ" /\ m.wts > 0 /\ dirState[m.addr] \in {"I", "S"}
    BY <1>3, <1>h, EventType DEF GrantUpgrade, Accept
  <2>3. /\ dirState'[m.addr] = "E" /\ OthersStay(m.addr) /\ mts' = mts
        /\ owner'[m.addr] = m.from
        /\ requests' = requests \ {m} /\ stalled' = stalled
        /\ forwards' = forwards /\ responses' = responses
    BY <1>3, <1>h, <1>m DEF GrantUpgrade, PopRequest, OthersStay
  <2> HIDE DEF r
  <2>. QED  BY <1>g, <2>1, <2>2, <2>3

<1>k. ASSUME dirState[m.addr] \notin Pending, dirState'[m.addr] \in Pending,
             m.type = ServedType(dirState'[m.addr]), tbe'[m.addr].requestor = m.from,
             tbe'[m.addr].wts \in {0, m.wts}, OthersStay(m.addr), mts' = mts,
             requests' = requests \ {m}, stalled' = stalled, replies' = replies
      PROVE  OneAtATime' /\ Fitting'
  BY <1>k, <1>t, <1>l, RequestTaken

<1>4. CASE FetchShared(m)
  <2>1. m.type = "SH_REQ" /\ dirState[m.addr] \in {"I", "S"}
    BY <1>4, <1>h, EventType DEF FetchShared, Accept
  <2>2. /\ dirState'[m.addr] = "IS" /\ OthersStay(m.addr) /\ mts' = mts
        /\ tbe'[m.addr].requestor = m.from /\ tbe'[m.addr].wts = m.wts
        /\ requests' = requests \ {m} /\ stalled' = stalled
        /\ UNCHANGED <<owner, forwards, replies, responses>>
    BY <1>4, <1>h, <1>m DEF FetchShared, PopRequest, OthersStay
  <2>3. OneAtATime' /\ Fitting'
    BY <1>k, <2>1, <2>2 DEF Pending, ServedType
  <2>4. \A b \in Data : dirState'[b] \in Unrecalled => dirState[b] \in Unrecalled
    BY <2>2 DEF OthersStay, Unrecalled
  <2>5. Recalling'
    BY <1>t, <1>l, <2>2, <2>4, RecallingStays DEF Expected
  <2>. QED  BY <2>3, <2>5 DEF Expected

<1>5. CASE FetchExclusive(m)
  <2>1. m.type = "EX_REQ" /\ dirState[m.addr] \in {"I", "S"}
    BY <1>5, <1>h, EventType DEF FetchExclusive, Accept
  <2>2. /\ dirState'[m.addr] \in {"IE", "SE"} /\ OthersStay(m.addr) /\ mts' = mts
        /\ tbe'[m.addr].requestor = m.from /\ tbe'[m.addr].wts = 0
        /\ requests' = requests \ {m} /\ stalled' = stalled
        /\ UNCHANGED <<owner, forwards, replies, responses>>
    BY <1>5, <1>h, <1>m DEF FetchExclusive, PopRequest, OthersStay, allocateTBE_ReqIn
  <2>3. OneAtATime' /\ Fitting'
    BY <1>k, <2>1, <2>2 DEF Pending, ServedType
  <2>4. \A b \in Data : dirState'[b] \in Unrecalled => dirState[b] \in Unrecalled
    BY <2>2 DEF OthersStay, Unrecalled
  <2>5. Recalling'
    BY <1>t, <1>l, <2>2, <2>4, RecallingStays DEF Expected
  <2>. QED  BY <2>3, <2>5 DEF Expected

<1>6. CASE RecallForShared(m)
  <2> DEFINE f == [type |-> "WB_REQ", addr |-> m.addr, to |-> owner[m.addr],
                   rts |-> m.lts + Lease]
  <2>1. m.type = "SH_REQ" /\ dirState[m.addr] = "E"
    BY <1>6, <1>h, EventType DEF RecallForShared, Accept
  <2>2. /\ dirState'[m.addr] = "ES" /\ OthersStay(m.addr) /\ mts' = mts
        /\ tbe'[m.addr].requestor = m.from /\ tbe'[m.addr].wts = 0
        /\ requests' = requests \ {m} /\ stalled' = stalled
        /\ UNCHANGED <<replies, responses>>
    BY <1>6, <1>h, <1>m DEF RecallForShared, PopRequest, OthersStay, allocateTBE_ReqIn
  <2>3. OneAtATime' /\ Fitting'
    BY <1>k, <2>1, <2>2 DEF Pending, ServedType
  <2>4. forwards' = forwards \cup {f} /\ f.addr = m.addr /\ f.to = owner[m.addr]
    BY <1>6 DEF RecallForShared, sendToOwner
  <2> HIDE DEF f
  <2>5. Recalling'
    BY <1>t, <1>l, <1>h, <2>1, <2>2, <2>4, RecallSent DEF OthersStay, Unrecalled
  <2>. QED  BY <2>3, <2>5 DEF Expected

<1>7. CASE RecallForExclusive(m)
  <2> DEFINE f == [type |-> "FLUSH_REQ", addr |-> m.addr, to |-> owner[m.addr], rts |-> 0]
  <2>1. m.type = "EX_REQ" /\ dirState[m.addr] = "E"
    BY <1>7, <1>h, EventType DEF RecallForExclusive, Accept
  <2>2. /\ dirState'[m.addr] = "EE" /\ OthersStay(m.addr) /\ mts' = mts
        /\ tbe'[m.addr].requestor = m.from /\ tbe'[m.addr].wts = 0
        /\ requests' = requests \ {m} /\ stalled' = stalled
        /\ UNCHANGED <<replies, responses>>
    BY <1>7, <1>h, <1>m DEF RecallForExclusive, PopRequest, OthersStay, allocateTBE_ReqIn
  <2>3. OneAtATime' /\ Fitting'
    BY <1>k, <2>1, <2>2 DEF Pending, ServedType
  <2>4. forwards' = forwards \cup {f} /\ f.addr = m.addr /\ f.to = owner[m.addr]
    BY <1>7 DEF RecallForExclusive, sendToOwner
  <2> HIDE DEF f
  <2>5. Recalling'
    BY <1>t, <1>l, <1>h, <2>1, <2>2, <2>4, RecallSent DEF OthersStay, Unrecalled
  <2>. QED  BY <2>3, <2>5 DEF Expected

<1>s. ASSUME StallAndWait(m)
      PROVE  Asking' = Asking /\ requests' \cap stalled' = {}
  BY <1>s, <1>a DEF StallAndWait, PopRequest, Asking, Expected, OneAtATime

<1>8. CASE FetchCounter(m)
  <2>1. /\ dirState[m.addr] \in Stable /\ dirState' = [dirState EXCEPT ![m.addr] = FetchAuth[@]]
        /\ UNCHANGED <<mts, owner, tbe, forwards, replies, responses>> /\ StallAndWait(m)
    BY <1>8 DEF FetchCounter, Accept
  <2>2. \A a \in Data :
          /\ dirState'[a] \in Pending => dirState'[a] = dirState[a]
          /\ dirState'[a] \in Unrecalled => dirState[a] \in Unrecalled
    BY <1>h, <1>m, <2>1, StateMaps DEF Pending, InFetchAuth, Unrecalled
  <2>. QED  BY <1>t, <1>l, <1>a, <1>s, <2>1, <2>2, DirQuiet

<1>9. CASE WaitForCounter(m)
  <2>1. /\ UNCHANGED <<mts, dirState, owner, tbe, forwards, replies, responses>>
        /\ StallAndWait(m)
    BY <1>9 DEF WaitForCounter
  <2>. QED  BY <1>t, <1>l, <1>a, <1>s, <2>1, DirQuiet

<1>r. ASSUME requests' = requests, stalled' = stalled
      PROVE  Asking' = Asking /\ requests' \cap stalled' = {}
  BY <1>r DEF Asking, Expected, OneAtATime

<1>10. CASE Bounce(m)
  <2>1. /\ dirState[m.addr] \in InFetchAuth /\ dirState' = [dirState EXCEPT ![m.addr] = Base[@]]
        /\ UNCHANGED <<mts, owner, tbe, stalled, requests, forwards, replies, responses>>
    BY <1>10 DEF Bounce, netVars
  <2>2. \A a \in Data :
          /\ dirState'[a] \in Pending => dirState'[a] = dirState[a]
          /\ dirState'[a] \in Unrecalled => dirState[a] \in Unrecalled
    BY <1>h, <1>m, <2>1, StateMaps DEF Pending, InFetchAuth, Unrecalled, Stable
  <2>. QED  BY <1>t, <1>l, <1>a, <1>r, <2>1, <2>2, DirQuiet

<1>11. CASE StallRequest(m)
  <2>1. UNCHANGED <<mts, dirState, owner, tbe, stalled, requests, forwards, replies, responses>>
    BY <1>11 DEF StallRequest, netVars
  <2>. QED  BY <1>t, <1>l, <1>a, <1>r, <2>1, DirQuiet

<1>. QED
  BY <1>1, <1>2, <1>3, <1>4, <1>5, <1>6, <1>7, <1>8, <1>9, <1>10, <1>11 DEF OnRequest
(* The requestor a TBE names has nothing else on its way and waits. *)
LEMMA ServedAlone ==
  ASSUME Typed, Expected, NEW a \in Data, dirState[a] \in Pending
  PROVE  LET q == tbe[a].requestor IN
         /\ q \in Caches
         /\ \A n \in Asking : ~(n.from = q /\ n.addr = a)
         /\ \A n \in replies : ~(n.to = q /\ n.addr = a)
         /\ Wants(ServedType(dirState[a]), tbe[a].wts, l1State[q][a])
<1>1. Served(a) = tbe[a].requestor
  BY DEF Served
<1>. QED  BY <1>1 DEF Typed, Expected, OneAtATime, Fitting

(* It is granted the line. *)
LEMMA GrantServed ==
  ASSUME Typed, Expected, NEW a \in Data, dirState[a] \in {"IE", "SE", "EE"},
         OthersStay(a), dirState'[a] = "E", owner'[a] = tbe[a].requestor,
         NEW r, r.type = "EX_REP", r.to = tbe[a].requestor, r.addr = a,
         replies' = replies \cup {r}, Returned(a)' = {}, responses' \subseteq responses,
         mts' > 0, UNCHANGED <<l1State, requests, stalled, forwards>>
  PROVE  Expected'
<1>1. /\ r.to \in Caches
      /\ \A n \in Asking : ~(n.from = r.to /\ n.addr = r.addr)
      /\ \A n \in replies : ~(n.to = r.to /\ n.addr = r.addr)
      /\ l1State[r.to][r.addr] \in {"IE", "SE"}
  BY ServedAlone DEF Pending, Wants, ServedType
<1>2. l1State[r.to][r.addr] \in ReplyStates[r.type]
  BY <1>1 DEF ReplyStates
<1>3. Asking' = Asking /\ requests' \cap stalled' = {}
  BY DEF Asking, Expected, OneAtATime
<1>4. OneAtATime' /\ Fitting'
  BY <1>1, <1>2, <1>3, AnswerSent DEF Pending
<1>5. Recalling'
  BY <1>1, GrantSent
<1>. QED  BY <1>4, <1>5 DEF Expected

(* It gets data or a lease: without a version to renew, data. *)
LEMMA ShareServed ==
  ASSUME Typed, Expected, NEW a \in Data, dirState[a] \in {"IS", "ES"},
         OthersStay(a), dirState'[a] = "S",
         NEW r, r.type \in {"SH_REP", "RENEW_REP"}, r.type = "RENEW_REP" => tbe[a].wts > 0,
         r.to = tbe[a].requestor, r.addr = a,
         replies' = replies \cup {r}, responses' \subseteq responses,
         mts' > 0, UNCHANGED <<l1State, requests, stalled, forwards>>
  PROVE  Expected'
<1>1. /\ r.to \in Caches
      /\ \A n \in Asking : ~(n.from = r.to /\ n.addr = r.addr)
      /\ \A n \in replies : ~(n.to = r.to /\ n.addr = r.addr)
      /\ Wants("SH_REQ", tbe[a].wts, l1State[r.to][r.addr])
  BY ServedAlone DEF Pending, ServedType
<1>2. l1State[r.to][r.addr] \in ReplyStates[r.type]
  BY <1>1 DEF ReplyStates, Wants
<1>3. Asking' = Asking /\ requests' \cap stalled' = {}
  BY DEF Asking, Expected, OneAtATime
<1>4. OneAtATime' /\ Fitting'
  BY <1>1, <1>2, <1>3, AnswerSent DEF Pending
<1>5. Recalling'
  BY ShareSent DEF Unrecalled
<1>. QED  BY <1>4, <1>5 DEF Expected

(* Data from memory answers the request that asked for it; a counter or an *)
(* acknowledgement wakes requests.                                         *)
LEMMA MemoryStepExpected ==
  ASSUME TypeOK, OneWriter, Expected, NEW b \in Addr, OnMemory(b), UNCHANGED l1Vars
  PROVE  Expected'
<1>t. Typed
  BY TypedHolds
<1>l. l1State' = l1State
  BY DEF l1Vars, cacheVars
<1>m. /\ dirState \in [Addr -> DirState] /\ owner \in [Addr -> Caches \cup {None}]
      /\ tbe \in [Addr -> TBE] /\ mts \in Nat /\ Data \subseteq Addr
  BY DEF TypeOK, DirTypeOK, Addr
<1>p. mts > 0
  BY DEF Expected, Fitting
<1>1. CASE DataForShared(b)
  <2>1. dirState[b] = "IS" /\ b \in Data
    BY <1>1, PendingData DEF DataForShared, Answer, Pending
  <2>2. /\ dirState'[b] = "S" /\ OthersStay(b)
        /\ UNCHANGED <<mts, requests, stalled, forwards, responses>>
    BY <1>1, <1>m DEF DataForShared, OthersStay
  <2> DEFINE rts == max(mts + Lease, tbe[b].lts + Lease)
  <2>3. PICK r : /\ replies' = replies \cup {r} /\ r.to = tbe[b].requestor /\ r.addr = b
                 /\ r.type \in {"SH_REP", "RENEW_REP"}
                 /\ r.type = "RENEW_REP" => tbe[b].wts = mts
    <3>1. CASE tbe[b].wts = mts
      <4> DEFINE r == [type |-> "RENEW_REP", addr |-> b, to |-> tbe[b].requestor,
                       data |-> 0, wts |-> 0, rts |-> rts]
      <4>1. /\ replies' = replies \cup {r} /\ r.to = tbe[b].requestor /\ r.addr = b
            /\ r.type = "RENEW_REP"
        BY <1>1, <3>1 DEF DataForShared, Reply1
      <4> HIDE DEF r
      <4>. QED  BY <3>1, <4>1
    <3>2. CASE tbe[b].wts # mts
      <4> DEFINE r == [type |-> "SH_REP", addr |-> b, to |-> tbe[b].requestor,
                       data |-> memory[b], wts |-> mts, rts |-> rts]
      <4>1. /\ replies' = replies \cup {r} /\ r.to = tbe[b].requestor /\ r.addr = b
            /\ r.type = "SH_REP"
        BY <1>1, <3>2 DEF DataForShared, Reply1
      <4> HIDE DEF r
      <4>. QED  BY <4>1
    <3>. QED  BY <3>1, <3>2
  <2>. QED  BY <1>t, <1>l, <1>p, <2>1, <2>2, <2>3, ShareServed

<1>2. CASE DataForExclusive(b) \/ DataForUpgrade(b)
  <2> DEFINE r == [type |-> "EX_REP", addr |-> b, to |-> tbe[b].requestor,
                   data |-> memory[b], wts |-> mts, rts |-> mts]
  <2>1. dirState[b] \in {"IE", "SE"} /\ b \in Data
    BY <1>2, PendingData DEF DataForExclusive, DataForUpgrade, Answer, Pending
  <2>2. /\ dirState'[b] = "E" /\ OthersStay(b) /\ owner'[b] = tbe[b].requestor
        /\ UNCHANGED <<mts, requests, stalled, forwards, responses>>
    BY <1>2, <1>m, <2>1 DEF DataForExclusive, DataForUpgrade, GrantFromMemory, OthersStay
  <2>3. /\ replies' = replies \cup {r} /\ r.to = tbe[b].requestor /\ r.addr = b
        /\ r.type = "EX_REP"
    BY <1>2 DEF DataForExclusive, DataForUpgrade, GrantFromMemory, Reply1
  <2>4. Returned(b) = {}
    BY <2>1 DEF OneWriter, Recorded, NoToken, Exclusive, Owned
  <2>5. Returned(b)' = {}
    BY <2>2, <2>4 DEF Returned
  <2> HIDE DEF r
  <2>. QED  BY <1>t, <1>l, <1>p, <2>1, <2>2, <2>3, <2>5, GrantServed

<1>4. CASE CounterData(b)
  <2>1. UNCHANGED <<mts, owner, tbe, forwards, replies, responses>>
    BY <1>4 DEF CounterData
  <2>2. \A a \in Data :
          /\ dirState'[a] \in Pending => dirState'[a] = dirState[a]
          /\ dirState'[a] \in Unrecalled => dirState[a] \in Unrecalled
    BY <1>4, <1>m, CounterDataStates DEF Pending, InEvicting, Unrecalled
  <2>3. \/ requests' = requests \cup stalled /\ stalled' = {}
        \/ requests' = requests /\ stalled' = stalled
    BY <1>4 DEF CounterData, wakeUpAll
  <2>4. Asking' = Asking /\ requests' \cap stalled' = {}
    BY <2>3 DEF Asking, Expected, OneAtATime
  <2>. QED  BY <1>t, <1>l, <1>p, <2>1, <2>2, <2>4, DirQuiet

<1>5. ASSUME NEW i \in DOMAIN memQ[b], WritebackDone(b, i)
      PROVE  Expected'
  <2>1. /\ UNCHANGED <<mts, owner, forwards, replies, responses>>
        /\ dirState[b] \in InEvicting /\ dirState' = [dirState EXCEPT ![b] = Base[@]]
        /\ tbe' = [tbe EXCEPT ![b] = NoTBE]
    BY <1>5 DEF WritebackDone
  <2>2. \A a \in Data :
          /\ dirState'[a] \in Pending => dirState'[a] = dirState[a] /\ tbe'[a] = tbe[a]
          /\ dirState'[a] \in Unrecalled => dirState[a] \in Unrecalled
    BY <1>m, <2>1, StateMaps DEF Pending, InEvicting, Unrecalled, Stable
  <2>3. /\ requests' = requests \cup { m \in stalled : m.addr = b }
        /\ stalled' = { m \in stalled : m.addr # b }
    BY <1>5 DEF WritebackDone
  <2>4. Asking' = Asking /\ requests' \cap stalled' = {}
    BY <2>3 DEF Asking, Expected, OneAtATime
  <2>. QED  BY <1>t, <1>l, <1>p, <2>1, <2>2, <2>4, DirQuiet

<1>. QED
  BY <1>1, <1>2, <1>4, <1>5 DEF OnMemory
(* A block that comes back is acknowledged, passed on to the next          *)
(* requestor, put off or written back.                                     *)
LEMMA ResponseStepExpected ==
  ASSUME TypeOK, OneWriter, Expected, NEW m \in responses, OnResponse(m), UNCHANGED l1Vars
  PROVE  Expected'
<1>t. Typed
  BY TypedHolds
<1>l. l1State' = l1State
  BY DEF l1Vars, cacheVars
<1>h. m.addr \in Data /\ m.addr \in Addr /\ m.from \in Caches /\ m.rts \in Nat
  BY ResponseType
<1>m. /\ dirState \in [Addr -> DirState] /\ owner \in [Addr -> Caches \cup {None}]
      /\ tbe \in [Addr -> TBE] /\ mts \in Nat /\ Data \subseteq Addr
      /\ \A a \in Data : a \notin Counters
  BY AddressAssumption DEF TypeOK, DirTypeOK, Addr
<1>p. ASSUME SeeRts(m)
      PROVE  mts' > 0
  BY <1>p, <1>h, <1>m DEF SeeRts, max, Expected, Fitting
<1>k. ASSUME requests' = requests, stalled' = stalled
      PROVE  Asking' = Asking /\ requests' \cap stalled' = {}
  BY <1>k DEF Asking, Expected, OneAtATime

<1>1. CASE PutBlock(m)
  <2> DEFINE r == [type |-> "ACK_REP", addr |-> m.addr, to |-> m.from, data |-> 0,
                   wts |-> 0, rts |-> 0]
  <2>1. /\ dirState[m.addr] = "E" /\ dirState'[m.addr] = "S" /\ OthersStay(m.addr)
        /\ UNCHANGED <<requests, stalled, forwards>> /\ responses' = responses \ {m}
        /\ mts' > 0
    BY <1>1, <1>h, <1>m, <1>p DEF PutBlock, FlushRep, PopResponse, OthersStay
  <2>2. /\ replies' = replies \cup {r} /\ r.type = "ACK_REP" /\ r.to = m.from
        /\ r.addr = m.addr
    BY <1>1 DEF PutBlock, Reply1
  <2> HIDE DEF r
  <2>3. /\ l1State[m.from][m.addr] = "EI"
        /\ \A n \in replies : ~(n.to = m.from /\ n.addr = m.addr)
        /\ \A n \in Asking : ~(n.from = m.from /\ n.addr = m.addr)
    BY <1>t, <2>1, PutBackAlone
  <2>4. l1State[r.to][r.addr] \in ReplyStates[r.type]
    BY <2>2, <2>3 DEF ReplyStates
  <2>5. OneAtATime' /\ Fitting'
    BY <1>t, <1>l, <1>h, <1>k, <2>1, <2>2, <2>3, <2>4, AnswerSent DEF Pending
  <2>6. Recalling'
    BY <1>t, <1>l, <2>1, <2>2, AckSent DEF Unrecalled
  <2>. QED  BY <2>5, <2>6 DEF Expected

<1>2. CASE FlushForShared(m)
  <2> DEFINE r == [type |-> "SH_REP", addr |-> m.addr, to |-> tbe[m.addr].requestor,
                   data |-> m.data, wts |-> m.wts,
                   rts |-> max3(m.rts, m.wts + Lease, Lease)]
  <2>1. /\ dirState[m.addr] = "ES" /\ dirState'[m.addr] = "S" /\ OthersStay(m.addr)
        /\ UNCHANGED <<requests, stalled, forwards>> /\ responses' = responses \ {m}
        /\ mts' > 0
    BY <1>2, <1>h, <1>m, <1>p DEF FlushForShared, FlushRep, PopResponse, OthersStay
  <2>2. /\ replies' = replies \cup {r} /\ r.type = "SH_REP" /\ r.to = tbe[m.addr].requestor
        /\ r.addr = m.addr
    BY <1>2 DEF FlushForShared, Reply1
  <2> HIDE DEF r
  <2>. QED  BY <1>t, <1>l, <1>h, <2>1, <2>2, ShareServed

<1>3. CASE FlushForExclusive(m)
  <2> DEFINE r == [type |-> "EX_REP", addr |-> m.addr, to |-> tbe[m.addr].requestor,
                   data |-> m.data, wts |-> m.wts, rts |-> m.rts]
  <2>1. /\ dirState[m.addr] = "EE" /\ dirState'[m.addr] = "E" /\ OthersStay(m.addr)
        /\ owner'[m.addr] = tbe[m.addr].requestor
        /\ UNCHANGED <<requests, stalled, forwards>> /\ responses' = responses \ {m}
        /\ mts' > 0
    BY <1>3, <1>h, <1>m, <1>p DEF FlushForExclusive, FlushRep, PopResponse, OthersStay
  <2>2. /\ replies' = replies \cup {r} /\ r.type = "EX_REP" /\ r.to = tbe[m.addr].requestor
        /\ r.addr = m.addr
    BY <1>3 DEF FlushForExclusive, Reply1
  <2>3. OneToken(m.addr) /\ m \in Returned(m.addr)
    BY <1>h, <2>1 DEF OneWriter, Recorded, Exclusive, Returned
  <2>4. Returned(m.addr)' = {}
    BY <2>1, <2>3 DEF OneToken, Returned
  <2> HIDE DEF r
  <2>. QED  BY <1>t, <1>l, <1>h, <2>1, <2>2, <2>4, GrantServed

<1>4. CASE BounceResponse(m)
  <2>1. /\ UNCHANGED <<requests, stalled, owner, tbe, forwards, replies, responses>>
        /\ dirState[m.addr] \in InFetchAuth
        /\ dirState' = [dirState EXCEPT ![m.addr] = Base[@]] /\ mts' > 0
    BY <1>4, <1>p DEF BounceResponse, FlushRep, netVars
  <2>2. \A a \in Data :
          /\ dirState'[a] \in Pending => dirState'[a] = dirState[a]
          /\ dirState'[a] \in Unrecalled => dirState[a] \in Unrecalled
    BY <1>h, <1>m, <2>1, StateMaps DEF Pending, InFetchAuth, Unrecalled, Stable
  <2>. QED  BY <1>t, <1>l, <1>k, <2>1, <2>2, DirQuiet

<1>5. CASE FlushDirect(m) \/ FlushSuspended(m)
  <2>1. /\ UNCHANGED <<requests, stalled, forwards, replies>>
        /\ responses' = responses \ {m} /\ mts' > 0
    BY <1>5, <1>p DEF FlushDirect, FlushSuspended, PopResponse
  <2>2. \A a \in Addr : a # m.addr => owner'[a] = owner[a] /\ tbe'[a] = tbe[a]
    BY <1>5, <1>h, <1>m DEF FlushDirect, FlushSuspended
  <2>3. /\ dirState'[m.addr] \in {"I_Evicting", "I_Evict_Auth"}
        /\ \A a \in Data : a # m.addr => dirState'[a] = dirState[a]
    <3>1. CASE FlushDirect(m)
      <4>1. ToSet(PresentChain(m.addr)) \subseteq Counters
        BY <1>h, ChainType
      <4>. QED  BY <3>1, <4>1, <1>h, <1>m DEF FlushDirect, IncrementTo
    <3>2. CASE FlushSuspended(m)
      BY <3>2, <1>h, <1>m DEF FlushSuspended
    <3>. QED  BY <1>5, <3>1, <3>2
  <2>4. \A a \in Data :
          /\ dirState'[a] \in Pending => dirState'[a] = dirState[a] /\ tbe'[a] = tbe[a]
          /\ dirState'[a] \in Unrecalled =>
               dirState[a] \in Unrecalled /\ owner'[a] = owner[a]
    BY <1>m, <2>2, <2>3 DEF Pending, Unrecalled
  <2>. QED  BY <1>t, <1>l, <1>k, <2>1, <2>4, DirQuiet

<1>. QED
  BY <1>1, <1>2, <1>3, <1>4, <1>5 DEF OnResponse

(* An eviction recalls a line or touches no conversation. *)
LEMMA VictimStepExpected ==
  ASSUME TypeOK, OneWriter, Expected, NEW v \in resident, OnVictim(v), UNCHANGED l1Vars
  PROVE  Expected'
<1>t. Typed
  BY TypedHolds
<1>l. l1State' = l1State
  BY DEF l1Vars, cacheVars
<1>m. /\ dirState \in [Addr -> DirState] /\ owner \in [Addr -> Caches \cup {None}]
      /\ tbe \in [Addr -> TBE] /\ mts \in Nat /\ Data \subseteq Addr /\ v \in Addr
      /\ \A a \in Data : a \notin Counters
  BY AddressAssumption DEF TypeOK, DirTypeOK, Addr
<1>p. mts' > 0
  <2>1. Demand
    BY DEF OnVictim, DropClean, WriteBackVictim, RecallVictim, SuspendVictim, StallVictim
  <2>2. mts > 0
    BY DEF Expected, Fitting
  <2>3. ASSUME NEW m \in responses, SeeRts(m)
        PROVE  mts' > 0
    BY <2>2, <2>3, <1>m, ResponseType DEF SeeRts, max
  <2>. QED  BY <2>1, <2>2, <2>3 DEF Demand
<1>k. ASSUME requests' = requests, stalled' = stalled
      PROVE  Asking' = Asking /\ requests' \cap stalled' = {}
  BY <1>k DEF Asking, Expected, OneAtATime

<1>1. CASE DropClean(v) \/ StallVictim(v)
  <2>1. UNCHANGED <<dirState, owner, tbe, requests, stalled, forwards, replies, responses>>
    BY <1>1 DEF DropClean, StallVictim, entryVars, netVars
  <2>. QED  BY <1>t, <1>l, <1>p, <1>k, <2>1, DirQuiet

<1>2. CASE WriteBackVictim(v) \/ SuspendVictim(v)
  <2>1. UNCHANGED <<owner, requests, stalled, forwards, replies, responses>>
    BY <1>2 DEF WriteBackVictim, SuspendVictim, netVars
  <2>2. dirState[v] \in {"I", "S", "C_M"} /\ Park(v)
    BY <1>2 DEF WriteBackVictim, SuspendVictim
  <2>3. /\ dirState'[v] \in InEvicting \cup InEvictAuth
        /\ \A a \in Data : a # v => dirState'[a] = dirState[a]
    <3>1. CASE WriteBackVictim(v)
      <4>1. PICK chain \in {<<>>, PresentChain(v)} : IncrementTo(v, Evicting[dirState[v]], chain)
        BY <3>1 DEF WriteBackVictim
      <4>2. ToSet(<<>>) = {} /\ ToSet(PresentChain(v)) \subseteq Counters
        BY <1>m, ChainType DEF ToSet
      <4>. QED  BY <1>m, <2>2, <4>1, <4>2, StateMaps DEF IncrementTo
    <3>2. CASE SuspendVictim(v)
      <4>1. dirState' = [dirState EXCEPT ![v] = EvictAuth[@]]
        BY <3>2 DEF SuspendVictim
      <4>. QED  BY <1>m, <2>2, <4>1, StateMaps
    <3>. QED  BY <1>2, <3>1, <3>2
  <2>4. \A a \in Data :
          /\ dirState'[a] \in Pending => dirState'[a] = dirState[a] /\ tbe'[a] = tbe[a]
          /\ dirState'[a] \in Unrecalled => dirState[a] \in Unrecalled
    BY <1>m, <2>2, <2>3 DEF Pending, Unrecalled, InEvicting, InEvictAuth, Park
  <2>. QED  BY <1>t, <1>l, <1>p, <1>k, <2>1, <2>4, DirQuiet

<1>3. CASE RecallVictim(v)
  <2> DEFINE f == [type |-> "FLUSH_REQ", addr |-> v, to |-> owner[v], rts |-> 0]
  <2>1. /\ UNCHANGED <<owner, requests, stalled, replies, responses>>
        /\ dirState[v] = "E" /\ Park(v)
        /\ dirState' = [dirState EXCEPT ![v] = "E_Evict_Flush"]
    BY <1>3 DEF RecallVictim
  <2>2. forwards' = forwards \cup {f} /\ f.addr = v /\ f.to = owner[v]
    BY <1>3 DEF RecallVictim, sendToOwner
  <2> HIDE DEF f
  <2>3. v \in Data
    BY <1>m, <2>1 DEF TypeOK, DirTypeOK, EntriesOK, CounterState, Addr
  <2>4. OneAtATime' /\ Fitting'
    <3>1. \A a \in Data : dirState'[a] \in Pending =>
            dirState'[a] = dirState[a] /\ tbe'[a] = tbe[a]
      BY <1>m, <2>1 DEF Pending, Park
    <3>. QED  BY <1>t, <1>l, <1>p, <1>k, <2>1, <3>1, AskingStays DEF Expected
  <2>5. Recalling'
    BY <1>t, <1>l, <1>m, <2>1, <2>2, <2>3, RecallSent DEF Unrecalled
  <2>. QED  BY <2>4, <2>5 DEF Expected

<1>. QED
  BY <1>1, <1>2, <1>3 DEF OnVictim

-----------------------------------------------------------------------------
(* Nothing is on its way at the start. *)
LEMMA InitExpected ==
  ASSUME Init
  PROVE  Expected
<1>1. Asking = {} /\ replies = {} /\ forwards = {} /\ responses = {} /\ mts > 0
  BY DEF Init, DirInit, NetInit, Asking
<1>2. \A a \in Data : dirState[a] = "I"
  BY DEF Init, DirInit, Addr
<1>3. requests \cap stalled = {}
  BY DEF Init, DirInit
<1>. QED
  BY <1>1, <1>2, <1>3 DEF Expected, OneAtATime, Fitting, Recalling, RepliesExpected,
     RecallsMeetOwner, Pending

(* Every step continues the conversation. *)
LEMMA NextExpected ==
  ASSUME TypeOK, OneWriter, Expected, [Next]_vars
  PROVE  Expected'
<1>1. ASSUME DirStep, UNCHANGED l1Vars
      PROVE  Expected'
  BY <1>1, RequestStepExpected, MemoryStepExpected, ResponseStepExpected,
     VictimStepExpected DEF DirStep
<1>2. ASSUME UNCHANGED <<l1Vars, dirVars, netVars>>
      PROVE  Expected'
  BY <1>2, TypedHolds, ExpectedStays DEF l1Vars, cacheVars
<1>3. CASE L1Undefined /\ UNCHANGED dirVars
  BY <1>2, <1>3 DEF L1Undefined
<1>4. CASE DirUndefined /\ UNCHANGED l1Vars
  BY <1>2, <1>4 DEF DirUndefined
<1>5. CASE UNCHANGED vars
  BY <1>2, <1>5 DEF vars
<1>. QED
  BY <1>1, <1>3, <1>4, <1>5, L1StepExpected DEF Next, Halt

(* All three facts together. *)
LEMMA Converses == Spec => [](TypeOK /\ OneWriter /\ Expected)
<1>1. Init => TypeOK /\ OneWriter /\ Expected
  BY InitCorrect, InitExpected
<1>2. TypeOK /\ OneWriter /\ Expected /\ [Next]_vars => (TypeOK /\ OneWriter /\ Expected)'
  BY NextCorrect, NextExpected
<1>. QED  BY <1>1, <1>2, PTL DEF Spec

(* For any number of caches, lines, counters and operations: every reply   *)
(* finds its line in a state that waits for it.                            *)
THEOREM RepliesExpectedCorrect == Spec => []RepliesExpected
<1>1. TypeOK /\ OneWriter /\ Expected => RepliesExpected
  BY DEF Expected, Fitting
<1>. QED  BY <1>1, Converses, PTL

(* And every recall meets the line, its grant or its way back.             *)
THEOREM RecallsMeetOwnerCorrect == Spec => []RecallsMeetOwner
<1>1. TypeOK /\ OneWriter /\ Expected => RecallsMeetOwner
  BY DEF Expected, Recalling
<1>. QED  BY <1>1, Converses, PTL
================================================================================
