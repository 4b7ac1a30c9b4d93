------------------------------- MODULE L1Cache -------------------------------
(***************************************************************************)
(* The L1 cache controller (TARDISTSO_TECTREE-cache.sm), one instance per  *)
(* core, with the core and its sequencer as environment: the sequencer     *)
(* keeps at most one request outstanding per line.                         *)
(***************************************************************************)
EXTENDS TardisNet

CONSTANTS
  L1Size,          \* lines the cache holds
  LivelockPeriod,  \* initial livelock_period of a line (32 in the code)
  Ops,             \* request forms the cores issue: [kind, barrier] records
  MaxOps,          \* bound: requests issued by one core
  MaxClock         \* bound: how far a stalled load may push lts

ASSUME L1Assumption ==
  /\ LivelockPeriod \in Nat \ {0} /\ MaxOps \in Nat /\ MaxClock \in Nat
  /\ \A op \in Ops : op.kind \in {"LD", "ST", "IFETCH"} /\ op.barrier \in BOOLEAN
  /\ L1Size \in Nat \ {0}

VARIABLES
  lts, sts,        \* load and store timestamp of the core
  l1State,         \* CacheState per cache and line
  l1Wts, l1Rts, l1Data,
  loads, period,   \* load_counter and livelock_period per cache and line
  mandatory,       \* head of mandatoryQueue, or None
  issued,          \* requests issued so far (bound)
  latest,          \* history: number of stores performed on the line
  seen,            \* history: newest store per line each core must observe
  published        \* history: what the writer had seen, per store

cacheVars == <<lts, sts, l1State, l1Wts, l1Rts, l1Data, loads, period>>
coreVars == <<mandatory, issued>>
historyVars == <<latest, seen, published>>
l1Vars == <<cacheVars, coreVars, historyVars>>

L1State == {"I", "IS", "IE", "S_LSD", "S_EXP", "SE", "E", "EI"}
Waiting == {"IS", "IE", "S_EXP", "SE"}     \* a core request is outstanding
CoreRequest == [kind : {"LD", "ST", "IFETCH"}, barrier : BOOLEAN, addr : Data]

(* Every variable but the history of what each core must observe. *)
L1TypeOK ==
  /\ lts \in [Caches -> Nat] /\ sts \in [Caches -> Nat]
  /\ l1State \in [Caches -> [Data -> L1State]]
  /\ l1Wts \in [Caches -> [Data -> Nat]] /\ l1Rts \in [Caches -> [Data -> Nat]]
  /\ l1Data \in [Caches -> [Data -> Nat]]
  /\ loads \in [Caches -> [Data -> Nat]]
  /\ period \in [Caches -> [Data -> Nat \ {0}]]
  /\ mandatory \in [Caches -> CoreRequest \cup {None}]
  /\ issued \in [Caches -> 0 .. MaxOps]
  /\ latest \in [Data -> Nat]

L1Init ==
  /\ lts = [c \in Caches |-> 1] /\ sts = [c \in Caches |-> 1]
  /\ l1State = [c \in Caches |-> [a \in Data |-> "I"]]
  /\ l1Wts = [c \in Caches |-> [a \in Data |-> 0]]
  /\ l1Rts = [c \in Caches |-> [a \in Data |-> 0]]
  /\ l1Data = [c \in Caches |-> [a \in Data |-> 0]]
  /\ loads = [c \in Caches |-> [a \in Data |-> 0]]
  /\ period = [c \in Caches |-> [a \in Data |-> LivelockPeriod]]
  /\ mandatory = [c \in Caches |-> None]
  /\ issued = [c \in Caches |-> 0]
  /\ latest = [a \in Data |-> 0]
  /\ seen = [c \in Caches |-> [a \in Data |-> 0]]
  /\ published = [a \in Data |-> <<>>]

-----------------------------------------------------------------------------
(* History: the sequencer callbacks. Reading store v of line a obliges the *)
(* core to observe whatever the writer of v had observed before it.        *)
(***************************************************************************)
Join(f, g) == [a \in Data |-> max(f[a], g[a])]
Writer(a, v) == IF v = 0 THEN [b \in Data |-> 0] ELSE published[a][v]

readCallback(c, a, v) ==
  /\ seen' = [seen EXCEPT ![c] =
       [Join(@, Writer(a, v)) EXCEPT ![a] = max(@, v)]]
  /\ UNCHANGED <<latest, published>>

writeCallback(c, a) ==
  LET v == latest[a] + 1
      view == [seen[c] EXCEPT ![a] = v]
  IN  /\ latest' = [latest EXCEPT ![a] = v]
      /\ seen' = [seen EXCEPT ![c] = view]
      /\ published' = [published EXCEPT ![a] = Append(@, view)]

-----------------------------------------------------------------------------
(* The core issues a request for a line it has no request outstanding on.  *)
Issue(c) ==
  /\ mandatory[c] = None /\ issued[c] < MaxOps
  /\ \E op \in Ops, a \in Data :
       /\ l1State[c][a] \notin Waiting
       /\ mandatory' = [mandatory EXCEPT ![c] =
            [kind |-> op.kind, barrier |-> op.barrier, addr |-> a]]
  /\ issued' = [issued EXCEPT ![c] = @ + 1]
  /\ UNCHANGED <<cacheVars, historyVars, netVars>>

(* mandatory_in, before the transition: a barrier synchronises the clocks, *)
(* and a load that finds an entry counts towards the livelock timeout.     *)
Line(c) == mandatory[c].addr
Fenced(c) == IF mandatory[c].barrier THEN max(lts[c], sts[c]) ELSE lts[c]
fencedSts(c) == IF mandatory[c].barrier THEN max(lts[c], sts[c]) ELSE sts[c]

HasRoom(c, a) ==
  \/ l1State[c][a] # "I"
  \/ Cardinality({b \in Data : l1State[c][b] # "I"}) < L1Size

Head1(c) == mandatory[c] # None /\ HasRoom(c, Line(c))

Counts(c) == mandatory[c].kind = "LD" /\ l1State[c][Line(c)] # "I"
Expires(c) ==
  Counts(c) /\ (loads[c][Line(c)] + 1) % period[c][Line(c)] = 0
peekLts(c) == IF Expires(c) THEN Fenced(c) + 1 ELSE Fenced(c)

CountLoad(c) ==
  LET a == Line(c) IN
  /\ loads' = IF Counts(c)
              THEN [loads EXCEPT ![c][a] = IF Expires(c) THEN 0 ELSE @ + 1]
              ELSE loads
  /\ period' = IF Expires(c)
               THEN [period EXCEPT ![c][a] = IF @ = 1 THEN 1 ELSE @ \div 2]
               ELSE period

IsLoad(c) == mandatory[c].kind \in {"LD", "IFETCH"}
IsStore(c) == mandatory[c].kind = "ST"
LeaseExpired(c) == Counts(c) /\ peekLts(c) > l1Rts[c][Line(c)]

popMandatoryQueue(c) ==
  mandatory' = [mandatory EXCEPT ![c] = None] /\ UNCHANGED issued

-----------------------------------------------------------------------------
(* Transitions on the core's request. *)

LoadMiss(c) ==                                   \* (I, Load) -> IS
  LET a == Line(c) IN
  /\ Head1(c) /\ IsLoad(c) /\ l1State[c][a] = "I"
  /\ l1State' = [l1State EXCEPT ![c][a] = "IS"]
  /\ requests' = requests \cup {[type |-> "SH_REQ", addr |-> a, from |-> c,
                                 wts |-> 0, lts |-> Fenced(c)]}
  /\ lts' = [lts EXCEPT ![c] = Fenced(c)] /\ sts' = [sts EXCEPT ![c] = fencedSts(c)]
  /\ popMandatoryQueue(c)
  /\ UNCHANGED <<l1Wts, l1Rts, l1Data, loads, period, historyVars,
                 forwards, replies, responses>>

StoreMiss(c) ==                                  \* (I, Store) -> IE
  LET a == Line(c) IN
  /\ Head1(c) /\ IsStore(c) /\ l1State[c][a] = "I"
  /\ l1State' = [l1State EXCEPT ![c][a] = "IE"]
  /\ requests' = requests \cup {[type |-> "EX_REQ", addr |-> a, from |-> c,
                                 wts |-> 0, lts |-> 0]}
  /\ lts' = [lts EXCEPT ![c] = Fenced(c)] /\ sts' = [sts EXCEPT ![c] = fencedSts(c)]
  /\ popMandatoryQueue(c)
  /\ UNCHANGED <<l1Wts, l1Rts, l1Data, loads, period, historyVars,
                 forwards, replies, responses>>

LoadHit(c) ==                                    \* (S_LSD, Load)
  LET a == Line(c) IN
  /\ Head1(c) /\ IsLoad(c) /\ ~LeaseExpired(c) /\ l1State[c][a] = "S_LSD"
  /\ lts' = [lts EXCEPT ![c] = max(peekLts(c), l1Wts[c][a])]
  /\ sts' = [sts EXCEPT ![c] = fencedSts(c)]
  /\ CountLoad(c)
  /\ readCallback(c, a, l1Data[c][a])
  /\ popMandatoryQueue(c)
  /\ UNCHANGED <<l1State, l1Wts, l1Rts, l1Data, netVars>>

RenewLease(c) ==                                 \* (S_LSD, LoadLeaseExpired) -> S_EXP
  LET a == Line(c) IN
  /\ Head1(c) /\ LeaseExpired(c) /\ l1State[c][a] = "S_LSD"
  /\ l1State' = [l1State EXCEPT ![c][a] = "S_EXP"]
  /\ requests' = requests \cup {[type |-> "SH_REQ", addr |-> a, from |-> c,
                                 wts |-> l1Wts[c][a], lts |-> peekLts(c)]}
  /\ lts' = [lts EXCEPT ![c] = peekLts(c)] /\ sts' = [sts EXCEPT ![c] = fencedSts(c)]
  /\ CountLoad(c)
  /\ popMandatoryQueue(c)
  /\ UNCHANGED <<l1Wts, l1Rts, l1Data, historyVars, forwards, replies, responses>>

RequestUpgrade(c) ==                             \* (S_LSD, Store) -> SE
  LET a == Line(c) IN
  /\ Head1(c) /\ IsStore(c) /\ l1State[c][a] = "S_LSD"
  /\ l1State' = [l1State EXCEPT ![c][a] = "SE"]
  /\ requests' = requests \cup {[type |-> "EX_REQ", addr |-> a, from |-> c,
                                 wts |-> l1Wts[c][a], lts |-> 0]}
  /\ lts' = [lts EXCEPT ![c] = Fenced(c)] /\ sts' = [sts EXCEPT ![c] = fencedSts(c)]
  /\ popMandatoryQueue(c)
  /\ UNCHANGED <<l1Wts, l1Rts, l1Data, loads, period, historyVars,
                 forwards, replies, responses>>

LoadExclusive(c) ==                              \* (E, {Load, LoadLeaseExpired})
  LET a == Line(c) IN
  /\ Head1(c) /\ IsLoad(c) /\ l1State[c][a] = "E"
  /\ lts' = [lts EXCEPT ![c] = max(peekLts(c), l1Wts[c][a])]
  /\ l1Rts' = [l1Rts EXCEPT ![c][a] = max(lts'[c], @)]
  /\ sts' = [sts EXCEPT ![c] = fencedSts(c)]
  /\ CountLoad(c)
  /\ readCallback(c, a, l1Data[c][a])
  /\ popMandatoryQueue(c)
  /\ UNCHANGED <<l1State, l1Wts, l1Data, netVars>>

(* storeHit and externalStoreHit: the new version is written after every   *)
(* read the line's rts covers.                                             *)
PerformStore(c, a, clock, rts) ==
  LET ts == max(clock, rts + 1) IN
  /\ sts' = [sts EXCEPT ![c] = ts]
  /\ l1Wts' = [l1Wts EXCEPT ![c][a] = ts]
  /\ l1Rts' = [l1Rts EXCEPT ![c][a] = ts]
  /\ l1Data' = [l1Data EXCEPT ![c][a] = latest[a] + 1]
  /\ writeCallback(c, a)

StoreExclusive(c) ==                             \* (E, Store)
  LET a == Line(c) IN
  /\ Head1(c) /\ IsStore(c) /\ l1State[c][a] = "E"
  /\ PerformStore(c, a, fencedSts(c), l1Rts[c][a])
  /\ lts' = [lts EXCEPT ![c] = Fenced(c)]
  /\ popMandatoryQueue(c)
  /\ UNCHANGED <<l1State, loads, period, netVars>>

(* mandatory_in with no entry and no room: the Eviction event on a victim  *)
(* of the replacement policy. The request stays at the head of the queue.  *)
VictimOf(c, v) ==
  /\ mandatory[c] # None /\ ~HasRoom(c, Line(c))
  /\ l1State[c][v] # "I"

FenceOnly(c) ==
  /\ lts' = [lts EXCEPT ![c] = Fenced(c)]
  /\ sts' = [sts EXCEPT ![c] = fencedSts(c)]

ResetLine(c, a) ==                               \* deallocateCacheBlock
  /\ l1State' = [l1State EXCEPT ![c][a] = "I"]
  /\ l1Wts' = [l1Wts EXCEPT ![c][a] = 0]
  /\ l1Rts' = [l1Rts EXCEPT ![c][a] = 0]
  /\ l1Data' = [l1Data EXCEPT ![c][a] = 0]
  /\ loads' = [loads EXCEPT ![c][a] = 0]
  /\ period' = [period EXCEPT ![c][a] = LivelockPeriod]

EvictShared(c) ==                                \* (S_LSD, Eviction) -> I
  /\ \E v \in Data :
       VictimOf(c, v) /\ l1State[c][v] = "S_LSD" /\ ResetLine(c, v)
  /\ FenceOnly(c)
  /\ UNCHANGED <<coreVars, historyVars, netVars>>

EvictExclusive(c) ==                             \* (E, Eviction) -> EI
  /\ \E v \in Data :
       /\ VictimOf(c, v) /\ l1State[c][v] = "E"
       /\ l1State' = [l1State EXCEPT ![c][v] = "EI"]
       /\ responses' = responses \cup
            {[type |-> "PUT_REP", addr |-> v, from |-> c, data |-> l1Data[c][v],
              wts |-> l1Wts[c][v], rts |-> l1Rts[c][v]]}
  /\ FenceOnly(c)
  /\ UNCHANGED <<l1Wts, l1Rts, l1Data, loads, period, coreVars, historyVars,
                 requests, forwards, replies>>

(* ({IS, IE, S_EXP, SE, EI}, {Load, Store, Eviction}): the request is      *)
(* retried. Only its side effects on the clocks are visible, and a retry   *)
(* that has none is not a step.                                            *)
StallMandatory(c) ==
  /\ mandatory[c] # None
  /\ \/ HasRoom(c, Line(c)) /\ l1State[c][Line(c)] \in Waiting \cup {"EI"}
     \/ \E v \in Data : VictimOf(c, v) /\ l1State[c][v] \in Waiting \cup {"EI"}
  /\ ~LeaseExpired(c)
  /\ Counts(c) \/ Fenced(c) # lts[c] \/ fencedSts(c) # sts[c]
  /\ Expires(c) => peekLts(c) <= MaxClock
  /\ lts' = [lts EXCEPT ![c] = peekLts(c)] /\ sts' = [sts EXCEPT ![c] = fencedSts(c)]
  /\ CountLoad(c)
  /\ UNCHANGED <<l1State, l1Wts, l1Rts, l1Data, coreVars, historyVars, netVars>>

-----------------------------------------------------------------------------
(* Transitions on replies of the directory. *)

FillShared(c) ==                                 \* ({IS, S_EXP}, ShRep) -> S_LSD
  \E m \in replies :
    /\ m.to = c /\ m.type = "SH_REP" /\ l1State[c][m.addr] \in {"IS", "S_EXP"}
    /\ l1State' = [l1State EXCEPT ![c][m.addr] = "S_LSD"]
    /\ l1Data' = [l1Data EXCEPT ![c][m.addr] = m.data]
    /\ l1Wts' = [l1Wts EXCEPT ![c][m.addr] = m.wts]
    /\ l1Rts' = [l1Rts EXCEPT ![c][m.addr] = m.rts]
    /\ lts' = [lts EXCEPT ![c] = max(@, m.wts)]
    /\ readCallback(c, m.addr, m.data)
    /\ replies' = replies \ {m}
    /\ UNCHANGED <<sts, loads, period, coreVars, requests, forwards, responses>>

ExtendLease(c) ==                                \* (S_EXP, RenewRep) -> S_LSD
  \E m \in replies :
    /\ m.to = c /\ m.type = "RENEW_REP" /\ l1State[c][m.addr] = "S_EXP"
    /\ l1State' = [l1State EXCEPT ![c][m.addr] = "S_LSD"]
    /\ l1Rts' = [l1Rts EXCEPT ![c][m.addr] = m.rts]
    /\ lts' = [lts EXCEPT ![c] = max(@, l1Wts[c][m.addr])]
    /\ readCallback(c, m.addr, l1Data[c][m.addr])
    /\ replies' = replies \ {m}
    /\ UNCHANGED <<sts, l1Wts, l1Data, loads, period, coreVars,
                   requests, forwards, responses>>

(* (IE, ExRep) -> E takes the timestamps of the reply; (SE, ExRep) -> E    *)
(* only takes its data and stores on the rts the line already had.         *)
FillExclusive(c) ==
  \E m \in replies :
    LET held == l1State[c][m.addr] IN
    /\ m.to = c /\ m.type = "EX_REP" /\ held \in {"IE", "SE"}
    /\ l1State' = [l1State EXCEPT ![c][m.addr] = "E"]
    /\ PerformStore(c, m.addr, sts[c], IF held = "IE" THEN m.rts ELSE l1Rts[c][m.addr])
    /\ replies' = replies \ {m}
    /\ UNCHANGED <<lts, loads, period, coreVars, requests, forwards, responses>>

Upgrade(c) ==                                    \* (SE, UpgRep) -> E
  \E m \in replies :
    /\ m.to = c /\ m.type = "UPGR_REP" /\ l1State[c][m.addr] = "SE"
    /\ l1State' = [l1State EXCEPT ![c][m.addr] = "E"]
    /\ PerformStore(c, m.addr, sts[c], m.rts)
    /\ replies' = replies \ {m}
    /\ UNCHANGED <<lts, loads, period, coreVars, requests, forwards, responses>>

PutAcknowledged(c) ==                            \* (EI, AckRep) -> I
  \E m \in replies :
    /\ m.to = c /\ m.type = "ACK_REP" /\ l1State[c][m.addr] = "EI"
    /\ ResetLine(c, m.addr)
    /\ replies' = replies \ {m}
    /\ UNCHANGED <<lts, sts, coreVars, historyVars, requests, forwards, responses>>

-----------------------------------------------------------------------------
(* Transitions on forwarded requests. ({IS, IE}, FlushReq) stalls. *)

GiveBack(c) ==                                   \* (E, FlushReq) -> S_LSD
  \E m \in forwards :
    LET a == m.addr
        rts == max3(l1Rts[c][a], l1Wts[c][a] + Lease, m.rts)
    IN  /\ m.to = c /\ l1State[c][a] = "E"
        /\ l1State' = [l1State EXCEPT ![c][a] = "S_LSD"]
        /\ l1Rts' = [l1Rts EXCEPT ![c][a] = rts]
        /\ responses' = responses \cup
             {[type |-> "WB_REP", addr |-> a, from |-> c, data |-> l1Data[c][a],
               wts |-> l1Wts[c][a], rts |-> rts]}
        /\ forwards' = forwards \ {m}
        /\ UNCHANGED <<lts, sts, l1Wts, l1Data, loads, period, coreVars,
                       historyVars, requests, replies>>

GivenBackAlready(c) ==                           \* (EI, FlushReq) -> I
  \E m \in forwards :
    /\ m.to = c /\ l1State[c][m.addr] = "EI"
    /\ ResetLine(c, m.addr)
    /\ forwards' = forwards \ {m}
    /\ UNCHANGED <<lts, sts, coreVars, historyVars, requests, replies, responses>>

-----------------------------------------------------------------------------
(* Every pair of state and event the transition table leaves out is a      *)
(* panic of the generated controller: the simulation stops.                *)
ReplyStates ==
  [SH_REP |-> {"IS", "S_EXP"}, RENEW_REP |-> {"S_EXP"}, EX_REP |-> {"IE", "SE"},
   UPGR_REP |-> {"SE"}, ACK_REP |-> {"EI"}]
FlushStates == {"E", "EI", "IS", "IE"}

L1Undefined ==
  /\ \/ \E m \in replies : l1State[m.to][m.addr] \notin ReplyStates[m.type]
     \/ \E m \in forwards : l1State[m.to][m.addr] \notin FlushStates
     \/ \E c \in Caches : /\ mandatory[c] # None /\ LeaseExpired(c)
                          /\ l1State[c][Line(c)] \notin {"S_LSD", "E"}
  /\ fault' = "L1Cache"
  /\ UNCHANGED <<l1Vars, netVars>>

OnMandatory(c) ==
  \/ LoadMiss(c) \/ StoreMiss(c) \/ LoadHit(c) \/ RenewLease(c)
  \/ RequestUpgrade(c) \/ LoadExclusive(c) \/ StoreExclusive(c)
  \/ EvictShared(c) \/ EvictExclusive(c) \/ StallMandatory(c)

OnReply(c) ==
  \/ FillShared(c) \/ ExtendLease(c) \/ FillExclusive(c) \/ Upgrade(c)
  \/ PutAcknowledged(c)

OnForward(c) == GiveBack(c) \/ GivenBackAlready(c)

L1Step(c) ==
  /\ Issue(c) \/ OnMandatory(c) \/ OnReply(c) \/ OnForward(c)
  /\ UNCHANGED fault
=============================================================================
