-------------------------------- MODULE Coherence --------------------------------
(***************************************************************************)
(* What TARDISTSO_TECTREE promises the cores: the properties of the system *)
(* of TardisSystem. A panic of a controller stops the system where it is,  *)
(* so a safety property speaks of the states up to the panic.              *)
(***************************************************************************)
EXTENDS TardisSystem

-----------------------------------------------------------------------------
(* The permission to write line a is a token: an L1 holds it, the          *)
(* directory has sent it, or a cache is sending it back with the block.    *)
(***************************************************************************)
Holders(a) == {c \in Caches : l1State[c][a] = "E"}
Granted(a) == {m \in replies : m.addr = a /\ m.type \in {"EX_REP", "UPGR_REP"}}
Returned(a) == {m \in responses : m.addr = a}
NoToken(a) == Holders(a) = {} /\ Granted(a) = {} /\ Returned(a) = {}
OneToken(a) ==
  \/ Granted(a) = {} /\ Returned(a) = {} /\ \E c \in Caches : Holders(a) = {c}
  \/ Holders(a) = {} /\ Returned(a) = {} /\ \E m \in replies : Granted(a) = {m}
  \/ Holders(a) = {} /\ Granted(a) = {} /\ \E m \in responses : Returned(a) = {m}

Exclusive == Owned \cup {"ES", "EE"}

(* There is one token while the directory believes the line is exclusive,  *)
(* and none otherwise; the directory records an owner exactly while it has *)
(* not recalled the line, and the token is then with that owner, so that   *)
(* setOwner_ReqIn's assertion holds and a recall knows where to go.        *)
Recorded(a) ==
  /\ dirState[a] \notin Exclusive => NoToken(a)
  /\ dirState[a] \in Exclusive => OneToken(a)
  /\ owner[a] # None <=> dirState[a] \in Owned
  /\ owner[a] # None =>
       /\ Holders(a) \subseteq {owner[a]}
       /\ \A m \in Granted(a) : m.to = owner[a]
       /\ \A m \in Returned(a) : m.from = owner[a]
OneWriter == \A a \in Data : Recorded(a)

(* No update is lost in a transfer: a cache that may write the line, the   *)
(* EX_REP that lets it, and the block a cache gives back carry the newest  *)
(* version (sendExDataToReq, sendExDataFromLLC, sendExTBEDataToReq,        *)
(* sendWritebackResponse, sendPutResponse).                                *)
TransferIsCurrent ==
  \A a \in Data :
    /\ \A c \in Holders(a) : l1Data[c][a] = latest[a]
    /\ \A m \in Granted(a) : m.type = "EX_REP" => m.data = latest[a]
    /\ \A m \in Returned(a) : m.data = latest[a]

(* UPGR_REP carries no data, so the copy it upgrades must be the newest:   *)
(* that is what request_in's comparison of in_msg.wts with dir_entry.wts   *)
(* is for.                                                                 *)
UpgradeIsCurrent ==
  \A a \in Data : \A m \in Granted(a) :
    m.type = "UPGR_REP" => l1Data[m.to][a] = latest[a]

(* While nobody may write the line, the newest version is at home: in the  *)
(* LLC, or on its way to memory, or in memory.                             *)
HomeVersion(a) ==
  CASE a \in resident -> llcData[a]
    [] a \notin resident /\ dirState[a] \in InEvictAuth \cup InEvicting -> tbe[a].data
    [] OTHER -> memory[a]
HomeIsCurrent ==
  \A a \in Data : NoToken(a) => HomeVersion(a) = latest[a]

(* A lease is only renewed for a cache that holds the newest version:      *)
(* RENEW_REP carries no data (sendShDataToReq, sendShDataFromLLC). It does *)
(* not hold of the code: after ExRep in SE a store is ordered behind the   *)
(* copy that was replaced, and so may have the timestamp of another store. *)
RenewsCurrent ==
  [][\A m \in replies' \ replies :
       m.type = "RENEW_REP" => l1Data[m.to][m.addr] = latest[m.addr]]_vars

(* A load that hits on a shared copy returns a version no older than the   *)
(* core must already observe: what it has read or written itself, and what *)
(* the writers of that had observed. TSO forbids anything else.            *)
NoStaleHit ==
  \A c \in Caches, a \in Data :
    l1State[c][a] = "S_LSD" /\ lts[c] <= l1Rts[c][a] => l1Data[c][a] >= seen[c][a]

(* Versions of a line are written at increasing timestamps.                *)
WritesAdvance ==
  [][\A c \in Caches, a \in Data :
       latest'[a] > latest[a] /\ l1Data'[c][a] = latest'[a]
         => \A d \in Caches : l1State[d][a] = "S_LSD" => l1Wts[d][a] < l1Wts'[c][a]]_vars

(* Every reply finds its line in a state that waits for it, whatever was   *)
(* recalled or evicted in the meantime.                                    *)
RepliesExpected ==
  \A m \in replies : l1State[m.to][m.addr] \in ReplyStates[m.type]

(* Every recall finds the owner: the line is there, or is being given back *)
(* already, or its grant is still on its way on another virtual network.   *)
RecallsMeetOwner ==
  \A m \in forwards :
    \/ l1State[m.to][m.addr] \in {"E", "EI"}
    \/ \E r \in Granted(m.addr) : r.to = m.to

(* A recall that overtakes the grant waits for it: in SE as in IE. *)
EarlyRecallStalls ==
  \A m \in forwards : l1State[m.to][m.addr] \in FlushStates

-----------------------------------------------------------------------------
(* Every load and store a core has handed to its cache is answered, unless *)
(* a controller panics first.                                              *)
RequestsAnswered ==
  \A c \in Caches :
    /\ mandatory[c] # None ~> mandatory[c] = None \/ fault # "none"
    /\ \A a \in Data :
         l1State[c][a] \in Waiting ~> l1State[c][a] \notin Waiting \/ fault # "none"
=============================================================================
