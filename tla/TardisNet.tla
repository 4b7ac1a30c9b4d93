------------------------------ MODULE TardisNet ------------------------------
(***************************************************************************)
(* What the L1 caches and the directory of TARDISTSO_TECTREE share: the    *)
(* addresses and their counters, the messages of TARDISTSO_TECTREE-msg.sm  *)
(* and the four virtual channels between the two machines.                 *)
(*                                                                         *)
(* A data block is abstracted to the number of the store that produced it, *)
(* so two blocks are equal exactly when the same stores formed them.       *)
(***************************************************************************)
EXTENDS Naturals, Sequences, FiniteSets

CONSTANTS
  Caches,      \* the L1 cache controllers, one per core
  Data,        \* line addresses the cores use
  Counters,    \* line addresses of TEC-Tree counter chunks
  Path,        \* Path[a]: the counters above a, nearest first (getParentAddr)
  Lease,       \* the lease both machines are configured with
  None         \* no cache, no address, no request

Addr == Data \cup Counters

ASSUME LeaseAssumption == Lease \in Nat
ASSUME AddressAssumption ==
  /\ Data \cap Counters = {}
  /\ None \notin Addr \cup Caches
ASSUME PathAssumption ==
  /\ Path \in [Addr -> Seq(Counters)]
  /\ \A a \in Data : Path[a] # <<>>

VARIABLES
  requests,    \* requestToDir -> requestFromCache   (virtual network 0)
  forwards,    \* forwardToCache -> forwardFromDir   (virtual network 1)
  replies,     \* responseToCache -> responseFromDir (virtual network 2)
  responses,   \* responseToDir -> responseFromCache (virtual network 2)
  fault        \* the machine that ran into an undefined transition, if any

netVars == <<requests, forwards, replies, responses>>

Machine == {"none", "L1Cache", "Directory"}

Request == [type : {"SH_REQ", "EX_REQ"}, addr : Data, from : Caches,
            wts : Nat, lts : Nat]
Forward == [type : {"WB_REQ", "FLUSH_REQ"}, addr : Data, to : Caches, rts : Nat]
Reply == [type : {"SH_REP", "EX_REP", "UPGR_REP", "RENEW_REP", "ACK_REP"},
          addr : Data, to : Caches, data : Nat, wts : Nat, rts : Nat]
Response == [type : {"WB_REP", "PUT_REP"}, addr : Data, from : Caches,
             data : Nat, wts : Nat, rts : Nat]

NetTypeOK ==
  /\ requests \subseteq Request
  /\ forwards \subseteq Forward
  /\ replies \subseteq Reply
  /\ responses \subseteq Response
  /\ fault \in Machine

NetInit ==
  /\ requests = {} /\ forwards = {} /\ replies = {} /\ responses = {}
  /\ fault = "none"

(* SLICC's max of two and of three timestamps. *)
max(x, y) == IF x > y THEN x ELSE y
max3(x, y, z) == max(x, max(y, z))
=============================================================================
