------------------------------ MODULE TardisSystem ------------------------------
(***************************************************************************)
(* The L1 caches and the directory of TARDISTSO_TECTREE put together: the  *)
(* cores issue loads and stores, the controllers exchange messages over    *)
(* the network of TardisNet, and the directory talks to memory.            *)
(***************************************************************************)
EXTENDS L1Cache, Directory

vars == <<l1Vars, dirVars, netVars, fault>>

Init == L1Init /\ DirInit /\ NetInit

(* Nothing is left to do: every request has been issued and answered. *)
Quiescent ==
  /\ \A c \in Caches : mandatory[c] = None /\ issued[c] = MaxOps
  /\ \A c \in Caches, a \in Data : l1State[c][a] \notin Waiting \cup {"EI"}
  /\ requests = {} /\ stalled = {}

(* The run is over: the cores are done or a controller has panicked. *)
Halt == (fault # "none" \/ Quiescent) /\ UNCHANGED vars

Next ==
  \/ /\ fault = "none"
     /\ \/ \E c \in Caches : L1Step(c) /\ UNCHANGED dirVars
        \/ L1Undefined /\ UNCHANGED dirVars
        \/ DirStep /\ UNCHANGED l1Vars
        \/ DirUndefined /\ UNCHANGED l1Vars
  \/ Halt

TypeOK == L1TypeOK /\ DirTypeOK /\ NetTypeOK

Spec == Init /\ [][Next]_vars
-----------------------------------------------------------------------------
(* Fairness: a controller that is woken up processes its in-ports every    *)
(* cycle they hold a message it can act on, and memory answers. The queues *)
(* of the directory are served in order, so a message that can infinitely  *)
(* often be the head of its queue is processed: strong fairness per cache  *)
(* and line. Nothing makes a core issue requests.                          *)
(***************************************************************************)
OfCache(A) == fault = "none" /\ A /\ UNCHANGED <<dirVars, fault>>
OfDirectory(A) == fault = "none" /\ A /\ UNCHANGED <<l1Vars, fault>>

Fairness ==
  /\ \A c \in Caches :
       /\ WF_vars(OfCache(OnMandatory(c)))
       /\ WF_vars(OfCache(OnReply(c)))
       /\ WF_vars(OfCache(OnForward(c)))
       /\ \A a \in Data :
            /\ SF_vars(OfDirectory(\E m \in requests :
                                     m.from = c /\ m.addr = a /\ OnRequest(m)))
            /\ SF_vars(OfDirectory(\E m \in responses :
                                     m.from = c /\ m.addr = a /\ OnResponse(m)))
  /\ \A a \in Addr :
       /\ WF_vars(OfDirectory(OnMemory(a)))
       /\ WF_vars(OfDirectory(a \in resident /\ OnVictim(a)))

FairSpec == Spec /\ Fairness
=============================================================================
