------------------------------ MODULE MCAgentBus ------------------------------
(***************************************************************************)
(* What the agent does on the bus: the adaptor that answers calls, and the *)
(* jobs whose ends it announces.  Each behaviour is one of either module;  *)
(* the other stays in its initial state, in which its fairness asks        *)
(* nothing.                                                                *)
(***************************************************************************)
EXTENDS Jobs, AgentAdaptor, FiniteSets, MCComponent

CONSTANT MaxCreates   \* bound on the containers made, with whatever ids

busVars == <<component, jobsVars, adaptorVars>>

Containers == {c \in Ids \X (1..MaxGen) : c[2] <= ctr[c[1]].gen}

\* findSuitableId() takes new ids in order.
InOrder == \A c \in Containers : \A i \in Ids : i < c[1] => ctr[i].gen > 0

BusInit == component \in {"jobs", "adaptor"} /\ JobsInit /\ AdaptorInit

BusNext ==
    /\ UNCHANGED component
    /\ \/ /\ component = "jobs" /\ JobsNext
          /\ Cardinality(Containers') <= MaxCreates /\ InOrder'
          /\ UNCHANGED adaptorVars
       \/ component = "adaptor" /\ AdaptorNext /\ UNCHANGED jobsVars

BusSpec == BusInit /\ [][BusNext]_busVars /\ JobsFairness /\ AdaptorFairness

----------------------------------------------------------------------------
\* Types of both modules.
BusTypeOK == JobsTypeOK /\ AdaptorTypeOK

\* Every ProcessStateChanged is true, is the only one for its process, and is emitted on
\* a connection that is there.
SignalsAreSound == SignalsAreTrue /\ AnnouncedOnce /\ EmitterIsConnected
=============================================================================
