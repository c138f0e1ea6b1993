------------------------------ MODULE MCMessages ------------------------------
(***************************************************************************)
(* What the agent exchanges with others: calls and signals with clients on *)
(* the bus, requests and replies with the kernel, and the addresses that   *)
(* result.                                                                 *)
(***************************************************************************)
EXTENDS MCAgentBus, MCNetwork

vars == <<busVars, netVars>>

NoCalls == JobsInit /\ AdaptorInit
NoNet   == NoDevice /\ NetlinkInit /\ NoBridge /\ AddressInit

Init ==
    \/ BusInit /\ NoNet
    \/ NetInit /\ NoCalls

Next ==
    \/ BusNext /\ UNCHANGED <<netlinkVars, addressVars>>
    \/ NetNext /\ UNCHANGED <<jobsVars, adaptorVars>>

Spec == Init /\ [][Next]_vars /\ JobsFairness /\ AdaptorFairness /\ NetlinkFairness
=============================================================================
