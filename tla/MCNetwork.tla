------------------------------ MODULE MCNetwork ------------------------------
(***************************************************************************)
(* The netlink socket the network gateway works through, and the addresses *)
(* that all containers get.  In the initial state of Netlink its fairness  *)
(* asks nothing.                                                           *)
(***************************************************************************)
EXTENDS Netlink, NetworkAddresses, MCComponent

netVars == <<component, netlinkVars, addressVars>>

\* No bridge: its address is not set, nor its device there.
NoBridge == bridge = 0 /\ netmask = 0
NoDevice == kernel = [index |-> None, up |-> FALSE, address |-> FALSE]

NetInit ==
    \/ component = "netlink" /\ NetlinkInit /\ NoBridge /\ AddressInit
    \/ component = "addresses" /\ NoDevice /\ NetlinkInit /\ AddressInit

NetNext ==
    /\ UNCHANGED component
    /\ \/ component = "netlink" /\ NetlinkNext /\ UNCHANGED addressVars
       \/ component = "addresses" /\ AddressNext /\ UNCHANGED netlinkVars

NetSpec == NetInit /\ [][NetNext]_netVars /\ NetlinkFairness

----------------------------------------------------------------------------
\* Types of the socket and the addresses.
NetTypeOK == NetlinkTypeOK /\ AddressTypeOK
=============================================================================
