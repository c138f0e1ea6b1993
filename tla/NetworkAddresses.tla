--------------------------- MODULE NetworkAddresses ---------------------------
(***************************************************************************)
(* NetworkGatewayFunctions::generateIP and Netlink::setIP: the addresses of*)
(* the containers on one bridge.  Addresses are unsigned numbers of Width  *)
(* bits, in the code 32, in bytes of ByteBits; a container's id is a signed*)
(* number of that width.                                                   *)
(***************************************************************************)
EXTENDS Integers

CONSTANTS
    Width,      \* bits of an address
    ByteBits,   \* bits of a byte
    Bridges,    \* addresses the bridge may have
    ContainerIds         \* ids of containers

\* 1 << n
Bit[n \in Nat] == IF n = 0 THEN 1 ELSE 2 * Bit[n - 1]

ASSUME AddressAssumption ==
    /\ Width \in Nat \ {0} /\ ByteBits \in Nat \ {0} /\ Width % ByteBits = 0
    /\ Bridges \subseteq 0..(Bit[Width] - 1)
    /\ ContainerIds \subseteq 0..(Bit[Width - 1] - 1)      \* signed, and not negative

Addresses == 0..(Bit[Width] - 1)
NoAddress == -1

VARIABLES
    bridge, netmask,   \* the configuration of the agent
    address            \* the address of each container, if it has one

addressVars == <<bridge, netmask, address>>

\* Any netmask an unsigned number can hold may be configured; the largest modelled
\* is the first one that is refused.
AddressInit ==
    /\ bridge \in Bridges /\ netmask \in 0..Width
    /\ address = [i \in ContainerIds |-> NoAddress]

Host(n)       == Bit[Width - n]              \* addresses of a network of this mask
Network(a, n) == a \div Host(n)
LastAddress(a, n)    == Network(a, n) * Host(n) + Host(n) - 1     \* a | maskBits

\* "adding 1 to container ID for provide uniqueness"
Shifted(i) == i + 1

\* Mutant: the range is not checked.
InRangeAlways(i) == netmask \in 1..(Width - 1)

\* The comparison is one of unsigned numbers, so the sum wraps around.
InRange(i) ==
    /\ netmask \in 1..(Width - 1)
    /\ LastAddress(bridge, netmask) >= (bridge + Shifted(i)) % Bit[Width]

\* The address, in host byte order.
GenerateIP(i) == (bridge + Shifted(i)) % Bit[Width]

\* The m bytes of a number in the other order: the last one comes first.
Swap[m \in Nat] ==
    [a \in Nat |-> IF m = 0 THEN 0
                   ELSE (a % Bit[ByteBits]) * Bit[ByteBits * (m - 1)] + Swap[m - 1][a \div Bit[ByteBits]]]

\* htonl and ntohl on a little-endian machine.
Swapped(a) == Swap[Width \div ByteBits][a]

\* setIP: the mask, whose low bits are set, and the address, in network byte order,
\* are combined as numbers; x | ~mask is x % 2^n with the bits from n on set.
Broadcast(a) == Swapped((Bit[Width] - Bit[netmask]) + (Swapped(a) % Bit[netmask]))

\* activateGateway: an address, or an IPAllocationError and no activation.
Activate(i) ==
    /\ address[i] = NoAddress /\ InRange(i)
    /\ address' = [address EXCEPT ![i] = GenerateIP(i)]
    /\ UNCHANGED <<bridge, netmask>>

Refuse(i) ==
    /\ address[i] = NoAddress /\ ~InRange(i)
    /\ UNCHANGED addressVars

\* The container is destroyed; its id may be given out again.
Release(i) ==
    /\ address[i] # NoAddress
    /\ address' = [address EXCEPT ![i] = NoAddress]
    /\ UNCHANGED <<bridge, netmask>>

AddressNext == \E i \in ContainerIds : Activate(i) \/ Refuse(i) \/ Release(i)

AddressSpec == AddressInit /\ [][AddressNext]_addressVars

----------------------------------------------------------------------------
\* Addresses and netmasks have the width of the code's integers.
AddressTypeOK ==
    /\ bridge \in Addresses /\ netmask \in 0..Width
    /\ address \in [ContainerIds -> Addresses \cup {NoAddress}]

\* No two containers that are up have the same address, whichever ids are in use.
AddressesDiffer ==
    \A i, j \in ContainerIds : i # j /\ address[i] # NoAddress => address[i] # address[j]

\* "IP address can not be same as gateway IP"
NotTheBridge == \A i \in ContainerIds : address[i] # bridge

\* The sum is beyond the largest number; then the range check compares what is left of it.
Wraps(i) == bridge + Shifted(i) >= Bit[Width]

\* "The network is limited to generate IP address in a range of 2 ^ (32 - netmask)":
\* every address is in the network of the bridge, which is what the range check of
\* generateIP is for, as long as the unsigned sum it checks does not wrap around.
InTheNetwork ==
    \A i \in ContainerIds : address[i] # NoAddress /\ ~Wraps(i) =>
        Network(address[i], netmask) = Network(bridge, netmask)

\* "Broadcast = IP | (~Netmask)": for the masks that are whole bytes, the bridge's
\* default among them, the broadcast address setIP gives the interface is the last one
\* of its network, although the two byte orders are mixed.
BroadcastOfBytes ==
    netmask % ByteBits = 0 =>
        \A i \in ContainerIds : address[i] # NoAddress =>
            Broadcast(address[i]) = LastAddress(address[i], netmask)

\* Every address a container gets is its own, within the bridge's network, and the
\* broadcast address that goes with it is right.
AddressesAreGood == AddressesDiffer /\ NotTheBridge /\ InTheNetwork /\ BroadcastOfBytes
=============================================================================
