-------------------------- MODULE MCNetworkGateway --------------------------
(***************************************************************************)
(* Lists of protocols for model checking: none, two, and one whose last    *)
(* entry is no protocol.                                                   *)
(***************************************************************************)
EXTENDS NetworkGateway

MCProtocolLists ==
    {<<>>, <<"udp", "icmp">>, <<"udp", "bogus">>}
=============================================================================
