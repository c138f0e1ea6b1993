---------------------------- MODULE MCAllGateways ----------------------------
(***************************************************************************)
(* The gateways of a container besides the one for files.                  *)
(***************************************************************************)
EXTENDS MCGateways, MCNetworkGateway

vars == <<gatewaysVars, networkVars>>

Offline  == gateway = FALSE
NoOthers == DBusInit /\ DeviceInit /\ CgroupsInit /\ EnvInit

\* Both chains are treated alike, so the first rule may as well be about the first one.
\* Each rule is read by itself, so that one of the two is malformed is enough.
InputFirst    == entries # <<>> => entries[1].chain = "INPUT"
OneMalformed  == entries # <<>> => \A a \in rules' \ rules : WellFormed(a.rule)

Init ==
    \/ GatewaysInit /\ Offline /\ NetworkInit
    \/ component = "network" /\ NetworkInit /\ NoOthers

Next ==
    \/ GatewaysNext /\ UNCHANGED networkVars
    \/ component = "network" /\ NetworkNext /\ InputFirst' /\ OneMalformed /\ UNCHANGED gatewaysVars

Spec == Init /\ [][Next]_vars
=============================================================================
