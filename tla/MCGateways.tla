------------------------------ MODULE MCGateways ------------------------------
(***************************************************************************)
(* The gateways of a container besides those for files and for the         *)
(* network.  They share no state, so each behaviour is one of one module   *)
(* and the others stay in their initial states.                            *)
(***************************************************************************)
EXTENDS MCDBusGateway, DeviceNodeGateway, CgroupsGateway, EnvironmentVariables

VARIABLE component    \* the module whose steps are taken

gatewaysVars == <<component, dbusVars, deviceVars, cgroupsVars, envVars>>

GatewaysInit ==
    /\ component \in {"dbus", "devices", "cgroups", "environment"}
    /\ DBusInit /\ DeviceInit /\ CgroupsInit /\ EnvInit

GatewaysNext ==
    /\ UNCHANGED component
    /\ \/ component = "dbus" /\ DBusNext /\ UNCHANGED <<deviceVars, cgroupsVars, envVars>>
       \/ component = "devices" /\ DeviceNext /\ UNCHANGED <<dbusVars, cgroupsVars, envVars>>
       \/ component = "cgroups" /\ CgroupsNext /\ UNCHANGED <<dbusVars, deviceVars, envVars>>
       \/ component = "environment" /\ EnvNext /\ UNCHANGED <<dbusVars, deviceVars, cgroupsVars>>

GatewaysSpec == GatewaysInit /\ [][GatewaysNext]_gatewaysVars

----------------------------------------------------------------------------
\* Types of all of them.
GatewaysTypeOK == DBusTypeOK /\ DeviceTypeOK /\ CgroupsTypeOK /\ EnvTypeOK
=============================================================================
