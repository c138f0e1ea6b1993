-------------------------------- MODULE MCAgent --------------------------------
(***************************************************************************)
(* The agent: its configuration and the manifests, which it reads before it*)
(* serves, and the containers it looks after.                              *)
(***************************************************************************)
EXTENDS MCSoftwareContainerAgent, MCConfig

agentVars == <<vars, settingsVars>>

NoSettings == NoManifests /\ StoreInit /\ NoConfiguration /\ ConfigInit

AgentInit ==
    \/ SettingsInit /\ Init
    \/ component = "containers" /\ Init /\ NoSettings

AgentNext ==
    \/ SettingsNext /\ UNCHANGED vars
    \/ component = "containers" /\ Next /\ UNCHANGED settingsVars

AgentSpec == AgentInit /\ [][AgentNext]_agentVars
=============================================================================
