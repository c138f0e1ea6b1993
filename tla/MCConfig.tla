------------------------------- MODULE MCConfig -------------------------------
(***************************************************************************)
(* What the agent is configured with: its own configuration, read when it  *)
(* starts, and the capabilities of the manifests.  Each behaviour is one   *)
(* of either module; the other stays in an initial state.                  *)
(***************************************************************************)
EXTENDS MCConfigStore, AgentConfig, MCComponent

\* Keys with dependencies; the code's own table is empty.
MCDependencies == [key \in {"netmask"} |-> {"bridge", "shared-mounts"}]

settingsVars == <<component, storeVars, configVars>>

NoManifests ==
    /\ path = [s \in Names |-> "dir"]
    /\ content = [s \in Names |-> <<>>]

NoConfiguration ==
    /\ options = [valid |-> TRUE, set |-> {}]
    /\ file = [loads |-> TRUE, unknown |-> FALSE, has |-> [key \in Keys |-> "absent"]]
    /\ dirs = [s \in ToSet(Sources) |-> "dir"]

SettingsInit ==
    \/ component = "store" /\ StoreInit /\ NoConfiguration /\ ConfigInit
    \/ component = "config" /\ NoManifests /\ StoreInit /\ ConfigInit

SettingsNext ==
    /\ UNCHANGED component
    /\ \/ component = "store" /\ StoreNext /\ UNCHANGED configVars
       \/ component = "config" /\ ConfigNext /\ UNCHANGED storeVars

SettingsSpec == SettingsInit /\ [][SettingsNext]_settingsVars

----------------------------------------------------------------------------
\* Types of the stores and of the configuration.
SettingsTypeOK == StoreTypeOK /\ ConfigTypeOK
=============================================================================
