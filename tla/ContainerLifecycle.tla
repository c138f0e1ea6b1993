------------------------- MODULE ContainerLifecycle -------------------------
(***************************************************************************)
(* What a SoftwareContainer promises its user: the states READY,           *)
(* SUSPENDED, TERMINATED and INVALID, which calls each of them allows, and *)
(* what the answer to a call says about the state.  Nothing here knows of  *)
(* LXC, of mounts or of gateways.  It is written from the comments on the  *)
(* methods in softwarecontainer.h; module SoftwareContainer says where the *)
(* code follows it.                                                        *)
(***************************************************************************)
VARIABLES
    state,   \* the documented state
    reply,   \* the call answered last and its answer
    alive    \* the object exists

vars == <<state, reply, alive>>

Answer(op, res) == reply' = [op |-> op, res |-> res]

\* A call in a state that does not allow it changes nothing.
Refused(op, allowed) ==
    /\ \/ state = "INVALID" /\ Answer(op, "InvalidContainerError")
       \/ state \notin allowed \cup {"INVALID"} /\ Answer(op, "InvalidOperationError")
    /\ UNCHANGED state

\* A call that works moves from an allowed state to its target.
Works(op, allowed, target) ==
    /\ state \in allowed
    /\ Answer(op, "ok")
    /\ state' = target

\* A call that fails leaves a container that is to be considered broken.
Breaks(op, allowed) ==
    /\ state \in allowed
    /\ Answer(op, "ContainerError")
    /\ state' = "INVALID"

Suspend ==
    \/ Refused("suspend", {"READY"})
    \/ Works("suspend", {"READY"}, "SUSPENDED")
    \/ Breaks("suspend", {"READY"})

Resume ==
    \/ Refused("resume", {"SUSPENDED"})
    \/ Works("resume", {"SUSPENDED"}, "READY")
    \/ Breaks("resume", {"SUSPENDED"})

Shutdown ==
    \/ Refused("shutdown", {"READY", "SUSPENDED"})
    \/ Works("shutdown", {"READY", "SUSPENDED"}, "TERMINATED")
    \/ Breaks("shutdown", {"READY", "SUSPENDED"})

\* The calls that use a ready container leave it ready, whatever they answer.
Use(op) ==
    \/ Refused(op, {"READY"})
    \/ /\ state = "READY"
       /\ \E res \in {"ok", "false", "GatewayError"} : Answer(op, res)
       /\ UNCHANGED state

UseOps == {"startGateways", "bindMount", "createFunctionJob", "createCommandJob"}

Init == state = "READY" /\ alive = TRUE /\ reply = [op |-> "none", res |-> "ok"]

Call == /\ alive
        /\ (\E op \in UseOps : Use(op)) \/ Suspend \/ Resume \/ Shutdown
        /\ UNCHANGED alive

\* The world changes behind the container's back; its state does not.
Unseen == alive /\ Answer("none", "ok") /\ UNCHANGED <<state, alive>>

Destruct == alive /\ alive' = FALSE /\ Answer("destruct", "ok") /\ UNCHANGED state

Next == Call \/ Unseen \/ Destruct

Spec == Init /\ [][Next]_vars
=============================================================================
