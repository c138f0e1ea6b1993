-------------------------- MODULE SoftwareContainer --------------------------
(***************************************************************************)
(* One SoftwareContainer object: its life cycle over the LXC container and *)
(* its gateways, from a constructor that succeeded to its destructor.      *)
(*                                                                         *)
(* The object is used from one thread, and each of its methods runs to its *)
(* end before the next one starts; one action is one call.  What happens   *)
(* in between happens to the container's init process.                     *)
(***************************************************************************)
EXTENDS SoftwareContainerOps, Gateway

VARIABLES
    sc,       \* the object: m_containerState, m_previouslyConfigured, m_container
    gws,      \* m_gateways
    alive,    \* the object exists
    reply,    \* the call answered last, with its result or exception
    torn,     \* history: gateways whose teardown() has been called
    granted   \* history: elements of the startGateways calls that returned true, for gateways
              \* that look at all their failures

vars == <<sc, gws, alive, reply, torn, granted>>

NoReply == [op |-> "none", res |-> "ok"]

Ops == {"startGateways", "suspend", "resume", "shutdown", "bindMount",
        "createFunctionJob", "createCommandJob"}

\* A GatewayConfiguration: elements for some of the gateways.
Configs == UNION {[D -> SUBSET Elements] : D \in SUBSET Gateways}

TypeOK ==
    /\ sc \in SoftwareContainerRec
    /\ gws \in [Gateways -> GatewayRec] \cup {NoGateways}
    /\ alive \in BOOLEAN
    /\ reply \in [op : Ops \cup {"none", "destruct"}, res : Errors \cup {"ok", "false"}]
    /\ torn \in SUBSET Gateways
    /\ granted \in [Gateways -> SUBSET Elements]

Init ==
    /\ \E wb \in BOOLEAN : \E r \in ConstructOut(CleanHost, wb) :
          r.res = "true" /\ sc = [state |-> "READY", prev |-> FALSE, c |-> r.c]
    /\ gws = [i \in Gateways |-> NewGateway]
    /\ alive = TRUE
    /\ reply = NoReply
    /\ torn = {}
    /\ granted = [i \in Gateways |-> {}]

----------------------------------------------------------------------------
Answered(op, r) == reply' = [op |-> op, res |-> r.res] /\ sc' = r.s

\* suspend() and resume()
Suspend ==
    /\ alive
    /\ \E r \in SCSuspendOut(sc) : Answered("suspend", r)
    /\ UNCHANGED <<gws, alive, torn, granted>>

Resume ==
    /\ alive
    /\ \E r \in SCResumeOut(sc) : Answered("resume", r)
    /\ UNCHANGED <<gws, alive, torn, granted>>

\* shutdown(): once past the state checks the gateways are torn down and
\* dropped, before it is known whether the container can be destroyed.
Shutdown ==
    /\ alive
    /\ \E r \in SCShutdownOut(sc) : Answered("shutdown", r)
    /\ IF Refusal(sc, Mortal) = "none"
         THEN gws' = NoGateways /\ torn' = torn \cup TornDown(gws)
         ELSE UNCHANGED <<gws, torn>>
    /\ UNCHANGED <<alive, granted>>

\* startGateways(gwConfig)
StartResult(res) ==
    IF res = "true" THEN "ok" ELSE IF res = "false" THEN "false" ELSE "GatewayError"

Granted(cfg) == [i \in Gateways |-> granted[i] \cup (IF i \in DOMAIN cfg \ Unchecked THEN cfg[i] ELSE {})]

StartGateways(cfg, unknown) ==
    /\ alive
    /\ IF Refusal(sc, {"READY"}) # "none"
         THEN Answered("startGateways", Reply(Refusal(sc, {"READY"}), sc)) /\ UNCHANGED <<gws, granted>>
         ELSE \E r \in StartGatewaysOut(gws, cfg, unknown) :
                 /\ gws' = r.gws
                 /\ Answered("startGateways",
                             Reply(StartResult(r.res), [sc EXCEPT !.prev = IF r.res = "true" THEN TRUE ELSE @]))
                 /\ granted' = IF r.res = "true" THEN Granted(cfg) ELSE granted
    /\ UNCHANGED <<alive, torn>>

\* bindMount(), createFunctionJob() and createCommandJob(): the state check, and
\* for bindMount the container's answer.
UseReady(op) ==
    /\ alive
    /\ LET refusal == Refusal(sc, {"READY"}) IN
       \E res \in IF refusal # "none" THEN {refusal}
                  ELSE IF op = "bindMount" THEN {"ok", "false"} ELSE {"ok"} :
          Answered(op, Reply(res, sc))
    /\ UNCHANGED <<gws, alive, torn, granted>>

\* The destructor.  Of the gateways that are still there only the D-Bus proxies
\* are torn down, by their own destructor.
Destruct ==
    /\ alive
    /\ alive' = FALSE
    /\ \E c \in SCDestructOut(sc.c) : sc' = Now(sc, sc.state, c)
    /\ gws' = NoGateways
    /\ torn' = torn \cup (TornDown(gws) \cap Flagging)
    /\ reply' = [op |-> "destruct", res |-> "ok"]
    /\ UNCHANGED granted

\* External: the container's init process ends.
InitDies ==
    /\ alive
    /\ InitCanDie(sc.c)
    /\ sc' = Now(sc, sc.state, InitDied(sc.c))
    /\ reply' = NoReply
    /\ UNCHANGED <<gws, alive, torn, granted>>

Next ==
    \/ Suspend
    \/ Resume
    \/ Shutdown
    \/ \E cfg \in Configs, unknown \in BOOLEAN : StartGateways(cfg, unknown)
    \/ \E op \in {"bindMount", "createFunctionJob", "createCommandJob"} : UseReady(op)
    \/ Destruct
    \/ InitDies

Spec == Init /\ [][Next]_vars

----------------------------------------------------------------------------
(***************************************************************************)
(* Safety                                                                  *)
(***************************************************************************)

\* The two state machines of softwarecontainer.cpp and container.cpp, and what
\* LXC says of the container, never drift apart: a READY object has a STARTED
\* container, a SUSPENDED one a FROZEN one, and a container is DESTROYED exactly
\* when the object is TERMINATED, at which point LXC has forgotten it.
LayersAgree ==
    alive =>
      /\ sc.state = "READY" => sc.c.state = STARTED
      /\ sc.state = "SUSPENDED" => sc.c.state = FROZEN
      /\ sc.state = "TERMINATED" <=> sc.c.state = DESTROYED
      /\ sc.c.state = STARTED => sc.c.lxc \in {"running", "stopped"}
      /\ sc.c.state = FROZEN => sc.c.lxc \in {"frozen", "stopped"}
      /\ sc.c.state = CREATED => sc.c.lxc = "stopped"
      /\ sc.c.state = DESTROYED => sc.c.lxc = "undefined" /\ sc.c.mounts["rootfs"] = 0
      /\ sc.c.state >= DESTROYED

\* Whatever the calls, and however many of them failed half-way, the destructors
\* of SoftwareContainer and Container leave no mount behind on the host.
DestructorUnmounts == ~alive => \A m \in MountPoints : sc.c.mounts[m] = 0

\* A startGateways that returned true has activated every gateway that has been
\* configured, in this call or in an earlier one that failed, and those that look at
\* all their failures have applied every element they ever accepted.  It has set the
\* flag that lets Execute go ahead without the default capabilities.  Of the gateways
\* in Unchecked it says no more than that they were run.
SuccessMeansApplied ==
    reply = [op |-> "startGateways", res |-> "ok"] =>
      /\ sc.prev
      /\ \A i \in Gateways : IsConfigured(gws[i]) =>
            /\ gws[i].st = GwACTIVATED
            /\ i \notin Unchecked => gws[i].live = gws[i].stored

\* What a startGateways that returned true asked for stays applied until the gateways
\* are dropped: later calls that fail in configureGateways() or activateGateways(), and
\* containers that are suspended or die meanwhile, take nothing of it back.  Gateways
\* in Unchecked may never have applied it.
GrantedStaysApplied ==
    gws # NoGateways => \A i \in Gateways \ Unchecked : granted[i] \subseteq gws[i].live

----------------------------------------------------------------------------
(***************************************************************************)
(* What a step may never do                                                *)
(***************************************************************************)

\* The INVALID state is entered by a failed shutdown and by nothing else: the
\* branches of suspend() and resume() that set it are never taken, because
\* Container::suspend and Container::resume return false only in states the two
\* callers have already excluded.
InvalidOnlyByShutdown ==
    [][sc.state # "INVALID" /\ sc'.state = "INVALID" => reply'.op = "shutdown"]_vars

\* A gateway that is activated and not dynamic makes every later startGateways
\* fail: if it is named again setConfig throws, and if it is not, activate does.
\* So one that was activated by a call that failed further down the list leaves a
\* container whose capabilities can never be set.
StaticGatewayIsFinal ==
    [][(\E i \in Gateways \ Dynamic : gws # NoGateways /\ gws[i].st = GwACTIVATED)
         => reply' # [op |-> "startGateways", res |-> "ok"]]_vars

\* Whenever the gateways are dropped, by a shutdown, even one that then fails, or
\* by the destructor, every gateway that runs a process of its own (the D-Bus
\* proxies) and has given it something to serve has been torn down: through failed
\* activations and new configurations, isActivated() never forgets it.
ProxiesAreStopped ==
    [][gws # NoGateways /\ gws' = NoGateways
         => {i \in Flagging : gws[i].live # {}} \subseteq torn']_vars

----------------------------------------------------------------------------
(***************************************************************************)
(* The documented life cycle                                               *)
(***************************************************************************)
Lifecycle == INSTANCE ContainerLifecycle WITH state <- sc.state

\* What no document has: LXC does not freeze or unfreeze the container, and the
\* exception of that passes through suspend() or resume().
LXCRefuses(op, allowed) ==
    /\ alive /\ UNCHANGED <<sc, alive>>
    /\ sc.state = allowed
    /\ reply' = [op |-> op, res |-> "SoftwareContainerError"]

LifecycleStep ==
    \/ Lifecycle!Next
    \/ LXCRefuses("suspend", "READY")
    \/ LXCRefuses("resume", "SUSPENDED")

\* The object implements the life cycle documented in softwarecontainer.h: its states,
\* the calls each allows, their answers and where they lead, except for a suspend() or
\* resume() that fails in LXC, which it survives in the state it was in.
ImplementsLifecycle == Lifecycle!Init /\ [][LifecycleStep]_(Lifecycle!vars)

\* softwarecontainer.h, suspend() and resume(): "If the operation is not successful, the
\* container state will be set to 'INVALID'."
FailureIsInvalid ==
    reply.op \in {"suspend", "resume"} /\ reply.res \notin {"ok", "InvalidOperationError"}
        => sc.state = "INVALID"

=============================================================================
