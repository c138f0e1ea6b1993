------------------------- MODULE EnvironmentVariables -------------------------
(***************************************************************************)
(* The environment of the processes of a container: the three gateways     *)
(* whose activation sets variables of the container (EnvironmentGateway,   *)
(* PulseGateway and WaylandGateway, with the sockets the last two mount),  *)
(* Container's map of variables and what Container::execute makes of it.   *)
(* The D-Bus gateway, which sets two more, has its own module.             *)
(*                                                                         *)
(* A value is a sequence of texts, in the order they are put together.     *)
(***************************************************************************)
EXTENDS Naturals, Sequences, FiniteSets

CONSTANTS
    Variables,   \* names that configurations and jobs use
    Texts,       \* texts they give
    Separators,  \* separators they give; "" is the default
    MaxConfigs   \* bound on the calls of setConfig

Xdg   == "XDG_RUNTIME_DIR"
Pulse == "PULSE_SERVER"

ASSUME EnvironmentAssumption ==
    /\ {Xdg, Pulse} \subseteq Variables
    /\ MaxConfigs \in Nat

Gateways == {"pulse", "wayland", "env"}
Sockets  == {"pulse", "wayland"}

\* The order in which init() adds them.
After(g) == CASE g = "pulse" -> "wayland" [] g = "wayland" -> "env" [] g = "env" -> "end"

Elements == [name : Variables, mode : {"set", "append", "prepend"},
             text : Texts, sep : Separators]

Maps(vals) == UNION {[D -> vals] : D \in SUBSET Variables}

VARIABLES
    envState,    \* the state of each gateway: "created", "configured", "activated"
    m_variables, \* EnvironmentGateway's variables
    asked,       \* history: the elements it accepted
    enabled,     \* m_enabled and m_enableAudio
    wanted,      \* history: whether an accepted element enabled the socket
    once,        \* WaylandGateway's m_activatedOnce
    mounts,      \* how often each socket is mounted in the container
    env,         \* the container's m_gatewayEnvironmentVariables
    configs,     \* calls of setConfig
    turn,        \* activateGateways' loop: the gateway it is at, "end"; "no" outside of it
    envReply,    \* what the last call answered
    process      \* the process the last call started: what its job set, and what it sees

envVars == <<envState, m_variables, asked, enabled, wanted, once, mounts, env, configs, turn, envReply, process>>

NoVariables == [n \in {} |-> <<>>]
NoProcess   == [job |-> NoVariables, sees |-> NoVariables]

EnvInit ==
    /\ envState = [g \in Gateways |-> "created"]
    /\ m_variables = NoVariables /\ asked = <<>>
    /\ enabled = [g \in Sockets |-> FALSE] /\ wanted = enabled
    /\ once = FALSE /\ mounts = [g \in Sockets |-> 0]
    /\ env = NoVariables /\ configs = 0 /\ turn = "no" /\ envReply = "none"
    /\ process = NoProcess

\* f with a variable set, and f where it has a variable, g where it has none.
With(f, n, v) == [x \in DOMAIN f \cup {n} |-> IF x = n THEN v ELSE f[x]]
Over(f, g)    == [x \in DOMAIN f \cup DOMAIN g |-> IF x \in DOMAIN f THEN f[x] ELSE g[x]]

----------------------------------------------------------------------------
(***************************************************************************)
(* setConfig.  PulseGateway and EnvironmentGateway are static, so they     *)
(* throw once they are activated; WaylandGateway is dynamic.  One element  *)
(* is read; if cut, the array goes on with one that is malformed.          *)
(***************************************************************************)
Malformed(g) == IF g = "pulse" THEN "malformed audio" ELSE "malformed"

Configurable(g) == envState[g] # "activated" \/ g = "wayland"

\* What the end of the array makes of gateway g.
Ends(g, cut) ==
    IF cut THEN envReply' = Malformed(g) /\ UNCHANGED envState
    ELSE envReply' = "configured" /\ envState' = [envState EXCEPT ![g] = "configured"]

Called ==
    /\ turn = "no" /\ configs < MaxConfigs
    /\ configs' = configs + 1 /\ process' = NoProcess /\ UNCHANGED turn

\* Mutant: append and prepend put the separator at the outer end.
ParsedValueOuter(e) ==
    IF e.name \notin DOMAIN m_variables THEN <<e.text>>
    ELSE CASE e.mode = "append"  -> m_variables[e.name] \o <<e.text, e.sep>>
           [] e.mode = "prepend" -> <<e.sep, e.text>> \o m_variables[e.name]
           [] OTHER -> <<>>

\* parseEnvironmentGatewayConfigElement of a well-formed element: the value to store.
ParsedValue(e) ==
    IF e.name \notin DOMAIN m_variables THEN <<e.text>>
    ELSE CASE e.mode = "append"  -> m_variables[e.name] \o <<e.sep, e.text>>
           [] e.mode = "prepend" -> <<e.text, e.sep>> \o m_variables[e.name]
           [] OTHER -> <<>>

\* A variable that is defined cannot be set again.
Refused(e) == e.name \in DOMAIN m_variables /\ e.mode = "set"

SetConfigEnv(e, cut) ==
    /\ Called /\ Configurable("env")
    /\ IF Refused(e)
         THEN envReply' = "refused" /\ UNCHANGED <<m_variables, asked, envState>>
         ELSE /\ m_variables' = With(m_variables, e.name, ParsedValue(e))
              /\ asked' = Append(asked, e)
              /\ Ends("env", cut)
    /\ UNCHANGED <<enabled, wanted, once, mounts, env>>

\* if (!m_enabled) m_enabled = configValue
EnabledAfter(g, value) == [enabled EXCEPT ![g] = @ \/ value]

\* PulseGateway::readConfigElement and WaylandGateway::readConfigElement
SetConfigSocket(g, value, cut) ==
    /\ Called /\ Configurable(g)
    /\ enabled' = EnabledAfter(g, value)
    /\ wanted' = [wanted EXCEPT ![g] = @ \/ value]
    /\ Ends(g, cut)
    /\ UNCHANGED <<m_variables, asked, once, mounts, env>>

\* An element without a key it needs, or with a value of a wrong type, or empty.
SetConfigMalformed(g) ==
    /\ Called /\ Configurable(g)
    /\ envReply' = Malformed(g)
    /\ UNCHANGED <<envState, m_variables, asked, enabled, wanted, once, mounts, env>>

----------------------------------------------------------------------------
(***************************************************************************)
(* activateGateways, one gateway in each step.                             *)
(***************************************************************************)
\* A call whose configurations were all accepted goes on to activate.
ActivateGateways ==
    /\ turn = "no" /\ envReply = "configured"
    /\ turn' = "pulse" /\ process' = NoProcess
    /\ UNCHANGED <<envState, m_variables, asked, enabled, wanted, once, mounts, env, configs, envReply>>

\* A gateway that has no configuration is left out.
SkipGateway ==
    /\ turn \in Gateways /\ envState[turn] = "created"
    /\ turn' = After(turn)
    /\ UNCHANGED <<envState, once, mounts, env, envReply>>

\* Gateway::activate throws if the gateway is activated.
ActivatedBefore ==
    /\ turn \in Gateways /\ envState[turn] = "activated"
    /\ turn' = "no" /\ envReply' = "failed"
    /\ UNCHANGED <<envState, once, mounts, env>>

\* activateGateway returned true, or false.
GatewayTrue(g) ==
    /\ turn = g /\ envState[g] = "configured"
    /\ envState' = [envState EXCEPT ![g] = "activated"]
    /\ turn' = After(g) /\ UNCHANGED envReply

GatewayFalse(g) ==
    /\ turn = g /\ envState[g] = "configured"
    /\ turn' = "no" /\ envReply' = "failed"
    /\ UNCHANGED <<envState, once, mounts, env>>

\* The socket is mounted, then the variable set (Container::setEnvironmentVariable; a
\* container with gateways is CREATED).  Without the variables that say where the socket
\* is, or without the mount, nothing is.
EnableSocket(g, n, v) ==
    /\ mounts' = [mounts EXCEPT ![g] = @ + 1]
    /\ env' = With(env, n, v)

\* PulseGateway::activateGateway and enablePulseAudio
ActivatePulse ==
    \/ ~enabled["pulse"] /\ GatewayTrue("pulse") /\ UNCHANGED <<once, mounts, env>>
    \/ enabled["pulse"] /\ GatewayFalse("pulse")
    \/ /\ enabled["pulse"] /\ GatewayTrue("pulse") /\ UNCHANGED once
       /\ EnableSocket("pulse", Pulse, <<"unix:/gateways/pulse_socket">>)

\* WaylandGateway::activateGateway
ActivateWayland ==
    \/ (~enabled["wayland"] \/ once) /\ GatewayTrue("wayland") /\ UNCHANGED <<once, mounts, env>>
    \/ enabled["wayland"] /\ ~once /\ GatewayFalse("wayland")
    \/ /\ enabled["wayland"] /\ ~once /\ GatewayTrue("wayland") /\ once' = TRUE
       /\ EnableSocket("wayland", Xdg, <<"/gateways">>)

\* EnvironmentGateway::activateGateway
ActivateEnvironment ==
    GatewayTrue("env") /\ env' = Over(m_variables, env) /\ UNCHANGED <<once, mounts>>

GatewaysActivated ==
    /\ turn = "end"
    /\ turn' = "no" /\ envReply' = "activated"
    /\ UNCHANGED <<envState, once, mounts, env>>

ActivateNext ==
    /\ \/ SkipGateway \/ ActivatedBefore
       \/ ActivatePulse \/ ActivateWayland \/ ActivateEnvironment \/ GatewaysActivated
    /\ UNCHANGED <<m_variables, asked, enabled, wanted, configs, process>>

\* The environment Container::execute attaches with.
ActualVariables(job) == Over(job, env)

Execute(job) ==
    /\ turn = "no"
    /\ process' = [job |-> job, sees |-> ActualVariables(job)]
    /\ envReply' = "executed"
    /\ UNCHANGED <<envState, m_variables, asked, enabled, wanted, once, mounts, env, configs, turn>>

\* teardownGateway of all three does nothing.
EnvNext ==
    \/ \E e \in Elements, cut \in BOOLEAN : SetConfigEnv(e, cut)
    \/ \E g \in Sockets, value, cut \in BOOLEAN : SetConfigSocket(g, value, cut)
    \/ \E g \in Gateways : SetConfigMalformed(g)
    \/ ActivateGateways
    \/ ActivateNext
    \/ \E job \in Maps({<<"job">>}) : Execute(job)

EnvSpec == EnvInit /\ [][EnvNext]_envVars

----------------------------------------------------------------------------
IsMap(f) == DOMAIN f \subseteq Variables

\* The environment gateway is never configured without a variable, so the branch of
\* activateGateway for that is not taken.
EnvTypeOK ==
    /\ envState \in [Gateways -> {"created", "configured", "activated"}]
    /\ IsMap(m_variables) /\ IsMap(env) /\ IsMap(process.job) /\ IsMap(process.sees)
    /\ envState["env"] # "created" => m_variables # NoVariables
    /\ asked \in Seq(Elements)
    /\ {enabled, wanted} \subseteq [Sockets -> BOOLEAN] /\ once \in BOOLEAN
    /\ mounts \in [Sockets -> Nat]
    /\ configs \in 0..MaxConfigs
    /\ turn \in Gateways \cup {"end", "no"}
    /\ envReply \in {"none", "refused", "configured", "malformed", "malformed audio",
                  "activated", "failed", "executed"}

\* The elements of s for a variable, and whether element k was put before or after a value
\* there was; the first one is the value, whatever its mode.
Own(s, n) == {k \in DOMAIN s : s[k].name = n}
Added(s, k, mode) == s[k].mode = mode /\ \E l \in Own(s, s[k].name) : l < k

\* The elements whose texts stand before that of element k.
Before(s, k) ==
    {l \in Own(s, s[k].name) :
        IF Added(s, l, "prepend") THEN Added(s, k, "prepend") => l > k
                                  ELSE Added(s, k, "append") /\ l < k}

\* Value v has the texts of the variable in this order, one separator between two texts,
\* and each text that was added has its separator towards the older ones.
JoinedFrom(v, s, n) ==
    /\ Len(v) = 2 * Cardinality(Own(s, n)) - 1
    /\ \A k \in Own(s, n) : LET at == 2 * Cardinality(Before(s, k)) + 1 IN
         /\ v[at] = s[k].text
         /\ Added(s, k, "prepend") => v[at + 1] = s[k].sep
         /\ Added(s, k, "append") => v[at - 1] = s[k].sep

\* However append and prepend follow one another, over several configurations, on a
\* variable that was set, it is the text it was set to with what was prepended before it,
\* latest first, and what was appended after it, each text with its separator towards the
\* older ones.  Of a variable that was never set nothing is said: its first text has no
\* separator, which the gateway's chapter says in one place and denies in another.
VariablesAreJoined ==
    \A n \in DOMAIN m_variables :
        (\E k \in Own(asked, n) : asked[k].mode = "set") => JoinedFrom(m_variables[n], asked, n)

\* "once it has been set to true it will retain its value": after a call that succeeds,
\* an activated gateway that any configuration enabled, in a call that failed too, has
\* its socket mounted and its variable set, and where the environment gateway sets the
\* same variable it has its way.
EnabledIsServed ==
    envReply = "activated" =>
        \A g \in Sockets : LET n == IF g = "pulse" THEN Pulse ELSE Xdg IN
            wanted[g] /\ envState[g] = "activated" =>
                /\ mounts[g] = 1
                /\ n \in DOMAIN env
                /\ envState["env"] = "activated" /\ n \in DOMAIN m_variables => env[n] = m_variables[n]

\* waylandgateway.cpp: "bind-mounting again would fail".  No call mounts a socket that
\* is mounted, though the Wayland gateway is activated again and again.
NeverMountedTwice == \A g \in Sockets : mounts[g] <= 1

\* "These will override any variables with the same name previously set by the
\* Environment gateway", and the other variables of the gateways reach the process.
JobOverrides ==
    envReply = "executed" =>
        \A n \in DOMAIN process.job \cup DOMAIN env :
            process.sees[n] = IF n \in DOMAIN process.job THEN process.job[n] ELSE env[n]

\* Three gateways and the jobs share one map of variables, and each has its way in what
\* is its own.
VariablesAreSound ==
    VariablesAreJoined /\ EnabledIsServed /\ NeverMountedTwice /\ JobOverrides
=============================================================================
