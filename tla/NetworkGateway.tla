--------------------------- MODULE NetworkGateway ---------------------------
(***************************************************************************)
(* NetworkGateway with NetworkGatewayParser and IPTableEntry: the rules of *)
(* the configuration, the interface and the default route in the           *)
(* container, and the iptables commands run there.  Each FunctionJob is a  *)
(* step of its own, since processes of the container run meanwhile.        *)
(*                                                                         *)
(* A job may do less than its answer says.  Nobody looks whether start()   *)
(* worked, and WEXITSTATUS is 0 for a process that was killed, so a job    *)
(* that did nothing, or only its first steps, may count as successful;     *)
(* lost remembers what such a job was for.                                 *)
(*                                                                         *)
(* A packet has a protocol, the host at the other end and a port there;    *)
(* of hosts and ports it matters only whether a rule names them.  A rule of*)
(* the configuration names a host or "*", lists protocols, and has no      *)
(* ports, one, many (a range or a list), or ports of a wrong type.         *)
(***************************************************************************)
EXTENDS Naturals, Sequences, FiniteSets, SequencesExt

CONSTANTS
    ProtocolLists,   \* lists of protocols; <<>> stands for the absent key as well
    MaxElements,     \* bound on the configuration elements read
    MaxActivations   \* bound on the calls of activate

ASSUME NetworkAssumption == {MaxElements, MaxActivations} \subseteq Nat

Chains    == {"INPUT", "OUTPUT"}
Protocols == {"tcp", "udp", "icmp"}

RuleConfigs == [host : {"*", "named"}, protocols : ProtocolLists,
                ports : {"absent", "one", "many", "wrong"}]

Packets == {p \in [proto : Protocols, host : {"named", "other"},
                   port : {"named", "other", "none"}] :
              p.proto = "icmp" <=> p.port = "none"}

VARIABLES
    gateway,  \* whether m_gateway, the address of the bridge, is set
    st,       \* the state of the Gateway: "created", "configured", "activated"
    entries,  \* m_entries: chain and rule of each
    rules,    \* history: the configured rules that were accepted, with their chains
    step,     \* the next step of activateGateway, or "idle"
    k,        \* the entry whose job is next
    attempts, \* calls of activate so far
    init,     \* m_interfaceInitialized
    net,      \* in the container: link up, address set, default route set
    table,    \* commands iptables has in each chain
    policy,   \* and the policy of each chain
    lost      \* history: the link, the route or the chains whose job of this activation, or
              \* of the one that initialised the interface, did not do what it answered

networkVars == <<gateway, st, entries, rules, step, k, attempts, init, net, table, policy, lost>>

NetworkInit ==
    /\ gateway \in BOOLEAN
    /\ st = "created" /\ entries = <<>> /\ rules = {} /\ step = "idle" /\ k = 1
    /\ attempts = 0 /\ init = FALSE
    /\ net = [link |-> FALSE, address |-> FALSE, route |-> FALSE]
    /\ table = [c \in Chains |-> {}] /\ policy = [c \in Chains |-> "ACCEPT"]
    /\ lost = {}

----------------------------------------------------------------------------
(***************************************************************************)
(* The parser.                                                             *)
(***************************************************************************)
\* parseProtocol keeps what comes before the first entry that is no protocol.
ParseProtocol(list) ==
    LET bad == {j \in DOMAIN list : list[j] \notin Protocols}
    IN  IF bad = {} THEN list
        ELSE SubSeq(list, 1, (CHOOSE j \in bad : \A i \in bad : j <= i) - 1)

\* parsePort leaves the filter as it was constructed if the type is wrong.
ParsePort(ports) == IF ports = "wrong" THEN "absent" ELSE ports

\* Mutant: the host is not copied.
ParseRuleNoHost(r) ==
    [host |-> "*", protocols |-> ParseProtocol(r.protocols), ports |-> ParsePort(r.ports)]

\* parseRule does not look at the results of parsePort and parseProtocol.
ParseRule(r) ==
    [host |-> r.host, protocols |-> ParseProtocol(r.protocols), ports |-> ParsePort(r.ports)]

\* readConfigElement and Gateway::setConfig of one element; one without direction or
\* rules is refused.
SetNetworkConfig(chain, r) ==
    /\ step = "idle" /\ st # "activated" /\ Len(entries) < MaxElements
    /\ entries' = Append(entries, [chain |-> chain, rule |-> ParseRule(r)])
    /\ rules' = rules \cup {[chain |-> chain, rule |-> r]}
    /\ st' = "configured"
    /\ UNCHANGED <<gateway, step, k, attempts, init, net, table, policy, lost>>

----------------------------------------------------------------------------
(***************************************************************************)
(* IPTableEntry.                                                           *)
(***************************************************************************)
\* interpretRule and interpretRuleWithProtocol.
InterpretRule(r) ==
    [host |-> r.host, ports |-> r.ports,
     proto |-> CASE r.ports = "one" -> "tcp" [] r.ports = "many" -> "all" [] OTHER -> "any"]

InterpretRuleWithProtocol(r, proto) == [host |-> r.host, ports |-> r.ports, proto |-> proto]

CommandsOf(r) ==
    IF r.protocols = <<>> THEN {InterpretRule(r)}
    ELSE {InterpretRuleWithProtocol(r, r.protocols[j]) : j \in DOMAIN r.protocols}

\* External: iptables knows ports of tcp and udp only.
Valid(c) == c.ports # "absent" => c.proto \in {"tcp", "udp"}

Matches(c, p) ==
    /\ c.host = "*" \/ p.host = "named"
    /\ c.proto \in {"any", "all", p.proto}
    /\ c.ports = "absent" \/ p.port = "named"

Accepted(chain, p) == policy[chain] = "ACCEPT" \/ \E c \in table[chain] : Matches(c, p)

\* Mutant: the default target is REJECT, which is no policy of a chain, and is not checked.
InterpretPolicyReject == "REJECT"

\* interpretPolicy of m_defaultTarget.
InterpretPolicy == "DROP"

----------------------------------------------------------------------------
(***************************************************************************)
(* activateGateway.  A failed activation leaves the state "configured", so *)
(* another SetCapabilities tries again.                                    *)
(***************************************************************************)
NetworkEnds(result) ==
    /\ step' = "idle" /\ k' = 1
    /\ st' = IF result THEN "activated" ELSE st

\* Without a gateway there is no network.  isBridgeAvailable and generateIP succeed or
\* not.
Begin ==
    /\ step = "idle" /\ st = "configured" /\ attempts < MaxActivations
    /\ attempts' = attempts + 1
    /\ lost' = lost \ Chains
    /\ \/ ~gateway /\ NetworkEnds(TRUE)
       \/ gateway /\ step' = "up" /\ UNCHANGED <<st, k>>
       \/ gateway /\ NetworkEnds(FALSE)
    /\ UNCHANGED <<gateway, entries, rules, init, net, table, policy>>

\* up(): an interface that is initialised is left alone.
UpAgain ==
    /\ step = "up" /\ init
    /\ step' = "entries"
    /\ UNCHANGED <<gateway, st, entries, rules, k, attempts, init, net, table, policy, lost>>

Outcomes == {"NO_LINK", "BAD_LINKUP", "BAD_SETIP", "SUCCESS"}

\* What is lost once a job for these has counted as successful.
LostAfter(what, did) == IF did THEN lost ELSE lost \cup {what}

\* The job: eth0 is found, brought up and given its address.  It gets as far as the
\* outcome up says; wait() gives that outcome, or 0 although the job was killed there or,
\* with nothing done, was never started.
UpResult(up, answer) ==
    /\ net' = [net EXCEPT !.link = @ \/ up \in {"BAD_SETIP", "SUCCESS"},
                          !.address = @ \/ up = "SUCCESS"]
    /\ IF answer = "SUCCESS"
       THEN /\ init' = TRUE /\ step' = "route" /\ UNCHANGED <<st, k>>
            /\ lost' = LostAfter("link", up = "SUCCESS")
       ELSE NetworkEnds(FALSE) /\ UNCHANGED <<init, lost>>

Up ==
    /\ step = "up" /\ ~init
    /\ \E up \in Outcomes : \E answer \in {up, "SUCCESS"} : UpResult(up, answer)
    /\ UNCHANGED <<gateway, entries, rules, attempts, table, policy>>

\* The route is set, or the job counts as successful without, or it has failed.
SetDefaultGateway ==
    /\ step = "route"
    /\ \/ \E set \in BOOLEAN :
            /\ net' = [net EXCEPT !.route = @ \/ set]
            /\ lost' = LostAfter("route", set)
            /\ step' = "entries" /\ UNCHANGED <<st, k>>
       \/ NetworkEnds(FALSE) /\ UNCHANGED <<net, lost>>
    /\ UNCHANGED <<gateway, entries, rules, attempts, init, table, policy>>

\* applyRules: the commands of the rule, then the policy.  insertCommand fails if
\* iptables cannot be run; what iptables says is not looked at, and it may refuse a valid
\* command too (a host that does not resolve, a lock that is held).
ApplyRules ==
    /\ step = "entries" /\ k <= Len(entries)
    /\ LET e == entries[k]
           cmds == {c \in CommandsOf(e.rule) : Valid(c)}
       IN  \E taken \in SUBSET cmds, set \in BOOLEAN :
             /\ table' = [table EXCEPT ![e.chain] = @ \cup taken]
             /\ policy' = IF set THEN [policy EXCEPT ![e.chain] = InterpretPolicy] ELSE policy
             /\ \/ /\ k' = k + 1 /\ UNCHANGED <<st, step>>
                   /\ lost' = LostAfter(e.chain, taken = cmds /\ set)
                \/ ~set /\ NetworkEnds(FALSE) /\ UNCHANGED lost
    /\ UNCHANGED <<gateway, entries, rules, attempts, init, net>>

Finish ==
    /\ step = "entries" /\ k > Len(entries)
    /\ NetworkEnds(TRUE)
    /\ UNCHANGED <<gateway, entries, rules, attempts, init, net, table, policy, lost>>

\* teardownGateway does nothing; the name space goes with the container.
NetworkRest == step = "idle" /\ (st = "activated" \/ attempts = MaxActivations) /\ UNCHANGED networkVars

NetworkNext ==
    \/ \E chain \in Chains, r \in RuleConfigs : SetNetworkConfig(chain, r)
    \/ Begin \/ UpAgain \/ Up \/ SetDefaultGateway \/ ApplyRules \/ Finish
    \/ NetworkRest

NetworkSpec == NetworkInit /\ [][NetworkNext]_networkVars

----------------------------------------------------------------------------
\* Only commands iptables takes are in the table, and no more entries are applied
\* than there are.
NetworkTypeOK ==
    /\ st \in {"created", "configured", "activated"} /\ attempts \in 0..MaxActivations
    /\ step \in {"idle", "up", "route", "entries"} /\ k \in 1..(MaxElements + 1)
    /\ net \in [link : BOOLEAN, address : BOOLEAN, route : BOOLEAN]
    /\ policy \in [Chains -> {"ACCEPT", "DROP"}]
    /\ lost \subseteq {"link", "route"} \cup Chains
    /\ \A chain \in Chains : \A c \in table[chain] : Valid(c)

WellFormed(r) ==
    /\ r.ports # "wrong"
    /\ \A j \in DOMAIN r.protocols : r.protocols[j] \in Protocols

HostAllowed(r, p) == r.host = "*" \/ p.host = "named"

\* What the documentation says a rule allows.
Allows(r, p) ==
    /\ WellFormed(r) /\ HostAllowed(r, p)
    /\ r.protocols = <<>> \/ \E j \in DOMAIN r.protocols : r.protocols[j] = p.proto
    /\ r.ports = "absent" \/ p.port = "named"

Networked == st = "activated" /\ gateway

RulesFor(chain) == {a.rule : a \in {b \in rules : b.chain = chain}}

\* A rule parsePort or parseProtocol has only read in part is applied as it is, so it is
\* about its host and some or all of the rest.
Widened(r, p) == ~WellFormed(r) /\ HostAllowed(r, p)

\* Once activated, a chain some element was about, and whose jobs did what they
\* answered, drops what no command of it matches.
ActivatedIsClosed ==
    Networked => \A chain \in Chains \ lost : RulesFor(chain) # {} => policy[chain] = "DROP"

\* A chain that drops the rest lets a packet pass only if an accepted rule allows it or
\* was widened; at any time, also half-way and after activations that failed.
OnlyAllowedPasses ==
    \A chain \in Chains, p \in Packets :
        policy[chain] = "DROP" /\ Accepted(chain, p) =>
            \E r \in RulesFor(chain) : Allows(r, p) \/ Widened(r, p)

\* Once activated, and if the jobs of the chain did what they answered, what a well-formed
\* rule allows does pass, unless the rule has ports without protocols.
AllowedPasses ==
    Networked => \A chain \in Chains \ lost, p \in Packets :
        (\E r \in RulesFor(chain) : Allows(r, p) /\ (r.protocols # <<>> \/ r.ports = "absent"))
          => Accepted(chain, p)

\* An activated gateway has brought the interface up with an address, also after
\* activations that failed at any step before, unless the job that did it counts as
\* successful and was not; one without a bridge address has not.
ActivatedIsUp ==
    /\ Networked /\ "link" \notin lost => net.link /\ net.address
    /\ ~gateway => ~net.link /\ ~net.address

\* An activated gateway lets through what the rules allow and nothing else, over an
\* interface that is up, whichever activations failed before; what its jobs answered and
\* did not do is excepted, for the link or the chain it was for and no other.
RulesDecide == ActivatedIsClosed /\ OnlyAllowedPasses /\ AllowedPasses /\ ActivatedIsUp

----------------------------------------------------------------------------
\* "During subsequent calls, this merely brings up the existing network interface and
\* calls setDefaultGateway()": an activated gateway all of whose jobs did what they
\* answered has set the default route.
ActivatedHasRoute == Networked /\ lost = {} => net.route
=============================================================================
