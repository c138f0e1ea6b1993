----------------------------- MODULE DBusGateway -----------------------------
(***************************************************************************)
(* The D-Bus gateway: two DBusGatewayInstances, one for each bus, each of  *)
(* which is a dynamic Gateway that runs a dbus-proxy process and writes    *)
(* its filter list to the standard input of that process.                  *)
(*                                                                         *)
(* The world is one record d, because a call of the gateway runs several   *)
(* methods of both instances to completion:                                *)
(*   bus    the instances                                                  *)
(*   proc   the processes spawned so far, numbered in order                *)
(*   sock   the buses whose socket file exists                             *)
(*   env    the buses whose address variable is set in the container       *)
(*   misuse the calls that named a process or a descriptor no longer owned *)
(***************************************************************************)
EXTENDS Naturals, Sequences, FiniteSets

CONSTANTS
    Entries,         \* rules of a proxy's filter list
    HostBuses,       \* the buses whose address the agent's environment names
    Arrays,          \* configurations: sequences of elements
    MaxProxies       \* bound on the processes spawned

Buses == {"session", "system"}

VARIABLES
    d,               \* the gateway and its processes
    last,            \* the last call and its result
    gone             \* the gateway has been destroyed

dbusVars == <<d, last, gone>>

G == INSTANCE Gateway WITH NGateways <- 2, Dynamic <- 1..2, Flagging <- 1..2,
                           Unchecked <- {}, Elements <- Entries

\* What an element of a configuration has under the key of a bus: nothing, an
\* array of objects, or something that is no such array; then entries are the
\* objects before the first one that is none.
BusElement == [kind : {"absent", "list", "bad"}, entries : SUBSET Entries]

ASSUME DBusAssumption ==
    /\ HostBuses \subseteq Buses /\ MaxProxies \in Nat
    /\ Arrays \subseteq Seq([Buses -> BusElement])

\* m_state, m_activatedOnce, m_busConfig, what the proxy was sent, m_pid (0 is
\* INVALID_PID) and m_proxyStdin.
InstanceRec == [st : G!GwCREATED..G!GwACTIVATED, once : BOOLEAN,
                stored : SUBSET Entries, live : SUBSET Entries,
                pid : 0..MaxProxies, fd : {"none", "open", "closed"}]

\* A process and the bus it serves; a process that ended stays a zombie until
\* waitpid reaps it.
ProcessRec == [bus : Buses, st : {"running", "zombie", "reaped"}]

NewInstance ==
    [st |-> G!GwCREATED, once |-> FALSE, stored |-> {}, live |-> {}, pid |-> 0,
     fd |-> "none"]

Out(res, w) == [res |-> res, d |-> w]

----------------------------------------------------------------------------
(***************************************************************************)
(* Configuration.                                                          *)
(***************************************************************************)

\* readConfigElement and the parser's appends to m_busConfig.
Read(w, b, entries) == [w EXCEPT !.bus[b].stored = @ \cup entries]

\* Gateway::setConfig of one instance: the loop ends at the first element
\* without the bus's key (false) or with a bad value (GatewayParserError); the
\* entries read up to there stay in m_busConfig.
InstSetConfig(w, b, arr) ==
    LET stops   == {i \in DOMAIN arr : arr[i][b].kind # "list"}
        stop    == CHOOSE i \in stops : \A j \in stops : i <= j
        upto    == IF stops = {} THEN Len(arr)
                   ELSE IF arr[stop][b].kind = "bad" THEN stop ELSE stop - 1
        read    == Read(w, b, UNION {arr[i][b].entries : i \in 1..upto})
    IN  IF arr = <<>> THEN Out("false", w)
        ELSE IF stops = {} THEN Out("true", [read EXCEPT !.bus[b].st = G!GwCONFIGURED])
        ELSE IF arr[stop][b].kind = "bad" THEN Out("throw", read)
        ELSE Out("false", read)

\* DBusGateway::setConfig: both instances get the whole array, and one of them
\* has to take it.  An exception of the first one keeps the second from seeing it.
SetConfigOut(w, arr) ==
    LET sess == InstSetConfig(w, "session", arr)
        sys  == InstSetConfig(sess.d, "system", arr)
    IN  IF sess.res = "throw" THEN Out("false", sess.d)
        ELSE IF sys.res = "throw" THEN Out("false", sys.d)
        ELSE Out(IF "true" \in {sess.res, sys.res} THEN "true" ELSE "false", sys.d)

----------------------------------------------------------------------------
(***************************************************************************)
(* Activation.                                                             *)
(***************************************************************************)

\* Mutant: m_pid is one variable for both instances.
StartDBusProxyOutShared(w, b) ==
    {Out("false", w)} \cup
    (IF Len(w.proc) = MaxProxies THEN {}
     ELSE {Out("true", [w EXCEPT !.proc = Append(@, [bus |-> b, st |-> "running"]),
                                 !.bus = [c \in Buses |-> [@[c] EXCEPT !.pid = Len(w.proc) + 1]],
                                 !.bus[b].fd = "open", !.bus[b].once = TRUE])})

\* startDBusProxy(): the process may not be spawned; m_activatedOnce is set as
\* soon as it is.
StartDBusProxyOut(w, b) ==
    {Out("false", w)} \cup
    (IF Len(w.proc) = MaxProxies THEN {}
     ELSE {Out("true", [w EXCEPT !.proc = Append(@, [bus |-> b, st |-> "running"]),
                                 !.bus[b].pid = Len(w.proc) + 1, !.bus[b].fd = "open",
                                 !.bus[b].once = TRUE])})

\* testDBusConnection(config): a proxy that has ended or ends now makes write(2)
\* fail, and the write may be cut short; else the proxy has its list, and
\* isSocketCreated() finds the socket or gives up after ten seconds.
TestDBusConnectionOut(w, b) ==
    LET pid  == w.bus[b].pid
        dead == [w EXCEPT !.proc[pid].st = "zombie"]
        sent == [w EXCEPT !.bus[b].live = w.bus[b].stored]
    IN  {Out("false", dead), Out("false", w)} \cup
        (IF w.proc[pid].st # "running" THEN {}
         ELSE {Out("true", [sent EXCEPT !.sock = @ \cup {b}])} \cup
              (IF b \in w.sock THEN {} ELSE {Out("false", sent)}))

\* activateGateway(): the first time the container's variable is set and the proxy
\* started, for the session bus only if the agent knows the bus's address.
ActivateGatewayOut(w, b) ==
    LET named   == [w EXCEPT !.env = @ \cup {b}]
        Started == IF b = "session" /\ b \notin HostBuses THEN {Out("false", named)}
                   ELSE StartDBusProxyOut(named, b)
    IN  IF w.bus[b].once THEN TestDBusConnectionOut(w, b)
        ELSE UNION {IF r.res = "true" THEN TestDBusConnectionOut(r.d, b) ELSE {r} :
                    r \in Started}

\* Gateway::activate of one instance, which throws unless it is CONFIGURED.
InstActivateOut(w, b) ==
    IF w.bus[b].st # G!GwCONFIGURED THEN {Out("throw", w)}
    ELSE {IF r.res = "true" THEN Out("true", [r.d EXCEPT !.bus[b].st = G!GwACTIVATED])
          ELSE r : r \in ActivateGatewayOut(w, b)}

\* DBusGateway::activate: the session bus, then the system bus, whose result is
\* assigned to the variable of the session bus's.
ActivateOut(w) ==
    LET Sess == IF G!IsConfigured(w.bus["session"])
                  THEN InstActivateOut(w, "session") ELSE {Out("false", w)}
        Sys(r) == IF r.res # "throw" /\ G!IsConfigured(r.d.bus["system"])
                    THEN InstActivateOut(r.d, "system") ELSE {r}
    IN  UNION {Sys(r) : r \in Sess}

----------------------------------------------------------------------------
(***************************************************************************)
(* Teardown and destruction.                                               *)
(***************************************************************************)

\* teardownGateway(): kill and reap m_pid, which is not reset; remove the socket,
\* which may fail; close the descriptor.
TeardownGatewayOut(w, b) ==
    LET pid    == w.bus[b].pid
        stray  == (IF pid # 0 /\ w.proc[pid].st = "reaped" THEN {"kill"} ELSE {})
                  \cup (IF w.bus[b].fd = "closed" THEN {"close"} ELSE {})
        reaped == [w EXCEPT !.proc = [p \in DOMAIN @ |->
                                IF p = pid THEN [@[p] EXCEPT !.st = "reaped"] ELSE @[p]],
                            !.bus[b].fd = IF @ = "none" THEN @ ELSE "closed",
                            !.misuse = @ \cup stray]
    IN  {Out("true", [reaped EXCEPT !.sock = @ \ {b}])}
        \cup (IF b \in w.sock THEN {Out("false", reaped)} ELSE {})

\* Mutant: teardown() forgets to take m_activatedOnce back.
InstTeardownOutKeeps(w, b) ==
    IF ~w.bus[b].once THEN {Out("false", w)}
    ELSE {IF r.res = "true" THEN Out("true", [r.d EXCEPT !.bus[b].st = G!GwCREATED])
            ELSE r : r \in TeardownGatewayOut(w, b)}

\* Gateway::teardown, called where isActivated() holds.
InstTeardownOut(w, b) ==
    IF ~w.bus[b].once THEN {Out("false", w)}
    ELSE {IF r.res = "true"
            THEN Out("true", [r.d EXCEPT !.bus[b].st = G!GwCREATED, !.bus[b].once = FALSE])
            ELSE r : r \in TeardownGatewayOut(w, b)}

\* DBusGateway::teardown and the destructors of the instances; the last member
\* is destroyed first.
TeardownOut(w) ==
    UNION {{q.d : q \in InstTeardownOut(r.d, "system")} : r \in InstTeardownOut(w, "session")}

\* Mutant: the extra teardown of the destructor is removed.
DestructOutNothing(w) == {w}

DestructOut(w) ==
    UNION {{q.d : q \in InstTeardownOut(r.d, "session")} : r \in InstTeardownOut(w, "system")}

----------------------------------------------------------------------------
DBusInit ==
    /\ d = [bus |-> [b \in Buses |-> NewInstance], proc |-> <<>>, sock |-> {},
            env |-> {}, misuse |-> {}]
    /\ last = [call |-> "none", res |-> "none", arr |-> <<>>]
    /\ gone = FALSE

\* configureGateways() gives the gateway its array.
SetConfig(arr) ==
    /\ ~gone
    /\ LET r == SetConfigOut(d, arr)
       IN  d' = r.d /\ last' = [call |-> "setConfig", res |-> r.res, arr |-> arr]
    /\ UNCHANGED gone

\* activateGateways() activates it if isConfigured().
Activate ==
    /\ ~gone /\ \E b \in Buses : G!IsConfigured(d.bus[b])
    /\ \E r \in ActivateOut(d) :
          d' = r.d /\ last' = [call |-> "activate", res |-> r.res, arr |-> <<>>]
    /\ UNCHANGED gone

\* shutdownGateways(): teardown if isActivated(), then the object is dropped.
Shutdown ==
    /\ ~gone /\ \E b \in Buses : d.bus[b].once
    /\ d' \in UNION {DestructOut(w) : w \in TeardownOut(d)}
    /\ gone' = TRUE /\ last' = [call |-> "shutdown", res |-> "none", arr |-> <<>>]

\* The object is dropped without a shutdown, as by ~SoftwareContainer.
Destruct ==
    /\ ~gone
    /\ d' \in DestructOut(d)
    /\ gone' = TRUE /\ last' = [call |-> "destruct", res |-> "none", arr |-> <<>>]

\* External: a proxy ends on its own, or makes its socket after the wait for it.
ProxyDies(p) ==
    /\ d.proc[p].st = "running"
    /\ d' = [d EXCEPT !.proc[p].st = "zombie"]
    /\ UNCHANGED <<last, gone>>

LateSocket(p) ==
    /\ d.proc[p].st = "running" /\ d.proc[p].bus \notin d.sock
    /\ d' = [d EXCEPT !.sock = @ \cup {d.proc[p].bus}]
    /\ UNCHANGED <<last, gone>>

DBusRest == gone /\ UNCHANGED dbusVars

DBusNext ==
    \/ \E arr \in Arrays : SetConfig(arr)
    \/ Activate
    \/ Shutdown
    \/ Destruct
    \/ \E p \in DOMAIN d.proc : ProxyDies(p) \/ LateSocket(p)
    \/ DBusRest

DBusSpec == DBusInit /\ [][DBusNext]_dbusVars

----------------------------------------------------------------------------
(***************************************************************************)
(* Properties.                                                             *)
(***************************************************************************)

\* Types of the gateway's members, and m_pid names the instance's own process.
DBusTypeOK ==
    /\ d.bus \in [Buses -> InstanceRec]
    /\ d.proc \in Seq(ProcessRec) /\ Len(d.proc) <= MaxProxies
    /\ d.sock \subseteq Buses /\ d.env \subseteq Buses /\ d.misuse \subseteq {"kill", "close"}
    /\ gone \in BOOLEAN
    /\ \A b \in Buses : d.bus[b].pid # 0 =>
          d.bus[b].pid \in DOMAIN d.proc /\ d.proc[d.bus[b].pid].bus = b

\* No dbus-proxy outlives the gateway, as a process or as a zombie, whatever
\* failed before and whether or not shutdownGateways() was called.
NoProxyOutlives == gone => \A p \in DOMAIN d.proc : d.proc[p].st = "reaped"

\* A bus never has two dbus-proxy processes, although activateGateway() may be
\* run again after any of its failures.
OneProxyPerBus ==
    \A b \in Buses :
        Cardinality({p \in DOMAIN d.proc : d.proc[p].bus = b /\ d.proc[p].st # "reaped"}) <= 1

\* While the gateway exists what a dbus-proxy lets through is only ever extended:
\* m_busConfig is appended to, by configurations that fail as well.
FilterOnlyGrows == \A b \in Buses : d.bus[b].live \subseteq d'.bus[b].live

\* Each instance is a dynamic gateway that sets m_activatedOnce, as module Gateway
\* has it: setConfig and activate change it only as the base class's outcomes say, and
\* the instance's own answers are true (it is the pair that is Unchecked).
AsGateway(g) == [st |-> g.st, once |-> g.once, stored |-> g.stored, live |-> g.live]

GatewaySteps(g) ==
    {g} \cup {G!ConfiguredGw(g, S) : S \in SUBSET Entries}
        \cup {[g EXCEPT !.stored = @ \cup S] : S \in SUBSET Entries}
        \cup (IF ~G!CanActivate(g) THEN {}
              ELSE {G!ActivatedGw(1, g, {})} \cup {r.gw : r \in G!ActivateFailOut(1, g)})

InstancesAreGateways ==
    gone' \/ \A b \in Buses : AsGateway(d'.bus[b]) \in GatewaySteps(AsGateway(d.bus[b]))

\* The destructor's extra teardown() repeats the one of shutdownGateways() only where a
\* socket could not be removed: otherwise no process id is signalled after it was reaped
\* and no descriptor is closed twice.
ReapedOnce == d'.misuse # d.misuse => d.sock # {}

\* Every dbus-proxy is alone on its bus and is reaped in the end.
ProxiesAreReaped == NoProxyOutlives /\ OneProxyPerBus

\* In every step the instances change as dynamic gateways do, never take back what they let through,
\* and release their process once.
BusesAreGateways == [][InstancesAreGateways /\ FilterOnlyGrows /\ ReapedOnce]_dbusVars

\* gateway.h, activate(): "true upon successful application of configuration": that of
\* every bus that has one.
ActivateAppliesAll ==
    last.call = "activate" /\ last.res = "true" =>
        \A b \in Buses : G!IsConfigured(d.bus[b]) => d.bus[b].live = d.bus[b].stored
=============================================================================
