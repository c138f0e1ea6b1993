--------------------------- MODULE Gateways_proofs ---------------------------
(***************************************************************************)
(* The D-Bus, cgroups and device node gateways and the environment, for    *)
(* every set of configurations and every number of calls.                  *)
(*                                                                         *)
(* First the D-Bus gateway.  The world w, x, y of these lemmas is the      *)
(* record d of module DBusGateway, between two methods of a call as well   *)
(* as between two calls.                                                   *)
(***************************************************************************)
EXTENDS MCGateways, FiniteSetTheorems, NaturalsInduction, WellFoundedInduction, TLAPS

USE DEF G!GwCREATED, G!GwCONFIGURED, G!GwACTIVATED

World == [bus : [Buses -> InstanceRec], proc : Seq(ProcessRec), sock : SUBSET Buses,
          env : SUBSET Buses, misuse : SUBSET {"kill", "close"}]

\* m_pid of an instance is its own process; an instance that says it was activated has
\* one, and it has every process of its bus that is not reaped.
Owned(w) ==
    /\ \A b \in Buses : w.bus[b].pid # 0 =>
          w.bus[b].pid \in DOMAIN w.proc /\ w.proc[w.bus[b].pid].bus = b
    /\ \A b \in Buses : w.bus[b].once => w.bus[b].pid # 0
    /\ \A p \in DOMAIN w.proc : w.proc[p].st # "reaped" =>
          w.bus[w.proc[p].bus].once /\ w.bus[w.proc[p].bus].pid = p

\* A proxy is sent what its instance has stored.
Sent(w) == \A b \in Buses : w.bus[b].live \subseteq w.bus[b].stored

Good(w) == w \in World /\ Len(w.proc) <= MaxProxies /\ Owned(w) /\ Sent(w)

\* Until the gateway is torn down nothing is reaped or closed.
Untouched(w) ==
    /\ \A p \in DOMAIN w.proc : w.proc[p].st # "reaped"
    /\ \A b \in Buses : w.bus[b].fd # "closed"

AllReaped(w, b) == \A p \in DOMAIN w.proc : w.proc[p].bus = b => w.proc[p].st = "reaped"

\* The inductive invariant.
DBusInv ==
    /\ Good(d) /\ gone \in BOOLEAN
    /\ ~gone => Untouched(d)
    /\ gone => \A b \in Buses : AllReaped(d, b)

\* From w to x only the instance of b has changed.
OnlyBus(w, x, b) ==
    /\ x \in World
    /\ x.proc = w.proc /\ x.sock = w.sock /\ x.env = w.env /\ x.misuse = w.misuse
    /\ \A c \in Buses : c # b => x.bus[c] = w.bus[c]

----------------------------------------------------------------------------
(***************************************************************************)
(* The assignments of the methods, one by one.                             *)
(***************************************************************************)
SetSt(w, b, v)     == [w EXCEPT !.bus[b].st = v]
SetOnce(w, b, v)   == [w EXCEPT !.bus[b].once = v]
SetStored(w, b, v) == [w EXCEPT !.bus[b].stored = v]
SetLive(w, b, v)   == [w EXCEPT !.bus[b].live = v]
SetPid(w, b, v)    == [w EXCEPT !.bus[b].pid = v]
SetFd(w, b, v)     == [w EXCEPT !.bus[b].fd = v]
SetProc(w, v)      == [w EXCEPT !.proc = v]
SetSock(w, v)      == [w EXCEPT !.sock = v]
SetEnv(w, v)       == [w EXCEPT !.env = v]
SetMisuse(w, v)    == [w EXCEPT !.misuse = v]

\* The fields of an outcome.
LEMMA OutFields ==
    ASSUME NEW a, NEW w
    PROVE  Out(a, w).res = a /\ Out(a, w).d = w
BY DEF Out

\* A world with another instance for one bus.
LEMMA PutLemma ==
    ASSUME NEW w \in World, NEW b \in Buses, NEW h \in InstanceRec
    PROVE  LET x == [w EXCEPT !.bus = [w.bus EXCEPT ![b] = h]]
           IN  OnlyBus(w, x, b) /\ x.bus[b] = h
BY DEF World, OnlyBus

\* An assignment to m_state.
LEMMA SetStLemma ==
    ASSUME NEW w \in World, NEW b \in Buses, NEW v \in 0..2
    PROVE  /\ OnlyBus(w, SetSt(w, b, v), b)
           /\ SetSt(w, b, v).bus[b].st = v
           /\ SetSt(w, b, v).bus[b].once = w.bus[b].once
           /\ SetSt(w, b, v).bus[b].stored = w.bus[b].stored
           /\ SetSt(w, b, v).bus[b].live = w.bus[b].live
           /\ SetSt(w, b, v).bus[b].pid = w.bus[b].pid
           /\ SetSt(w, b, v).bus[b].fd = w.bus[b].fd
<1> DEFINE h == [w.bus[b] EXCEPT !.st = v]
<1>1. /\ h \in InstanceRec /\ h.st = v
      /\ h.once = w.bus[b].once /\ h.stored = w.bus[b].stored /\ h.live = w.bus[b].live
      /\ h.pid = w.bus[b].pid /\ h.fd = w.bus[b].fd
  BY DEF World, InstanceRec
<1>2. SetSt(w, b, v) = [w EXCEPT !.bus = [w.bus EXCEPT ![b] = h]]
  BY DEF SetSt
<1> HIDE DEF h
<1>3. OnlyBus(w, SetSt(w, b, v), b) /\ SetSt(w, b, v).bus[b] = h
  BY <1>1, <1>2, PutLemma DEF OnlyBus
<1> QED
  BY <1>1, <1>3

\* An assignment to m_activatedOnce.
LEMMA SetOnceLemma ==
    ASSUME NEW w \in World, NEW b \in Buses, NEW v \in BOOLEAN
    PROVE  /\ OnlyBus(w, SetOnce(w, b, v), b)
           /\ SetOnce(w, b, v).bus[b].once = v
           /\ SetOnce(w, b, v).bus[b].st = w.bus[b].st
           /\ SetOnce(w, b, v).bus[b].stored = w.bus[b].stored
           /\ SetOnce(w, b, v).bus[b].live = w.bus[b].live
           /\ SetOnce(w, b, v).bus[b].pid = w.bus[b].pid
           /\ SetOnce(w, b, v).bus[b].fd = w.bus[b].fd
<1> DEFINE h == [w.bus[b] EXCEPT !.once = v]
<1>1. /\ h \in InstanceRec /\ h.once = v
      /\ h.st = w.bus[b].st /\ h.stored = w.bus[b].stored /\ h.live = w.bus[b].live
      /\ h.pid = w.bus[b].pid /\ h.fd = w.bus[b].fd
  BY DEF World, InstanceRec
<1>2. SetOnce(w, b, v) = [w EXCEPT !.bus = [w.bus EXCEPT ![b] = h]]
  BY DEF SetOnce
<1> HIDE DEF h
<1>3. OnlyBus(w, SetOnce(w, b, v), b) /\ SetOnce(w, b, v).bus[b] = h
  BY <1>1, <1>2, PutLemma DEF OnlyBus
<1> QED
  BY <1>1, <1>3

\* An assignment to m_busConfig.
LEMMA SetStoredLemma ==
    ASSUME NEW w \in World, NEW b \in Buses, NEW v \in SUBSET Entries
    PROVE  /\ OnlyBus(w, SetStored(w, b, v), b)
           /\ SetStored(w, b, v).bus[b].stored = v
           /\ SetStored(w, b, v).bus[b].st = w.bus[b].st
           /\ SetStored(w, b, v).bus[b].once = w.bus[b].once
           /\ SetStored(w, b, v).bus[b].live = w.bus[b].live
           /\ SetStored(w, b, v).bus[b].pid = w.bus[b].pid
           /\ SetStored(w, b, v).bus[b].fd = w.bus[b].fd
<1> DEFINE h == [w.bus[b] EXCEPT !.stored = v]
<1>1. /\ h \in InstanceRec /\ h.stored = v
      /\ h.st = w.bus[b].st /\ h.once = w.bus[b].once /\ h.live = w.bus[b].live
      /\ h.pid = w.bus[b].pid /\ h.fd = w.bus[b].fd
  BY DEF World, InstanceRec
<1>2. SetStored(w, b, v) = [w EXCEPT !.bus = [w.bus EXCEPT ![b] = h]]
  BY DEF SetStored
<1> HIDE DEF h
<1>3. OnlyBus(w, SetStored(w, b, v), b) /\ SetStored(w, b, v).bus[b] = h
  BY <1>1, <1>2, PutLemma DEF OnlyBus
<1> QED
  BY <1>1, <1>3

\* What the proxy has been sent.
LEMMA SetLiveLemma ==
    ASSUME NEW w \in World, NEW b \in Buses, NEW v \in SUBSET Entries
    PROVE  /\ OnlyBus(w, SetLive(w, b, v), b)
           /\ SetLive(w, b, v).bus[b].live = v
           /\ SetLive(w, b, v).bus[b].st = w.bus[b].st
           /\ SetLive(w, b, v).bus[b].once = w.bus[b].once
           /\ SetLive(w, b, v).bus[b].stored = w.bus[b].stored
           /\ SetLive(w, b, v).bus[b].pid = w.bus[b].pid
           /\ SetLive(w, b, v).bus[b].fd = w.bus[b].fd
<1> DEFINE h == [w.bus[b] EXCEPT !.live = v]
<1>1. /\ h \in InstanceRec /\ h.live = v
      /\ h.st = w.bus[b].st /\ h.once = w.bus[b].once /\ h.stored = w.bus[b].stored
      /\ h.pid = w.bus[b].pid /\ h.fd = w.bus[b].fd
  BY DEF World, InstanceRec
<1>2. SetLive(w, b, v) = [w EXCEPT !.bus = [w.bus EXCEPT ![b] = h]]
  BY DEF SetLive
<1> HIDE DEF h
<1>3. OnlyBus(w, SetLive(w, b, v), b) /\ SetLive(w, b, v).bus[b] = h
  BY <1>1, <1>2, PutLemma DEF OnlyBus
<1> QED
  BY <1>1, <1>3

\* An assignment to m_pid.
LEMMA SetPidLemma ==
    ASSUME NEW w \in World, NEW b \in Buses, NEW v \in 0..MaxProxies
    PROVE  /\ OnlyBus(w, SetPid(w, b, v), b)
           /\ SetPid(w, b, v).bus[b].pid = v
           /\ SetPid(w, b, v).bus[b].st = w.bus[b].st
           /\ SetPid(w, b, v).bus[b].once = w.bus[b].once
           /\ SetPid(w, b, v).bus[b].stored = w.bus[b].stored
           /\ SetPid(w, b, v).bus[b].live = w.bus[b].live
           /\ SetPid(w, b, v).bus[b].fd = w.bus[b].fd
<1> DEFINE h == [w.bus[b] EXCEPT !.pid = v]
<1>1. /\ h \in InstanceRec /\ h.pid = v
      /\ h.st = w.bus[b].st /\ h.once = w.bus[b].once /\ h.stored = w.bus[b].stored
      /\ h.live = w.bus[b].live /\ h.fd = w.bus[b].fd
  BY DEF World, InstanceRec
<1>2. SetPid(w, b, v) = [w EXCEPT !.bus = [w.bus EXCEPT ![b] = h]]
  BY DEF SetPid
<1> HIDE DEF h
<1>3. OnlyBus(w, SetPid(w, b, v), b) /\ SetPid(w, b, v).bus[b] = h
  BY <1>1, <1>2, PutLemma DEF OnlyBus
<1> QED
  BY <1>1, <1>3

\* An assignment to m_proxyStdin.
LEMMA SetFdLemma ==
    ASSUME NEW w \in World, NEW b \in Buses, NEW v \in {"none", "open", "closed"}
    PROVE  /\ OnlyBus(w, SetFd(w, b, v), b)
           /\ SetFd(w, b, v).bus[b].fd = v
           /\ SetFd(w, b, v).bus[b].st = w.bus[b].st
           /\ SetFd(w, b, v).bus[b].once = w.bus[b].once
           /\ SetFd(w, b, v).bus[b].stored = w.bus[b].stored
           /\ SetFd(w, b, v).bus[b].live = w.bus[b].live
           /\ SetFd(w, b, v).bus[b].pid = w.bus[b].pid
<1> DEFINE h == [w.bus[b] EXCEPT !.fd = v]
<1>1. /\ h \in InstanceRec /\ h.fd = v
      /\ h.st = w.bus[b].st /\ h.once = w.bus[b].once /\ h.stored = w.bus[b].stored
      /\ h.live = w.bus[b].live /\ h.pid = w.bus[b].pid
  BY DEF World, InstanceRec
<1>2. SetFd(w, b, v) = [w EXCEPT !.bus = [w.bus EXCEPT ![b] = h]]
  BY DEF SetFd
<1> HIDE DEF h
<1>3. OnlyBus(w, SetFd(w, b, v), b) /\ SetFd(w, b, v).bus[b] = h
  BY <1>1, <1>2, PutLemma DEF OnlyBus
<1> QED
  BY <1>1, <1>3

\* The rest of the world.
LEMMA SetRestLemma ==
    ASSUME NEW w \in World
    PROVE  /\ \A v \in Seq(ProcessRec) : LET x == SetProc(w, v) IN
                /\ x \in World /\ x.proc = v /\ x.bus = w.bus
                /\ x.sock = w.sock /\ x.env = w.env /\ x.misuse = w.misuse
           /\ \A v \in SUBSET Buses : LET x == SetSock(w, v) IN
                /\ x \in World /\ x.sock = v /\ x.bus = w.bus
                /\ x.proc = w.proc /\ x.env = w.env /\ x.misuse = w.misuse
           /\ \A v \in SUBSET Buses : LET x == SetEnv(w, v) IN
                /\ x \in World /\ x.env = v /\ x.bus = w.bus
                /\ x.proc = w.proc /\ x.sock = w.sock /\ x.misuse = w.misuse
           /\ \A v \in SUBSET {"kill", "close"} : LET x == SetMisuse(w, v) IN
                /\ x \in World /\ x.misuse = v /\ x.bus = w.bus
                /\ x.proc = w.proc /\ x.sock = w.sock /\ x.env = w.env
BY DEF World, SetProc, SetSock, SetEnv, SetMisuse

----------------------------------------------------------------------------
(***************************************************************************)
(* The instances as gateways.                                              *)
(***************************************************************************)
\* What the base class lets one instance do, without taking back what it lets through.
Step(g, h) == AsGateway(h) \in GatewaySteps(AsGateway(g)) /\ g.live \subseteq h.live

\* setConfig, complete or not, and activate, with and without success.
Conf(g, h) ==
    /\ h.once = g.once /\ h.live = g.live /\ h.pid = g.pid /\ h.fd = g.fd
    /\ g.stored \subseteq h.stored
    /\ h.st \in {g.st, G!GwCONFIGURED}

Try(g, h) ==
    /\ g.st = G!GwCONFIGURED /\ h.stored = g.stored
    /\ \/ h.st = g.st /\ h.live = g.live /\ h.once = g.once
       \/ h.st = g.st /\ h.live \in {g.live, g.stored} /\ h.once
       \/ h.st = G!GwACTIVATED /\ h.live = g.stored /\ h.once

\* The fields of what the base class sees.
LEMMA AsGatewayLemma ==
    ASSUME NEW g \in InstanceRec
    PROVE  /\ AsGateway(g) \in [st : 0..2, once : BOOLEAN, stored : SUBSET Entries, live : SUBSET Entries]
           /\ AsGateway(g).st = g.st /\ AsGateway(g).once = g.once
           /\ AsGateway(g).stored = g.stored /\ AsGateway(g).live = g.live
BY DEF AsGateway, InstanceRec

\* An instance that is not called stays as it is.
LEMMA SameStep ==
    ASSUME NEW g
    PROVE  Step(g, g)
BY DEF Step, GatewaySteps

\* setConfig is a step of the base class.
LEMMA ConfStep ==
    ASSUME NEW g \in InstanceRec, NEW h \in InstanceRec, Conf(g, h)
    PROVE  Step(g, h)
<1> DEFINE a == AsGateway(g)  e == AsGateway(h)  S == h.stored
<1>1. /\ a \in [st : 0..2, once : BOOLEAN, stored : SUBSET Entries, live : SUBSET Entries]
      /\ e \in [st : 0..2, once : BOOLEAN, stored : SUBSET Entries, live : SUBSET Entries]
      /\ e.once = a.once /\ e.live = a.live /\ e.stored = a.stored \cup S
      /\ e.st = a.st \/ e.st = 1
      /\ S \in SUBSET Entries
  <2>1. h.stored = g.stored \cup h.stored
    BY DEF Conf
  <2> QED
    BY <2>1, AsGatewayLemma DEF Conf, InstanceRec
<1> HIDE DEF a, e, S
<1>2. CASE e.st = a.st
  <2>1. e = [a EXCEPT !.stored = @ \cup S]
    BY <1>1, <1>2
  <2> QED
    BY <1>1, <2>1 DEF GatewaySteps, Step, Conf, a, e
<1>3. CASE e.st = 1
  <2> DEFINE c == [a EXCEPT !.stored = @ \cup S]
  <2>1. /\ c \in [st : 0..2, once : BOOLEAN, stored : SUBSET Entries, live : SUBSET Entries]
        /\ c.st = a.st /\ c.once = a.once /\ c.live = a.live /\ c.stored = a.stored \cup S
    BY <1>1
  <2>2. G!ConfiguredGw(a, S) = [c EXCEPT !.st = 1]
    BY DEF G!ConfiguredGw
  <2> HIDE DEF c
  <2>3. e = [c EXCEPT !.st = 1]
    BY <1>1, <1>3, <2>1
  <2> QED
    BY <1>1, <2>2, <2>3 DEF GatewaySteps, Step, Conf, a, e
<1> QED
  BY <1>1, <1>2, <1>3

\* And so is activate.
LEMMA TryStep ==
    ASSUME NEW g \in InstanceRec, NEW h \in InstanceRec, Try(g, h), g.live \subseteq g.stored
    PROVE  Step(g, h)
<1> DEFINE a == AsGateway(g)  e == AsGateway(h)
           Rec == [st : 0..2, once : BOOLEAN, stored : SUBSET Entries, live : SUBSET Entries]
<1>1. a \in Rec /\ e \in Rec /\ a.st = 1 /\ e.stored = a.stored /\ a.live \subseteq a.stored
  BY AsGatewayLemma DEF Try
<1>2. \/ e.st = a.st /\ e.live = a.live /\ e.once = a.once
      \/ e.st = a.st /\ e.live \in {a.live, a.stored} /\ e.once
      \/ e.st = 2 /\ e.live = a.stored /\ e.once
  BY AsGatewayLemma DEF Try
<1>3. g.live \subseteq h.live
  BY DEF Try
<1> HIDE DEF a, e
<1>4. CASE e.st = a.st /\ e.live = a.live /\ e.once = a.once
  <2>1. e = a
    BY <1>1, <1>4
  <2> QED
    BY <1>3, <2>1 DEF GatewaySteps, Step, a, e
<1>5. CASE e.st = a.st /\ e.live \in {a.live, a.stored} /\ e.once
  <2> DEFINE S == e.live
  <2>1. S \in SUBSET a.stored /\ a.live \cup S = S
    BY <1>1, <1>5
  <2> DEFINE c == [a EXCEPT !.live = @ \cup S]
  <2>2. c \in Rec /\ c.st = a.st /\ c.once = a.once /\ c.stored = a.stored /\ c.live = S
    BY <1>1, <2>1
  <2> DEFINE f == [c EXCEPT !.once = @ \/ 1 \in 1..2]
  <2>3. f = e
    <3> HIDE DEF c
    <3>1. f = [c EXCEPT !.once = TRUE]
      <4> DEFINE v == c.once \/ 1 \in 1..2
      <4>1. v = TRUE
        OBVIOUS
      <4>2. f = [c EXCEPT !.once = v]
        OBVIOUS
      <4> HIDE DEF v, f
      <4> QED
        BY <4>1, <4>2
    <3>2. e.once = TRUE
      BY <1>1, <1>5
    <3> QED
      BY <1>1, <1>5, <2>2, <3>1, <3>2
  <2>4. G!GwOut("false", f) \in G!ActivateFailOut(1, a)
    <3>1. f = G!AppliedGw(1, a, S)
      BY DEF G!AppliedGw
    <3> HIDE DEF f
    <3> QED  BY <1>1, <2>1, <3>1 DEF G!ActivateFailOut
  <2>5. G!GwOut("false", f).gw = f
    BY DEF G!GwOut
  <2>6. G!CanActivate(a)
    BY <1>1 DEF G!CanActivate
  <2> HIDE DEF f
  <2> QED
    BY <1>3, <2>3, <2>4, <2>5, <2>6 DEF GatewaySteps, Step, a, e
<1>6. CASE e.st = 2 /\ e.live = a.stored /\ e.once
  <2> DEFINE c == [a EXCEPT !.st = 2]
             f == [c EXCEPT !.live = a.stored]
  <2>1. c \in Rec /\ c.st = 2 /\ c.once = a.once /\ c.stored = a.stored /\ c.live = a.live
    BY <1>1
  <2>2. f \in Rec /\ f.st = 2 /\ f.once = a.once /\ f.stored = a.stored /\ f.live = a.stored
    <3> HIDE DEF c
    <3> QED
      BY <1>1, <2>1
  <2>3. G!ActivatedGw(1, a, {}) = [f EXCEPT !.once = @ \/ 1 \in 1..2]
    BY DEF G!ActivatedGw
  <2> HIDE DEF f
  <2>4. [f EXCEPT !.once = @ \/ 1 \in 1..2] = [f EXCEPT !.once = TRUE]
    <3> DEFINE v == f.once \/ 1 \in 1..2
    <3>1. v = TRUE
      OBVIOUS
    <3>2. [f EXCEPT !.once = @ \/ 1 \in 1..2] = [f EXCEPT !.once = v]
      OBVIOUS
    <3> HIDE DEF v
    <3> QED
      BY <3>1, <3>2
  <2>5. e.once = TRUE
    BY <1>1, <1>6
  <2>6. e = [f EXCEPT !.once = TRUE]
    BY <1>1, <1>6, <2>2, <2>5
  <2>7. G!CanActivate(a)
    BY <1>1 DEF G!CanActivate
  <2> QED
    BY <1>3, <2>3, <2>4, <2>6, <2>7 DEF GatewaySteps, Step, a, e
<1> QED
  BY <1>2, <1>4, <1>5, <1>6

----------------------------------------------------------------------------
(***************************************************************************)
(* A method of one instance, while the gateway exists.                     *)
(***************************************************************************)
Moves(w, x, b) ==
    /\ Good(x) /\ Untouched(x) /\ x.misuse = w.misuse
    /\ Step(w.bus[b], x.bus[b])
    /\ \A c \in Buses : c # b => x.bus[c] = w.bus[c]

\* A call of the gateway: each instance at most once.
Served(w, x) ==
    /\ Good(x) /\ Untouched(x) /\ x.misuse = w.misuse
    /\ \A b \in Buses : Step(w.bus[b], x.bus[b])

\* A method of neither instance, of one and of the one after the other.
LEMMA ServedLemma ==
    ASSUME NEW w
    PROVE  /\ Good(w) /\ Untouched(w) => Served(w, w)
           /\ \A x, b : b \in Buses /\ Moves(w, x, b) => Served(w, x)
           /\ \A x, y : Moves(w, x, "session") /\ Moves(x, y, "system") => Served(w, y)
<1>1. Good(w) /\ Untouched(w) => Served(w, w)
  BY SameStep DEF Served
<1>2. \A x, b : b \in Buses /\ Moves(w, x, b) => Served(w, x)
  <2> SUFFICES ASSUME NEW x, NEW b \in Buses, Moves(w, x, b), NEW c \in Buses
               PROVE  Step(w.bus[c], x.bus[c])
    BY DEF Moves, Served
  <2>1. CASE c = b
    BY <2>1 DEF Moves
  <2>2. CASE c # b
    BY <2>2, SameStep DEF Moves
  <2> QED
    BY <2>1, <2>2
<1>3. ASSUME NEW x, NEW y, Moves(w, x, "session"), Moves(x, y, "system")
      PROVE  Served(w, y)
  <2>1. Step(w.bus["session"], y.bus["session"])
    BY <1>3 DEF Moves, Buses
  <2>2. Step(w.bus["system"], y.bus["system"])
    BY <1>3 DEF Moves, Buses
  <2> QED
    BY <1>3, <2>1, <2>2 DEF Moves, Served, Buses
<1> QED
  BY <1>1, <1>2, <1>3

\* A process of a world.
LEMMA ProcessLemma ==
    ASSUME NEW w \in World
    PROVE  /\ w.proc \in Seq(ProcessRec) /\ Len(w.proc) \in Nat /\ DOMAIN w.proc = 1..Len(w.proc)
           /\ \A p \in DOMAIN w.proc : /\ w.proc[p] \in ProcessRec /\ w.proc[p].bus \in Buses
                                      /\ w.proc[p].st \in {"running", "zombie", "reaped"}
<1>1. w.proc \in Seq(ProcessRec)
  BY DEF World
<1>2. \A p \in DOMAIN w.proc : w.proc[p] \in ProcessRec
  BY <1>1
<1>3. Len(w.proc) \in Nat /\ DOMAIN w.proc = 1..Len(w.proc)
  BY <1>1
<1> QED
  BY <1>1, <1>2, <1>3 DEF ProcessRec

\* Who owns which process depends on m_pid and m_activatedOnce alone.
LEMMA OwnedLemma ==
    ASSUME NEW w \in World, Owned(w), NEW x, x.proc = w.proc,
           \A c \in Buses : x.bus[c].once = w.bus[c].once /\ x.bus[c].pid = w.bus[c].pid
    PROVE  Owned(x)
<1>1. \A p \in DOMAIN w.proc : w.proc[p].bus \in Buses
  BY ProcessLemma
<1> QED
  BY <1>1 DEF Owned

\* Neither do the other books depend on anything else than instances and processes.
LEMMA GoodLemma ==
    ASSUME NEW w, Good(w), Untouched(w), NEW x \in World, x.bus = w.bus, x.proc = w.proc
    PROVE  Good(x) /\ Untouched(x)
<1>1. w \in World /\ Owned(w) /\ Sent(w) /\ Len(w.proc) <= MaxProxies
  BY DEF Good
<1>2. Owned(x)
  BY <1>1, OwnedLemma
<1>3. Sent(x)
  BY <1>1 DEF Sent
<1>4. Untouched(x)
  BY DEF Untouched
<1> QED
  BY <1>1, <1>2, <1>3, <1>4 DEF Good

\* A set of natural numbers that is not empty has a least element.
LEMMA LeastNumber ==
    ASSUME NEW S \in SUBSET Nat, S # {}
    PROVE  \E n \in S : \A j \in S : n <= j
<1>1. IsWellFoundedOn(OpToRel(<, Nat), Nat)
  BY NatLessThanWellFounded
<1>2. PICK n \in S : \A j \in S : <<j, n>> \notin OpToRel(<, Nat)
  BY <1>1, WFMin
<1>3. \A j \in S : ~(j < n)
  BY <1>2 DEF OpToRel
<1> QED
  BY <1>3

\* A world in which an instance was configured is as good as the one before.
LEMMA ConfMoves ==
    ASSUME NEW w, Good(w), Untouched(w), NEW b \in Buses, NEW x,
           OnlyBus(w, x, b), Conf(w.bus[b], x.bus[b])
    PROVE  Moves(w, x, b)
<1>1. w \in World /\ x \in World /\ x.proc = w.proc /\ x.misuse = w.misuse
  BY DEF Good, OnlyBus
<1>2. w.bus[b] \in InstanceRec /\ x.bus[b] \in InstanceRec
  BY <1>1 DEF World
<1>3. Step(w.bus[b], x.bus[b])
  BY <1>2, ConfStep
<1>4. \A c \in Buses : /\ x.bus[c].once = w.bus[c].once /\ x.bus[c].pid = w.bus[c].pid
                       /\ x.bus[c].fd = w.bus[c].fd /\ x.bus[c].live = w.bus[c].live
                       /\ w.bus[c].stored \subseteq x.bus[c].stored
  BY DEF OnlyBus, Conf
<1>5. \A p \in DOMAIN w.proc : w.proc[p].bus \in Buses
  BY <1>1, ProcessLemma
<1>6. Owned(x)
  BY <1>1, <1>4, <1>5 DEF Good, Owned
<1>7. Sent(x)
  BY <1>4 DEF Good, Sent
<1>8. Untouched(x)
  BY <1>1, <1>4 DEF Untouched
<1> QED
  BY <1>1, <1>3, <1>6, <1>7, <1>8 DEF Moves, Good, OnlyBus

\* Gateway::setConfig of one instance, to the end of the array or not.
LEMMA InstSetConfigLemma ==
    ASSUME NEW w, Good(w), Untouched(w), NEW b \in Buses, NEW arr \in Arrays
    PROVE  Moves(w, InstSetConfig(w, b, arr).d, b)
<1> DEFINE stops == {i \in DOMAIN arr : arr[i][b].kind # "list"}
           stop  == CHOOSE i \in stops : \A j \in stops : i <= j
           upto  == IF stops = {} THEN Len(arr)
                    ELSE IF arr[stop][b].kind = "bad" THEN stop ELSE stop - 1
           E     == UNION {arr[i][b].entries : i \in 1..upto}
<1>1. arr \in Seq([Buses -> BusElement]) /\ Len(arr) \in Nat /\ DOMAIN arr = 1..Len(arr)
  BY DBusAssumption
<1>2. stops # {} => stop \in stops
  <2>1. stops \in SUBSET Nat
    BY <1>1
  <2> HIDE DEF stops
  <2> QED
    BY <2>1, LeastNumber
<1>3. upto \in 0..Len(arr)
  <2> HIDE DEF stop
  <2> QED
    BY <1>1, <1>2
<1>4. E \in SUBSET Entries
  <2> HIDE DEF upto
  <2>1. \A i \in 1..upto : i \in DOMAIN arr
    BY <1>1, <1>3
  <2>2. \A i \in DOMAIN arr : arr[i][b].entries \in SUBSET Entries
    BY <1>1 DEF BusElement
  <2> QED
    BY <2>1, <2>2
<1> DEFINE read1 == Read(w, b, E)
           conf == [read1 EXCEPT !.bus[b].st = G!GwCONFIGURED]
<1>5. InstSetConfig(w, b, arr).d \in {w, read1, conf}
  <2>1. InstSetConfig(w, b, arr) \in {Out("false", w), Out("true", conf), Out("throw", read1),
                                      Out("false", read1)}
    BY Zenon DEF InstSetConfig
  <2> HIDE DEF read1, conf
  <2> QED
    BY <2>1, OutFields
<1> HIDE DEF E
<1>6. w \in World /\ w.bus[b].stored \cup E \in SUBSET Entries
  BY <1>4 DEF Good, World, InstanceRec
<1>7. read1 = SetStored(w, b, w.bus[b].stored \cup E)
  BY DEF Read, SetStored
<1>8. OnlyBus(w, read1, b) /\ Conf(w.bus[b], read1.bus[b]) /\ read1 \in World
  <2> HIDE DEF read1
  <2> QED
    BY <1>6, <1>7, SetStoredLemma DEF Conf, OnlyBus
<1>9. OnlyBus(w, conf, b) /\ Conf(w.bus[b], conf.bus[b])
  <2>1. conf = SetSt(read1, b, 1)
    BY DEF SetSt
  <2> HIDE DEF read1, conf
  <2>2. OnlyBus(read1, conf, b) /\ conf.bus[b].st = 1 /\ conf.bus[b].once = read1.bus[b].once
        /\ conf.bus[b].stored = read1.bus[b].stored /\ conf.bus[b].live = read1.bus[b].live
        /\ conf.bus[b].pid = read1.bus[b].pid /\ conf.bus[b].fd = read1.bus[b].fd
    BY <1>8, <2>1, SetStLemma
  <2> QED
    BY <1>8, <2>2 DEF Conf, OnlyBus
<1>10. OnlyBus(w, w, b) /\ Conf(w.bus[b], w.bus[b])
  BY <1>6 DEF OnlyBus, Conf
<1> HIDE DEF read1, conf
<1> QED
  BY <1>5, <1>8, <1>9, <1>10, ConfMoves

\* DBusGateway::setConfig
LEMMA SetConfigLemma ==
    ASSUME NEW w, Good(w), Untouched(w), NEW arr \in Arrays
    PROVE  Served(w, SetConfigOut(w, arr).d)
<1> DEFINE sess == InstSetConfig(w, "session", arr)
           sys  == InstSetConfig(sess.d, "system", arr)
<1>1. Moves(w, sess.d, "session")
  BY InstSetConfigLemma DEF Buses
<1>2. Moves(sess.d, sys.d, "system")
  BY <1>1, InstSetConfigLemma DEF Buses, Moves
<1>3. SetConfigOut(w, arr).d \in {sess.d, sys.d}
  <2>1. \/ SetConfigOut(w, arr) = Out("false", sess.d)
        \/ \E a : SetConfigOut(w, arr) = Out(a, sys.d)
    BY Zenon DEF SetConfigOut
  <2> HIDE DEF sess, sys
  <2> QED
    BY <2>1, OutFields
<1> HIDE DEF sess, sys
<1> QED
  BY <1>1, <1>2, <1>3, ServedLemma DEF Buses

----------------------------------------------------------------------------
(***************************************************************************)
(* Activation.                                                             *)
(***************************************************************************)
\* A process that ends becomes a zombie and stays its instance's.
LEMMA ZombieLemma ==
    ASSUME NEW w, Good(w), NEW p \in DOMAIN w.proc, w.proc[p].st # "reaped"
    PROVE  LET x == [w EXCEPT !.proc[p].st = "zombie"]
           IN  /\ Good(x) /\ (Untouched(w) => Untouched(x))
               /\ x.bus = w.bus /\ x.misuse = w.misuse /\ x.sock = w.sock
<1> DEFINE P == [w.proc EXCEPT ![p].st = "zombie"]
           x == [w EXCEPT !.proc[p].st = "zombie"]
<1>1. w \in World /\ Len(w.proc) <= MaxProxies /\ Owned(w) /\ Sent(w)
  BY DEF Good
<1>2. /\ w.proc \in Seq(ProcessRec) /\ Len(w.proc) \in Nat /\ DOMAIN w.proc = 1..Len(w.proc)
      /\ w.proc[p] \in ProcessRec
  BY <1>1, ProcessLemma
<1> DEFINE q == [w.proc[p] EXCEPT !.st = "zombie"]
<1>3. q \in ProcessRec /\ q.st = "zombie" /\ q.bus = w.proc[p].bus
  BY <1>2 DEF ProcessRec
<1>4. P = [w.proc EXCEPT ![p] = q]
  OBVIOUS
<1> HIDE DEF q
<1>5. /\ P \in Seq(ProcessRec) /\ Len(P) = Len(w.proc) /\ DOMAIN P = DOMAIN w.proc
      /\ P[p] = q /\ \A i \in DOMAIN w.proc : i # p => P[i] = w.proc[i]
  <2> HIDE DEF P
  <2> QED
    BY <1>2, <1>3, <1>4
<1>6. x = SetProc(w, P)
  BY DEF SetProc
<1> HIDE DEF P, x
<1>7. /\ x \in World /\ x.proc = P /\ x.bus = w.bus
      /\ x.sock = w.sock /\ x.misuse = w.misuse
  BY <1>1, <1>5, <1>6, SetRestLemma
<1>8. Owned(x)
  BY <1>1, <1>3, <1>5, <1>7 DEF Owned
<1>9. Untouched(w) => Untouched(x)
  BY <1>3, <1>5, <1>7 DEF Untouched
<1>10. Good(x)
  BY <1>1, <1>5, <1>7, <1>8 DEF Good, Sent
<1> QED
  BY <1>7, <1>9, <1>10 DEF x

\* What testDBusConnection leaves of instance b.
Tested(w, x, b) ==
    /\ Good(x) /\ Untouched(x) /\ x.misuse = w.misuse
    /\ \A c \in Buses : c # b => x.bus[c] = w.bus[c]
    /\ x.bus[b].st = w.bus[b].st /\ x.bus[b].once = w.bus[b].once
    /\ x.bus[b].stored = w.bus[b].stored /\ x.bus[b].live \in {w.bus[b].live, w.bus[b].stored}

\* The list is sent, and the socket may be made.
LEMMA SentLemma ==
    ASSUME NEW w, Good(w), Untouched(w), NEW b \in Buses
    PROVE  LET x == SetLive(w, b, w.bus[b].stored)
               y == SetSock(x, x.sock \cup {b})
           IN  /\ Tested(w, x, b) /\ x.bus[b].live = w.bus[b].stored
               /\ Tested(w, y, b) /\ y.bus[b].live = w.bus[b].stored
<1> DEFINE x == SetLive(w, b, w.bus[b].stored)
           y == SetSock(x, x.sock \cup {b})
<1>1. w \in World /\ Len(w.proc) <= MaxProxies /\ Owned(w) /\ Sent(w)
  BY DEF Good
<1>2. w.bus[b].stored \in SUBSET Entries
  BY <1>1 DEF World, InstanceRec
<1>3. /\ OnlyBus(w, x, b) /\ x.bus[b].live = w.bus[b].stored /\ x.bus[b].st = w.bus[b].st
      /\ x.bus[b].once = w.bus[b].once /\ x.bus[b].stored = w.bus[b].stored
      /\ x.bus[b].pid = w.bus[b].pid /\ x.bus[b].fd = w.bus[b].fd
  BY <1>1, <1>2, SetLiveLemma
<1> HIDE DEF x
<1>4. /\ x \in World /\ x.proc = w.proc /\ x.misuse = w.misuse
      /\ \A c \in Buses : c # b => x.bus[c] = w.bus[c]
  BY <1>3 DEF OnlyBus
<1>5. /\ y \in World /\ y.proc = x.proc /\ y.misuse = x.misuse /\ y.bus = x.bus
  <2>1. x.sock \cup {b} \in SUBSET Buses
    BY <1>4 DEF World
  <2> QED
    BY <1>4, <2>1, SetRestLemma
<1> HIDE DEF y
<1>6. \A c \in Buses : /\ x.bus[c].once = w.bus[c].once /\ x.bus[c].pid = w.bus[c].pid
                       /\ x.bus[c].fd = w.bus[c].fd
  BY <1>3, <1>4
<1>7. \A q \in DOMAIN w.proc : w.proc[q].bus \in Buses
  BY <1>1, ProcessLemma
<1>8. Owned(x) /\ Untouched(x)
  BY <1>1, <1>4, <1>6, <1>7 DEF Owned, Untouched
<1>9. Sent(x)
  BY <1>1, <1>3, <1>4 DEF Sent
<1>10. Good(x)
  BY <1>1, <1>4, <1>8, <1>9 DEF Good
<1>11. Good(y) /\ Untouched(y)
  BY <1>5, <1>8, <1>10, GoodLemma
<1>12. Tested(w, x, b) /\ Tested(w, y, b)
  BY <1>3, <1>4, <1>5, <1>8, <1>10, <1>11 DEF Tested
<1> QED
  BY <1>3, <1>5, <1>12 DEF x, y

\* testDBusConnection
LEMMA TestLemma ==
    ASSUME NEW w, Good(w), Untouched(w), NEW b \in Buses, w.bus[b].once,
           NEW r \in TestDBusConnectionOut(w, b)
    PROVE  /\ Tested(w, r.d, b)
           /\ r.res = "true" => r.d.bus[b].live = w.bus[b].stored
<1> DEFINE pid  == w.bus[b].pid
           dead == [w EXCEPT !.proc[pid].st = "zombie"]
           sent == [w EXCEPT !.bus[b].live = w.bus[b].stored]
           made == [sent EXCEPT !.sock = @ \cup {b}]
<1>1. r \in {Out("false", dead), Out("false", w), Out("true", made), Out("false", sent)}
  BY DEF TestDBusConnectionOut
<1>2. pid \in DOMAIN w.proc /\ w.proc[pid].st # "reaped"
  BY DEF Good, Owned, Untouched
<1>3. Tested(w, dead, b)
  <2> HIDE DEF pid
  <2> QED
    BY <1>2, ZombieLemma DEF Tested
<1>4. Tested(w, w, b)
  BY DEF Tested
<1>5. sent = SetLive(w, b, w.bus[b].stored) /\ made = SetSock(sent, sent.sock \cup {b})
  BY DEF SetLive, SetSock
<1> HIDE DEF dead, sent, made
<1>6. /\ Tested(w, sent, b) /\ Tested(w, made, b)
      /\ made.bus[b].live = w.bus[b].stored
  BY <1>5, SentLemma
<1> QED
  BY <1>1, <1>3, <1>4, <1>6, OutFields

\* A proxy is started where there is none: the instance has it from then on.
LEMMA StartLemma ==
    ASSUME NEW w, Good(w), Untouched(w), NEW b \in Buses, ~w.bus[b].once,
           NEW r \in StartDBusProxyOut(w, b), r.res = "true"
    PROVE  /\ Good(r.d) /\ Untouched(r.d) /\ r.d.misuse = w.misuse
           /\ \A c \in Buses : c # b => r.d.bus[c] = w.bus[c]
           /\ r.d.bus[b].once /\ r.d.bus[b].st = w.bus[b].st
           /\ r.d.bus[b].stored = w.bus[b].stored /\ r.d.bus[b].live = w.bus[b].live
<1> DEFINE new == [bus |-> b, st |-> "running"]
           n  == Len(w.proc) + 1
           P  == Append(w.proc, new)
           x1 == SetProc(w, P)
           x2 == SetPid(x1, b, n)
           x3 == SetFd(x2, b, "open")
           x4 == SetOnce(x3, b, TRUE)
<1>1. w \in World /\ Len(w.proc) <= MaxProxies /\ Owned(w) /\ Sent(w)
  BY DEF Good
<1>2. /\ w.proc \in Seq(ProcessRec) /\ Len(w.proc) \in Nat /\ DOMAIN w.proc = 1..Len(w.proc)
      /\ \A p \in DOMAIN w.proc : w.proc[p].bus \in Buses
  BY <1>1, ProcessLemma
<1>3. r.d = x4 /\ Len(w.proc) # MaxProxies
  <2>1. r \in {Out("false", w)} \cup (IF Len(w.proc) = MaxProxies THEN {} ELSE {Out("true", x4)})
    BY Zenon DEF StartDBusProxyOut, SetProc, SetPid, SetFd, SetOnce
  <2> HIDE DEF x4
  <2> QED
    BY <2>1, OutFields
<1>4. n \in 0..MaxProxies /\ n \in Nat /\ n # 0
  BY <1>1, <1>2, <1>3, DBusAssumption
<1>5. new \in ProcessRec /\ new.bus = b /\ new.st = "running"
  BY DEF ProcessRec
<1> HIDE DEF new
<1>6. /\ P \in Seq(ProcessRec) /\ Len(P) = n /\ DOMAIN P = DOMAIN w.proc \cup {n}
      /\ P[n] = new /\ n \notin DOMAIN w.proc
      /\ \A p \in DOMAIN w.proc : P[p] = w.proc[p]
  BY <1>2, <1>5
<1> HIDE DEF n, P
<1>7. /\ x1 \in World /\ x1.proc = P /\ x1.bus = w.bus /\ x1.misuse = w.misuse
  BY <1>1, <1>6, SetRestLemma
<1> HIDE DEF x1
<1>8. /\ OnlyBus(x1, x2, b) /\ x2.bus[b].pid = n
      /\ x2.bus[b].st = x1.bus[b].st /\ x2.bus[b].once = x1.bus[b].once
      /\ x2.bus[b].stored = x1.bus[b].stored /\ x2.bus[b].live = x1.bus[b].live
  BY <1>4, <1>7, SetPidLemma
<1> HIDE DEF x2
<1>9. /\ OnlyBus(x2, x3, b) /\ x3.bus[b].fd = "open" /\ x3.bus[b].pid = x2.bus[b].pid
      /\ x3.bus[b].st = x2.bus[b].st /\ x3.bus[b].once = x2.bus[b].once
      /\ x3.bus[b].stored = x2.bus[b].stored /\ x3.bus[b].live = x2.bus[b].live
  <2>1. x2 \in World
    BY <1>8 DEF OnlyBus
  <2> QED
    BY <2>1, SetFdLemma
<1> HIDE DEF x3
<1>10. /\ OnlyBus(x3, x4, b) /\ x4.bus[b].once = TRUE /\ x4.bus[b].pid = x3.bus[b].pid
       /\ x4.bus[b].st = x3.bus[b].st /\ x4.bus[b].fd = x3.bus[b].fd
       /\ x4.bus[b].stored = x3.bus[b].stored /\ x4.bus[b].live = x3.bus[b].live
  BY <1>9, SetOnceLemma DEF OnlyBus
<1> HIDE DEF x4
<1>11. /\ x4 \in World /\ x4.proc = P /\ x4.misuse = w.misuse
       /\ \A c \in Buses : c # b => x4.bus[c] = w.bus[c]
  BY <1>7, <1>8, <1>9, <1>10 DEF OnlyBus
<1>12. /\ x4.bus[b].once /\ x4.bus[b].pid = n /\ x4.bus[b].st = w.bus[b].st
       /\ x4.bus[b].stored = w.bus[b].stored /\ x4.bus[b].live = w.bus[b].live
       /\ x4.bus[b].fd = "open"
  BY <1>7, <1>8, <1>9, <1>10
<1>13. \A p \in DOMAIN w.proc : w.proc[p].st # "reaped" => w.proc[p].bus # b
  BY <1>1 DEF Owned
<1>14. Owned(x4)
  <2>1. ASSUME NEW c \in Buses, x4.bus[c].pid # 0
        PROVE  x4.bus[c].pid \in DOMAIN P /\ P[x4.bus[c].pid].bus = c
    <3>1. CASE c = b
      BY <1>5, <1>6, <1>12, <3>1
    <3>2. CASE c # b
      BY <1>1, <1>6, <1>11, <2>1, <3>2 DEF Owned
    <3> QED
      BY <3>1, <3>2
  <2>2. ASSUME NEW c \in Buses, x4.bus[c].once
        PROVE  x4.bus[c].pid # 0
    <3>1. CASE c = b
      BY <1>4, <1>12, <3>1
    <3>2. CASE c # b
      BY <1>1, <1>11, <2>2, <3>2 DEF Owned
    <3> QED
      BY <3>1, <3>2
  <2>3. ASSUME NEW p \in DOMAIN P, P[p].st # "reaped"
        PROVE  x4.bus[P[p].bus].once /\ x4.bus[P[p].bus].pid = p
    <3>1. CASE p = n
      BY <1>5, <1>6, <1>12, <3>1
    <3>2. CASE p \in DOMAIN w.proc
      BY <1>1, <1>2, <1>6, <1>11, <1>13, <2>3, <3>2 DEF Owned
    <3> QED
      BY <1>6, <3>1, <3>2
  <2> QED
    BY <1>11, <2>1, <2>2, <2>3 DEF Owned
<1>15. Sent(x4)
  BY <1>1, <1>11, <1>12 DEF Sent
<1>16. Untouched(x4)
  <2>1. \A p \in DOMAIN P : P[p].st # "reaped"
    BY <1>5, <1>6 DEF Untouched
  <2>2. \A c \in Buses : x4.bus[c].fd # "closed"
    BY <1>11, <1>12 DEF Untouched
  <2> QED
    BY <1>11, <2>1, <2>2 DEF Untouched
<1>17. Len(P) <= MaxProxies
  BY <1>4, <1>6
<1> QED
  BY <1>3, <1>11, <1>12, <1>14, <1>15, <1>16, <1>17 DEF Good

\* activateGateway of one instance, which is configured.
LEMMA ActivateGatewayLemma ==
    ASSUME NEW w, Good(w), Untouched(w), NEW b \in Buses, w.bus[b].st = G!GwCONFIGURED,
           NEW r \in ActivateGatewayOut(w, b)
    PROVE  /\ Good(r.d) /\ Untouched(r.d) /\ r.d.misuse = w.misuse
           /\ \A c \in Buses : c # b => r.d.bus[c] = w.bus[c]
           /\ r.d.bus[b].st = w.bus[b].st /\ r.d.bus[b].stored = w.bus[b].stored
           /\ \/ r.d.bus[b].live = w.bus[b].live /\ r.d.bus[b].once = w.bus[b].once
              \/ r.d.bus[b].live \in {w.bus[b].live, w.bus[b].stored} /\ r.d.bus[b].once
           /\ r.res = "true" => r.d.bus[b].live = w.bus[b].stored /\ r.d.bus[b].once
<1>1. CASE w.bus[b].once
  <2>1. r \in TestDBusConnectionOut(w, b)
    BY <1>1 DEF ActivateGatewayOut
  <2> QED
    BY <1>1, <2>1, TestLemma DEF Tested
<1>2. CASE ~w.bus[b].once
  <2> DEFINE named == [w EXCEPT !.env = @ \cup {b}]
  <2>1. \E q \in {Out("false", named)} \cup StartDBusProxyOut(named, b) :
          r \in (IF q.res = "true" THEN TestDBusConnectionOut(q.d, b) ELSE {q})
    BY <1>2, Zenon DEF ActivateGatewayOut
  <2>2. named = SetEnv(w, w.env \cup {b})
    BY DEF SetEnv
  <2> HIDE DEF named
  <2>3. named \in World /\ named.bus = w.bus /\ named.proc = w.proc /\ named.misuse = w.misuse
    <3>1. w \in World /\ w.env \cup {b} \in SUBSET Buses
      BY DEF Good, World
    <3> QED
      BY <2>2, <3>1, SetRestLemma
  <2>4. Good(named) /\ Untouched(named)
    BY <2>3, GoodLemma
  <2>5. PICK q \in {Out("false", named)} \cup StartDBusProxyOut(named, b) :
          r \in (IF q.res = "true" THEN TestDBusConnectionOut(q.d, b) ELSE {q})
    BY <2>1
  <2>6. CASE q.res = "true"
    <3>1. q \in StartDBusProxyOut(named, b) /\ r \in TestDBusConnectionOut(q.d, b)
      BY <2>5, <2>6, OutFields
    <3>2. /\ Good(q.d) /\ Untouched(q.d) /\ q.d.misuse = named.misuse
          /\ \A c \in Buses : c # b => q.d.bus[c] = named.bus[c]
          /\ q.d.bus[b].once /\ q.d.bus[b].st = named.bus[b].st
          /\ q.d.bus[b].stored = named.bus[b].stored /\ q.d.bus[b].live = named.bus[b].live
      BY <1>2, <2>3, <2>4, <2>6, <3>1, StartLemma
    <3>3. /\ Tested(q.d, r.d, b)
          /\ r.res = "true" => r.d.bus[b].live = q.d.bus[b].stored
      BY <3>1, <3>2, TestLemma
    <3> QED
      BY <2>3, <3>2, <3>3 DEF Tested
  <2>7. CASE q.res # "true"
    <3>1. q = Out("false", named) \/ q \in StartDBusProxyOut(named, b)
      BY <2>5
    <3>2. \A s \in StartDBusProxyOut(named, b) : s = Out("false", named) \/ s.res = "true"
      BY OutFields DEF StartDBusProxyOut
    <3>3. r = q /\ q = Out("false", named)
      BY <2>5, <2>7, <3>1, <3>2
    <3> QED
      BY <2>3, <2>4, <3>3, OutFields
  <2> QED
    BY <2>6, <2>7
<1> QED
  BY <1>1, <1>2

\* Gateway::activate of one instance.
LEMMA InstActivateLemma ==
    ASSUME NEW w, Good(w), Untouched(w), NEW b \in Buses, NEW r \in InstActivateOut(w, b)
    PROVE  Moves(w, r.d, b)
<1>1. CASE w.bus[b].st # G!GwCONFIGURED
  <2>1. r = Out("throw", w)
    BY <1>1 DEF InstActivateOut
  <2> QED
    BY <2>1, OutFields, SameStep DEF Moves
<1>2. CASE w.bus[b].st = G!GwCONFIGURED
  <2>1. PICK q \in ActivateGatewayOut(w, b) :
          r = IF q.res = "true" THEN Out("true", [q.d EXCEPT !.bus[b].st = G!GwACTIVATED]) ELSE q
    BY <1>2 DEF InstActivateOut
  <2>2. /\ Good(q.d) /\ Untouched(q.d) /\ q.d.misuse = w.misuse
        /\ \A c \in Buses : c # b => q.d.bus[c] = w.bus[c]
        /\ q.d.bus[b].st = w.bus[b].st /\ q.d.bus[b].stored = w.bus[b].stored
        /\ \/ q.d.bus[b].live = w.bus[b].live /\ q.d.bus[b].once = w.bus[b].once
           \/ q.d.bus[b].live \in {w.bus[b].live, w.bus[b].stored} /\ q.d.bus[b].once
        /\ q.res = "true" => q.d.bus[b].live = w.bus[b].stored /\ q.d.bus[b].once
    BY <1>2, ActivateGatewayLemma
  <2>3. /\ w \in World /\ q.d \in World
        /\ w.bus[b] \in InstanceRec /\ q.d.bus[b] \in InstanceRec
        /\ w.bus[b].live \subseteq w.bus[b].stored
    BY <2>2 DEF Good, World, Sent
  <2>4. CASE q.res # "true"
    <3>1. r = q
      BY <2>1, <2>4
    <3>2. Try(w.bus[b], q.d.bus[b])
      BY <1>2, <2>2 DEF Try
    <3>3. Step(w.bus[b], q.d.bus[b])
      BY <2>3, <3>2, TryStep
    <3> QED
      BY <2>2, <3>1, <3>3 DEF Moves
  <2>5. CASE q.res = "true"
    <3> DEFINE x == SetSt(q.d, b, 2)
    <3>1. r.d = x
      <4>1. r = Out("true", x)
        BY <2>1, <2>5 DEF SetSt
      <4> HIDE DEF x
      <4> QED
        BY <4>1, OutFields
    <3>2. /\ OnlyBus(q.d, x, b) /\ x.bus[b].st = 2 /\ x.bus[b].once = q.d.bus[b].once
          /\ x.bus[b].stored = q.d.bus[b].stored /\ x.bus[b].live = q.d.bus[b].live
          /\ x.bus[b].pid = q.d.bus[b].pid /\ x.bus[b].fd = q.d.bus[b].fd
      BY <2>3, SetStLemma
    <3> HIDE DEF x
    <3>3. /\ x \in World /\ x.proc = q.d.proc /\ x.misuse = q.d.misuse
          /\ \A c \in Buses : c # b => x.bus[c] = q.d.bus[c]
      BY <3>2 DEF OnlyBus
    <3>4. \A c \in Buses : /\ x.bus[c].once = q.d.bus[c].once /\ x.bus[c].pid = q.d.bus[c].pid
                           /\ x.bus[c].fd = q.d.bus[c].fd /\ x.bus[c].live = q.d.bus[c].live
                           /\ x.bus[c].stored = q.d.bus[c].stored
      BY <3>2, <3>3
    <3>5. Owned(q.d)
      BY <2>2 DEF Good
    <3>6. Owned(x)
      BY <2>3, <3>3, <3>4, <3>5, OwnedLemma
    <3>7. Sent(x) /\ Untouched(x)
      <4>1. Sent(q.d) /\ Untouched(q.d)
        BY <2>2 DEF Good
      <4>2. Sent(x)
        BY <3>4, <4>1 DEF Sent
      <4>3. Untouched(x)
        BY <3>3, <3>4, <4>1 DEF Untouched
      <4> QED
        BY <4>2, <4>3
    <3>8. Good(x)
      BY <2>2, <3>3, <3>6, <3>7 DEF Good
    <3>9. Try(w.bus[b], x.bus[b])
      BY <1>2, <2>2, <2>5, <3>2 DEF Try
    <3>10. Step(w.bus[b], x.bus[b])
      <4>1. x.bus[b] \in InstanceRec
        BY <3>3 DEF World
      <4> QED
        BY <2>3, <3>9, <4>1, TryStep
    <3> QED
      BY <2>2, <3>1, <3>3, <3>7, <3>8, <3>10 DEF Moves
  <2> QED
    BY <2>4, <2>5
<1> QED
  BY <1>1, <1>2

\* DBusGateway::activate: the session bus, then the system bus.
LEMMA ActivateLemma ==
    ASSUME NEW w, Good(w), Untouched(w), NEW r \in ActivateOut(w)
    PROVE  Served(w, r.d)
<1>1. PICK q \in (IF G!IsConfigured(w.bus["session"])
                    THEN InstActivateOut(w, "session") ELSE {Out("false", w)}) :
        r \in (IF q.res # "throw" /\ G!IsConfigured(q.d.bus["system"])
                 THEN InstActivateOut(q.d, "system") ELSE {q})
  BY Zenon DEF ActivateOut
<1>2. "session" \in Buses /\ "system" \in Buses
  BY DEF Buses
<1>3. Moves(w, q.d, "session")
  <2>1. CASE q \in InstActivateOut(w, "session")
    BY <1>2, <2>1, InstActivateLemma
  <2>2. CASE q = Out("false", w)
    BY <2>2, OutFields, SameStep DEF Moves
  <2> QED
    BY <1>1, <2>1, <2>2
<1>4. CASE r = q
  BY <1>2, <1>3, <1>4, ServedLemma
<1>5. CASE r \in InstActivateOut(q.d, "system")
  <2>1. Moves(q.d, r.d, "system")
    BY <1>2, <1>3, <1>5, InstActivateLemma DEF Moves
  <2> QED
    BY <1>3, <2>1, ServedLemma
<1> QED
  BY <1>1, <1>4, <1>5

----------------------------------------------------------------------------
(***************************************************************************)
(* Teardown.  It reaps the process of its instance, whatever else fails.   *)
(***************************************************************************)
\* After a teardown of b: its processes are reaped, and nothing else of the world that
\* the other instance has is touched.  Without a socket it is done once and for all.
Torn(w, x, b) ==
    /\ Good(x) /\ AllReaped(x, b)
    /\ \A c \in Buses : c # b /\ AllReaped(w, c) => AllReaped(x, c)
    /\ \A c \in Buses : c # b => x.bus[c] = w.bus[c]
    /\ \A c \in Buses : x.bus[c].live = w.bus[c].live

\* What keeps the next teardown from naming what is no longer owned: no socket is left
\* that could not be removed, and an activated instance has its process and descriptor.
Clear(w) ==
    /\ w.sock = {}
    /\ \A b \in Buses : w.bus[b].once =>
          w.bus[b].fd # "closed" /\ w.proc[w.bus[b].pid].st # "reaped"

\* Gateway::teardown of one instance.
LEMMA InstTeardownLemma ==
    ASSUME NEW w, Good(w), NEW b \in Buses, NEW r \in InstTeardownOut(w, b)
    PROVE  /\ Torn(w, r.d, b)
           /\ Clear(w) => Clear(r.d) /\ r.d.misuse = w.misuse
<1>1. w \in World /\ Len(w.proc) <= MaxProxies /\ Owned(w) /\ Sent(w)
  BY DEF Good
<1>2. /\ w.proc \in Seq(ProcessRec) /\ Len(w.proc) \in Nat /\ DOMAIN w.proc = 1..Len(w.proc)
      /\ \A p \in DOMAIN w.proc : w.proc[p] \in ProcessRec /\ w.proc[p].bus \in Buses
  BY <1>1, ProcessLemma
<1>3. CASE ~w.bus[b].once
  <2>1. r.d = w
    BY <1>3, OutFields DEF InstTeardownOut
  <2>2. AllReaped(w, b)
    BY <1>1, <1>3 DEF Owned, AllReaped
  <2> QED
    BY <2>1, <2>2 DEF Torn
<1>4. CASE w.bus[b].once
  <2> DEFINE pid   == w.bus[b].pid
             stray == (IF pid # 0 /\ w.proc[pid].st = "reaped" THEN {"kill"} ELSE {})
                      \cup (IF w.bus[b].fd = "closed" THEN {"close"} ELSE {})
             P  == [p \in DOMAIN w.proc |->
                      IF p = pid THEN [w.proc[p] EXCEPT !.st = "reaped"] ELSE w.proc[p]]
             x1 == SetProc(w, P)
             fd == IF w.bus[b].fd = "none" THEN w.bus[b].fd ELSE "closed"
             x2 == SetFd(x1, b, fd)
             x3 == SetMisuse(x2, w.misuse \cup stray)
             x4 == SetSock(x3, x3.sock \ {b})
             x5 == SetSt(x4, b, 0)
             x6 == SetOnce(x5, b, FALSE)
  <2>1. r.d = x6 \/ (r.d = x3 /\ b \in w.sock)
    <3>1. TeardownGatewayOut(w, b) =
            {Out("true", x4)} \cup (IF b \in w.sock THEN {Out("false", x3)} ELSE {})
      BY Zenon DEF TeardownGatewayOut, SetProc, SetFd, SetMisuse, SetSock
    <3>2. PICK q \in TeardownGatewayOut(w, b) :
            r = IF q.res = "true"
                  THEN Out("true", [q.d EXCEPT !.bus[b].st = 0, !.bus[b].once = FALSE]) ELSE q
      BY <1>4 DEF InstTeardownOut
    <3>3. [q.d EXCEPT !.bus[b].st = 0, !.bus[b].once = FALSE] = SetOnce(SetSt(q.d, b, 0), b, FALSE)
      BY DEF SetOnce, SetSt
    <3> HIDE DEF x3, x4
    <3>4. CASE q = Out("true", x4)
      <4>1. q.res = "true" /\ q.d = x4
        BY <3>4, OutFields
      <4>2. r = Out("true", SetOnce(SetSt(q.d, b, 0), b, FALSE))
        BY <3>2, <3>3, <4>1
      <4> QED
        BY <4>1, <4>2, OutFields
    <3>5. CASE q = Out("false", x3) /\ b \in w.sock
      BY <3>2, <3>5, OutFields
    <3> QED
      BY <3>1, <3>2, <3>4, <3>5
  <2>2. pid # 0 /\ pid \in DOMAIN w.proc /\ w.proc[pid].bus = b
    BY <1>1, <1>4 DEF Owned
  <2>3. /\ stray \in SUBSET {"kill", "close"}
        /\ Clear(w) => stray = {}
    BY <1>4 DEF Clear
  <2>4. /\ P \in Seq(ProcessRec) /\ Len(P) = Len(w.proc) /\ DOMAIN P = DOMAIN w.proc
        /\ P[pid].st = "reaped"
        /\ \A p \in DOMAIN P : P[p].bus = w.proc[p].bus
        /\ \A p \in DOMAIN P : p # pid => P[p].st = w.proc[p].st
    <3> HIDE DEF pid
    <3>1. ASSUME NEW p \in DOMAIN w.proc
          PROVE  /\ P[p] \in ProcessRec /\ P[p].bus = w.proc[p].bus
                 /\ p = pid => P[p].st = "reaped"
                 /\ p # pid => P[p].st = w.proc[p].st
      BY <1>2, <3>1 DEF ProcessRec
    <3>2. DOMAIN P = DOMAIN w.proc
      OBVIOUS
    <3>3. P = [p \in DOMAIN w.proc |-> P[p]]
      OBVIOUS
    <3> HIDE DEF P
    <3>4. P \in [1..Len(w.proc) -> ProcessRec]
      BY <1>2, <3>1, <3>3
    <3> QED
      BY <1>2, <2>2, <3>1, <3>2, <3>4
  <2> HIDE DEF P, stray
  <2>5. /\ x1 \in World /\ x1.proc = P /\ x1.bus = w.bus /\ x1.misuse = w.misuse
        /\ x1.sock = w.sock
    BY <1>1, <2>4, SetRestLemma
  <2> HIDE DEF x1
  <2>6. fd \in {"none", "open", "closed"}
    BY <1>1 DEF World, InstanceRec
  <2> HIDE DEF fd
  <2>7. /\ OnlyBus(x1, x2, b) /\ x2.bus[b].once = x1.bus[b].once /\ x2.bus[b].pid = x1.bus[b].pid
        /\ x2.bus[b].stored = x1.bus[b].stored /\ x2.bus[b].live = x1.bus[b].live
    BY <2>5, <2>6, SetFdLemma
  <2> HIDE DEF x2
  <2>8. /\ x2 \in World /\ x2.proc = P /\ x2.misuse = w.misuse /\ x2.sock = w.sock
        /\ \A c \in Buses : c # b => x2.bus[c] = w.bus[c]
    BY <2>5, <2>7 DEF OnlyBus
  <2>9. /\ x3 \in World /\ x3.misuse = w.misuse \cup stray /\ x3.bus = x2.bus
        /\ x3.proc = P /\ x3.sock = w.sock
    <3>1. w.misuse \cup stray \in SUBSET {"kill", "close"}
      BY <1>1, <2>3 DEF World
    <3> QED
      BY <2>8, <3>1, SetRestLemma
  <2> HIDE DEF x3
  <2>10. /\ x4 \in World /\ x4.misuse = x3.misuse /\ x4.bus = x3.bus
         /\ x4.proc = P /\ x4.sock = w.sock \ {b}
    <3>1. x3.sock \ {b} \in SUBSET Buses
      BY <2>9 DEF World
    <3> QED
      BY <2>9, <3>1, SetRestLemma
  <2> HIDE DEF x4
  <2>11. /\ OnlyBus(x4, x5, b) /\ x5.bus[b].pid = x4.bus[b].pid
         /\ x5.bus[b].stored = x4.bus[b].stored /\ x5.bus[b].live = x4.bus[b].live
    BY <2>10, SetStLemma
  <2> HIDE DEF x5
  <2>12. /\ OnlyBus(x5, x6, b) /\ x6.bus[b].pid = x5.bus[b].pid /\ x6.bus[b].once = FALSE
         /\ x6.bus[b].stored = x5.bus[b].stored /\ x6.bus[b].live = x5.bus[b].live
    BY <2>11, SetOnceLemma DEF OnlyBus
  <2> HIDE DEF x6
  <2>13. \A z \in {x3, x6} :
           /\ z \in World /\ z.proc = P /\ z.misuse = w.misuse \cup stray
           /\ \A c \in Buses : c # b => z.bus[c] = w.bus[c]
           /\ z.bus[b].pid = w.bus[b].pid /\ z.bus[b].stored = w.bus[b].stored
           /\ z.bus[b].live = w.bus[b].live
    <3>1. /\ x3.bus[b].pid = w.bus[b].pid /\ x3.bus[b].stored = w.bus[b].stored
          /\ x3.bus[b].live = w.bus[b].live
          /\ \A c \in Buses : c # b => x3.bus[c] = w.bus[c]
      BY <2>5, <2>7, <2>8, <2>9
    <3>2. /\ x6.bus[b].pid = x3.bus[b].pid /\ x6.bus[b].stored = x3.bus[b].stored
          /\ x6.bus[b].live = x3.bus[b].live
      BY <2>10, <2>11, <2>12
    <3>3. /\ x6 \in World /\ x6.proc = P /\ x6.misuse = x3.misuse
          /\ \A c \in Buses : c # b => x6.bus[c] = x3.bus[c]
      BY <2>10, <2>11, <2>12 DEF OnlyBus
    <3> QED
      BY <2>9, <3>1, <3>2, <3>3
  <2>14. x6.sock = w.sock \ {b} /\ ~x6.bus[b].once
    BY <2>10, <2>11, <2>12 DEF OnlyBus
  <2>15. ASSUME NEW z \in {x3, x6} PROVE Torn(w, z, b)
    <3>1. \A p \in DOMAIN P : P[p].st # "reaped" =>
             w.proc[p].bus # b /\ P[p].bus = w.proc[p].bus /\ w.proc[p].st # "reaped"
      BY <1>1, <2>4 DEF Owned
    <3>2. AllReaped(z, b)
      <4>1. SUFFICES ASSUME NEW p \in DOMAIN z.proc, z.proc[p].bus = b, z.proc[p].st # "reaped"
                     PROVE  FALSE
        BY DEF AllReaped
      <4>2. z.proc = P
        BY <2>13
      <4> QED
        BY <3>1, <4>1, <4>2
    <3>3. \A c \in Buses : z.bus[c].pid = w.bus[c].pid
      BY <2>13
    <3>4. Owned(z)
      <4>1. ASSUME NEW c \in Buses, z.bus[c].pid # 0
            PROVE  z.bus[c].pid \in DOMAIN P /\ P[z.bus[c].pid].bus = c
        BY <1>1, <2>4, <3>3, <4>1 DEF Owned
      <4>2. ASSUME NEW c \in Buses, z.bus[c].once
            PROVE  z.bus[c].pid # 0
        <5>1. CASE c = b
          BY <2>2, <3>3, <5>1
        <5>2. CASE c # b
          BY <1>1, <2>13, <4>2, <5>2 DEF Owned
        <5> QED
          BY <5>1, <5>2
      <4>3. ASSUME NEW p \in DOMAIN P, P[p].st # "reaped"
            PROVE  z.bus[P[p].bus].once /\ z.bus[P[p].bus].pid = p
        <5>1. p \in DOMAIN w.proc /\ w.proc[p].bus \in Buses
          BY <1>2, <2>4
        <5>2. z.bus[w.proc[p].bus] = w.bus[w.proc[p].bus]
          BY <2>13, <3>1, <4>3, <5>1
        <5>3. w.bus[w.proc[p].bus].once /\ w.bus[w.proc[p].bus].pid = p
          BY <1>1, <3>1, <4>3, <5>1 DEF Owned
        <5> QED
          BY <3>1, <4>3, <5>2, <5>3
      <4>4. z.proc = P
        BY <2>13
      <4> QED
        BY <4>1, <4>2, <4>3, <4>4 DEF Owned
    <3>5. Sent(z)
      BY <1>1, <2>13 DEF Sent
    <3>6. \A c \in Buses : c # b /\ AllReaped(w, c) => AllReaped(z, c)
      <4>1. SUFFICES ASSUME NEW c \in Buses, AllReaped(w, c), NEW p \in DOMAIN z.proc,
                            z.proc[p].bus = c, z.proc[p].st # "reaped"
                     PROVE  FALSE
        BY DEF AllReaped
      <4>2. z.proc = P
        BY <2>13
      <4>3. p \in DOMAIN P /\ P[p].bus = c /\ P[p].st # "reaped"
        BY <4>1, <4>2
      <4>4. P[p].bus = w.proc[p].bus /\ w.proc[p].st # "reaped"
        BY <3>1, <4>3
      <4>5. p \in DOMAIN w.proc
        BY <2>4, <4>3
      <4> QED
        BY <4>1, <4>3, <4>4, <4>5 DEF AllReaped
    <3>7. Good(z)
      BY <1>1, <2>4, <2>13, <3>4, <3>5 DEF Good
    <3> QED
      BY <2>13, <3>2, <3>6, <3>7 DEF Torn
  <2>16. ASSUME Clear(w) PROVE Clear(r.d) /\ r.d.misuse = w.misuse
    <3>1. r.d = x6 /\ x6.sock = {}
      BY <2>1, <2>14, <2>16 DEF Clear
    <3>2. x6.misuse = w.misuse
      BY <2>3, <2>13, <2>16
    <3>3. ASSUME NEW c \in Buses, x6.bus[c].once
          PROVE  x6.bus[c].fd # "closed" /\ x6.proc[x6.bus[c].pid].st # "reaped"
      <4>1. c # b /\ x6.bus[c] = w.bus[c] /\ x6.proc = P
        BY <2>13, <2>14, <3>3
      <4>2. w.bus[c].fd # "closed" /\ w.proc[w.bus[c].pid].st # "reaped"
        BY <2>16, <3>3, <4>1 DEF Clear
      <4>3. w.bus[c].pid \in DOMAIN w.proc /\ w.proc[w.bus[c].pid].bus = c
        BY <1>1, <3>3, <4>1 DEF Owned
      <4>4. w.bus[c].pid # pid
        BY <2>2, <4>1, <4>3
      <4> HIDE DEF pid
      <4> QED
        BY <2>4, <4>1, <4>2, <4>3, <4>4
    <3> QED
      BY <3>1, <3>2, <3>3 DEF Clear
  <2> QED
    BY <2>1, <2>15, <2>16
<1> QED
  BY <1>3, <1>4

\* The teardowns of both instances, in either order.
LEMMA BothLemma ==
    ASSUME NEW w, Good(w), NEW b \in Buses, NEW c \in Buses, b # c,
           NEW x, Torn(w, x, b), Clear(w) => Clear(x) /\ x.misuse = w.misuse,
           NEW y, Torn(x, y, c), Clear(x) => Clear(y) /\ y.misuse = x.misuse
    PROVE  /\ Good(y) /\ \A a \in Buses : AllReaped(y, a)
           /\ \A a \in Buses : w.bus[a].live = y.bus[a].live
           /\ Clear(w) => Clear(y) /\ y.misuse = w.misuse
<1>1. \A a \in Buses : a = b \/ a = c
  BY DEF Buses
<1>2. AllReaped(y, b) /\ AllReaped(y, c) /\ Good(y)
  BY DEF Torn
<1>3. \A a \in Buses : w.bus[a].live = y.bus[a].live
  BY DEF Torn
<1> QED
  BY <1>1, <1>2, <1>3

\* DBusGateway::teardown and the destructors: every process is reaped, and while no
\* socket was left and nothing was reaped before, nothing is named twice.
LEMMA TeardownLemma ==
    ASSUME NEW w, Good(w), NEW y, y \in TeardownOut(w) \/ y \in DestructOut(w)
    PROVE  /\ Good(y) /\ \A a \in Buses : AllReaped(y, a)
           /\ \A a \in Buses : w.bus[a].live = y.bus[a].live
           /\ Clear(w) => Clear(y) /\ y.misuse = w.misuse
<1>1. ASSUME NEW b \in Buses, NEW c \in Buses, b # c,
             NEW r \in InstTeardownOut(w, b), NEW q \in InstTeardownOut(r.d, c), y = q.d
      PROVE  /\ Good(y) /\ \A a \in Buses : AllReaped(y, a)
             /\ \A a \in Buses : w.bus[a].live = y.bus[a].live
             /\ Clear(w) => Clear(y) /\ y.misuse = w.misuse
  <2>1. Torn(w, r.d, b) /\ (Clear(w) => Clear(r.d) /\ r.d.misuse = w.misuse)
    BY InstTeardownLemma
  <2>2. Torn(r.d, q.d, c) /\ (Clear(r.d) => Clear(q.d) /\ q.d.misuse = r.d.misuse)
    <3>1. Good(r.d)
      BY <2>1 DEF Torn
    <3> QED
      BY <3>1, InstTeardownLemma
  <2>3. Torn(r.d, y, c) /\ (Clear(r.d) => Clear(y) /\ y.misuse = r.d.misuse)
    BY <1>1, <2>2
  <2> QED
    BY <1>1, <2>1, <2>3, BothLemma
<1>2. "session" \in Buses /\ "system" \in Buses /\ "session" # "system"
  BY DEF Buses
<1>3. CASE y \in TeardownOut(w)
  <2>1. PICK r \in InstTeardownOut(w, "session") : \E q \in InstTeardownOut(r.d, "system") : y = q.d
    BY <1>3 DEF TeardownOut
  <2> QED
    BY <1>1, <1>2, <2>1
<1>4. CASE y \in DestructOut(w)
  <2>1. PICK r \in InstTeardownOut(w, "system") : \E q \in InstTeardownOut(r.d, "session") : y = q.d
    BY <1>4 DEF DestructOut
  <2> QED
    BY <1>1, <1>2, <2>1
<1> QED
  BY <1>3, <1>4

----------------------------------------------------------------------------
(***************************************************************************)
(* The calls.                                                              *)
(***************************************************************************)
\* No process, no configuration.
LEMMA DBusInitLemma == DBusInit => DBusInv
<1> SUFFICES ASSUME DBusInit PROVE DBusInv
  OBVIOUS
<1>1. NewInstance \in InstanceRec
  BY DBusAssumption DEF NewInstance, InstanceRec
<1>2. /\ NewInstance.pid = 0 /\ NewInstance.once = FALSE /\ NewInstance.fd = "none"
      /\ NewInstance.live = {}
  BY DEF NewInstance
<1>3. /\ d.bus = [b \in Buses |-> NewInstance] /\ d.proc = <<>> /\ d \in World
  BY <1>1 DEF DBusInit, World
<1>4. Owned(d) /\ Sent(d) /\ Untouched(d)
  BY <1>2, <1>3 DEF Owned, Sent, Untouched
<1>5. Len(d.proc) <= MaxProxies
  BY <1>3, DBusAssumption
<1>6. gone = FALSE
  BY DEF DBusInit
<1> QED
  BY <1>3, <1>4, <1>5, <1>6 DEF DBusInv, Good

\* What a step may do to the instances, and the processes named.
StepOK == InstancesAreGateways /\ FilterOnlyGrows /\ ReapedOnce

\* A call while the gateway exists.
LEMMA ServedStep ==
    ASSUME DBusInv, ~gone, Served(d, d'), UNCHANGED gone
    PROVE  DBusInv' /\ StepOK
<1>1. DBusInv'
  BY DEF DBusInv, Served
<1>2. InstancesAreGateways /\ FilterOnlyGrows
  BY DEF Served, Step, InstancesAreGateways, FilterOnlyGrows
<1>3. ReapedOnce
  BY DEF Served, ReapedOnce
<1> QED
  BY <1>1, <1>2, <1>3 DEF StepOK

\* The gateway is torn down and destroyed.
LEMMA GoneStep ==
    ASSUME DBusInv, ~gone, gone' = TRUE,
           d' \in DestructOut(d) \/ \E w \in TeardownOut(d) : d' \in DestructOut(w)
    PROVE  DBusInv' /\ StepOK
<1>1. Good(d) /\ Untouched(d)
  BY DEF DBusInv
<1>2. d.sock = {} => Clear(d)
  BY <1>1 DEF Clear, Good, Owned, Untouched
<1>3. /\ Good(d') /\ \A a \in Buses : AllReaped(d', a)
      /\ \A a \in Buses : d.bus[a].live = d'.bus[a].live
      /\ Clear(d) => d'.misuse = d.misuse
  <2>1. CASE d' \in DestructOut(d)
    BY <1>1, <2>1, TeardownLemma
  <2>2. ASSUME NEW w \in TeardownOut(d), d' \in DestructOut(w)
        PROVE  /\ Good(d') /\ \A a \in Buses : AllReaped(d', a)
               /\ \A a \in Buses : d.bus[a].live = d'.bus[a].live
               /\ Clear(d) => d'.misuse = d.misuse
    <3>1. /\ Good(w) /\ \A a \in Buses : d.bus[a].live = w.bus[a].live
          /\ Clear(d) => Clear(w) /\ w.misuse = d.misuse
      BY <1>1, TeardownLemma
    <3>2. /\ Good(d') /\ \A a \in Buses : AllReaped(d', a)
          /\ \A a \in Buses : w.bus[a].live = d'.bus[a].live
          /\ Clear(w) => d'.misuse = w.misuse
      BY <2>2, <3>1, TeardownLemma
    <3> QED
      BY <3>1, <3>2
  <2> QED
    BY <2>1, <2>2
<1>4. DBusInv'
  BY <1>3 DEF DBusInv
<1>5. InstancesAreGateways /\ FilterOnlyGrows /\ ReapedOnce
  BY <1>2, <1>3 DEF InstancesAreGateways, FilterOnlyGrows, ReapedOnce
<1> QED
  BY <1>4, <1>5 DEF StepOK

\* A proxy ends on its own.
LEMMA ProxyDiesStep ==
    ASSUME DBusInv, NEW p \in DOMAIN d.proc, ProxyDies(p)
    PROVE  DBusInv' /\ StepOK
<1>1. Good(d) /\ d.proc[p].st = "running"
  BY DEF DBusInv, ProxyDies
<1>2. ~gone
  <2>1. d.proc[p].bus \in Buses
    BY <1>1, ProcessLemma DEF Good
  <2> QED
    BY <1>1, <2>1 DEF DBusInv, AllReaped
<1> DEFINE x == [d EXCEPT !.proc[p].st = "zombie"]
<1>3. Good(x) /\ Untouched(x) /\ x.bus = d.bus /\ x.misuse = d.misuse
  BY <1>1, <1>2, ZombieLemma DEF DBusInv
<1>4. d' = x /\ UNCHANGED gone
  BY DEF ProxyDies
<1> HIDE DEF x
<1>5. Served(d, d')
  BY <1>3, <1>4, SameStep DEF Served
<1> QED
  BY <1>2, <1>4, <1>5, ServedStep

\* A proxy makes its socket late.
LEMMA LateSocketStep ==
    ASSUME DBusInv, NEW p \in DOMAIN d.proc, LateSocket(p)
    PROVE  DBusInv' /\ StepOK
<1>1. Good(d) /\ d.proc[p].st = "running" /\ d \in World
  BY DEF DBusInv, LateSocket, Good
<1>2. d.proc[p].bus \in Buses
  BY <1>1, ProcessLemma
<1>3. ~gone
  BY <1>1, <1>2 DEF DBusInv, AllReaped
<1> DEFINE S == d.sock \cup {d.proc[p].bus}
<1>4. S \in SUBSET Buses
  BY <1>1, <1>2 DEF World
<1>5. d' = SetSock(d, S) /\ UNCHANGED gone
  BY DEF LateSocket, SetSock
<1> HIDE DEF S
<1>6. d' \in World /\ d'.bus = d.bus /\ d'.proc = d.proc /\ d'.misuse = d.misuse
  BY <1>1, <1>4, <1>5, SetRestLemma
<1>7. Good(d') /\ Untouched(d')
  <2>1. Untouched(d)
    BY <1>3 DEF DBusInv
  <2> QED
    BY <1>1, <1>6, <2>1, GoodLemma
<1>8. Served(d, d')
  BY <1>6, <1>7, SameStep DEF Served
<1> QED
  BY <1>3, <1>5, <1>8, ServedStep

\* Every step of the D-Bus gateway.
LEMMA DBusStep ==
    ASSUME DBusInv, [DBusNext]_dbusVars
    PROVE  DBusInv' /\ (StepOK \/ UNCHANGED dbusVars)
<1>1. Good(d) /\ (~gone => Untouched(d))
  BY DEF DBusInv
<1>2. ASSUME NEW arr \in Arrays, SetConfig(arr)
      PROVE  DBusInv' /\ StepOK
  <2>1. ~gone /\ d' = SetConfigOut(d, arr).d /\ UNCHANGED gone
    BY <1>2 DEF SetConfig
  <2>2. Served(d, d')
    BY <1>1, <2>1, SetConfigLemma
  <2> QED
    BY <2>1, <2>2, ServedStep
<1>3. CASE Activate
  <2>1. PICK r \in ActivateOut(d) : d' = r.d
    BY <1>3 DEF Activate
  <2>2. ~gone /\ UNCHANGED gone
    BY <1>3 DEF Activate
  <2>3. Served(d, d')
    BY <1>1, <2>1, <2>2, ActivateLemma
  <2> QED
    BY <2>2, <2>3, ServedStep
<1>4. CASE Shutdown
  <2>1. ~gone /\ gone' = TRUE /\ \E w \in TeardownOut(d) : d' \in DestructOut(w)
    BY <1>4 DEF Shutdown
  <2> QED
    BY <2>1, GoneStep
<1>5. CASE Destruct
  BY <1>5, GoneStep DEF Destruct
<1>6. CASE UNCHANGED dbusVars
  BY <1>6 DEF dbusVars, DBusInv
<1> QED
  BY <1>2, <1>3, <1>4, <1>5, <1>6, ProxyDiesStep, LateSocketStep DEF DBusNext, DBusRest

\* The invariant, in the composition of the gateways run.
THEOREM DBusInvariance == GatewaysSpec => []DBusInv
<1>1. GatewaysInit => DBusInv
  BY DBusInitLemma DEF GatewaysInit
<1>2. DBusInv /\ [GatewaysNext]_gatewaysVars => DBusInv'
  <2> SUFFICES ASSUME DBusInv, [GatewaysNext]_gatewaysVars PROVE DBusInv'
    OBVIOUS
  <2>1. [DBusNext]_dbusVars
    BY DEF GatewaysNext, gatewaysVars
  <2> QED
    BY <2>1, DBusStep
<1> QED
  BY <1>1, <1>2, PTL DEF GatewaysSpec

\* No dbus-proxy outlives its gateway, whether or not shutdownGateways() was called and
\* whatever failed before, and a bus never has two, although a failed activateGateway()
\* may be run again: for any configurations and any number of processes.
THEOREM NoStrayProxies == GatewaysSpec => []ProxiesAreReaped
<1>1. DBusInv => ProxiesAreReaped
  <2> SUFFICES ASSUME DBusInv PROVE ProxiesAreReaped
    OBVIOUS
  <2>1. Owned(d) /\ \A p \in DOMAIN d.proc : d.proc[p].bus \in Buses
    BY ProcessLemma DEF DBusInv, Good
  <2>2. NoProxyOutlives
    BY <2>1 DEF DBusInv, AllReaped, NoProxyOutlives
  <2>3. ASSUME NEW b \in Buses
        PROVE  Cardinality({p \in DOMAIN d.proc : d.proc[p].bus = b /\ d.proc[p].st # "reaped"}) <= 1
    <3> DEFINE S == {p \in DOMAIN d.proc : d.proc[p].bus = b /\ d.proc[p].st # "reaped"}
               pid == d.bus[b].pid
    <3>1. \A p \in S : p = pid
      BY <2>1 DEF Owned
    <3> HIDE DEF S, pid
    <3>2. S = {} \/ S = {pid}
      BY <3>1
    <3>3. Cardinality(S) <= 1
      BY <3>2, FS_EmptySet, FS_Singleton
    <3> QED
      BY <3>3 DEF S
  <2> QED
    BY <2>2, <2>3 DEF ProxiesAreReaped, OneProxyPerBus
<1> QED
  BY <1>1, DBusInvariance, PTL

\* Both instances behave as the base class lets a dynamic gateway behave, never take
\* back a rule that their proxy has, and name a process or a descriptor that they no
\* longer own only where a socket could not be removed.
THEOREM InstancesImplementGateway == GatewaysSpec => BusesAreGateways
<1>1. DBusInv /\ [GatewaysNext]_gatewaysVars => [InstancesAreGateways /\ FilterOnlyGrows /\ ReapedOnce]_dbusVars
  <2> SUFFICES ASSUME DBusInv, [GatewaysNext]_gatewaysVars
               PROVE  (InstancesAreGateways /\ FilterOnlyGrows /\ ReapedOnce) \/ UNCHANGED dbusVars
    OBVIOUS
  <2>1. [DBusNext]_dbusVars
    BY DEF GatewaysNext, gatewaysVars
  <2> QED
    BY <2>1, DBusStep DEF StepOK
<1> QED
  BY <1>1, DBusInvariance, PTL DEF GatewaysSpec, BusesAreGateways

\* The members of the gateway keep their types, and m_pid names a process of the
\* instance's own bus.
THEOREM DBusTypeCorrect == GatewaysSpec => []DBusTypeOK
<1>1. DBusInv => DBusTypeOK
  BY DEF DBusInv, Good, World, Owned, DBusTypeOK
<1> QED
  BY <1>1, DBusInvariance, PTL

----------------------------------------------------------------------------
(***************************************************************************)
(* The cgroups gateway: the numbers.                                       *)
(***************************************************************************)
\* The units fit into a long long, -1 of the greatest one included.
LEMMA FactorLemma ==
    ASSUME NEW u
    PROVE  Factor(u) \in Int /\ 1 <= Factor(u) /\ Factor(u) <= MaxLL + 1
<1>1. Kilo \in Nat /\ Kilo >= 1 /\ MaxLL \in Nat /\ Kilo * Kilo * Kilo <= MaxLL + 1
  BY CgroupsAssumption
<1>2. ASSUME NEW a \in Nat, a >= 1 PROVE a * Kilo >= a /\ a * Kilo \in Nat
  BY <1>1, <1>2
<1>3. Kilo * Kilo \in Nat /\ Kilo * Kilo >= Kilo
  BY <1>1, <1>2
<1>4. Kilo * Kilo * Kilo \in Nat /\ Kilo * Kilo * Kilo >= Kilo * Kilo
  <2> DEFINE a == Kilo * Kilo
  <2>1. a \in Nat /\ a >= 1
    BY <1>1, <1>3
  <2> HIDE DEF a
  <2>2. a * Kilo >= a /\ a * Kilo \in Nat
    BY <1>2, <2>1
  <2> QED
    BY <2>2 DEF a
<1> DEFINE k2 == Kilo * Kilo  k3 == Kilo * Kilo * Kilo
<1>5. Factor(u) \in {1, Kilo, k2, k3}
  BY DEF Factor
<1>6. k2 \in Nat /\ k2 >= Kilo /\ k3 \in Nat /\ k3 >= k2 /\ k3 <= MaxLL + 1
  BY <1>1, <1>3, <1>4
<1> HIDE DEF k2, k3
<1> QED
  BY <1>1, <1>5, <1>6

\* A number that passes the test of convertToBytes times its unit is a long long.
LEMMA ProductLemma ==
    ASSUME NEW n \in Int, n >= -1, NEW F \in Int, 1 <= F, F <= MaxLL + 1, n <= MaxLL \div F
    PROVE  n * F \in Int /\ -(MaxLL + 1) <= n * F /\ n * F <= MaxLL
<1>1. MaxLL \in Nat
  BY CgroupsAssumption
<1> DEFINE q == MaxLL \div F
<1>2. q \in Int /\ q * F <= MaxLL
  BY <1>1
<1> HIDE DEF q
<1>3. n * F <= q * F
  BY <1>2 DEF q
<1>4. n * F >= -F
  OBVIOUS
<1>5. n * F \in Int /\ q * F \in Int
  BY <1>2
<1> QED
  BY <1>1, <1>2, <1>3, <1>4, <1>5

\* A long long is kept as it is.
LEMMA WrappedLemma ==
    ASSUME NEW x \in Int, -(MaxLL + 1) <= x, x <= MaxLL
    PROVE  Wrapped(x) = x
<1>1. MaxLL \in Nat
  BY CgroupsAssumption
<1> DEFINE a == x + MaxLL + 1  P == 2 * (MaxLL + 1)
<1>2. a \in Int /\ 0 <= a /\ P \in Int /\ a < P /\ a - (MaxLL + 1) = x
  BY <1>1
<1> HIDE DEF a, P
<1>3. a % P = a
  BY <1>2
<1> QED
  BY <1>2, <1>3 DEF Wrapped, a, P

----------------------------------------------------------------------------
(***************************************************************************)
(* The cgroups gateway: the parser.                                        *)
(***************************************************************************)
\* A value as m_settings has it.
ItemRec == [n : Int, suf : Endings]

\* The fields of values and answers.
LEMMA ValueLemma ==
    ASSUME NEW v \in Values
    PROVE  /\ v \in ItemRec /\ v.n \in Int /\ v.suf \in Endings /\ v.n <= 2 * MaxLL
           /\ Strtoll(v.n) \in Int /\ Strtoll(v.n) >= -1
<1>1. v.n \in Amounts \cup {-1, NaN} /\ v.suf \in Endings
  BY DEF Values
<1>2. MaxLL \in Nat /\ Amounts \subseteq 0..(2 * MaxLL)
  BY CgroupsAssumption
<1> DEFINE n == v.n  W == 2 * MaxLL
<1>a. W \in Nat
  BY <1>2
<1>b. n \in 0..W \/ n = -1 \/ n = -99
  BY <1>1, <1>2 DEF NaN
<1> HIDE DEF n, W
<1>c. n \in Int /\ n <= W /\ (n # -99 => n >= -1)
  BY <1>a, <1>b
<1>3. v.n \in Int /\ v.n <= 2 * MaxLL /\ (v.n # NaN => v.n >= -1)
  BY <1>c DEF n, W, NaN
<1>4. v \in ItemRec
  BY <1>1, <1>3 DEF Values, ItemRec
<1> QED
  BY <1>1, <1>3, <1>4 DEF Strtoll

\* An answer's parts.
LEMMA AnswerFields ==
    ASSUME NEW a, NEW v
    PROVE  Answer(a, v).res = a /\ Answer(a, v).v = v
BY DEF Answer

\* suffixCorrection keeps what a value means, for whatever number and unit.
LEMMA SuffixLemma ==
    ASSUME NEW v \in Values, NEW key \in Memory, SuffixCorrection(v).res = "ok"
    PROVE  /\ SuffixCorrection(v).v \in ItemRec
           /\ SuffixCorrection(v).v.n <= 2 * MaxLL
           /\ Leading(SuffixCorrection(v).v) = Meaning(key, v)
           /\ Meaning(key, v) \in Int
<1>1. /\ v \in ItemRec /\ v.n \in Int /\ v.suf \in Endings /\ v.n <= 2 * MaxLL
      /\ Strtoll(v.n) \in Int /\ Strtoll(v.n) >= -1
  BY ValueLemma
<1>2. "digit" \in Endings /\ MaxLL \in Nat
  BY CgroupsAssumption
<1>3. key # "cpu.shares"
  BY DEF Memory
<1>4. CASE v.suf \in {"digit", "classid"}
  <2>1. SuffixCorrection(v).v = v
    BY <1>4, AnswerFields DEF SuffixCorrection
  <2> QED
    BY <1>1, <1>4, <2>1 DEF Meaning, Leading
<1>5. CASE v.suf \in {"k", "m", "g"}
  <2> DEFINE F == Factor(v.suf)  m == Strtoll(v.n)
  <2>1. SuffixCorrection(v) = ConvertToBytes(v)
    BY <1>5 DEF SuffixCorrection
  <2>2. ~(m > MaxLL \div F) /\ SuffixCorrection(v).v = Text(Wrapped(m * F))
    BY <2>1, AnswerFields DEF ConvertToBytes
  <2>3. Meaning(key, v) = m * F
    BY <1>3, <1>5 DEF Meaning
  <2>4. F \in Int /\ 1 <= F /\ F <= MaxLL + 1
    BY FactorLemma
  <2>5. m \in Int /\ m >= -1
    BY <1>1
  <2> HIDE DEF F, m
  <2>6. MaxLL \div F \in Int
    BY <1>2, <2>4
  <2>7. m <= MaxLL \div F
    BY <2>2, <2>5, <2>6
  <2>8. m * F \in Int /\ -(MaxLL + 1) <= m * F /\ m * F <= MaxLL
    BY <2>4, <2>5, <2>7, ProductLemma
  <2> DEFINE t == m * F
  <2> HIDE DEF t
  <2>9. Wrapped(t) = t /\ t \in Int /\ t <= MaxLL
    BY <2>8, WrappedLemma DEF t
  <2>10. Text(t) \in ItemRec /\ Text(t).n = t /\ Leading(Text(t)) = t
    BY <1>2, <2>9 DEF Text, ItemRec, Leading
  <2>11. SuffixCorrection(v).v = Text(t) /\ Meaning(key, v) = t
    BY <2>2, <2>3, <2>9 DEF t
  <2> QED
    BY <1>2, <2>9, <2>10, <2>11
<1>6. CASE v.suf \notin {"digit", "classid", "k", "m", "g"}
  BY <1>6, AnswerFields DEF SuffixCorrection
<1> QED
  BY <1>4, <1>5, <1>6

\* For the keys of which the bigger value counts: the setting x is what one of the
\* values read means, and no other means more.
Greatest(x, values, key) ==
    /\ \E v \in ToSet(values) : Leading(x) = Meaning(key, v)
    /\ \A v \in ToSet(values) : Leading(x) >= Meaning(key, v)

\* The setting of a key and the values read for it agree.
Kept(x, values, key) ==
    IF key \in Biggest THEN Greatest(x, values, key) ELSE x = Last(values)

\* What a key's setting looks like: the shares are a bare number, and no limit is above
\* what stands for none.
Form(x, key) ==
    /\ x \in ItemRec
    /\ key = "cpu.shares" => x.suf = "digit"
    /\ key \in Memory => x.n <= 2 * MaxLL

KeyOK(S, R, key) ==
    /\ key \in DOMAIN S <=> R[key] # <<>>
    /\ key \in DOMAIN S => Form(S[key], key) /\ Kept(S[key], R[key], key)

SettingsOK(S, R) ==
    /\ DOMAIN S \subseteq Keys /\ S \in [DOMAIN S -> ItemRec] /\ R \in [Keys -> Seq(Values)]
    /\ \A key \in Keys : KeyOK(S, R, key)

\* The items C of a cgroup that settings S were tried on.
ItemsOK(C, S) ==
    /\ DOMAIN C \subseteq DOMAIN S /\ C \in [DOMAIN C -> ItemRec]
    /\ \A key \in DOMAIN C : key \in Memory => C[key].n <= 2 * MaxLL

CgroupsTypes ==
    /\ cgroupsState \in {"created", "configured", "activated"}
    /\ reading \in {"no", "none", "some"}
    /\ reads \in 0..MaxReads /\ tries \in 0..MaxTries
    /\ cgroupsReply \in {"none", "configured", "error", "std", "malformed", "activated", "failed"}
    /\ why \in {"none", "host", "order"}
    /\ cgroupsState # "created" \/ reading = "some" => DOMAIN settings # {}

\* The invariant of the cgroups gateway.
CgroupsInv ==
    /\ CgroupsTypes
    /\ SettingsOK(settings, read)
    /\ ItemsOK(cgroup, settings)
    /\ tries = 0 => DOMAIN cgroup = {}
    /\ reading # "no" => why = "none" /\ cgroupsState # "activated"
    /\ cgroupsState = "activated" => settings = cgroup
    /\ FirstTryIsOrdered

\* A value read more.
LEMMA ToSetLemma ==
    ASSUME NEW s \in Seq(Values), NEW v \in Values
    PROVE  /\ ToSet(Append(s, v)) = ToSet(s) \cup {v}
           /\ Append(s, v) \in Seq(Values) /\ Append(s, v) # <<>> /\ Last(Append(s, v)) = v
           /\ ToSet(s) \subseteq Values
           /\ s = <<>> => ToSet(s) = {}
<1> DEFINE n == Len(s)  t == Append(s, v)
<1>1. n \in Nat /\ DOMAIN s = 1..n /\ \A i \in 1..n : s[i] \in Values
  OBVIOUS
<1>2. t \in Seq(Values) /\ Len(t) = n + 1 /\ DOMAIN t = 1..(n + 1)
      /\ t[n + 1] = v /\ \A i \in 1..n : t[i] = s[i]
  OBVIOUS
<1>3. t # <<>>
  BY <1>1, <1>2
<1> HIDE DEF n, t
<1>4. \A i \in 1..(n + 1) : i \in 1..n \/ i = n + 1
  BY <1>1
<1>5. \A i \in 1..n : i \in 1..(n + 1)
  BY <1>1
<1>6. n + 1 \in 1..(n + 1)
  BY <1>1
<1>7. ToSet(t) = ToSet(s) \cup {v}
  BY <1>1, <1>2, <1>4, <1>5, <1>6 DEF ToSet
<1>8. ToSet(s) \subseteq Values
  BY <1>1 DEF ToSet
<1>9. s = <<>> => ToSet(s) = {}
  BY DEF ToSet
<1> QED
  BY <1>2, <1>3, <1>7, <1>8, <1>9 DEF Last, t

\* The greatest number of a set.
LEMMA MaxLemma ==
    ASSUME NEW S \in SUBSET Int, NEW m \in S, \A x \in S : m >= x
    PROVE  Max(S) = m
<1>1. \E x \in S : \A y \in S : x >= y
  OBVIOUS
<1> DEFINE M == Max(S)
<1>2. M \in S /\ \A y \in S : M >= y
  BY <1>1 DEF Max
<1> HIDE DEF M
<1>3. M \in Int /\ m \in Int /\ M >= m /\ m >= M
  BY <1>2
<1>4. M = m
  BY <1>3
<1> QED
  BY <1>4 DEF M
\* What a value means is a number.
LEMMA MeaningLemma ==
    ASSUME NEW v \in Values, NEW key
    PROVE  Meaning(key, v) \in Int /\ Leading(v) \in Int
<1>1. v.n \in Int /\ Strtoll(v.n) \in Int
  BY ValueLemma
<1>2. Factor(v.suf) \in Int
  BY FactorLemma
<1> DEFINE m == Strtoll(v.n)  F == Factor(v.suf)
<1> HIDE DEF m, F
<1>3. m * F \in Int
  BY <1>1, <1>2 DEF m, F
<1> QED
  BY <1>1, <1>3 DEF Meaning, Leading, m, F

\* A setting as the map has it starts with a number.
LEMMA LeadingLemma ==
    ASSUME NEW x \in ItemRec
    PROVE  Leading(x) \in Int
BY DEF ItemRec, Leading

\* A value that means at least as much as the setting takes its place.
LEMMA GreatestLemma ==
    ASSUME NEW values \in Seq(Values), NEW v \in Values, NEW key, NEW x \in ItemRec, NEW y \in ItemRec,
           Leading(x) = Meaning(key, v),
           values # <<>> => Greatest(y, values, key) /\ Leading(x) >= Leading(y)
    PROVE  Greatest(x, Append(values, v), key)
<1> DEFINE T == ToSet(values)
<1>1. ToSet(Append(values, v)) = T \cup {v} /\ T \subseteq Values /\ (values = <<>> => T = {})
  BY ToSetLemma
<1> HIDE DEF T
<1>2. Leading(x) \in Int /\ Leading(y) \in Int
  BY LeadingLemma
<1>3. ASSUME NEW w \in T PROVE Leading(x) >= Meaning(key, w)
  <2>1. values # <<>>
    BY <1>1, <1>3
  <2>2. Leading(y) >= Meaning(key, w) /\ Leading(x) >= Leading(y)
    BY <2>1 DEF Greatest, T
  <2>3. Meaning(key, w) \in Int
    BY <1>1, MeaningLemma
  <2> QED
    BY <1>2, <2>2, <2>3
<1>4. Leading(x) >= Meaning(key, v)
  BY <1>2
<1> QED
  BY <1>1, <1>3, <1>4 DEF Greatest

\* A value that means no more than the setting leaves it.
LEMMA KeepLemma ==
    ASSUME NEW values \in Seq(Values), NEW v \in Values, NEW key, NEW y,
           Greatest(y, values, key), Leading(y) >= Meaning(key, v)
    PROVE  Greatest(y, Append(values, v), key)
<1>1. ToSet(Append(values, v)) = ToSet(values) \cup {v}
  BY ToSetLemma
<1> QED
  BY <1>1 DEF Greatest

\* What CGroupsParser answers: a value to store that means what was read and more than
\* what is stored, or the advice to keep what is stored, which is as much.
Stores(a, key, v) ==
    /\ Form(a.v, key)
    /\ key \in Biggest =>
         /\ Leading(a.v) = Meaning(key, v)
         /\ key \in DOMAIN settings => Leading(a.v) >= Leading(settings[key])
    /\ key \notin Biggest => a.v = v

Keeps(key, v) ==
    key \in Biggest /\ key \in DOMAIN settings /\ Leading(settings[key]) >= Meaning(key, v)

Parsed(a, key, v) ==
    /\ a.res \in {"ok", "keep", "error", "std"}
    /\ a.res = "ok" => Stores(a, key, v)
    /\ a.res = "keep" => Keeps(key, v)

\* The memory limits.
LEMMA ParseMemoryLemma ==
    ASSUME NEW key \in Memory, NEW v \in Values,
           key \in DOMAIN settings => settings[key] \in ItemRec
    PROVE  Parsed(ParseMemory(key, v), key, v)
<1> DEFINE c == SuffixCorrection(v)
<1>1. key \in Biggest /\ key # "cpu.shares"
  BY DEF Biggest, Memory
<1>2. c.res \in {"ok", "error"}
  BY AnswerFields DEF SuffixCorrection, ConvertToBytes
<1>3. c.res = "ok" => /\ c.v \in ItemRec /\ c.v.n <= 2 * MaxLL
                      /\ Leading(c.v) = Meaning(key, v) /\ Meaning(key, v) \in Int
  BY SuffixLemma
<1>4. ParseMemory(key, v) =
        IF c.res # "ok" \/ key \notin DOMAIN settings THEN c
        ELSE IF Unparsable(settings[key]) \/ Unparsable(c.v) THEN Answer("std", v)
        ELSE IF Leading(settings[key]) >= Leading(c.v) THEN Answer("keep", v) ELSE c
  BY DEF ParseMemory
<1> HIDE DEF c
<1>5. CASE c.res # "ok" \/ key \notin DOMAIN settings
  <2>1. ParseMemory(key, v) = c
    BY <1>4, <1>5
  <2>2. c.res = "ok" => Stores(c, key, v)
    BY <1>1, <1>3, <1>5 DEF Stores, Form
  <2> QED
    BY <1>2, <2>1, <2>2 DEF Parsed
<1>6. CASE c.res = "ok" /\ key \in DOMAIN settings
  <2>1. Leading(settings[key]) \in Int /\ Leading(c.v) \in Int
    BY <1>3, <1>6, LeadingLemma
  <2>2. CASE Unparsable(settings[key]) \/ Unparsable(c.v)
    <3>1. ParseMemory(key, v) = Answer("std", v)
      BY <1>4, <1>6, <2>2
    <3> QED
      BY <3>1, AnswerFields DEF Parsed
  <2>3. CASE ~(Unparsable(settings[key]) \/ Unparsable(c.v)) /\ Leading(settings[key]) >= Leading(c.v)
    <3>1. ParseMemory(key, v) = Answer("keep", v)
      BY <1>4, <1>6, <2>3
    <3>2. Keeps(key, v)
      BY <1>1, <1>3, <1>6, <2>3 DEF Keeps
    <3> QED
      BY <3>1, <3>2, AnswerFields DEF Parsed
  <2>4. CASE ~(Unparsable(settings[key]) \/ Unparsable(c.v)) /\ ~(Leading(settings[key]) >= Leading(c.v))
    <3>1. ParseMemory(key, v) = c
      BY <1>4, <1>6, <2>4
    <3>2. Leading(c.v) >= Leading(settings[key])
      BY <2>1, <2>4
    <3>3. Stores(c, key, v)
      BY <1>1, <1>3, <1>6, <3>2 DEF Stores, Form
    <3> QED
      BY <1>6, <3>1, <3>3 DEF Parsed
  <2> QED
    BY <2>2, <2>3, <2>4
<1> QED
  BY <1>2, <1>5, <1>6

\* The shares.
LEMMA ParseSharesLemma ==
    ASSUME NEW v \in Values,
           "cpu.shares" \in DOMAIN settings => Form(settings["cpu.shares"], "cpu.shares")
    PROVE  Parsed(ParseShares("cpu.shares", v), "cpu.shares", v)
<1> DEFINE key == "cpu.shares"
<1>1. key \in Biggest /\ key \notin Memory
  BY DEF Biggest, Memory
<1>2. v.n \in Int /\ "digit" \in Endings
  BY ValueLemma, CgroupsAssumption
<1>3. Meaning(key, v) = Leading(v)
  BY DEF Meaning
<1> DEFINE bad == v.n = NaN \/ v.n > MaxInt \/ Leading(v) < 2
<1>4. CASE bad
  <2>1. ParseShares(key, v) = Answer("error", v)
    BY <1>4 DEF ParseShares
  <2> QED
    BY <2>1, AnswerFields DEF Parsed
<1>5. CASE ~bad
  <2>1. Leading(v) = v.n
    BY <1>5 DEF Leading
  <2>2. CASE key \in DOMAIN settings /\ settings[key].n >= v.n
    <3>1. ParseShares(key, v) = Answer("keep", v)
      BY <1>5, <2>2 DEF ParseShares
    <3>2. Leading(settings[key]) = settings[key].n
      BY <2>2 DEF Form, Leading
    <3>3. Keeps(key, v)
      BY <1>1, <1>3, <2>1, <2>2, <3>2 DEF Keeps
    <3> QED
      BY <3>1, <3>3, AnswerFields DEF Parsed
  <2>3. CASE ~(key \in DOMAIN settings /\ settings[key].n >= v.n)
    <3>1. ParseShares(key, v) = Answer("ok", Text(v.n))
      BY <1>5, <2>3 DEF ParseShares
    <3>2. Text(v.n) \in ItemRec /\ Text(v.n).suf = "digit" /\ Leading(Text(v.n)) = v.n
      BY <1>2 DEF Text, ItemRec, Leading
    <3>3. key \in DOMAIN settings => v.n >= Leading(settings[key])
      BY <1>2, <2>3 DEF Form, Leading, ItemRec
    <3>4. Stores(Answer("ok", Text(v.n)), key, v)
      BY <1>1, <1>3, <2>1, <3>2, <3>3, AnswerFields DEF Stores, Form
    <3> QED
      BY <3>1, <3>4, AnswerFields DEF Parsed
  <2> QED
    BY <2>2, <2>3
<1> QED
  BY <1>4, <1>5

\* All keys.
LEMMA ParseLemma ==
    ASSUME SettingsOK(settings, read), NEW key \in Keys, NEW v \in Values
    PROVE  Parsed(ParseCGroupsGatewayConfiguration(key, v), key, v)
<1>1. key \in DOMAIN settings => Form(settings[key], key)
  BY DEF SettingsOK, KeyOK
<1>2. v \in ItemRec
  BY ValueLemma
<1>3. CASE key \in Memory
  <2>1. ParseCGroupsGatewayConfiguration(key, v) = ParseMemory(key, v)
    BY <1>3 DEF ParseCGroupsGatewayConfiguration, Memory
  <2> QED
    BY <1>1, <1>3, <2>1, ParseMemoryLemma DEF Form
<1>4. CASE key = "cpu.shares"
  <2>1. ParseCGroupsGatewayConfiguration(key, v) = ParseShares(key, v)
    BY <1>4 DEF ParseCGroupsGatewayConfiguration, Memory
  <2> QED
    BY <1>1, <1>4, <2>1, ParseSharesLemma
<1>5. CASE key \notin Memory /\ key # "cpu.shares"
  <2>1. key \notin Biggest
    BY <1>5 DEF Biggest
  <2>2. ParseCGroupsGatewayConfiguration(key, v) \in {Answer("ok", v), Answer("error", v)}
    BY <1>5 DEF ParseCGroupsGatewayConfiguration, ParseClassId
  <2>3. Stores(Answer("ok", v), key, v)
    BY <1>2, <1>5, <2>1, AnswerFields DEF Stores, Form
  <2> QED
    BY <2>2, <2>3, AnswerFields DEF Parsed
<1> QED
  BY <1>3, <1>4, <1>5
----------------------------------------------------------------------------
(***************************************************************************)
(* The cgroups gateway: configuration.                                     *)
(***************************************************************************)
\* A map with one more item.
LEMMA ExtendedDomain ==
    ASSUME NEW f, NEW key, NEW w
    PROVE  DOMAIN Extended(f, key, w) = DOMAIN f \cup {key}
BY DEF Extended

\* The item that is new.
LEMMA ExtendedNew ==
    ASSUME NEW f, NEW key, NEW w
    PROVE  Extended(f, key, w)[key] = w
BY DEF Extended

\* The others.
LEMMA ExtendedOld ==
    ASSUME NEW f, NEW key, NEW w, NEW k \in DOMAIN f, k # key
    PROVE  Extended(f, key, w)[k] = f[k]
BY DEF Extended

\* Its type.
LEMMA ExtendedType ==
    ASSUME NEW f, NEW D, NEW key, NEW w \in ItemRec, f \in [D -> ItemRec]
    PROVE  Extended(f, key, w) \in [D \cup {key} -> ItemRec]
BY DEF Extended

\* A value that is stored.
LEMMA StoredLemma ==
    ASSUME SettingsOK(settings, read), NEW key \in Keys, NEW v \in Values, NEW a,
           Stores(a, key, v)
    PROVE  SettingsOK(Extended(settings, key, a.v), [read EXCEPT ![key] = Append(@, v)])
<1> DEFINE S == Extended(settings, key, a.v)  s == Append(read[key], v)  R == [read EXCEPT ![key] = s]
<1>1. DOMAIN settings \subseteq Keys /\ settings \in [DOMAIN settings -> ItemRec]
      /\ read \in [Keys -> Seq(Values)]
  BY DEF SettingsOK
<1>2. a.v \in ItemRec
  BY DEF Stores, Form
<1>3. /\ DOMAIN S = DOMAIN settings \cup {key} /\ S \in [DOMAIN S -> ItemRec]
      /\ S[key] = a.v /\ \A k \in DOMAIN settings : k # key => S[k] = settings[k]
  <2> DEFINE w == a.v
  <2> HIDE DEF w
  <2>1. DOMAIN Extended(settings, key, w) = DOMAIN settings \cup {key}
    BY ExtendedDomain
  <2>2. Extended(settings, key, w) \in [DOMAIN settings \cup {key} -> ItemRec]
    BY <1>1, <1>2, ExtendedType DEF w
  <2>3. Extended(settings, key, w)[key] = w
    BY ExtendedNew
  <2>4. \A k \in DOMAIN settings : k # key => Extended(settings, key, w)[k] = settings[k]
    BY ExtendedOld
  <2> QED
    BY <2>1, <2>2, <2>3, <2>4 DEF w
<1>4. s \in Seq(Values) /\ s # <<>> /\ Last(s) = v
  BY <1>1, ToSetLemma
<1>5. R \in [Keys -> Seq(Values)] /\ R[key] = s /\ \A k \in Keys : k # key => R[k] = read[k]
  BY <1>1, <1>4
<1>6. KeyOK(settings, read, key)
  BY DEF SettingsOK
<1>7. Kept(a.v, s, key)
  <2>1. CASE key \notin Biggest
    BY <1>4, <2>1 DEF Kept, Stores
  <2>2. CASE key \in Biggest
    <3>1. Leading(a.v) = Meaning(key, v)
      BY <2>2 DEF Stores
    <3>2. CASE read[key] = <<>>
      BY <1>1, <1>2, <2>2, <3>1, <3>2, GreatestLemma DEF Kept
    <3>3. CASE read[key] # <<>>
      <4>1. key \in DOMAIN settings /\ Greatest(settings[key], read[key], key) /\ settings[key] \in ItemRec
        BY <1>6, <2>2, <3>3 DEF KeyOK, Kept, Form
      <4>2. Leading(a.v) >= Leading(settings[key])
        BY <2>2, <4>1 DEF Stores
      <4>3. Greatest(a.v, s, key)
        BY <1>1, <1>2, <3>1, <4>1, <4>2, GreatestLemma
      <4> QED
        BY <2>2, <4>3 DEF Kept
    <3> QED
      BY <3>2, <3>3
  <2> QED
    BY <2>1, <2>2
<1>8. Form(a.v, key)
  BY DEF Stores
<1> HIDE DEF S, s, R
<1>9. KeyOK(S, R, key)
  BY <1>3, <1>4, <1>5, <1>7, <1>8 DEF KeyOK
<1>10. ASSUME NEW k \in Keys, k # key PROVE KeyOK(S, R, k)
  <2>1. KeyOK(settings, read, k)
    BY DEF SettingsOK
  <2> QED
    BY <1>3, <1>5, <1>10, <2>1 DEF KeyOK
<1>11. SettingsOK(S, R)
  BY <1>1, <1>3, <1>5, <1>9, <1>10 DEF SettingsOK
<1> QED
  BY <1>11 DEF S, R, s

\* A value that is not.
LEMMA UnstoredLemma ==
    ASSUME SettingsOK(settings, read), NEW key \in Keys, NEW v \in Values, Keeps(key, v)
    PROVE  SettingsOK(settings, [read EXCEPT ![key] = Append(@, v)])
<1> DEFINE s == Append(read[key], v)  R == [read EXCEPT ![key] = s]
<1>1. DOMAIN settings \subseteq Keys /\ settings \in [DOMAIN settings -> ItemRec]
      /\ read \in [Keys -> Seq(Values)]
  BY DEF SettingsOK
<1>2. s \in Seq(Values) /\ s # <<>>
  BY <1>1, ToSetLemma
<1>3. R \in [Keys -> Seq(Values)] /\ R[key] = s /\ \A k \in Keys : k # key => R[k] = read[k]
  BY <1>1, <1>2
<1>4. KeyOK(settings, read, key) /\ key \in DOMAIN settings /\ key \in Biggest
      /\ Leading(settings[key]) >= Meaning(key, v)
  BY DEF SettingsOK, Keeps
<1>5. Greatest(settings[key], read[key], key) /\ Form(settings[key], key)
  BY <1>4 DEF KeyOK, Kept
<1>6. Greatest(settings[key], s, key)
  BY <1>1, <1>4, <1>5, KeepLemma
<1> HIDE DEF s, R
<1>7. KeyOK(settings, R, key)
  BY <1>2, <1>3, <1>4, <1>5, <1>6 DEF KeyOK, Kept
<1>8. ASSUME NEW k \in Keys, k # key PROVE KeyOK(settings, R, k)
  <2>1. KeyOK(settings, read, k)
    BY DEF SettingsOK
  <2> QED
    BY <1>3, <1>8, <2>1 DEF KeyOK
<1>9. SettingsOK(settings, R)
  BY <1>1, <1>3, <1>7, <1>8 DEF SettingsOK
<1> QED
  BY <1>9 DEF R, s

\* More settings than the cgroup has items for.
LEMMA MoreSettings ==
    ASSUME NEW C, NEW S, NEW T, ItemsOK(C, S), DOMAIN S \subseteq DOMAIN T
    PROVE  ItemsOK(C, T)
BY DEF ItemsOK

\* setConfig's loop reads an element.
LEMMA ReadElementStep ==
    ASSUME CgroupsInv, NEW key \in Keys, NEW v \in Values, ReadConfigElement(key, v)
    PROVE  CgroupsInv'
<1> DEFINE a == ParseCGroupsGatewayConfiguration(key, v)
<1>1. Parsed(a, key, v)
  BY ParseLemma DEF CgroupsInv
<1>2. /\ reading # "no" /\ reads < MaxReads /\ reads' = reads + 1
      /\ settings' = IF a.res = "ok" THEN Extended(settings, key, a.v) ELSE settings
      /\ read' = IF a.res \in {"ok", "keep"} THEN [read EXCEPT ![key] = Append(@, v)] ELSE read
      /\ reading' = IF a.res \in {"ok", "keep"} THEN "some" ELSE "no"
      /\ cgroupsReply' = IF a.res \in {"ok", "keep"} THEN "none" ELSE a.res
      /\ UNCHANGED <<cgroupsState, tries, cgroup, why>>
  BY DEF ReadConfigElement
<1> HIDE DEF a
<1>3. SettingsOK(settings, read) /\ ItemsOK(cgroup, settings) /\ CgroupsTypes
  BY DEF CgroupsInv
<1>4. SettingsOK(settings', read') /\ DOMAIN settings \subseteq DOMAIN settings'
      /\ (a.res \in {"ok", "keep"} => DOMAIN settings' # {})
  <2>1. CASE a.res = "ok"
    <3>1. Stores(a, key, v)
      BY <1>1, <2>1 DEF Parsed
    <3>2. SettingsOK(Extended(settings, key, a.v), [read EXCEPT ![key] = Append(@, v)])
      BY <1>3, <3>1, StoredLemma
    <3>3. settings' = Extended(settings, key, a.v) /\ read' = [read EXCEPT ![key] = Append(@, v)]
      BY <1>2, <2>1
    <3>4. DOMAIN Extended(settings, key, a.v) = DOMAIN settings \cup {key}
      BY DEF Extended
    <3> QED
      BY <3>2, <3>3, <3>4
  <2>2. CASE a.res = "keep"
    <3>1. Keeps(key, v)
      BY <1>1, <2>2 DEF Parsed
    <3>2. SettingsOK(settings, [read EXCEPT ![key] = Append(@, v)])
      BY <1>3, <3>1, UnstoredLemma
    <3>3. settings' = settings /\ read' = [read EXCEPT ![key] = Append(@, v)]
      BY <1>2, <2>2
    <3>4. key \in DOMAIN settings
      BY <3>1 DEF Keeps
    <3> QED
      BY <3>2, <3>3, <3>4
  <2>3. CASE a.res \notin {"ok", "keep"}
    <3>1. settings' = settings /\ read' = read
      BY <1>2, <2>3
    <3> QED
      BY <1>3, <2>3, <3>1
  <2> QED
    BY <2>1, <2>2, <2>3
<1>5. ItemsOK(cgroup', settings')
  BY <1>2, <1>3, <1>4, MoreSettings
<1>6. CgroupsTypes'
  <2>1. MaxReads \in Nat
    BY CgroupsAssumption
  <2>2. reads' \in 0..MaxReads
    BY <1>2, <1>3, <2>1 DEF CgroupsTypes
  <2>3. a.res \in {"ok", "keep", "error", "std"}
    BY <1>1 DEF Parsed
  <2>4. cgroupsState' # "created" \/ reading' = "some" => DOMAIN settings' # {}
    BY <1>2, <1>3, <1>4 DEF CgroupsTypes
  <2>5. reading' \in {"no", "none", "some"}
        /\ cgroupsReply' \in {"none", "configured", "error", "std", "malformed", "activated", "failed"}
    BY <1>2, <2>3
  <2> QED
    BY <1>2, <1>3, <2>2, <2>4, <2>5 DEF CgroupsTypes
<1>7. why = "none" /\ cgroupsState # "activated" /\ (tries = 0 => DOMAIN cgroup = {})
  BY <1>2 DEF CgroupsInv
<1> QED
  BY <1>2, <1>4, <1>5, <1>6, <1>7 DEF CgroupsInv, FirstTryIsOrdered
----------------------------------------------------------------------------
(***************************************************************************)
(* The cgroups gateway: activation.                                        *)
(***************************************************************************)
\* The cgroup C has the settings of the keys in D.
Agrees(C, D) == \A k \in D : k \in DOMAIN settings => k \in DOMAIN C /\ C[k] = settings[k]

\* What the loop may have got to after the keys in D.
OutOK(r, D) ==
    /\ r.ok \in BOOLEAN /\ r.why \in {"none", "host", "order"}
    /\ ItemsOK(r.cgroup, settings)
    /\ r.ok => r.why = "none" /\ Agrees(r.cgroup, D)
    /\ tries = 0 =>
         /\ r.ok => DOMAIN r.cgroup \subseteq D
         /\ r.why = "order" => ~Ordered(settings)

\* A limit is at most what stands for none.
LEMMA LimitLemma ==
    ASSUME NEW f, NEW key, key \in DOMAIN f => f[key] \in ItemRec /\ f[key].n <= 2 * MaxLL
    PROVE  Limit(f, key) \in Int /\ Limit(f, key) <= 2 * MaxLL
<1>1. MaxLL \in Nat
  BY CgroupsAssumption
<1> QED
  BY <1>1 DEF Limit, ItemRec

\* The cgroup with one more item.
LEMMA SetLemma ==
    ASSUME SettingsOK(settings, read), NEW C, ItemsOK(C, settings), NEW key \in DOMAIN settings
    PROVE  /\ ItemsOK(Extended(C, key, settings[key]), settings)
           /\ DOMAIN Extended(C, key, settings[key]) = DOMAIN C \cup {key}
           /\ Extended(C, key, settings[key])[key] = settings[key]
           /\ \A k \in DOMAIN C : k # key => Extended(C, key, settings[key])[k] = C[k]
<1> DEFINE w == settings[key]
<1>1. w \in ItemRec /\ (key \in Memory => w.n <= 2 * MaxLL)
  BY DEF SettingsOK, KeyOK, Form
<1> HIDE DEF w
<1> DEFINE X == Extended(C, key, w)
<1>2. DOMAIN X = DOMAIN C \cup {key}
  BY ExtendedDomain
<1>3. X \in [DOMAIN C \cup {key} -> ItemRec]
  BY <1>1, ExtendedType DEF ItemsOK
<1>4. X[key] = w
  BY ExtendedNew
<1>5. \A k \in DOMAIN C : k # key => X[k] = C[k]
  BY ExtendedOld
<1> HIDE DEF X
<1>6. ItemsOK(X, settings)
  BY <1>1, <1>2, <1>3, <1>4, <1>5 DEF ItemsOK
<1> QED
  BY <1>2, <1>4, <1>5, <1>6 DEF X, w

\* One item.  In the first activation the limit of memory is set while there is none
\* of memory and swap, and the latter when the former is what the settings say.
LEMMA SetItemLemma ==
    ASSUME SettingsOK(settings, read), NEW D, NEW key \in DOMAIN settings,
           key = "limit" => "memsw" \notin D, key = "memsw" => "limit" \in D,
           NEW r, OutOK(r, D), r.ok,
           NEW o \in SetCgroupItemOut(r, key, settings[key])
    PROVE  OutOK(o, D \cup {key})
<1> DEFINE C == r.cgroup  c == Extended(C, key, settings[key])  E == D \cup {key}
<1>1. r.why = "none" /\ Agrees(C, D) /\ ItemsOK(C, settings) /\ (tries = 0 => DOMAIN C \subseteq D)
  BY DEF OutOK
<1>2. /\ ItemsOK(c, settings) /\ DOMAIN c = DOMAIN C \cup {key} /\ c[key] = settings[key]
      /\ \A k \in DOMAIN C : k # key => c[k] = C[k]
  BY <1>1, SetLemma
<1>3. \/ o = Item(FALSE, C, "host")
      \/ key \in Memory /\ ~Ordered(c) /\ o = Item(FALSE, C, "order")
      \/ o = Item(TRUE, c, r.why)
  BY DEF SetCgroupItemOut
<1> HIDE DEF C, c
<1>4. CASE o = Item(FALSE, C, "host")
  <2>1. o.ok = FALSE /\ o.cgroup = C /\ o.why = "host"
    BY <1>4 DEF Item
  <2> QED
    BY <1>1, <2>1 DEF OutOK
<1>5. CASE o = Item(TRUE, c, r.why)
  <2>1. o.ok = TRUE /\ o.cgroup = c /\ o.why = "none"
    BY <1>1, <1>5 DEF Item
  <2>2. Agrees(c, E)
    BY <1>1, <1>2 DEF Agrees
  <2>3. tries = 0 => DOMAIN c \subseteq E
    BY <1>1, <1>2
  <2> HIDE DEF E
  <2>4. OutOK(o, E)
    BY <1>2, <2>1, <2>2, <2>3 DEF OutOK
  <2> QED
    BY <2>4 DEF E
<1>6. CASE key \in Memory /\ ~Ordered(c) /\ o = Item(FALSE, C, "order")
  <2>1. o.ok = FALSE /\ o.cgroup = C /\ o.why = "order"
    BY <1>6 DEF Item
  <2>2. tries = 0 => ~Ordered(settings)
    <3> SUFFICES ASSUME tries = 0 PROVE ~Ordered(settings)
      OBVIOUS
    <3>1. CASE key = "limit"
      <4>1. "memsw" \notin DOMAIN c
        BY <1>1, <1>2, <3>1
      <4>2. c[key] \in ItemRec /\ c[key].n <= 2 * MaxLL
        BY <1>2, <1>6 DEF ItemsOK
      <4>3. Limit(c, "memsw") = 2 * MaxLL
        BY <4>1 DEF Limit
      <4>4. Limit(c, "limit") <= 2 * MaxLL
        BY <3>1, <4>2, LimitLemma
      <4> QED
        BY <1>6, <4>3, <4>4 DEF Ordered
    <3>2. CASE key = "memsw"
      <4>1. "limit" \in DOMAIN settings => "limit" \in DOMAIN C /\ C["limit"] = settings["limit"]
        BY <1>1, <3>2 DEF Agrees
      <4>2. "limit" \in DOMAIN C => "limit" \in DOMAIN settings
        BY <1>1 DEF ItemsOK
      <4>3. "limit" \in DOMAIN c <=> "limit" \in DOMAIN settings
        BY <1>2, <3>2, <4>1, <4>2
      <4>4. "limit" \in DOMAIN c => c["limit"] = settings["limit"]
        BY <1>2, <3>2, <4>1, <4>2, <4>3
      <4>5. Limit(c, "limit") = Limit(settings, "limit")
        BY <4>3, <4>4 DEF Limit
      <4>6. Limit(c, "memsw") = Limit(settings, "memsw")
        BY <1>2, <3>2 DEF Limit
      <4> QED
        BY <1>6, <4>5, <4>6 DEF Ordered
    <3> QED
      BY <1>6, <3>1, <3>2 DEF Memory
  <2> QED
    BY <1>1, <2>1, <2>2 DEF OutOK
<1> QED
  BY <1>3, <1>4, <1>5, <1>6

\* One round of the loop.
LEMMA RoundLemma ==
    ASSUME SettingsOK(settings, read), NEW D, NEW key \in Keys,
           key = "limit" => "memsw" \notin D, key = "memsw" => "limit" \in D,
           NEW outs, \A r \in outs : OutOK(r, D)
    PROVE  \A o \in Round(outs, key) : OutOK(o, D \cup {key})
<1> SUFFICES ASSUME NEW o \in Round(outs, key) PROVE OutOK(o, D \cup {key})
  OBVIOUS
<1>1. PICK r \in outs : o \in NextItemOut(r, key)
  BY DEF Round
<1>2. OutOK(r, D)
  OBVIOUS
<1>3. CASE r.ok /\ key \in DOMAIN settings
  <2>1. o \in SetCgroupItemOut(r, key, settings[key])
    BY <1>1, <1>3 DEF NextItemOut
  <2> QED
    BY <1>2, <1>3, <2>1, SetItemLemma
<1>4. CASE ~(r.ok /\ key \in DOMAIN settings)
  <2>1. o = r
    BY <1>1, <1>4 DEF NextItemOut
  <2>2. r.ok => Agrees(r.cgroup, D \cup {key})
    BY <1>2, <1>4 DEF OutOK, Agrees
  <2>3. tries = 0 => (r.ok => DOMAIN r.cgroup \subseteq D \cup {key})
    BY <1>2 DEF OutOK
  <2> DEFINE E == D \cup {key}
  <2> HIDE DEF E
  <2>4. OutOK(r, E)
    BY <1>2, <2>2, <2>3 DEF OutOK, E
  <2> QED
    BY <2>1, <2>4 DEF E
<1> QED
  BY <1>3, <1>4

\* The whole loop.
LEMMA ActivateOutLemma ==
    ASSUME CgroupsInv, NEW r \in ActivateCgroupsOut
    PROVE  OutOK(r, Keys)
<1>1. SettingsOK(settings, read) /\ ItemsOK(cgroup, settings) /\ (tries = 0 => DOMAIN cgroup = {})
  BY DEF CgroupsInv
<1> DEFINE r0 == Item(TRUE, cgroup, "none")
           o1 == Round({r0}, "cpu.shares")  o2 == Round(o1, "limit")  o3 == Round(o2, "memsw")
           o4 == Round(o3, "net_cls.classid")  o5 == Round(o4, "unknown")
           D1 == {} \cup {"cpu.shares"}  D2 == D1 \cup {"limit"}  D3 == D2 \cup {"memsw"}
           D4 == D3 \cup {"net_cls.classid"}  D5 == D4 \cup {"unknown"}
<1>2. OutOK(r0, {})
  <2>1. r0.ok = TRUE /\ r0.cgroup = cgroup /\ r0.why = "none"
    BY DEF Item
  <2>2. Agrees(cgroup, {})
    BY DEF Agrees
  <2> HIDE DEF r0
  <2> QED
    BY <1>1, <2>1, <2>2 DEF OutOK
<1> HIDE DEF r0
<1>3. \A o \in o1 : OutOK(o, D1)
  <2>1. \A x \in {r0} : OutOK(x, {})
    BY <1>2
  <2>2. "cpu.shares" \in Keys
    BY DEF Keys
  <2> QED
    BY <1>1, <2>1, <2>2, RoundLemma
<1>4. "memsw" \notin D1
  OBVIOUS
<1>5. "limit" \in D2
  OBVIOUS
<1>6. D5 = Keys
  BY DEF Keys
<1> HIDE DEF o1, D1
<1>7. \A o \in o2 : OutOK(o, D2)
  BY <1>1, <1>3, <1>4, RoundLemma DEF Keys
<1> HIDE DEF o2, D2
<1>8. \A o \in o3 : OutOK(o, D3)
  BY <1>1, <1>5, <1>7, RoundLemma DEF Keys
<1> HIDE DEF o3, D3
<1>9. \A o \in o4 : OutOK(o, D4)
  BY <1>1, <1>8, RoundLemma DEF Keys
<1> HIDE DEF o4, D4
<1>10. \A o \in o5 : OutOK(o, D5)
  BY <1>1, <1>9, RoundLemma DEF Keys
<1>11. r \in o5
  BY DEF ActivateCgroupsOut, o1, o2, o3, o4, r0
<1> QED
  BY <1>6, <1>10, <1>11

\* ActivateCgroups.
LEMMA ActivateCgroupsStep ==
    ASSUME CgroupsInv, ActivateCgroups
    PROVE  CgroupsInv'
<1>1. PICK r \in ActivateCgroupsOut :
          /\ cgroup' = r.cgroup /\ why' = r.why
          /\ IF r.ok THEN cgroupsState' = "activated" /\ cgroupsReply' = "activated"
             ELSE cgroupsReply' = "failed" /\ UNCHANGED cgroupsState
  BY DEF ActivateCgroups
<1>2. /\ reading = "no" /\ cgroupsState = "configured" /\ tries < MaxTries
      /\ tries' = tries + 1 /\ UNCHANGED <<reading, settings, read, reads>>
  BY DEF ActivateCgroups
<1>3. OutOK(r, Keys)
  BY ActivateOutLemma
<1>4. SettingsOK(settings, read) /\ CgroupsTypes
  BY DEF CgroupsInv
<1>5. tries \in Nat /\ tries' \in 0..MaxTries /\ tries' # 0 /\ (tries' = 1 => tries = 0)
  BY <1>2, <1>4, CgroupsAssumption DEF CgroupsTypes
<1>6. ItemsOK(cgroup', settings') /\ SettingsOK(settings', read')
  BY <1>1, <1>2, <1>3, <1>4 DEF OutOK
<1>7. cgroupsState' \in {"configured", "activated"} /\ cgroupsReply' \in {"activated", "failed"}
      /\ why' \in {"none", "host", "order"}
  BY <1>1, <1>2, <1>3 DEF OutOK
<1>8. CgroupsTypes'
  BY <1>2, <1>4, <1>5, <1>7 DEF CgroupsTypes
<1>9. cgroupsState' = "activated" => settings' = cgroup'
  <2> SUFFICES ASSUME cgroupsState' = "activated" PROVE settings = r.cgroup
    BY <1>1, <1>2
  <2>1. r.ok
    BY <1>1, <1>2
  <2>2. Agrees(r.cgroup, Keys) /\ ItemsOK(r.cgroup, settings)
    BY <1>3, <2>1 DEF OutOK
  <2> DEFINE C == r.cgroup
  <2> HIDE DEF C
  <2>3. /\ DOMAIN C \subseteq DOMAIN settings /\ C \in [DOMAIN C -> ItemRec]
        /\ DOMAIN settings \subseteq Keys /\ settings \in [DOMAIN settings -> ItemRec]
    BY <1>4, <2>2 DEF ItemsOK, SettingsOK, C
  <2>4. \A k \in DOMAIN settings : k \in DOMAIN C /\ C[k] = settings[k]
    BY <2>2, <2>3 DEF Agrees, C
  <2>5. DOMAIN C = DOMAIN settings
    BY <2>3, <2>4
  <2>6. C = settings
    BY <2>3, <2>4, <2>5
  <2> QED
    BY <2>6 DEF C
<1>10. FirstTryIsOrdered'
  <2>1. tries = 0 /\ r.why = "order" => ~Ordered(settings)
    BY <1>3 DEF OutOK
  <2>2. Ordered(settings)' <=> Ordered(settings)
    BY <1>2 DEF Ordered, Limit
  <2> QED
    BY <1>1, <1>5, <2>1, <2>2 DEF FirstTryIsOrdered
<1> QED
  BY <1>2, <1>5, <1>6, <1>8, <1>9, <1>10 DEF CgroupsInv
----------------------------------------------------------------------------
(***************************************************************************)
(* The cgroups gateway: the invariant.                                     *)
(***************************************************************************)
\* No element is read at first.
LEMMA CgroupsInitLemma == CgroupsInit => CgroupsInv
<1> SUFFICES ASSUME CgroupsInit PROVE CgroupsInv
  OBVIOUS
<1>1. DOMAIN settings = {} /\ DOMAIN cgroup = {} /\ settings = cgroup
      /\ settings \in [DOMAIN settings -> ItemRec]
  BY DEF CgroupsInit, NoSettings
<1>2. read \in [Keys -> Seq(Values)] /\ \A key \in Keys : read[key] = <<>>
  BY DEF CgroupsInit
<1>3. SettingsOK(settings, read)
  BY <1>1, <1>2 DEF SettingsOK, KeyOK
<1>4. ItemsOK(cgroup, settings)
  BY <1>1 DEF ItemsOK
<1>5. 0 \in 0..MaxReads /\ 0 \in 0..MaxTries
  BY CgroupsAssumption
<1> QED
  BY <1>1, <1>3, <1>4, <1>5 DEF CgroupsInit, CgroupsInv, CgroupsTypes, FirstTryIsOrdered

\* What the steps that leave the maps keep.
LEMMA SameMaps ==
    ASSUME CgroupsInv, UNCHANGED <<settings, read, cgroup, tries, reads>>,
           CgroupsTypes',
           reading' # "no" => why' = "none" /\ cgroupsState' # "activated",
           cgroupsState' = "activated" => cgroupsState = "activated",
           why' = "order" => why = "order"
    PROVE  CgroupsInv'
<1>1. SettingsOK(settings', read') /\ ItemsOK(cgroup', settings')
  BY DEF CgroupsInv
<1>2. Ordered(settings)' <=> Ordered(settings)
  BY DEF Ordered, Limit
<1>3. FirstTryIsOrdered'
  BY <1>2 DEF CgroupsInv, FirstTryIsOrdered
<1> QED
  BY <1>1, <1>3 DEF CgroupsInv

\* Every step of the gateway.
LEMMA CgroupsStep ==
    ASSUME CgroupsInv, [CgroupsNext]_cgroupsVars
    PROVE  CgroupsInv'
<1>1. CgroupsTypes /\ (reading # "no" => why = "none" /\ cgroupsState # "activated")
  BY DEF CgroupsInv
<1>2. CASE BeginConfig
  <2>1. CgroupsTypes'
    BY <1>1, <1>2 DEF BeginConfig, CgroupsTypes
  <2> QED
    BY <1>2, <2>1, SameMaps DEF BeginConfig
<1>3. ASSUME NEW key \in Keys, NEW v \in Values, ReadConfigElement(key, v) PROVE CgroupsInv'
  BY <1>3, ReadElementStep
<1>4. CASE ReadBadElement
  <2>1. CgroupsTypes'
    BY <1>1, <1>4 DEF ReadBadElement, CgroupsTypes
  <2> QED
    BY <1>4, <2>1, SameMaps DEF ReadBadElement
<1>5. CASE EndConfig
  <2>1. CgroupsTypes'
    BY <1>1, <1>5 DEF EndConfig, CgroupsTypes
  <2> QED
    BY <1>5, <2>1, SameMaps DEF EndConfig
<1>6. CASE ActivateCgroups
  BY <1>6, ActivateCgroupsStep
<1>7. CASE UNCHANGED cgroupsVars
  <2>1. CgroupsTypes'
    BY <1>1, <1>7 DEF cgroupsVars, CgroupsTypes
  <2> QED
    BY <1>1, <1>7, <2>1, SameMaps DEF cgroupsVars
<1>8. CASE CgroupsRest
  BY <1>7, <1>8 DEF CgroupsRest
<1> QED
  BY <1>2, <1>3, <1>4, <1>5, <1>6, <1>7, <1>8 DEF CgroupsNext

\* The cgroups gateway's invariant, along with the behaviours of all the gateways.
THEOREM CgroupsInvariance == GatewaysSpec => []CgroupsInv
<1>1. GatewaysInit => CgroupsInv
  BY CgroupsInitLemma DEF GatewaysInit
<1>2. CgroupsInv /\ [GatewaysNext]_gatewaysVars => CgroupsInv'
  <2> SUFFICES ASSUME CgroupsInv, [GatewaysNext]_gatewaysVars PROVE [CgroupsNext]_cgroupsVars
    BY CgroupsStep
  <2> QED
    BY DEF GatewaysNext, gatewaysVars
<1> QED
  BY <1>1, <1>2, PTL DEF GatewaysSpec

\* The settings are what the documentation of the gateway says they are.
LEMMA BiggerOrLatestLemma == CgroupsInv => BiggerOrLatest
<1> SUFFICES ASSUME CgroupsInv, NEW key \in Keys
             PROVE  /\ key \in DOMAIN settings <=> read[key] # <<>>
                    /\ read[key] # <<>> =>
                         IF key \in Biggest
                           THEN Leading(settings[key]) = Max({Meaning(key, v) : v \in ToSet(read[key])})
                           ELSE settings[key] = Last(read[key])
  BY DEF BiggerOrLatest
<1>1. KeyOK(settings, read, key) /\ read \in [Keys -> Seq(Values)]
  BY DEF CgroupsInv, SettingsOK
<1>2. key \in DOMAIN settings <=> read[key] # <<>>
  BY <1>1 DEF KeyOK
<1>3. CASE read[key] # <<>> /\ key \in Biggest
  <2> DEFINE T == ToSet(read[key])  S == {Meaning(key, v) : v \in T}  m == Leading(settings[key])
  <2>1. T \subseteq Values
    <3> DEFINE s == read[key]
    <3>1. s \in Seq(Values)
      BY <1>1
    <3> HIDE DEF s
    <3>2. ToSet(s) \subseteq Values
      BY <3>1 DEF ToSet
    <3> QED
      BY <3>2 DEF s
  <2>2. Greatest(settings[key], read[key], key)
    BY <1>1, <1>3 DEF KeyOK, Kept
  <2>3. (\E v \in T : m = Meaning(key, v)) /\ \A v \in T : m >= Meaning(key, v)
    BY <2>2 DEF Greatest
  <2> HIDE DEF T, m
  <2>4. S \in SUBSET Int
    BY <2>1, MeaningLemma
  <2>5. m \in S /\ \A y \in S : m >= y
    BY <2>3
  <2> HIDE DEF S
  <2>6. Max(S) = m
    BY <2>4, <2>5, MaxLemma
  <2>7. Leading(settings[key]) = Max({Meaning(key, v) : v \in ToSet(read[key])})
    BY <2>6 DEF S, m, T
  <2> QED
    BY <1>2, <1>3, <2>7
<1>4. CASE read[key] # <<>> /\ key \notin Biggest
  BY <1>1, <1>2, <1>4 DEF KeyOK, Kept
<1> QED
  BY <1>2, <1>3, <1>4

\* For any integers and any units: of all values that were accepted for a limit or for
\* the shares, in whatever units and in however many configurations, some of which
\* failed half-way, the greatest is the setting; a gateway that is activated has set
\* all of them in the cgroup, also after activations that failed; and the kernel
\* refuses no first activation of limits that are in order.
THEOREM CgroupLimitsAreSet == GatewaysSpec => []LimitsAreSet
<1>1. CgroupsInv => LimitsAreSet
  BY BiggerOrLatestLemma DEF CgroupsInv, LimitsAreSet, ActivatedIsSet
<1> QED
  BY <1>1, CgroupsInvariance, PTL

\* The types of the cgroups gateway.
THEOREM CgroupsTypeCorrect == GatewaysSpec => []CgroupsTypeOK
<1>1. CgroupsInv => CgroupsTypeOK
  <2> SUFFICES ASSUME CgroupsInv PROVE CgroupsTypeOK
    OBVIOUS
  <2>1. SettingsOK(settings, read) /\ ItemsOK(cgroup, settings) /\ CgroupsTypes
    BY DEF CgroupsInv
  <2>2. IsItems(settings) /\ IsItems(cgroup) /\ read \in [Keys -> Seq(Values)]
    BY <2>1 DEF SettingsOK, ItemsOK, IsItems, ItemRec
  <2>3. DOMAIN NoSettings = {}
    BY DEF NoSettings
  <2> QED
    BY <2>1, <2>2, <2>3 DEF CgroupsTypes, CgroupsTypeOK
<1> QED
  BY <1>1, CgroupsInvariance, PTL

----------------------------------------------------------------------------
(***************************************************************************)
(* The environment: the variables and the sockets.                         *)
(***************************************************************************)
\* What the Wayland gateway has to have done, and the environment gateway.
WaylandServed == wanted["wayland"] /\ envState["wayland"] = "activated" => once

VariablesSet ==
    envState["env"] = "activated" =>
        \A n \in DOMAIN m_variables : n \in DOMAIN env /\ env[n] = m_variables[n]

\* PulseAudio's socket is mounted by the one activation that succeeds.
PulseServed ==
    /\ mounts["pulse"] <= 1
    /\ envState["pulse"] # "activated" => mounts["pulse"] = 0
    /\ wanted["pulse"] /\ envState["pulse"] = "activated" =>
         mounts["pulse"] = 1 /\ Pulse \in DOMAIN env

\* Wayland's socket is mounted just if m_activatedOnce is set.
OnceIsMounted ==
    /\ once => mounts["wayland"] = 1 /\ Xdg \in DOMAIN env
    /\ ~once => mounts["wayland"] = 0

\* The invariant of the environment.  In the loop, what the gateways behind it promise
\* holds already.
EnvInv ==
    /\ EnvTypeOK
    /\ enabled = wanted
    /\ PulseServed /\ OnceIsMounted
    /\ turn \in {"env", "end"} \/ envReply = "activated" => WaylandServed
    /\ turn = "end" \/ envReply = "activated" => VariablesSet
    /\ turn # "no" => envReply = "configured"
    /\ envReply = "executed" => process.sees = Over(process.job, env)

\* The domains of changed maps.
LEMMA WithDomain ==
    ASSUME NEW f, NEW n, NEW v
    PROVE  DOMAIN With(f, n, v) = DOMAIN f \cup {n}
BY DEF With

\* One map over another.
LEMMA OverDomain ==
    ASSUME NEW f, NEW g
    PROVE  DOMAIN Over(f, g) = DOMAIN f \cup DOMAIN g
BY DEF Over

\* The upper one has its way.
LEMMA OverUpper ==
    ASSUME NEW f, NEW g, NEW n \in DOMAIN f
    PROVE  Over(f, g)[n] = f[n]
BY DEF Over

\* The lower one is seen where the upper has nothing.
LEMMA OverLower ==
    ASSUME NEW f, NEW g, NEW n \in DOMAIN g, n \notin DOMAIN f
    PROVE  Over(f, g)[n] = g[n]
BY DEF Over

\* The parts of the types that the steps change.
LEMMA EnvTypeParts ==
    ASSUME EnvInv
    PROVE  /\ envState \in [Gateways -> {"created", "configured", "activated"}]
           /\ DOMAIN m_variables \subseteq Variables /\ DOMAIN env \subseteq Variables
           /\ enabled \in [Sockets -> BOOLEAN] /\ wanted = enabled /\ once \in BOOLEAN
           /\ mounts \in [Sockets -> Nat] /\ configs \in 0..MaxConfigs
           /\ turn \in Gateways \cup {"end", "no"}
BY DEF EnvInv, EnvTypeOK, IsMap

\* Nothing is configured at first.
LEMMA EnvInitLemma == EnvInit => EnvInv
<1> SUFFICES ASSUME EnvInit PROVE EnvInv
  OBVIOUS
<1>1. DOMAIN NoVariables = {}
  BY DEF NoVariables
<1>2. IsMap(m_variables) /\ IsMap(env) /\ IsMap(process.job) /\ IsMap(process.sees)
  BY <1>1 DEF EnvInit, IsMap, NoProcess
<1>3. envState \in [Gateways -> {"created", "configured", "activated"}] /\ envState["env"] = "created"
      /\ envState["pulse"] = "created" /\ envState["wayland"] = "created"
  BY DEF EnvInit, Gateways
<1>4. enabled = wanted /\ enabled \in [Sockets -> BOOLEAN] /\ once = FALSE
  BY DEF EnvInit
<1>5. mounts \in [Sockets -> Nat] /\ mounts["pulse"] = 0 /\ mounts["wayland"] = 0
  BY DEF EnvInit, Sockets
<1>6. configs \in 0..MaxConfigs /\ asked \in Seq(Elements)
  BY EnvironmentAssumption DEF EnvInit
<1>7. turn = "no" /\ envReply = "none"
  BY DEF EnvInit
<1>8. EnvTypeOK
  BY <1>2, <1>3, <1>4, <1>5, <1>6, <1>7 DEF EnvTypeOK
<1> QED
  BY <1>3, <1>4, <1>5, <1>7, <1>8 DEF EnvInv, PulseServed, OnceIsMounted
\* What a call of setConfig has to keep.
LEMMA QuietStep ==
    ASSUME EnvInv, EnvTypeOK', turn' = "no", envReply' \notin {"activated", "executed"},
           enabled' = wanted', PulseServed', UNCHANGED <<once, mounts, env>>
    PROVE  EnvInv'
BY DEF EnvInv, OnceIsMounted

\* setConfig leaves turn, and counts.
LEMMA CalledLemma ==
    ASSUME EnvInv, Called
    PROVE  turn = "no" /\ turn' = "no" /\ configs' \in 0..MaxConfigs /\ process' = NoProcess
           /\ IsMap(NoProcess.job) /\ IsMap(NoProcess.sees)
<1>1. configs \in 0..MaxConfigs /\ MaxConfigs \in Nat
  BY EnvTypeParts, EnvironmentAssumption
<1>2. configs' \in 0..MaxConfigs
  BY <1>1 DEF Called
<1>3. DOMAIN NoVariables = {}
  BY DEF NoVariables
<1> QED
  BY <1>2, <1>3 DEF Called, NoProcess, IsMap

\* The end of an array.
LEMMA EndsLemma ==
    ASSUME EnvInv, NEW g \in Gateways, NEW cut, Ends(g, cut)
    PROVE  /\ envReply' \in {"configured", "malformed", "malformed audio"}
           /\ envState' \in [Gateways -> {"created", "configured", "activated"}]
           /\ envState'[g] # envState[g] => envState'[g] = "configured"
           /\ \A h \in Gateways : h # g => envState'[h] = envState[h]
<1>1. envState \in [Gateways -> {"created", "configured", "activated"}]
  BY EnvTypeParts
<1> QED
  BY <1>1 DEF Ends, Malformed

\* EnvironmentGateway reads an element.
LEMMA SetConfigEnvStep ==
    ASSUME EnvInv, NEW e \in Elements, NEW cut \in BOOLEAN, SetConfigEnv(e, cut)
    PROVE  EnvInv'
<1>1. turn' = "no" /\ configs' \in 0..MaxConfigs /\ process' = NoProcess
      /\ IsMap(NoProcess.job) /\ IsMap(NoProcess.sees)
  BY CalledLemma DEF SetConfigEnv
<1>2. UNCHANGED <<enabled, wanted, once, mounts, env>>
  BY DEF SetConfigEnv
<1>3. e.name \in Variables
  BY DEF Elements
<1>4. envState \in [Gateways -> {"created", "configured", "activated"}] /\ "env" \in Gateways
      /\ IsMap(m_variables) /\ asked \in Seq(Elements)
      /\ (envState["env"] # "created" => m_variables # NoVariables) /\ EnvTypeOK
  BY DEF EnvInv, EnvTypeOK, Gateways
<1>5. /\ envReply' \in {"refused", "configured", "malformed", "malformed audio"}
      /\ envState' \in [Gateways -> {"created", "configured", "activated"}]
      /\ envState'["pulse"] = envState["pulse"]
      /\ IsMap(m_variables') /\ asked' \in Seq(Elements)
      /\ envState'["env"] # "created" => m_variables' # NoVariables
  <2>1. CASE Refused(e)
    BY <1>4, <2>1 DEF SetConfigEnv
  <2>2. CASE ~Refused(e)
    <3>1. m_variables' = With(m_variables, e.name, ParsedValue(e)) /\ asked' = Append(asked, e) /\ Ends("env", cut)
      BY <2>2 DEF SetConfigEnv
    <3>2. DOMAIN m_variables' = DOMAIN m_variables \cup {e.name}
      BY <3>1, WithDomain
    <3>3. DOMAIN NoVariables = {}
      BY DEF NoVariables
    <3>4. IsMap(m_variables') /\ m_variables' # NoVariables
      BY <1>3, <1>4, <3>2, <3>3 DEF IsMap
    <3>5. asked' \in Seq(Elements)
      BY <1>4, <3>1
    <3>6. "pulse" \in Gateways /\ "pulse" # "env"
      BY DEF Gateways
    <3> QED
      BY <1>4, <3>1, <3>4, <3>5, <3>6, EndsLemma
  <2> QED
    BY <2>1, <2>2
<1>6. EnvTypeOK'
  BY <1>1, <1>2, <1>4, <1>5 DEF EnvTypeOK
<1>7. PulseServed'
  BY <1>2, <1>5 DEF EnvInv, PulseServed
<1> QED
  BY <1>1, <1>2, <1>5, <1>6, <1>7, QuietStep DEF EnvInv

\* PulseGateway or WaylandGateway reads an element.
LEMMA SetConfigSocketStep ==
    ASSUME EnvInv, NEW g \in Sockets, NEW value \in BOOLEAN, NEW cut \in BOOLEAN,
           SetConfigSocket(g, value, cut)
    PROVE  EnvInv'
<1>1. turn' = "no" /\ configs' \in 0..MaxConfigs /\ process' = NoProcess
      /\ IsMap(NoProcess.job) /\ IsMap(NoProcess.sees)
  BY CalledLemma DEF SetConfigSocket
<1>2. UNCHANGED <<m_variables, asked, once, mounts, env>>
  BY DEF SetConfigSocket
<1>3. g \in Gateways /\ Sockets = {"pulse", "wayland"} /\ "env" \in Gateways /\ g # "env"
      /\ "pulse" \in Gateways
  BY DEF Sockets, Gateways
<1>4. EnvTypeOK /\ enabled = wanted /\ enabled \in [Sockets -> BOOLEAN]
  BY DEF EnvInv, EnvTypeOK
<1>5. /\ envReply' \in {"configured", "malformed", "malformed audio"}
      /\ envState' \in [Gateways -> {"created", "configured", "activated"}]
      /\ envState'[g] # envState[g] => envState'[g] = "configured"
      /\ \A h \in Gateways : h # g => envState'[h] = envState[h]
  BY <1>3, EndsLemma DEF SetConfigSocket
<1>6. enabled' = wanted' /\ (\A h \in Sockets : h # g => wanted'[h] = wanted[h])
  BY <1>4 DEF SetConfigSocket, EnabledAfter
<1>7. enabled' \in [Sockets -> BOOLEAN]
  <2>1. enabled' = [enabled EXCEPT ![g] = enabled[g] \/ value]
    BY DEF SetConfigSocket, EnabledAfter
  <2>2. (enabled[g] \/ value) \in BOOLEAN
    BY Zenon
  <2> QED
    BY <1>4, <2>1, <2>2
<1>8. EnvTypeOK'
  BY <1>1, <1>2, <1>3, <1>4, <1>5, <1>6, <1>7 DEF EnvTypeOK, IsMap
<1>9. PulseServed'
  <2>1. PulseServed
    BY DEF EnvInv
  <2>2. CASE g # "pulse"
    BY <1>2, <1>3, <1>5, <1>6, <2>1, <2>2 DEF PulseServed
  <2>3. CASE g = "pulse"
    <3>1. envState["pulse"] # "activated"
      BY <2>3 DEF SetConfigSocket, Configurable
    <3>2. envState'["pulse"] # "activated"
      BY <1>5, <2>3, <3>1
    <3> QED
      BY <1>2, <2>1, <3>1, <3>2 DEF PulseServed
  <2> QED
    BY <2>2, <2>3
<1> QED
  BY <1>1, <1>2, <1>5, <1>6, <1>8, <1>9, QuietStep

\* An element that is malformed.
LEMMA SetConfigMalformedStep ==
    ASSUME EnvInv, NEW g, SetConfigMalformed(g)
    PROVE  EnvInv'
<1>1. turn' = "no" /\ configs' \in 0..MaxConfigs /\ process' = NoProcess
      /\ IsMap(NoProcess.job) /\ IsMap(NoProcess.sees)
  BY CalledLemma DEF SetConfigMalformed
<1>2. envReply' \in {"malformed", "malformed audio"}
      /\ UNCHANGED <<envState, m_variables, asked, enabled, wanted, once, mounts, env>>
  BY DEF SetConfigMalformed, Malformed
<1>3. EnvTypeOK'
  BY <1>1, <1>2 DEF EnvInv, EnvTypeOK, IsMap
<1>4. PulseServed'
  BY <1>2 DEF EnvInv, PulseServed
<1> QED
  BY <1>1, <1>2, <1>3, <1>4, QuietStep DEF EnvInv

\* A process is started.
LEMMA ExecuteStep ==
    ASSUME EnvInv, NEW job \in Maps({<<"job">>}), Execute(job)
    PROVE  EnvInv'
<1>1. turn = "no" /\ process' = [job |-> job, sees |-> Over(job, env)] /\ envReply' = "executed"
      /\ UNCHANGED <<envState, m_variables, asked, enabled, wanted, once, mounts, env, configs, turn>>
  BY DEF Execute, ActualVariables
<1>2. process'.job = job /\ process'.sees = Over(job, env)
  BY <1>1
<1>3. DOMAIN job \subseteq Variables
  BY DEF Maps
<1>4. DOMAIN Over(job, env) = DOMAIN job \cup DOMAIN env
  BY OverDomain
<1>5. IsMap(process'.job) /\ IsMap(process'.sees)
  BY <1>2, <1>3, <1>4, EnvTypeParts DEF IsMap
<1>6. EnvTypeOK'
  BY <1>1, <1>5 DEF EnvInv, EnvTypeOK, IsMap
<1> QED
  BY <1>1, <1>2, <1>6 DEF EnvInv, PulseServed, OnceIsMounted
\* A call goes on to activate.
LEMMA ActivateGatewaysStep ==
    ASSUME EnvInv, ActivateGateways
    PROVE  EnvInv'
<1>1. turn' = "pulse" /\ process' = NoProcess /\ envReply = "configured"
      /\ UNCHANGED <<envState, m_variables, asked, enabled, wanted, once, mounts, env, configs, envReply>>
  BY DEF ActivateGateways
<1>2. DOMAIN NoVariables = {}
  BY DEF NoVariables
<1>3. IsMap(process'.job) /\ IsMap(process'.sees)
  BY <1>1, <1>2 DEF NoProcess, IsMap
<1>4. EnvTypeOK'
  BY <1>1, <1>3 DEF EnvInv, EnvTypeOK, IsMap, Gateways
<1> QED
  BY <1>1, <1>4 DEF EnvInv, PulseServed, OnceIsMounted

\* What a step of the loop changes, and what of it concerns the types.
InLoop ==
    /\ UNCHANGED <<m_variables, asked, enabled, wanted, configs, process>>
    /\ turn # "no" /\ turn' \in Gateways \cup {"end", "no"}
    /\ envReply' \in {"configured", "activated", "failed"}
    /\ turn' # "no" => envReply' = "configured"

LoopTypes ==
    /\ envState' \in [Gateways -> {"created", "configured", "activated"}]
    /\ envState["env"] = "created" => envState'["env"] = "created"
    /\ IsMap(env)' /\ once' \in BOOLEAN /\ mounts' \in [Sockets -> Nat]

\* The invariant after it.
LEMMA LoopStep ==
    ASSUME EnvInv, InLoop, LoopTypes, PulseServed', OnceIsMounted',
           turn' \in {"env", "end"} \/ envReply' = "activated" => WaylandServed',
           turn' = "end" \/ envReply' = "activated" => VariablesSet'
    PROVE  EnvInv'
<1>1. EnvTypeOK'
  BY DEF EnvInv, EnvTypeOK, InLoop, LoopTypes, IsMap
<1> QED
  BY <1>1 DEF EnvInv, InLoop

\* A step that changes neither states nor sockets nor variables.
LEMMA LoopSame ==
    ASSUME EnvInv, InLoop, UNCHANGED <<envState, once, mounts, env>>,
           turn' \in {"env", "end"} \/ envReply' = "activated" => WaylandServed,
           turn' = "end" \/ envReply' = "activated" => VariablesSet
    PROVE  EnvInv'
<1>1. LoopTypes
  BY DEF EnvInv, EnvTypeOK, LoopTypes, IsMap
<1>2. PulseServed' /\ OnceIsMounted'
  BY DEF EnvInv, InLoop, PulseServed, OnceIsMounted
<1>3. (WaylandServed => WaylandServed') /\ (VariablesSet => VariablesSet')
  BY DEF InLoop, WaylandServed, VariablesSet
<1> QED
  BY <1>1, <1>2, <1>3, LoopStep

\* The order of the gateways.
LEMMA AfterLemma ==
    /\ After("pulse") = "wayland" /\ After("wayland") = "env" /\ After("env") = "end"
BY DEF After

\* A gateway without a configuration.
LEMMA SkipStep ==
    ASSUME EnvInv, SkipGateway, UNCHANGED <<m_variables, asked, enabled, wanted, configs, process>>
    PROVE  EnvInv'
<1>1. turn \in {"pulse", "wayland", "env"} /\ envState[turn] = "created" /\ turn' = After(turn)
      /\ UNCHANGED <<envState, once, mounts, env, envReply>>
  BY DEF SkipGateway, Gateways
<1>2. turn' \in {"wayland", "env", "end"} /\ (turn' = "env" => turn = "wayland") /\ (turn' = "end" => turn = "env")
  BY <1>1, AfterLemma
<1>3. envReply' = "configured"
  BY <1>1 DEF EnvInv
<1>4. InLoop
  BY <1>1, <1>2, <1>3 DEF InLoop, Gateways
<1>5. turn' \in {"env", "end"} => WaylandServed
  BY <1>1, <1>2 DEF EnvInv, WaylandServed
<1>6. turn' = "end" => VariablesSet
  BY <1>1, <1>2 DEF VariablesSet
<1> QED
  BY <1>1, <1>3, <1>4, <1>5, <1>6, LoopSame

\* A gateway that fails or was activated before.
LEMMA FailStep ==
    ASSUME EnvInv, turn # "no", turn' = "no", envReply' = "failed",
           UNCHANGED <<envState, once, mounts, env>>,
           UNCHANGED <<m_variables, asked, enabled, wanted, configs, process>>
    PROVE  EnvInv'
<1>1. InLoop
  BY DEF InLoop
<1> QED
  BY <1>1, LoopSame

\* The end of the loop.
LEMMA LoopEnds ==
    ASSUME EnvInv, GatewaysActivated, UNCHANGED <<m_variables, asked, enabled, wanted, configs, process>>
    PROVE  EnvInv'
<1>1. turn = "end" /\ turn' = "no" /\ envReply' = "activated" /\ UNCHANGED <<envState, once, mounts, env>>
  BY DEF GatewaysActivated
<1>2. InLoop
  BY <1>1 DEF InLoop
<1>3. WaylandServed /\ VariablesSet
  BY <1>1 DEF EnvInv
<1> QED
  BY <1>1, <1>2, <1>3, LoopSame

\* What a gateway that succeeds makes of the states and of the loop.
LEMMA TrueLemma ==
    ASSUME EnvInv, NEW g \in Gateways, GatewayTrue(g),
           UNCHANGED <<m_variables, asked, enabled, wanted, configs, process>>
    PROVE  /\ InLoop /\ turn = g /\ turn' = After(g) /\ envReply' = "configured"
           /\ envState[g] = "configured" /\ envState'[g] = "activated"
           /\ envState' \in [Gateways -> {"created", "configured", "activated"}]
           /\ \A h \in Gateways : h # g => envState'[h] = envState[h]
<1>1. /\ turn = g /\ envState[g] = "configured" /\ turn' = After(g) /\ UNCHANGED envReply
      /\ envState' = [envState EXCEPT ![g] = "activated"]
  BY DEF GatewayTrue
<1>2. envState \in [Gateways -> {"created", "configured", "activated"}]
  BY EnvTypeParts
<1>3. g \in {"pulse", "wayland", "env"}
  BY DEF Gateways
<1>4. turn' \in {"wayland", "env", "end"}
  BY <1>1, <1>3, AfterLemma
<1>5. envReply' = "configured" /\ turn # "no"
  BY <1>1, <1>3 DEF EnvInv
<1>6. InLoop
  BY <1>4, <1>5 DEF InLoop, Gateways
<1> QED
  BY <1>1, <1>2, <1>5, <1>6

\* PulseAudio.
LEMMA PulseStep ==
    ASSUME EnvInv, ActivatePulse, UNCHANGED <<m_variables, asked, enabled, wanted, configs, process>>
    PROVE  EnvInv'
<1>1. PulseServed /\ OnceIsMounted /\ enabled = wanted
  BY DEF EnvInv
<1>2. "pulse" \in Gateways /\ "env" \in Gateways /\ "wayland" \in Gateways
      /\ "pulse" \in Sockets /\ "wayland" \in Sockets
  BY DEF Gateways, Sockets
<1>3. CASE GatewayFalse("pulse")
  BY <1>3, FailStep DEF GatewayFalse
<1>4. CASE GatewayTrue("pulse") /\ ~enabled["pulse"] /\ UNCHANGED <<once, mounts, env>>
  <2>1. /\ InLoop /\ turn' = "wayland" /\ envReply' = "configured" /\ envState["pulse"] = "configured"
        /\ envState' \in [Gateways -> {"created", "configured", "activated"}]
        /\ \A h \in Gateways : h # "pulse" => envState'[h] = envState[h]
    BY <1>2, <1>4, TrueLemma, AfterLemma
  <2>2. LoopTypes
    BY <1>2, <1>4, <2>1, EnvTypeParts DEF LoopTypes, IsMap
  <2>3. PulseServed' /\ OnceIsMounted'
    BY <1>1, <1>4, <2>1 DEF PulseServed, OnceIsMounted
  <2> QED
    BY <2>1, <2>2, <2>3, LoopStep
<1>5. CASE GatewayTrue("pulse") /\ UNCHANGED once /\ EnableSocket("pulse", Pulse, <<"unix:/gateways/pulse_socket">>)
  <2>1. /\ InLoop /\ turn' = "wayland" /\ envReply' = "configured"
        /\ envState["pulse"] = "configured" /\ envState'["pulse"] = "activated"
        /\ envState' \in [Gateways -> {"created", "configured", "activated"}]
        /\ \A h \in Gateways : h # "pulse" => envState'[h] = envState[h]
    BY <1>2, <1>5, TrueLemma, AfterLemma
  <2>2. mounts \in [Sockets -> Nat] /\ mounts["pulse"] = 0
    BY <1>1, <2>1, EnvTypeParts DEF PulseServed
  <2>3. mounts' \in [Sockets -> Nat] /\ mounts'["pulse"] = 1 /\ mounts'["wayland"] = mounts["wayland"]
    BY <1>2, <1>5, <2>2 DEF EnableSocket
  <2>4. DOMAIN env' = DOMAIN env \cup {Pulse}
    BY <1>5, WithDomain DEF EnableSocket
  <2>5. IsMap(env)'
    BY <2>4, EnvTypeParts, EnvironmentAssumption DEF IsMap
  <2>6. LoopTypes
    BY <1>2, <1>5, <2>1, <2>3, <2>5, EnvTypeParts DEF LoopTypes
  <2>7. PulseServed' /\ OnceIsMounted'
    BY <1>1, <1>5, <2>1, <2>3, <2>4 DEF PulseServed, OnceIsMounted
  <2> QED
    BY <2>1, <2>6, <2>7, LoopStep
<1> QED
  BY <1>3, <1>4, <1>5 DEF ActivatePulse

\* Wayland.
LEMMA WaylandStep ==
    ASSUME EnvInv, ActivateWayland, UNCHANGED <<m_variables, asked, enabled, wanted, configs, process>>
    PROVE  EnvInv'
<1>1. PulseServed /\ OnceIsMounted /\ enabled = wanted
  BY DEF EnvInv
<1>2. "pulse" \in Gateways /\ "env" \in Gateways /\ "wayland" \in Gateways
      /\ "pulse" \in Sockets /\ "wayland" \in Sockets
  BY DEF Gateways, Sockets
<1>3. CASE GatewayFalse("wayland")
  BY <1>3, FailStep DEF GatewayFalse
<1>4. CASE GatewayTrue("wayland") /\ (~enabled["wayland"] \/ once) /\ UNCHANGED <<once, mounts, env>>
  <2>1. /\ InLoop /\ turn' = "env" /\ envReply' = "configured"
        /\ envState' \in [Gateways -> {"created", "configured", "activated"}]
        /\ \A h \in Gateways : h # "wayland" => envState'[h] = envState[h]
    BY <1>2, <1>4, TrueLemma, AfterLemma
  <2>2. LoopTypes
    BY <1>2, <1>4, <2>1, EnvTypeParts DEF LoopTypes, IsMap
  <2>3. PulseServed' /\ OnceIsMounted' /\ WaylandServed'
    BY <1>1, <1>2, <1>4, <2>1 DEF PulseServed, OnceIsMounted, WaylandServed
  <2> QED
    BY <2>1, <2>2, <2>3, LoopStep
<1>5. CASE GatewayTrue("wayland") /\ ~once /\ once' = TRUE /\ EnableSocket("wayland", Xdg, <<"/gateways">>)
  <2>1. /\ InLoop /\ turn' = "env" /\ envReply' = "configured"
        /\ envState' \in [Gateways -> {"created", "configured", "activated"}]
        /\ \A h \in Gateways : h # "wayland" => envState'[h] = envState[h]
    BY <1>2, <1>5, TrueLemma, AfterLemma
  <2>2. mounts \in [Sockets -> Nat] /\ mounts["wayland"] = 0
    BY <1>1, <1>5, EnvTypeParts DEF OnceIsMounted
  <2>3. mounts' \in [Sockets -> Nat] /\ mounts'["wayland"] = 1 /\ mounts'["pulse"] = mounts["pulse"]
    BY <1>2, <1>5, <2>2 DEF EnableSocket
  <2>4. DOMAIN env' = DOMAIN env \cup {Xdg}
    BY <1>5, WithDomain DEF EnableSocket
  <2>5. IsMap(env)'
    BY <2>4, EnvTypeParts, EnvironmentAssumption DEF IsMap
  <2>6. LoopTypes
    BY <1>2, <1>5, <2>1, <2>3, <2>5, EnvTypeParts DEF LoopTypes
  <2>7. PulseServed' /\ OnceIsMounted' /\ WaylandServed'
    BY <1>1, <1>2, <1>5, <2>1, <2>3, <2>4 DEF PulseServed, OnceIsMounted, WaylandServed
  <2> QED
    BY <2>1, <2>6, <2>7, LoopStep
<1> QED
  BY <1>3, <1>4, <1>5 DEF ActivateWayland

\* The environment gateway, whose variables go over those of the others.
LEMMA EnvironmentStep ==
    ASSUME EnvInv, ActivateEnvironment, UNCHANGED <<m_variables, asked, enabled, wanted, configs, process>>
    PROVE  EnvInv'
<1>1. PulseServed /\ OnceIsMounted
  BY DEF EnvInv
<1>2. "pulse" \in Gateways /\ "env" \in Gateways /\ "wayland" \in Gateways
  BY DEF Gateways
<1>3. GatewayTrue("env") /\ env' = Over(m_variables, env) /\ UNCHANGED <<once, mounts>>
  BY DEF ActivateEnvironment
<1>4. /\ InLoop /\ turn = "env" /\ turn' = "end" /\ envReply' = "configured" /\ envState["env"] = "configured"
      /\ envState' \in [Gateways -> {"created", "configured", "activated"}]
      /\ \A h \in Gateways : h # "env" => envState'[h] = envState[h]
  BY <1>2, <1>3, TrueLemma, AfterLemma
<1>5. DOMAIN env' = DOMAIN m_variables \cup DOMAIN env
  BY <1>3, OverDomain
<1>6. LoopTypes
  BY <1>2, <1>3, <1>4, <1>5, EnvTypeParts DEF LoopTypes, IsMap
<1>7. PulseServed' /\ OnceIsMounted'
  BY <1>1, <1>2, <1>3, <1>4, <1>5 DEF PulseServed, OnceIsMounted
<1>8. WaylandServed'
  BY <1>2, <1>3, <1>4 DEF EnvInv, WaylandServed
<1>9. VariablesSet'
  <2>1. \A n \in DOMAIN m_variables : n \in DOMAIN env' /\ env'[n] = m_variables[n]
    BY <1>3, <1>5, OverUpper
  <2> QED
    BY <2>1 DEF VariablesSet
<1> QED
  BY <1>4, <1>6, <1>7, <1>8, <1>9, LoopStep

\* Every step.
LEMMA EnvStep ==
    ASSUME EnvInv, [EnvNext]_envVars
    PROVE  EnvInv'
<1>1. ASSUME NEW e \in Elements, NEW cut \in BOOLEAN, SetConfigEnv(e, cut) PROVE EnvInv'
  BY <1>1, SetConfigEnvStep
<1>2. ASSUME NEW g \in Sockets, NEW value \in BOOLEAN, NEW cut \in BOOLEAN, SetConfigSocket(g, value, cut)
      PROVE  EnvInv'
  BY <1>2, SetConfigSocketStep
<1>3. ASSUME NEW g \in Gateways, SetConfigMalformed(g) PROVE EnvInv'
  BY <1>3, SetConfigMalformedStep
<1>4. CASE ActivateGateways
  BY <1>4, ActivateGatewaysStep
<1>5. CASE ActivateNext
  <2>1. UNCHANGED <<m_variables, asked, enabled, wanted, configs, process>>
    BY <1>5 DEF ActivateNext
  <2>2. CASE ActivatedBefore
    BY <2>1, <2>2, FailStep DEF ActivatedBefore, Gateways
  <2> QED
    BY <1>5, <2>1, <2>2, SkipStep, PulseStep, WaylandStep, EnvironmentStep, LoopEnds DEF ActivateNext
<1>6. ASSUME NEW job \in Maps({<<"job">>}), Execute(job) PROVE EnvInv'
  BY <1>6, ExecuteStep
<1>7. CASE UNCHANGED envVars
  <2>1. /\ envState' = envState /\ m_variables' = m_variables /\ asked' = asked
        /\ enabled' = enabled /\ wanted' = wanted /\ once' = once /\ mounts' = mounts
        /\ env' = env /\ configs' = configs /\ turn' = turn /\ envReply' = envReply
        /\ process' = process
    BY <1>7 DEF envVars
  <2>2. EnvTypeOK'
    BY <2>1 DEF EnvInv, EnvTypeOK, IsMap
  <2>3. PulseServed' /\ OnceIsMounted'
    BY <2>1 DEF EnvInv, PulseServed, OnceIsMounted
  <2>4. (WaylandServed' <=> WaylandServed) /\ (VariablesSet' <=> VariablesSet)
    BY <2>1 DEF WaylandServed, VariablesSet
  <2> QED
    BY <2>1, <2>2, <2>3, <2>4 DEF EnvInv
<1> QED
  BY <1>1, <1>2, <1>3, <1>4, <1>5, <1>6, <1>7 DEF EnvNext

\* The invariant of the environment, along with the behaviours of all the gateways.
THEOREM EnvInvariance == GatewaysSpec => []EnvInv
<1>1. GatewaysInit => EnvInv
  BY EnvInitLemma DEF GatewaysInit
<1>2. EnvInv /\ [GatewaysNext]_gatewaysVars => EnvInv'
  <2> SUFFICES ASSUME EnvInv, [GatewaysNext]_gatewaysVars PROVE [EnvNext]_envVars
    BY EnvStep
  <2> QED
    BY DEF GatewaysNext, gatewaysVars
<1> QED
  BY <1>1, <1>2, PTL DEF GatewaysSpec

\* After a call that succeeds every socket that any configuration asked for, in a call
\* that failed too, is mounted, and once only however often the Wayland gateway is
\* activated; the environment gateway's variables are set over the others'; and a
\* process sees its job's variables over all of them.
THEOREM SocketsAreServed == GatewaysSpec => [](EnabledIsServed /\ NeverMountedTwice /\ JobOverrides)
<1>1. EnvInv => EnabledIsServed
  <2> SUFFICES ASSUME EnvInv, envReply = "activated", NEW g \in Sockets, wanted[g], envState[g] = "activated"
               PROVE  LET n == IF g = "pulse" THEN Pulse ELSE Xdg
                      IN  /\ mounts[g] = 1
                          /\ n \in DOMAIN env
                          /\ envState["env"] = "activated" /\ n \in DOMAIN m_variables => env[n] = m_variables[n]
    BY DEF EnabledIsServed
  <2>1. PulseServed /\ OnceIsMounted /\ WaylandServed /\ VariablesSet
    BY DEF EnvInv
  <2>2. CASE g = "pulse"
    BY <2>1, <2>2 DEF PulseServed, VariablesSet
  <2>3. CASE g = "wayland"
    BY <2>1, <2>3 DEF OnceIsMounted, WaylandServed, VariablesSet
  <2> QED
    BY <2>2, <2>3 DEF Sockets
<1>2. EnvInv => NeverMountedTwice
  <2> SUFFICES ASSUME EnvInv PROVE NeverMountedTwice
    OBVIOUS
  <2>1. mounts["pulse"] <= 1 /\ (once => mounts["wayland"] = 1) /\ (~once => mounts["wayland"] = 0)
    BY DEF EnvInv, PulseServed, OnceIsMounted
  <2>2. mounts["wayland"] <= 1
    BY <2>1
  <2> QED
    BY <2>1, <2>2 DEF NeverMountedTwice, Sockets
<1>3. EnvInv => JobOverrides
  <2> SUFFICES ASSUME EnvInv, envReply = "executed", NEW n \in DOMAIN process.job \cup DOMAIN env
               PROVE  process.sees[n] = IF n \in DOMAIN process.job THEN process.job[n] ELSE env[n]
    BY DEF JobOverrides
  <2>1. process.sees = Over(process.job, env)
    BY DEF EnvInv
  <2> DEFINE f == process.job
  <2> HIDE DEF f
  <2>2. process.sees = Over(f, env) /\ n \in DOMAIN f \cup DOMAIN env
    BY <2>1 DEF f
  <2>3. process.sees[n] = IF n \in DOMAIN f THEN f[n] ELSE env[n]
    BY <2>2, OverUpper, OverLower
  <2> QED
    BY <2>3 DEF f
<1> QED
  BY <1>1, <1>2, <1>3, EnvInvariance, PTL

\* The words of values.
Words == Texts \cup Separators

\* Every variable is joined, one that was never set too.
AllJoined == \A n \in DOMAIN m_variables : JoinedFrom(m_variables[n], asked, n)

\* The variables are those that elements were accepted for, and their values are joined.
JoinInv ==
    /\ \A n : n \in DOMAIN m_variables <=> Own(asked, n) # {}
    /\ \A n \in DOMAIN m_variables : m_variables[n] \in Seq(Words)
    /\ AllJoined

\* The places of a variable are finitely many.
LEMMA OwnFinite ==
    ASSUME NEW s \in Seq(Elements), NEW n
    PROVE  Own(s, n) \subseteq 1..Len(s) /\ IsFiniteSet(Own(s, n)) /\ Cardinality(Own(s, n)) \in Nat
<1>1. Own(s, n) \subseteq 1..Len(s) /\ Len(s) \in Nat
  BY DEF Own
<1>2. IsFiniteSet(1..Len(s))
  BY <1>1, FS_Interval
<1>3. IsFiniteSet(Own(s, n))
  BY <1>1, <1>2, FS_Subset
<1> QED
  BY <1>1, <1>3, FS_CardinalityType

\* So are those before an element.
LEMMA BeforeFinite ==
    ASSUME NEW s \in Seq(Elements), NEW k
    PROVE  IsFiniteSet(Before(s, k)) /\ Cardinality(Before(s, k)) \in Nat
           /\ Cardinality(Before(s, k)) <= Cardinality(Own(s, s[k].name))
<1>1. Before(s, k) \subseteq Own(s, s[k].name)
  BY DEF Before
<1>2. IsFiniteSet(Own(s, s[k].name))
  BY OwnFinite
<1> QED
  BY <1>1, <1>2, FS_Subset, FS_CardinalityType

\* An element is not before itself, so there are less before it than there are.
LEMMA BeforeLess ==
    ASSUME NEW s \in Seq(Elements), NEW n, NEW k \in Own(s, n)
    PROVE  Cardinality(Before(s, k)) < Cardinality(Own(s, n))
<1>0. k \in 1..Len(s) /\ Len(s) \in Nat /\ s[k].name = n
  BY DEF Own
<1>1. Before(s, k) \subseteq Own(s, n)
  BY <1>0 DEF Before
<1>2. k \notin Before(s, k)
  BY <1>0 DEF Before
<1>3. IsFiniteSet(Own(s, n))
  BY OwnFinite
<1> QED
  BY <1>1, <1>2, <1>3, BeforeFinite, FS_Subset, FS_CardinalityType

\* An element that was appended has one before it, and one that was prepended has one
\* behind it.
LEMMA BeforeAdded ==
    ASSUME NEW s \in Seq(Elements), NEW n, NEW k \in Own(s, n)
    PROVE  /\ Added(s, k, "append") => Cardinality(Before(s, k)) >= 1
           /\ Added(s, k, "prepend") => Cardinality(Before(s, k)) + 1 < Cardinality(Own(s, n))
<1>0. k \in 1..Len(s) /\ Len(s) \in Nat /\ s[k].name = n
  BY DEF Own
<1>1. IsFiniteSet(Own(s, n)) /\ Own(s, n) \subseteq 1..Len(s)
  BY OwnFinite
<1>2. IsFiniteSet(Before(s, k)) /\ Cardinality(Before(s, k)) \in Nat
  BY BeforeFinite
<1>3. ASSUME Added(s, k, "append") PROVE Cardinality(Before(s, k)) >= 1
  <2>1. PICK l \in Own(s, n) : l < k
    BY <1>0, <1>3 DEF Added
  <2>2. ~Added(s, k, "prepend")
    BY <1>3 DEF Added
  <2>3. l \in Before(s, k)
    BY <1>0, <1>3, <2>1, <2>2 DEF Before
  <2>4. Cardinality(Before(s, k)) # 0
    BY <1>2, <2>3, FS_EmptySet
  <2> QED
    BY <1>2, <2>4
<1>4. ASSUME Added(s, k, "prepend") PROVE Cardinality(Before(s, k)) + 1 < Cardinality(Own(s, n))
  <2>1. PICK l \in Own(s, n) : l < k
    BY <1>0, <1>4 DEF Added
  <2>2. ~Added(s, k, "append")
    BY <1>4 DEF Added
  <2>3. l \notin Before(s, k) /\ k \notin Before(s, k) /\ l # k
    BY <1>0, <1>1, <1>4, <2>1, <2>2 DEF Before
  <2> DEFINE B == Before(s, k)  O == Own(s, n)
  <2>4. B \cup {l} \subseteq O /\ k \in O /\ k \notin B \cup {l}
    BY <1>0, <2>1, <2>3 DEF Before
  <2> HIDE DEF B, O
  <2>5. IsFiniteSet(B \cup {l}) /\ Cardinality(B \cup {l}) = Cardinality(B) + 1
    BY <1>2, <2>3, FS_AddElement DEF B
  <2>6. Cardinality(B \cup {l}) < Cardinality(O)
    BY <1>1, <2>4, <2>5, FS_Subset, FS_CardinalityType DEF O
  <2> QED
    BY <2>5, <2>6 DEF B, O
<1> QED
  BY <1>3, <1>4

\* What a joined value says of one element.
Placed(v, s, k, b) ==
    /\ v[2 * b + 1] = s[k].text
    /\ Added(s, k, "prepend") => v[2 * b + 2] = s[k].sep
    /\ Added(s, k, "append") => v[2 * b] = s[k].sep

\* JoinedFrom in these words.
LEMMA JoinedPlaced ==
    ASSUME NEW s \in Seq(Elements), NEW v, NEW n
    PROVE  JoinedFrom(v, s, n) <=>
             /\ Len(v) = 2 * Cardinality(Own(s, n)) - 1
             /\ \A k \in Own(s, n) : Placed(v, s, k, Cardinality(Before(s, k)))
<1>1. \A k : Cardinality(Before(s, k)) \in Nat
  BY BeforeFinite
<1>2. \A b \in Nat : (2 * b + 1) + 1 = 2 * b + 2 /\ (2 * b + 1) - 1 = 2 * b
  OBVIOUS
<1>3. ASSUME NEW k \in Own(s, n), NEW b \in Nat
      PROVE  Placed(v, s, k, b) <=>
               LET at == 2 * b + 1 IN
                 /\ v[at] = s[k].text
                 /\ Added(s, k, "prepend") => v[at + 1] = s[k].sep
                 /\ Added(s, k, "append") => v[at - 1] = s[k].sep
  BY <1>2 DEF Placed
<1> QED
  BY <1>1, <1>3 DEF JoinedFrom

\* What one more element makes of the places.
LEMMA OwnAppend ==
    ASSUME NEW s \in Seq(Elements), NEW e \in Elements, NEW n
    PROVE  Own(Append(s, e), n) = IF e.name = n THEN Own(s, n) \cup {Len(s) + 1} ELSE Own(s, n)
<1> DEFINE t == Append(s, e)
<1>1. DOMAIN t = DOMAIN s \cup {Len(s) + 1} /\ Len(s) + 1 \notin DOMAIN s
  OBVIOUS
<1>2. t[Len(s) + 1] = e /\ \A k \in DOMAIN s : t[k] = s[k]
  OBVIOUS
<1> HIDE DEF t
<1>3. Own(t, n) = IF e.name = n THEN Own(s, n) \cup {Len(s) + 1} ELSE Own(s, n)
  BY <1>1, <1>2 DEF Own
<1> QED
  BY <1>3 DEF t

\* Whether an older element was added does not change.
LEMMA AddedOld ==
    ASSUME NEW s \in Seq(Elements), NEW e \in Elements, NEW k \in DOMAIN s, NEW mode
    PROVE  Added(Append(s, e), k, mode) <=> Added(s, k, mode)
<1>1. k \in 1..Len(s) /\ Len(s) \in Nat /\ Append(s, e)[k] = s[k]
  OBVIOUS
<1>2. \A l \in Own(Append(s, e), s[k].name) : l < k => l \in Own(s, s[k].name)
  BY <1>1, OwnAppend
<1>3. \A l \in Own(s, s[k].name) : l \in Own(Append(s, e), s[k].name)
  BY <1>1, OwnAppend
<1> QED
  BY <1>1, <1>2, <1>3 DEF Added

\* The new one was, if there was another.
LEMMA AddedNew ==
    ASSUME NEW s \in Seq(Elements), NEW e \in Elements, NEW mode
    PROVE  Added(Append(s, e), Len(s) + 1, mode) <=> e.mode = mode /\ Own(s, e.name) # {}
<1>1. Append(s, e)[Len(s) + 1] = e /\ Len(s) \in Nat
  OBVIOUS
<1>2. Own(Append(s, e), e.name) = Own(s, e.name) \cup {Len(s) + 1}
  BY OwnAppend
<1>3. \A l \in Own(s, e.name) : l < Len(s) + 1
  BY <1>1, OwnFinite
<1> QED
  BY <1>1, <1>2, <1>3 DEF Added

\* An older element has the same before it, and the new one if that was prepended to
\* its variable.
LEMMA BeforeOld ==
    ASSUME NEW s \in Seq(Elements), NEW e \in Elements, NEW k \in DOMAIN s
    PROVE  Before(Append(s, e), k) =
             IF s[k].name = e.name /\ e.mode = "prepend" THEN Before(s, k) \cup {Len(s) + 1}
                                                         ELSE Before(s, k)
<1> DEFINE t == Append(s, e)  L == Len(s) + 1  n == s[k].name
<1>1. k \in 1..Len(s) /\ Len(s) \in Nat /\ t[k] = s[k]
  OBVIOUS
<1>2. Own(t, n) = IF e.name = n THEN Own(s, n) \cup {L} ELSE Own(s, n)
  BY OwnAppend
<1>3. \A l \in Own(s, n) : l \in DOMAIN s
  BY DEF Own
<1>4. \A mode : \A l \in DOMAIN s : Added(t, l, mode) <=> Added(s, l, mode)
  BY AddedOld
<1>5. \A mode : Added(t, L, mode) <=> e.mode = mode /\ Own(s, e.name) # {}
  BY AddedNew
<1>6. k \in Own(s, n)
  BY DEF Own
<1>7. L > k /\ ~(L < k) /\ L \notin DOMAIN s
  BY <1>1
<1> HIDE DEF t, L, n
<1>8. \A l : l \in Before(t, k) <=>
        \/ l \in Before(s, k)
        \/ l = L /\ n = e.name /\ e.mode = "prepend"
  <2> TAKE l
  <2>1. l \in Before(t, k) <=> l \in Own(t, n) /\ IF Added(t, l, "prepend") THEN Added(t, k, "prepend") => l > k
                                  ELSE Added(t, k, "append") /\ l < k
    BY <1>1 DEF Before, n
  <2>2. l \in Before(s, k) <=> l \in Own(s, n) /\ IF Added(s, l, "prepend") THEN Added(s, k, "prepend") => l > k
                                  ELSE Added(s, k, "append") /\ l < k
    BY <1>1 DEF Before, n
  <2>3. CASE l \in Own(s, n)
    BY <1>2, <1>3, <1>4, <1>7, <2>1, <2>2, <2>3
  <2>4. CASE l \notin Own(s, n)
    BY <1>2, <1>4, <1>5, <1>6, <1>7, <2>1, <2>2, <2>4
  <2> QED
    BY <2>3, <2>4
<1> QED
  BY <1>8 DEF t, L, n

\* The new element has all others before it if it was appended, and none if it was
\* prepended or is the first.
LEMMA BeforeNew ==
    ASSUME NEW s \in Seq(Elements), NEW e \in Elements, Own(s, e.name) # {} => e.mode # "set"
    PROVE  Before(Append(s, e), Len(s) + 1) = IF e.mode = "append" THEN Own(s, e.name) ELSE {}
<1> DEFINE t == Append(s, e)  L == Len(s) + 1  n == e.name
<1>1. Len(s) \in Nat /\ t[L] = e
  OBVIOUS
<1>2. Own(t, n) = Own(s, n) \cup {L}
  BY OwnAppend
<1>3. \A l \in Own(s, n) : l < L /\ ~(l > L)
  BY <1>1, OwnFinite
<1>5. \A mode : Added(t, L, mode) <=> e.mode = mode /\ Own(s, n) # {}
  BY AddedNew
<1>6. ~(L < L) /\ ~(L > L)
  BY <1>1
<1> HIDE DEF t, L
<1>7. \A l : l \in Before(t, L) <=> l \in Own(t, n) /\ IF Added(t, l, "prepend") THEN Added(t, L, "prepend") => l > L
                                  ELSE Added(t, L, "append") /\ l < L
  BY <1>1 DEF Before
<1>8. \A l : l \in Before(t, L) <=> e.mode = "append" /\ l \in Own(s, n)
  <2>1. e.mode \in {"set", "append", "prepend"}
    BY DEF Elements
  <2> QED
    BY <1>2, <1>3, <1>5, <1>6, <1>7, <2>1
<1> QED
  BY <1>8 DEF t, L

\* A variable's first element.
LEMMA JoinedFirst ==
    ASSUME NEW s \in Seq(Elements), NEW e \in Elements, Own(s, e.name) = {}
    PROVE  JoinedFrom(<<e.text>>, Append(s, e), e.name)
<1> DEFINE t == Append(s, e)  L == Len(s) + 1  v == <<e.text>>
<1>1. Own(t, e.name) = {L}
  BY OwnAppend
<1>2. Before(t, L) = {}
  BY BeforeNew
<1>3. t[L] = e /\ Len(v) = 1 /\ v[1] = e.text
  OBVIOUS
<1>4. \A mode : ~Added(t, L, mode)
  BY AddedNew
<1>5. Cardinality({L}) = 1 /\ Cardinality({}) = 0
  BY FS_Singleton, FS_EmptySet
<1> HIDE DEF t, L, v
<1>6. Len(v) = 2 * Cardinality(Own(t, e.name)) - 1
  BY <1>1, <1>3, <1>5
<1>7. Placed(v, t, L, 0)
  BY <1>3, <1>4 DEF Placed
<1>8. t \in Seq(Elements)
  BY DEF t
<1>9. JoinedFrom(v, t, e.name)
  BY <1>1, <1>2, <1>5, <1>6, <1>7, <1>8, JoinedPlaced
<1> QED
  BY <1>9 DEF t, v

\* An element of another variable.
LEMMA JoinedOther ==
    ASSUME NEW s \in Seq(Elements), NEW e \in Elements, NEW n, n # e.name, NEW v, JoinedFrom(v, s, n)
    PROVE  JoinedFrom(v, Append(s, e), n)
<1> DEFINE t == Append(s, e)
<1>1. Own(t, n) = Own(s, n)
  BY OwnAppend
<1>2. \A k \in Own(s, n) : k \in DOMAIN s /\ t[k] = s[k] /\ s[k].name = n
  BY DEF Own
<1>3. \A k \in Own(s, n) : Before(t, k) = Before(s, k)
  BY <1>2, BeforeOld
<1>4. \A mode : \A k \in Own(s, n) : Added(t, k, mode) <=> Added(s, k, mode)
  BY <1>2, AddedOld
<1> HIDE DEF t
<1>5. JoinedFrom(v, t, n)
  BY <1>1, <1>2, <1>3, <1>4 DEF JoinedFrom
<1> QED
  BY <1>5 DEF t

\* An element that is appended.
LEMMA JoinedAppend ==
    ASSUME NEW s \in Seq(Elements), NEW e \in Elements, e.mode = "append", Own(s, e.name) # {},
           NEW v \in Seq(Words), JoinedFrom(v, s, e.name)
    PROVE  JoinedFrom(v \o <<e.sep, e.text>>, Append(s, e), e.name)
<1> DEFINE t == Append(s, e)  L == Len(s) + 1  n == e.name  c == Cardinality(Own(s, n))
           w == v \o <<e.sep, e.text>>
<1>1. Own(t, n) = Own(s, n) \cup {L}
  BY OwnAppend
<1>2. \A k \in Own(s, n) : k \in DOMAIN s /\ t[k] = s[k] /\ s[k].name = n
  BY DEF Own
<1>3. \A k \in Own(s, n) : Before(t, k) = Before(s, k)
  BY <1>2, BeforeOld
<1>4. \A mode : \A k \in Own(s, n) : Added(t, k, mode) <=> Added(s, k, mode)
  BY <1>2, AddedOld
<1>5. t[L] = e /\ L \notin Own(s, n)
  BY OwnFinite
<1>6. Before(t, L) = Own(s, n)
  BY BeforeNew
<1>7. Added(t, L, "append") /\ ~Added(t, L, "prepend")
  BY AddedNew
<1>8. c \in Nat /\ Cardinality(Own(t, n)) = c + 1
  BY <1>1, <1>5, OwnFinite, FS_AddElement
<1>9. Len(v) = 2 * c - 1
  BY DEF JoinedFrom
<1>10. c >= 1
  BY <1>8, <1>9
<1>11. Len(w) = 2 * c + 1 /\ w[2 * c] = e.sep /\ w[2 * c + 1] = e.text
       /\ \A i \in 1..(2 * c - 1) : w[i] = v[i]
  <2> HIDE DEF c
  <2>1. <<e.sep, e.text>> \in Seq(Words) /\ Len(<<e.sep, e.text>>) = 2
    BY DEF Elements, Words
  <2>2. Len(w) = Len(v) + 2 /\ w[Len(v) + 1] = e.sep /\ w[Len(v) + 2] = e.text
        /\ \A i \in 1..Len(v) : w[i] = v[i]
    BY <2>1
  <2>3. Len(v) + 1 = 2 * c /\ Len(v) + 2 = 2 * c + 1
    BY <1>8, <1>9
  <2> QED
    BY <1>9, <2>2, <2>3
<1>12. \A k \in Own(s, n) : Cardinality(Before(s, k)) \in Nat /\ Cardinality(Before(s, k)) < c
  BY BeforeFinite, BeforeLess
<1>13. \A k \in Own(s, n) : Placed(v, s, k, Cardinality(Before(s, k)))
  BY JoinedPlaced
<1>14. \A k \in Own(s, n) : (Added(s, k, "append") => Cardinality(Before(s, k)) >= 1)
                          /\ (Added(s, k, "prepend") => Cardinality(Before(s, k)) + 1 < c)
  BY BeforeAdded
<1>15. t \in Seq(Elements)
  OBVIOUS
<1> HIDE DEF t, L, n, c, w
<1>16. ASSUME NEW k \in Own(s, n) PROVE Placed(w, t, k, Cardinality(Before(t, k)))
  <2> DEFINE b == Cardinality(Before(s, k))
  <2>1. b \in Nat /\ b < c /\ Placed(v, s, k, b) /\ (Added(s, k, "append") => b >= 1)
        /\ (Added(s, k, "prepend") => b + 1 < c)
    BY <1>12, <1>13, <1>14
  <2>2. Cardinality(Before(t, k)) = b /\ t[k] = s[k]
    BY <1>2, <1>3
  <2> HIDE DEF b
  <2>3. 2 * b + 1 \in 1..(2 * c - 1) /\ (b >= 1 => 2 * b \in 1..(2 * c - 1))
        /\ (b + 1 < c => 2 * b + 2 \in 1..(2 * c - 1))
    BY <1>8, <2>1
  <2>4. Placed(w, t, k, b)
    BY <1>4, <1>11, <2>1, <2>2, <2>3 DEF Placed
  <2> QED
    BY <2>2, <2>4
<1>17. Placed(w, t, L, Cardinality(Before(t, L)))
  BY <1>5, <1>6, <1>7, <1>11 DEF Placed, c
<1>18. Len(w) = 2 * Cardinality(Own(t, n)) - 1
  BY <1>8, <1>11
<1>19. JoinedFrom(w, t, n)
  BY <1>1, <1>15, <1>16, <1>17, <1>18, JoinedPlaced
<1> QED
  BY <1>19 DEF w, t, n

\* An element that is prepended.
LEMMA JoinedPrepend ==
    ASSUME NEW s \in Seq(Elements), NEW e \in Elements, e.mode = "prepend", Own(s, e.name) # {},
           NEW v \in Seq(Words), JoinedFrom(v, s, e.name)
    PROVE  JoinedFrom(<<e.text, e.sep>> \o v, Append(s, e), e.name)
<1> DEFINE t == Append(s, e)  L == Len(s) + 1  n == e.name  c == Cardinality(Own(s, n))
           w == <<e.text, e.sep>> \o v
<1>1. Own(t, n) = Own(s, n) \cup {L}
  BY OwnAppend
<1>2. \A k \in Own(s, n) : k \in DOMAIN s /\ t[k] = s[k] /\ s[k].name = n
  BY DEF Own
<1>5. t[L] = e /\ L \notin Own(s, n)
  BY OwnFinite
<1>3. \A k \in Own(s, n) : Cardinality(Before(t, k)) = Cardinality(Before(s, k)) + 1
  <2> TAKE k \in Own(s, n)
  <2>1. Before(t, k) = Before(s, k) \cup {L}
    BY <1>2, BeforeOld
  <2>2. L \notin Before(s, k)
    BY <1>2, <1>5 DEF Before
  <2>3. IsFiniteSet(Before(s, k))
    BY BeforeFinite
  <2> QED
    BY <2>1, <2>2, <2>3, FS_AddElement
<1>4. \A mode : \A k \in Own(s, n) : Added(t, k, mode) <=> Added(s, k, mode)
  BY <1>2, AddedOld
<1>6. Cardinality(Before(t, L)) = 0
  BY BeforeNew, FS_EmptySet
<1>7. Added(t, L, "prepend") /\ ~Added(t, L, "append")
  <2>1. Added(t, L, "prepend") <=> e.mode = "prepend" /\ Own(s, e.name) # {}
    BY AddedNew
  <2>2. Added(t, L, "append") <=> e.mode = "append" /\ Own(s, e.name) # {}
    BY AddedNew
  <2> HIDE DEF t, L
  <2> QED
    BY <2>1, <2>2
<1>8. c \in Nat /\ Cardinality(Own(t, n)) = c + 1
  BY <1>1, <1>5, OwnFinite, FS_AddElement
<1>9. Len(v) = 2 * c - 1
  BY DEF JoinedFrom
<1>10. c >= 1
  BY <1>8, <1>9
<1>11. Len(w) = 2 * c + 1 /\ w[1] = e.text /\ w[2] = e.sep
       /\ \A i \in 1..(2 * c - 1) : w[i + 2] = v[i]
  <2> HIDE DEF c
  <2>1. <<e.text, e.sep>> \in Seq(Words) /\ Len(<<e.text, e.sep>>) = 2
    BY DEF Elements, Words
  <2>2. Len(w) = Len(v) + 2 /\ w[1] = e.text /\ w[2] = e.sep
        /\ \A i \in 1..Len(v) : w[i + 2] = v[i]
    BY <2>1
  <2>3. Len(v) + 2 = 2 * c + 1
    BY <1>8, <1>9
  <2> QED
    BY <1>9, <2>2, <2>3
<1>12. \A k \in Own(s, n) : Cardinality(Before(s, k)) \in Nat /\ Cardinality(Before(s, k)) < c
  BY BeforeFinite, BeforeLess
<1>13. \A k \in Own(s, n) : Placed(v, s, k, Cardinality(Before(s, k)))
  BY JoinedPlaced
<1>14. \A k \in Own(s, n) : (Added(s, k, "append") => Cardinality(Before(s, k)) >= 1)
                          /\ (Added(s, k, "prepend") => Cardinality(Before(s, k)) + 1 < c)
  BY BeforeAdded
<1>15. t \in Seq(Elements)
  OBVIOUS
<1> HIDE DEF t, L, n, c, w
<1>16. ASSUME NEW k \in Own(s, n) PROVE Placed(w, t, k, Cardinality(Before(t, k)))
  <2> DEFINE b == Cardinality(Before(s, k))
  <2>1. b \in Nat /\ b < c /\ Placed(v, s, k, b) /\ (Added(s, k, "append") => b >= 1)
        /\ (Added(s, k, "prepend") => b + 1 < c)
    BY <1>12, <1>13, <1>14
  <2>2. Cardinality(Before(t, k)) = b + 1 /\ t[k] = s[k]
    BY <1>2, <1>3
  <2> HIDE DEF b
  <2>3. 2 * b + 1 \in 1..(2 * c - 1) /\ (b >= 1 => 2 * b \in 1..(2 * c - 1))
        /\ (b + 1 < c => 2 * b + 2 \in 1..(2 * c - 1))
    BY <1>8, <2>1
  <2>4. 2 * (b + 1) + 1 = (2 * b + 1) + 2 /\ 2 * (b + 1) + 2 = (2 * b + 2) + 2 /\ 2 * (b + 1) = (2 * b) + 2
    BY <2>1
  <2>5. Placed(w, t, k, b + 1)
    BY <1>4, <1>11, <2>1, <2>2, <2>3, <2>4 DEF Placed
  <2> QED
    BY <2>2, <2>5
<1>17. Placed(w, t, L, Cardinality(Before(t, L)))
  BY <1>5, <1>6, <1>7, <1>11 DEF Placed
<1>18. Len(w) = 2 * Cardinality(Own(t, n)) - 1
  BY <1>8, <1>11
<1>19. JoinedFrom(w, t, n)
  BY <1>1, <1>15, <1>16, <1>17, <1>18, JoinedPlaced
<1> QED
  BY <1>19 DEF w, t, n

\* At first there is nothing.
LEMMA JoinInit == EnvInit => JoinInv
<1> SUFFICES ASSUME EnvInit PROVE JoinInv
  OBVIOUS
<1>1. DOMAIN m_variables = {} /\ DOMAIN asked = {}
  BY DEF EnvInit, NoVariables
<1> QED
  BY <1>1 DEF JoinInv, AllJoined, Own

\* The value that an element which is not refused makes is joined.
LEMMA ParsedLemma ==
    ASSUME JoinInv, asked \in Seq(Elements), NEW e \in Elements, ~Refused(e)
    PROVE  ParsedValue(e) \in Seq(Words) /\ JoinedFrom(ParsedValue(e), Append(asked, e), e.name)
<1> DEFINE n == e.name  v == m_variables[n]
<1>1. n \in DOMAIN m_variables <=> Own(asked, n) # {}
  BY DEF JoinInv
<1>2. e.mode \in {"set", "append", "prepend"} /\ e.text \in Words /\ e.sep \in Words
  BY DEF Elements, Words
<1>3. CASE n \notin DOMAIN m_variables
  <2>1. ParsedValue(e) = <<e.text>>
    BY <1>3 DEF ParsedValue
  <2>2. JoinedFrom(<<e.text>>, Append(asked, e), e.name)
    BY <1>1, <1>3, JoinedFirst
  <2>3. <<e.text>> \in Seq(Words)
    BY <1>2
  <2> QED
    BY <2>1, <2>2, <2>3
<1>4. ASSUME n \in DOMAIN m_variables PROVE v \in Seq(Words) /\ JoinedFrom(v, asked, n) /\ e.mode # "set"
  BY <1>4 DEF JoinInv, AllJoined, Refused
<1>5. CASE n \in DOMAIN m_variables /\ e.mode = "append"
  <2>1. ParsedValue(e) = v \o <<e.sep, e.text>>
    BY <1>5 DEF ParsedValue
  <2>2. v \in Seq(Words) /\ JoinedFrom(v, asked, n)
    BY <1>4, <1>5
  <2>3. <<e.sep, e.text>> \in Seq(Words)
    BY <1>2
  <2> HIDE DEF v
  <2>4. JoinedFrom(v \o <<e.sep, e.text>>, Append(asked, e), e.name)
    BY <1>1, <1>5, <2>2, JoinedAppend
  <2>5. v \o <<e.sep, e.text>> \in Seq(Words)
    BY <2>2, <2>3
  <2> QED
    BY <2>1, <2>4, <2>5
<1>6. CASE n \in DOMAIN m_variables /\ e.mode = "prepend"
  <2>1. ParsedValue(e) = <<e.text, e.sep>> \o v
    BY <1>6 DEF ParsedValue
  <2>2. v \in Seq(Words) /\ JoinedFrom(v, asked, n)
    BY <1>4, <1>6
  <2>3. <<e.text, e.sep>> \in Seq(Words)
    BY <1>2
  <2> HIDE DEF v
  <2>4. JoinedFrom(<<e.text, e.sep>> \o v, Append(asked, e), e.name)
    BY <1>1, <1>6, <2>2, JoinedPrepend
  <2>5. <<e.text, e.sep>> \o v \in Seq(Words)
    BY <2>2, <2>3
  <2> QED
    BY <2>1, <2>4, <2>5
<1> QED
  BY <1>2, <1>3, <1>4, <1>5, <1>6

\* No step but the reading of an element by the environment gateway changes variables.
LEMMA JoinStep ==
    ASSUME JoinInv, asked \in Seq(Elements), [EnvNext]_envVars
    PROVE  JoinInv'
<1>1. ASSUME UNCHANGED <<m_variables, asked>> PROVE JoinInv'
  BY <1>1 DEF JoinInv, AllJoined
<1>2. ASSUME NEW e \in Elements, NEW cut \in BOOLEAN, SetConfigEnv(e, cut) PROVE JoinInv'
  <2>1. CASE Refused(e)
    BY <1>1, <1>2, <2>1 DEF SetConfigEnv
  <2>2. CASE ~Refused(e)
    <3> DEFINE n == e.name  p == ParsedValue(e)
    <3>1. m_variables' = With(m_variables, n, p) /\ asked' = Append(asked, e)
      BY <1>2, <2>2 DEF SetConfigEnv
    <3>2. p \in Seq(Words) /\ JoinedFrom(p, Append(asked, e), n)
      BY <2>2, ParsedLemma
    <3> HIDE DEF p
    <3>3. DOMAIN m_variables' = DOMAIN m_variables \cup {n} /\ m_variables'[n] = p
          /\ \A m \in DOMAIN m_variables : m # n => m_variables'[m] = m_variables[m]
      BY <3>1 DEF With
    <3>4. \A m : m \in DOMAIN m_variables' <=> Own(asked', m) # {}
      <4> TAKE m
      <4>1. m \in DOMAIN m_variables <=> Own(asked, m) # {}
        BY DEF JoinInv
      <4>2. Own(asked', m) = IF n = m THEN Own(asked, m) \cup {Len(asked) + 1} ELSE Own(asked, m)
        BY <3>1, OwnAppend
      <4> QED
        BY <3>3, <4>1, <4>2
    <3>5. \A m \in DOMAIN m_variables' : m_variables'[m] \in Seq(Words)
      BY <3>2, <3>3 DEF JoinInv
    <3>6. ASSUME NEW m \in DOMAIN m_variables' PROVE JoinedFrom(m_variables'[m], asked', m)
      <4>1. CASE m = n
        BY <3>1, <3>2, <3>3, <4>1
      <4>2. CASE m # n
        <5> DEFINE v == m_variables[m]
        <5>1. JoinedFrom(v, asked, m) /\ m_variables'[m] = v
          BY <3>3, <4>2 DEF JoinInv, AllJoined
        <5> HIDE DEF v
        <5>2. JoinedFrom(v, Append(asked, e), m)
          BY <4>2, <5>1, JoinedOther
        <5> QED
          BY <3>1, <5>1, <5>2
      <4> QED
        BY <4>1, <4>2
    <3> QED
      BY <3>4, <3>5, <3>6 DEF JoinInv, AllJoined
  <2> QED
    BY <2>1, <2>2
<1>3. ASSUME NEW g \in Sockets, NEW value \in BOOLEAN, NEW cut \in BOOLEAN, SetConfigSocket(g, value, cut)
      PROVE  JoinInv'
  BY <1>1, <1>3 DEF SetConfigSocket
<1>4. ASSUME NEW g \in Gateways, SetConfigMalformed(g) PROVE JoinInv'
  BY <1>1, <1>4 DEF SetConfigMalformed
<1>5. CASE ActivateGateways \/ ActivateNext
  BY <1>1, <1>5 DEF ActivateGateways, ActivateNext
<1>6. ASSUME NEW job \in Maps({<<"job">>}), Execute(job) PROVE JoinInv'
  BY <1>1, <1>6 DEF Execute
<1>7. CASE UNCHANGED envVars
  BY <1>1, <1>7 DEF envVars
<1> QED
  BY <1>2, <1>3, <1>4, <1>5, <1>6, <1>7 DEF EnvNext

\* With EnvInv, which has the types, this is inductive.
LEMMA JoinInvariance == GatewaysSpec => []JoinInv
<1>1. GatewaysInit => JoinInv
  BY JoinInit DEF GatewaysInit
<1>2. JoinInv /\ EnvInv /\ [GatewaysNext]_gatewaysVars => JoinInv'
  <2> SUFFICES ASSUME JoinInv, EnvInv, [GatewaysNext]_gatewaysVars PROVE JoinInv'
    OBVIOUS
  <2>1. asked \in Seq(Elements)
    BY DEF EnvInv, EnvTypeOK
  <2>2. [EnvNext]_envVars
    BY DEF GatewaysNext, gatewaysVars
  <2> QED
    BY <2>1, <2>2, JoinStep
<1> QED
  BY <1>1, <1>2, EnvInvariance, PTL DEF GatewaysSpec

\* For any variables, texts and separators and any number of configurations: a variable
\* of the environment gateway that was set is the text it was set to with all that was
\* prepended before it, the latest first, and all that was appended after it, every text
\* separated towards the older ones by its own separator; what sockets were asked for is mounted, once, and
\* its variable set; and a job's variables have their way over those of the gateways.
THEOREM EnvironmentIsSound == GatewaysSpec => []VariablesAreSound
<1>1. JoinInv => VariablesAreJoined
  BY DEF JoinInv, AllJoined, VariablesAreJoined
<1>2. VariablesAreJoined /\ EnabledIsServed /\ NeverMountedTwice /\ JobOverrides => VariablesAreSound
  BY DEF VariablesAreSound
<1> QED
  BY <1>1, <1>2, JoinInvariance, SocketsAreServed, PTL

----------------------------------------------------------------------------
(***************************************************************************)
(* The device nodes: digits.                                               *)
(***************************************************************************)
ModeSet == 0..999 \cup {NoMode}

\* x is the greatest number of S.
Top(x, S) == x \in S /\ \A y \in S : x >= y

\* The digits of a mode.
LEMMA DigitLemma ==
    ASSUME NEW m \in ModeSet
    PROVE  /\ Owner(m) \in 0..9 /\ Group(m) \in 0..9 /\ Others(m) \in -1..9
           /\ m = Owner(m) * 100 + Group(m) * 10 + Others(m)
           /\ Others(m) = -1 <=> m = NoMode
<1>1. CASE m = NoMode
  BY <1>1 DEF NoMode, Owner, Group, Others
<1>2. CASE m \in 0..999
  <2>1. m \div 100 \in 0..9 /\ m \div 10 \in 0..99 /\ m % 10 \in 0..9
    BY <1>2
  <2>2. m = (m \div 10) * 10 + (m % 10)
    BY <1>2
  <2>3. (m \div 10) % 10 \in 0..9 /\ m \div 10 = (m \div 100) * 10 + ((m \div 10) % 10)
    BY <1>2
  <2>4. Owner(m) = m \div 100 /\ Group(m) = (m \div 10) % 10 /\ Others(m) = m % 10
    BY <1>2 DEF Owner, Group, Others
  <2> QED
    BY <1>2, <2>1, <2>2, <2>3, <2>4 DEF NoMode
<1> QED
  BY <1>1, <1>2 DEF ModeSet

\* The digits of a mode.
Composed(m, a, b, c) == m \in 0..999 /\ Owner(m) = a /\ Group(m) = b /\ Others(m) = c

\* A mode put together from digits.
LEMMA ComposeLemma ==
    ASSUME NEW a \in 0..9, NEW b \in 0..9, NEW c \in 0..9, NEW m, m = a * 100 + b * 10 + c
    PROVE  Composed(m, a, b, c)
<1>1. m \in 0..999 /\ m >= 0
  OBVIOUS
<1>2. m \div 100 = a /\ m \div 10 = a * 10 + b /\ m % 10 = c
  OBVIOUS
<1>3. (a * 10 + b) % 10 = b
  OBVIOUS
<1>4. Owner(m) = a /\ Group(m) = b /\ Others(m) = c
  BY <1>1, <1>2, <1>3 DEF Owner, Group, Others
<1> QED
  BY <1>1, <1>4 DEF Composed

\* The greater of two numbers.
LEMMA MaxTwo ==
    ASSUME NEW x \in Int, NEW y \in Int
    PROVE  Max({x, y}) \in {x, y} /\ Max({x, y}) >= x /\ Max({x, y}) >= y
<1> DEFINE S == {x, y}
<1>1. S \in SUBSET Int
  OBVIOUS
<1>2. CASE x >= y
  <2>1. x \in S /\ \A z \in S : x >= z
    BY <1>2
  <2>2. Max(S) = x
    BY <1>1, <2>1, MaxLemma
  <2> QED
    BY <1>2, <2>2
<1>3. CASE y >= x
  <2>1. y \in S /\ \A z \in S : y >= z
    BY <1>3
  <2>2. Max(S) = y
    BY <1>1, <2>1, MaxLemma
  <2> QED
    BY <1>3, <2>2
<1> QED
  BY <1>2, <1>3

\* What merging makes of two modes.
Merges(n, old, a) ==
    /\ n \in ModeSet /\ n >= old
    /\ Owner(n) \in {Owner(old), Owner(a)} /\ Owner(n) >= Owner(old) /\ Owner(n) >= Owner(a)
    /\ Group(n) \in {Group(old), Group(a)} /\ Group(n) >= Group(old) /\ Group(n) >= Group(a)
    /\ Others(n) \in {Others(old), Others(a)} /\ Others(n) >= Others(old) /\ Others(n) >= Others(a)

\* calculateDeviceMode takes each digit from the mode that has the greater one.
LEMMA MergeLemma ==
    ASSUME NEW old \in ModeSet, NEW a \in ModeSet
    PROVE  Merges(MergedMode(old, a), old, a)
<1>1. /\ Owner(old) \in 0..9 /\ Group(old) \in 0..9 /\ Others(old) \in -1..9
      /\ old = Owner(old) * 100 + Group(old) * 10 + Others(old)
      /\ Others(old) = -1 <=> old = NoMode
  BY DigitLemma
<1>2. /\ Owner(a) \in 0..9 /\ Group(a) \in 0..9 /\ Others(a) \in -1..9
      /\ Others(a) = -1 <=> a = NoMode
  BY DigitLemma
<1>3. old \in Int
  BY DEF ModeSet, NoMode
<1>4. CASE old = a
  <2>1. MergedMode(old, a) = old
    BY <1>4 DEF MergedMode
  <2> QED
    BY <1>1, <1>3, <1>4, <2>1 DEF Merges
<1>5. CASE old # a
  <2> DEFINE o1 == Owner(old)  g1 == Group(old)  t1 == Others(old)
             o2 == Owner(a)  g2 == Group(a)  t2 == Others(a)
             x == Max({o1, o2})  y == Max({g1, g2})  z == Max({t1, t2})
             n == x * 100 + y * 10 + z
  <2>1. MergedMode(old, a) = n
    BY <1>5 DEF MergedMode
  <2>2. o1 \in 0..9 /\ g1 \in 0..9 /\ t1 \in -1..9 /\ o2 \in 0..9 /\ g2 \in 0..9 /\ t2 \in -1..9
    BY <1>1, <1>2
  <2>3. t1 # -1 \/ t2 # -1
    BY <1>1, <1>2, <1>5
  <2>4. old = o1 * 100 + g1 * 10 + t1
    BY <1>1
  <2> HIDE DEF o1, g1, t1, o2, g2, t2
  <2>5. o1 \in Int /\ g1 \in Int /\ t1 \in Int /\ o2 \in Int /\ g2 \in Int /\ t2 \in Int
    BY <2>2
  <2>6. x \in {o1, o2} /\ x >= o1 /\ x >= o2
    BY <2>5, MaxTwo
  <2>7. y \in {g1, g2} /\ y >= g1 /\ y >= g2
    BY <2>5, MaxTwo
  <2>8. z \in {t1, t2} /\ z >= t1 /\ z >= t2
    BY <2>5, MaxTwo
  <2> HIDE DEF x, y, z
  <2>9. x \in 0..9 /\ y \in 0..9 /\ z \in 0..9
    BY <2>2, <2>3, <2>6, <2>7, <2>8
  <2>10. n \in 0..999 /\ Owner(n) = x /\ Group(n) = y /\ Others(n) = z
    <3>1. n = x * 100 + y * 10 + z
      OBVIOUS
    <3> HIDE DEF n
    <3>2. Composed(n, x, y, z)
      BY <2>9, <3>1, ComposeLemma
    <3> QED
      BY <3>2 DEF Composed
  <2>11. n >= old
    BY <2>2, <2>4, <2>6, <2>7, <2>8, <2>9
  <2> HIDE DEF n
  <2>12. Merges(n, old, a)
    BY <2>6, <2>7, <2>8, <2>10, <2>11 DEF Merges, ModeSet, o1, g1, t1, o2, g2, t2
  <2> QED
    BY <2>1, <2>12
<1> QED
  BY <1>4, <1>5

\* One number more.
LEMMA TopLemma ==
    ASSUME NEW S \in SUBSET Int, NEW x, NEW y \in Int, NEW z \in Int,
           Top(x, S), y \in {x, z}, y >= x, y >= z
    PROVE  Top(y, S \cup {z})
<1>1. x \in Int /\ x \in S /\ \A w \in S : x >= w
  BY DEF Top
<1>2. \A w \in S : y >= w
  BY <1>1
<1> QED
  BY <1>1, <1>2 DEF Top

\* A mode has the greatest digits of a set of modes.
Permissive(mode, M) ==
    /\ Top(Owner(mode), {Owner(m) : m \in M})
    /\ Top(Group(mode), {Group(m) : m \in M})
    /\ Top(Others(mode), {Others(m) : m \in M})

\* A mode more is merged.
LEMMA PermissiveLemma ==
    ASSUME NEW M \in SUBSET ModeSet, NEW old \in ModeSet, NEW a \in ModeSet, Permissive(old, M)
    PROVE  Permissive(MergedMode(old, a), M \cup {a})
<1> DEFINE n == MergedMode(old, a)
<1>1. Merges(n, old, a)
  BY MergeLemma
<1> HIDE DEF n
<1>2. n \in ModeSet
  BY <1>1 DEF Merges
<1>3. \A m \in ModeSet : Owner(m) \in Int /\ Group(m) \in Int /\ Others(m) \in Int
  BY DigitLemma
<1>4. Top(Owner(n), {Owner(m) : m \in M} \cup {Owner(a)})
  <2> DEFINE S == {Owner(m) : m \in M}
  <2>1. S \in SUBSET Int
    BY <1>3
  <2>2. Top(Owner(old), S)
    BY DEF Permissive
  <2> HIDE DEF S
  <2>3. Top(Owner(n), S \cup {Owner(a)})
    BY <1>1, <1>2, <1>3, <2>1, <2>2, TopLemma DEF Merges
  <2> QED
    BY <2>3 DEF S
<1>5. Top(Group(n), {Group(m) : m \in M} \cup {Group(a)})
  <2> DEFINE S == {Group(m) : m \in M}
  <2>1. S \in SUBSET Int
    BY <1>3
  <2>2. Top(Group(old), S)
    BY DEF Permissive
  <2> HIDE DEF S
  <2>3. Top(Group(n), S \cup {Group(a)})
    BY <1>1, <1>2, <1>3, <2>1, <2>2, TopLemma DEF Merges
  <2> QED
    BY <2>3 DEF S
<1>6. Top(Others(n), {Others(m) : m \in M} \cup {Others(a)})
  <2> DEFINE S == {Others(m) : m \in M}
  <2>1. S \in SUBSET Int
    BY <1>3
  <2>2. Top(Others(old), S)
    BY DEF Permissive
  <2> HIDE DEF S
  <2>3. Top(Others(n), S \cup {Others(a)})
    BY <1>1, <1>2, <1>3, <2>1, <2>2, TopLemma DEF Merges
  <2> QED
    BY <2>3 DEF S
<1>7. /\ {Owner(m) : m \in M \cup {a}} = {Owner(m) : m \in M} \cup {Owner(a)}
      /\ {Group(m) : m \in M \cup {a}} = {Group(m) : m \in M} \cup {Group(a)}
      /\ {Others(m) : m \in M \cup {a}} = {Others(m) : m \in M} \cup {Others(a)}
  OBVIOUS
<1>8. Permissive(n, M \cup {a})
  BY <1>4, <1>5, <1>6, <1>7 DEF Permissive
<1> QED
  BY <1>8 DEF n

\* A single mode.
LEMMA PermissiveOne ==
    ASSUME NEW a \in ModeSet
    PROVE  Permissive(a, {a})
<1>1. Owner(a) \in Int /\ Group(a) \in Int /\ Others(a) \in Int
  BY DigitLemma
<1>2. {Owner(m) : m \in {a}} = {Owner(a)} /\ {Group(m) : m \in {a}} = {Group(a)}
      /\ {Others(m) : m \in {a}} = {Others(a)}
  OBVIOUS
<1>3. \A x \in Int : Top(x, {x})
  BY DEF Top
<1> QED
  BY <1>1, <1>2, <1>3 DEF Permissive
----------------------------------------------------------------------------
(***************************************************************************)
(* The device nodes: the list.                                             *)
(***************************************************************************)
ModesOf(A, n) == {e.mode : e \in {x \in A : x.name = n}}

\* A list without a name twice.
IsList(list) ==
    /\ list \in Seq(DeviceRec)
    /\ \A j, k \in DOMAIN list : list[j].name = list[k].name => j = k

\* The list has every device of the elements accepted, A, and their modes merged.
ListOK(list, A) ==
    /\ IsList(list)
    /\ \A e \in A : \E k \in DOMAIN list : list[k].name = e.name
    /\ \A k \in DOMAIN list : Permissive(list[k].mode, ModesOf(A, list[k].name))

\* A device that counts as configured has its node, with the integer chmod was given or, if
\* nobody called it, the host's permissions.
Current(dv, nd, ms) ==
    dv.done => nd[dv.name] = (IF dv.mode = NoMode \/ dv.name \in ms THEN HostPerms ELSE Chmod(dv.mode))

AllCurrent(list, nd, ms) == \A k \in DOMAIN list : Current(list[k], nd, ms)

\* The fields of devices and elements.
LEMMA DeviceFields ==
    ASSUME NEW list \in Seq(DeviceRec), NEW k \in DOMAIN list
    PROVE  list[k] \in DeviceRec /\ list[k].name \in DeviceNames /\ list[k].mode \in ModeSet
<1>1. list[k] \in DeviceRec
  OBVIOUS
<1> QED
  BY <1>1 DEF DeviceRec, ModeSet

\* An element's.
LEMMA ElementFields ==
    ASSUME NEW e \in ElementRec
    PROVE  e.name \in DeviceNames /\ e.mode \in ModeSet
<1>1. e.name \in DeviceNames /\ e.mode \in Modes \cup {NoMode}
  BY DEF ElementRec
<1>2. \A m \in Modes : m \in 0..999
  BY DeviceAssumption
<1> QED
  BY <1>1, <1>2 DEF ModeSet

\* An element more.
LEMMA ModesOfSame ==
    ASSUME NEW A, NEW e
    PROVE  ModesOf(A \cup {e}, e.name) = ModesOf(A, e.name) \cup {e.mode}
BY DEF ModesOf

\* An element of another device.
LEMMA ModesOfOther ==
    ASSUME NEW A, NEW e, NEW n, n # e.name
    PROVE  ModesOf(A \cup {e}, n) = ModesOf(A, n)
BY DEF ModesOf

\* No element of a device.
LEMMA ModesOfNone ==
    ASSUME NEW A, NEW n, \A x \in A : x.name # n
    PROVE  ModesOf(A, n) = {}
BY DEF ModesOf

\* The modes of elements are modes.
LEMMA ModesOfType ==
    ASSUME NEW A \in SUBSET ElementRec, NEW n
    PROVE  ModesOf(A, n) \in SUBSET ModeSet
BY ElementFields DEF ModesOf

\* calculateDeviceMode: a mode that changes takes m_isConfigured back.
LEMMA CalculateLemma ==
    ASSUME NEW dv \in DeviceRec, NEW a \in ModeSet
    PROVE  /\ CalculateDeviceMode(dv, a) \in DeviceRec
           /\ CalculateDeviceMode(dv, a).name = dv.name
           /\ CalculateDeviceMode(dv, a).mode = MergedMode(dv.mode, a)
           /\ CalculateDeviceMode(dv, a) = dv \/ CalculateDeviceMode(dv, a).done = FALSE
<1> DEFINE r == MergedMode(dv.mode, a)  c == CalculateDeviceMode(dv, a)
<1>1. dv.mode \in ModeSet /\ dv.name \in DeviceNames
  BY DEF DeviceRec, ModeSet
<1>2. Merges(r, dv.mode, a)
  BY <1>1, MergeLemma
<1>3. r \in ModeSet /\ r >= dv.mode
  BY <1>2 DEF Merges
<1>4. c = IF r > dv.mode THEN [name |-> dv.name, mode |-> r, done |-> FALSE] ELSE dv
  BY DEF CalculateDeviceMode
<1> HIDE DEF r, c
<1>5. CASE r > dv.mode
  <2>1. c = [name |-> dv.name, mode |-> r, done |-> FALSE]
    BY <1>4, <1>5
  <2>2. c \in DeviceRec
    BY <1>1, <1>3, <2>1 DEF DeviceRec, ModeSet
  <2> QED
    BY <2>1, <2>2 DEF r, c
<1>6. CASE ~(r > dv.mode)
  <2>1. c = dv
    BY <1>4, <1>6
  <2>2. ModeSet \subseteq Int
    BY DEF ModeSet, NoMode
  <2>3. r \in Int
    BY <1>3, <2>2
  <2>4. dv.mode \in Int
    BY <1>1, <2>2
  <2>5. r = dv.mode
    BY <1>3, <1>6, <2>3, <2>4
  <2> QED
    BY <2>1, <2>5 DEF r, c
<1> QED
  BY <1>5, <1>6

\* updateDeviceList: the two cases.
LEMMA UpdateCases ==
    ASSUME NEW list, IsList(list), NEW e \in ElementRec
    PROVE  \/ /\ \A k \in DOMAIN list : list[k].name # e.name
              /\ UpdateDeviceList(list, e) = Append(list, [name |-> e.name, mode |-> e.mode, done |-> FALSE])
           \/ \E k \in DOMAIN list :
                 /\ list[k].name = e.name
                 /\ UpdateDeviceList(list, e) = [list EXCEPT ![k] = CalculateDeviceMode(list[k], e.mode)]
<1> DEFINE same == {k \in DOMAIN list : list[k].name = e.name}
<1>1. CASE same = {}
  BY <1>1 DEF UpdateDeviceList
<1>2. CASE same # {}
  <2>1. PICK k \in DOMAIN list : list[k].name = e.name
    BY <1>2
  <2>2. same = {k}
    BY <2>1 DEF IsList
  <2>3. k \in Int
    BY DEF IsList
  <2>4. Min(same) = k
    BY <2>2, <2>3 DEF Min
  <2>5. UpdateDeviceList(list, e) = [list EXCEPT ![k] = CalculateDeviceMode(list[k], e.mode)]
    BY <1>2, <2>4 DEF UpdateDeviceList
  <2> QED
    BY <2>1, <2>5
<1> QED
  BY <1>1, <1>2

\* What an element more leaves.
Updated(l2, A, nd, ms) == ListOK(l2, A) /\ AllCurrent(l2, nd, ms) /\ l2 # <<>>

\* A device that is new.
LEMMA AppendDevice ==
    ASSUME NEW list, NEW A \in SUBSET ElementRec, ListOK(list, A), NEW e \in ElementRec,
           NEW nd, NEW ms, AllCurrent(list, nd, ms),
           \A k \in DOMAIN list : list[k].name # e.name
    PROVE  Updated(Append(list, [name |-> e.name, mode |-> e.mode, done |-> FALSE]), A \cup {e}, nd, ms)
<1> DEFINE dv == [name |-> e.name, mode |-> e.mode, done |-> FALSE]
           l2 == Append(list, dv)  n == Len(list)
<1>1. e.name \in DeviceNames /\ e.mode \in ModeSet
  BY ElementFields
<1>2. dv \in DeviceRec /\ dv.name = e.name /\ dv.mode = e.mode /\ dv.done = FALSE
  BY <1>1 DEF DeviceRec, ModeSet
<1>3. list \in Seq(DeviceRec) /\ n \in Nat /\ DOMAIN list = 1..n
  BY DEF ListOK, IsList
<1> HIDE DEF dv
<1>4. l2 \in Seq(DeviceRec) /\ Len(l2) = n + 1 /\ DOMAIN l2 = 1..(n + 1)
      /\ l2[n + 1] = dv /\ \A k \in 1..n : l2[k] = list[k]
  BY <1>2, <1>3
<1> HIDE DEF n, l2
<1>5. \A k \in 1..(n + 1) : k \in 1..n \/ k = n + 1
  BY <1>3
<1>6. \A k \in 1..n : k \in 1..(n + 1)
  BY <1>3
<1>7. n + 1 \in 1..(n + 1) /\ n + 1 \notin 1..n
  BY <1>3
<1>8. IsList(l2)
  BY <1>2, <1>3, <1>4, <1>5, <1>6, <1>7 DEF ListOK, IsList
<1>9. \A x \in A \cup {e} : \E k \in DOMAIN l2 : l2[k].name = x.name
  BY <1>2, <1>3, <1>4, <1>6, <1>7 DEF ListOK
<1>10. ASSUME NEW k \in DOMAIN l2 PROVE Permissive(l2[k].mode, ModesOf(A \cup {e}, l2[k].name))
  <2>1. CASE k \in 1..n
    <3>1. l2[k] = list[k] /\ list[k].name # e.name
      BY <1>3, <1>4, <2>1
    <3>2. ModesOf(A \cup {e}, list[k].name) = ModesOf(A, list[k].name)
      BY <3>1, ModesOfOther
    <3> QED
      BY <1>3, <2>1, <3>1, <3>2 DEF ListOK
  <2>2. CASE k = n + 1
    <3>1. l2[k].name = e.name /\ l2[k].mode = e.mode
      BY <1>2, <1>4, <2>2
    <3>2. \A x \in A : x.name # e.name
      BY DEF ListOK
    <3>3. ModesOf(A, e.name) = {}
      BY <3>2, ModesOfNone
    <3>4. ModesOf(A \cup {e}, e.name) = {e.mode}
      BY <3>3, ModesOfSame
    <3> QED
      BY <1>1, <3>1, <3>4, PermissiveOne
  <2> QED
    BY <1>4, <1>5, <2>1, <2>2
<1>11. AllCurrent(l2, nd, ms)
  BY <1>2, <1>3, <1>4, <1>5 DEF AllCurrent, Current
<1>12. l2 # <<>>
  BY <1>3, <1>4
<1>13. ListOK(l2, A \cup {e})
  BY <1>8, <1>9, <1>10 DEF ListOK
<1> QED
  BY <1>11, <1>12, <1>13 DEF Updated, l2, dv

\* A device that the list has.
LEMMA MergeDevice ==
    ASSUME NEW list, NEW A \in SUBSET ElementRec, ListOK(list, A), NEW e \in ElementRec,
           NEW nd, NEW ms, AllCurrent(list, nd, ms),
           NEW k \in DOMAIN list, list[k].name = e.name
    PROVE  Updated([list EXCEPT ![k] = CalculateDeviceMode(list[k], e.mode)], A \cup {e}, nd, ms)
<1> DEFINE c == CalculateDeviceMode(list[k], e.mode)  l2 == [list EXCEPT ![k] = c]  n == Len(list)
<1>1. list \in Seq(DeviceRec) /\ n \in Nat /\ DOMAIN list = 1..n
  BY DEF ListOK, IsList
<1>2. list[k] \in DeviceRec /\ list[k].mode \in ModeSet /\ e.mode \in ModeSet
  BY <1>1, DeviceFields, ElementFields
<1>3. /\ c \in DeviceRec /\ c.name = list[k].name /\ c.mode = MergedMode(list[k].mode, e.mode)
      /\ c = list[k] \/ c.done = FALSE
  BY <1>2, CalculateLemma
<1> HIDE DEF c
<1>4. l2 \in Seq(DeviceRec) /\ Len(l2) = n /\ DOMAIN l2 = 1..n
      /\ l2[k] = c /\ \A j \in 1..n : j # k => l2[j] = list[j]
  BY <1>1, <1>3
<1> HIDE DEF l2
<1>5. l2 # <<>>
  BY <1>1, <1>4
<1> HIDE DEF n
<1>6. \A j \in 1..n : l2[j].name = list[j].name
  BY <1>3, <1>4
<1>7. IsList(l2)
  BY <1>1, <1>4, <1>6 DEF ListOK, IsList
<1>8. \A x \in A \cup {e} : \E j \in DOMAIN l2 : l2[j].name = x.name
  BY <1>1, <1>4, <1>6 DEF ListOK
<1>9. ASSUME NEW j \in DOMAIN l2 PROVE Permissive(l2[j].mode, ModesOf(A \cup {e}, l2[j].name))
  <2>1. Permissive(list[j].mode, ModesOf(A, list[j].name))
    BY <1>1, <1>4 DEF ListOK
  <2>2. CASE j = k
    <3>1. ModesOf(A \cup {e}, e.name) = ModesOf(A, e.name) \cup {e.mode}
      BY ModesOfSame
    <3>2. ModesOf(A, e.name) \in SUBSET ModeSet
      BY ModesOfType
    <3>3. Permissive(MergedMode(list[k].mode, e.mode), ModesOf(A, e.name) \cup {e.mode})
      BY <1>2, <2>1, <2>2, <3>2, PermissiveLemma
    <3> QED
      BY <1>3, <1>4, <2>2, <3>1, <3>3
  <2>3. CASE j # k
    <3>1. l2[j] = list[j]
      BY <1>4, <2>3
    <3>2. list[j].name # e.name
      BY <1>1, <1>4, <2>3 DEF ListOK, IsList
    <3>3. ModesOf(A \cup {e}, list[j].name) = ModesOf(A, list[j].name)
      BY <3>2, ModesOfOther
    <3> QED
      BY <2>1, <3>1, <3>3
  <2> QED
    BY <2>2, <2>3
<1>10. AllCurrent(l2, nd, ms)
  BY <1>1, <1>3, <1>4 DEF AllCurrent, Current
<1>11. ListOK(l2, A \cup {e})
  BY <1>7, <1>8, <1>9 DEF ListOK
<1> QED
  BY <1>5, <1>10, <1>11 DEF Updated, l2, c

\* updateDeviceList.
LEMMA UpdateLemma ==
    ASSUME NEW list, NEW A \in SUBSET ElementRec, ListOK(list, A), NEW e \in ElementRec,
           NEW nd, NEW ms, AllCurrent(list, nd, ms)
    PROVE  Updated(UpdateDeviceList(list, e), A \cup {e}, nd, ms)
<1>1. IsList(list)
  BY DEF ListOK
<1>2. CASE /\ \A k \in DOMAIN list : list[k].name # e.name
           /\ UpdateDeviceList(list, e) = Append(list, [name |-> e.name, mode |-> e.mode, done |-> FALSE])
  BY <1>2, AppendDevice
<1>3. ASSUME NEW k \in DOMAIN list, list[k].name = e.name,
             UpdateDeviceList(list, e) = [list EXCEPT ![k] = CalculateDeviceMode(list[k], e.mode)]
      PROVE  Updated(UpdateDeviceList(list, e), A \cup {e}, nd, ms)
  <2> DEFINE l2 == [list EXCEPT ![k] = CalculateDeviceMode(list[k], e.mode)]
  <2>1. Updated(l2, A \cup {e}, nd, ms)
    BY <1>3, MergeDevice
  <2>2. UpdateDeviceList(list, e) = l2
    BY <1>3
  <2> HIDE DEF l2
  <2> QED
    BY <2>1, <2>2
<1> QED
  BY <1>1, <1>2, <1>3, UpdateCases
----------------------------------------------------------------------------
(***************************************************************************)
(* The device nodes: activation.                                           *)
(***************************************************************************)
NodeRec == NoNode..4095

\* The devices up to the one that the loop is at are configured, and after a call that
\* succeeded all of them.
DoneSoFar(list, nx, rep) == \A k \in DOMAIN list : k < nx \/ rep = "activate" => list[k].done = TRUE

\* The inductive invariant.
DeviceInv ==
    /\ deviceState \in {"created", "configured", "activated"}
    /\ deviceAsked \in SUBSET ElementRec
    /\ ListOK(devs, deviceAsked)
    /\ node \in [DeviceNames -> NodeRec]
    /\ missed \in SUBSET DeviceNames
    /\ AllCurrent(devs, node, missed)
    /\ DoneSoFar(devs, next, deviceReply)
    /\ deviceReads \in 0..MaxDevices
    /\ deviceLoop \in {"no", "none", "some"}
    /\ next \in 0..(Len(devs) + 1)
    /\ deviceReply \in {"none", "setConfig", "activate", "failed"}
    /\ deviceLoop # "no" => next = 0
    /\ deviceLoop # "no" \/ next # 0 => deviceReply # "activate"
    /\ deviceLoop = "some" \/ deviceState # "created" => devs # <<>>
    /\ next # 0 => deviceState = "configured"

\* A node that is made anew is no other device's: names differ.
LEMMA OtherNodes ==
    ASSUME NEW list, IsList(list), NEW nd \in [DeviceNames -> NodeRec], NEW ms, AllCurrent(list, nd, ms),
           NEW k \in DOMAIN list, NEW v, NEW ms2,
           ms2 = ms \ {list[k].name} \/ ms2 = ms \cup {list[k].name},
           NEW j \in DOMAIN list, j # k
    PROVE  Current(list[j], [nd EXCEPT ![list[k].name] = v], ms2)
<1>1. list[j].name # list[k].name
  BY DEF IsList
<1>2. list[j].name \in DeviceNames
  BY DeviceFields DEF IsList
<1>3. [nd EXCEPT ![list[k].name] = v][list[j].name] = nd[list[j].name]
  BY <1>1, <1>2
<1>4. list[j].name \in ms <=> list[j].name \in ms2
  BY <1>1
<1>5. Current(list[j], nd, ms)
  BY DEF AllCurrent
<1> QED
  BY <1>3, <1>4, <1>5 DEF Current

\* Device::activate that fails after mountDevice.
LEMMA NodeFailed ==
    ASSUME NEW list, IsList(list), NEW nd \in [DeviceNames -> NodeRec], NEW ms, AllCurrent(list, nd, ms),
           NEW k \in DOMAIN list, NEW v, list[k].done = FALSE
    PROVE  AllCurrent(list, [nd EXCEPT ![list[k].name] = v], ms \ {list[k].name})
<1> DEFINE nd2 == [nd EXCEPT ![list[k].name] = v]  ms2 == ms \ {list[k].name}
<1>1. ASSUME NEW j \in DOMAIN list PROVE Current(list[j], nd2, ms2)
  <2>1. CASE j = k
    BY <2>1 DEF Current
  <2>2. CASE j # k
    BY <2>2, OtherNodes
  <2> QED
    BY <2>1, <2>2
<1> HIDE DEF nd2, ms2
<1>2. AllCurrent(list, nd2, ms2)
  BY <1>1 DEF AllCurrent
<1> QED
  BY <1>2 DEF nd2, ms2

\* The list with the device at k configured.
Configured(list, k) == [list EXCEPT ![k] = [name |-> list[k].name, mode |-> list[k].mode, done |-> TRUE]]

\* The fields of that list.
LEMMA ConfiguredLemma ==
    ASSUME NEW list \in Seq(DeviceRec), NEW k \in DOMAIN list
    PROVE  /\ Configured(list, k) \in Seq(DeviceRec)
           /\ Len(Configured(list, k)) = Len(list)
           /\ DOMAIN Configured(list, k) = DOMAIN list
           /\ \A j \in DOMAIN list : j # k => Configured(list, k)[j] = list[j]
           /\ Configured(list, k)[k].name = list[k].name
           /\ Configured(list, k)[k].mode = list[k].mode
           /\ Configured(list, k)[k].done = TRUE
<1> DEFINE dv == [name |-> list[k].name, mode |-> list[k].mode, done |-> TRUE]
<1>1. list[k].name \in DeviceNames /\ list[k].mode \in ModeSet
  BY DeviceFields
<1>2. dv \in DeviceRec /\ dv.name = list[k].name /\ dv.mode = list[k].mode /\ dv.done = TRUE
  BY <1>1 DEF DeviceRec, ModeSet
<1>3. Configured(list, k) = [list EXCEPT ![k] = dv]
  BY DEF Configured
<1> HIDE DEF dv
<1>4. [list EXCEPT ![k] = dv] \in Seq(DeviceRec) /\ Len([list EXCEPT ![k] = dv]) = Len(list)
  BY <1>2
<1> QED
  BY <1>2, <1>3, <1>4

\* What the activation of the device at k leaves.
Activated(l2, A, nd2, ms2, list, k) ==
    /\ ListOK(l2, A) /\ AllCurrent(l2, nd2, ms2)
    /\ DOMAIN l2 = DOMAIN list /\ Len(l2) = Len(list)
    /\ l2[k].done = TRUE /\ \A j \in DOMAIN list : j # k => l2[j] = list[j]

\* Device::activate that returns true.
LEMMA NodeConfigured ==
    ASSUME NEW list, NEW A, ListOK(list, A), NEW nd \in [DeviceNames -> NodeRec], NEW ms, AllCurrent(list, nd, ms),
           NEW k \in DOMAIN list, NEW v, NEW ms2,
           ms2 = ms \ {list[k].name} \/ ms2 = ms \cup {list[k].name},
           v = (IF list[k].mode = NoMode \/ list[k].name \in ms2 THEN HostPerms ELSE Chmod(list[k].mode))
    PROVE  Activated(Configured(list, k), A, [nd EXCEPT ![list[k].name] = v], ms2, list, k)
<1> DEFINE l2 == Configured(list, k)  nd2 == [nd EXCEPT ![list[k].name] = v]
<1>1. IsList(list) /\ list \in Seq(DeviceRec)
  BY DEF ListOK, IsList
<1>2. /\ l2 \in Seq(DeviceRec) /\ Len(l2) = Len(list) /\ DOMAIN l2 = DOMAIN list
      /\ \A j \in DOMAIN list : j # k => l2[j] = list[j]
      /\ l2[k].name = list[k].name /\ l2[k].mode = list[k].mode /\ l2[k].done = TRUE
  BY <1>1, ConfiguredLemma
<1>3. list[k].name \in DeviceNames
  BY <1>1, DeviceFields
<1>4. nd2[list[k].name] = v
  BY <1>3
<1>5. \A j \in DOMAIN list : j # k => Current(list[j], nd2, ms2)
  BY <1>1, OtherNodes
<1> HIDE DEF l2, nd2
<1>6. \A j \in DOMAIN list : l2[j].name = list[j].name /\ l2[j].mode = list[j].mode
  BY <1>2
<1>7. IsList(l2)
  BY <1>1, <1>2, <1>6 DEF IsList
<1>8. ListOK(l2, A)
  BY <1>2, <1>6, <1>7 DEF ListOK
<1>9. Current(l2[k], nd2, ms2)
  BY <1>2, <1>4 DEF Current
<1>10. AllCurrent(l2, nd2, ms2)
  BY <1>2, <1>5, <1>9 DEF AllCurrent
<1>11. Activated(l2, A, nd2, ms2, list, k)
  BY <1>2, <1>8, <1>10 DEF Activated
<1> QED
  BY <1>11 DEF l2, nd2

\* What a chmod job leaves is a node.
LEMMA NodeLemma ==
    ASSUME NEW list \in Seq(DeviceRec), NEW k \in DOMAIN list, list[k].mode # NoMode
    PROVE  Chmod(list[k].mode) \in NodeRec
<1> DEFINE m == list[k].mode
<1>1. m \in 0..999
  BY DeviceFields DEF ModeSet
<1> HIDE DEF m
<1>2. m % 4096 \in 0..4095
  BY <1>1
<1>3. Chmod(m) \in NodeRec
  <2> DEFINE c == Chmod(m)
  <2>1. c \in 0..4095
    BY <1>2 DEF Chmod
  <2> HIDE DEF c
  <2>2. c \in Int /\ 0 <= c /\ c <= 4095
    BY <2>1
  <2>3. c \in NodeRec
    BY <2>2 DEF NodeRec, NoNode
  <2> QED
    BY <2>3 DEF c
<1> QED
  BY <1>3 DEF m

\* The initial state.
LEMMA DeviceInitLemma ==
    ASSUME DeviceInit
    PROVE  DeviceInv
<1>1. devs \in Seq(DeviceRec) /\ DOMAIN devs = {} /\ Len(devs) = 0
  BY DEF DeviceInit
<1>2. node \in [DeviceNames -> NodeRec]
  BY DEF DeviceInit, NodeRec, NoNode
<1>3. ListOK(devs, deviceAsked) /\ AllCurrent(devs, node, missed) /\ DoneSoFar(devs, next, deviceReply)
  BY <1>1 DEF DeviceInit, ListOK, IsList, AllCurrent, DoneSoFar
<1>4. 0 \in 0..MaxDevices
  BY DeviceAssumption
<1> QED
  BY <1>1, <1>2, <1>3, <1>4 DEF DeviceInit, DeviceInv

\* setConfig begins.
LEMMA SetDeviceConfigStep ==
    ASSUME DeviceInv, SetDeviceConfig
    PROVE  DeviceInv'
<1>1. DoneSoFar(devs, next, deviceReply)'
  BY DEF DeviceInv, SetDeviceConfig, DoneSoFar
<1> QED
  BY <1>1 DEF DeviceInv, SetDeviceConfig, Idle

\* One element.
LEMMA ReadDeviceStep ==
    ASSUME DeviceInv, NEW e \in ElementRec, ReadDevice(e)
    PROVE  DeviceInv'
<1>1. Updated(devs', deviceAsked', node, missed)
  BY UpdateLemma DEF DeviceInv, ReadDevice
<1>2. deviceAsked' \in SUBSET ElementRec
  BY DEF DeviceInv, ReadDevice
<1>3. deviceReads' \in 0..MaxDevices
  BY DeviceAssumption DEF DeviceInv, ReadDevice
<1>4. next = 0 /\ next' = 0 /\ deviceReply # "activate" /\ deviceReply' = deviceReply
  BY DEF DeviceInv, ReadDevice
<1>5. devs' \in Seq(DeviceRec)
  BY <1>1 DEF Updated, ListOK, IsList
<1>6. next' \in 0..(Len(devs') + 1) /\ DoneSoFar(devs', next', deviceReply')
  BY <1>4, <1>5 DEF DoneSoFar
<1> QED
  BY <1>1, <1>2, <1>3, <1>4, <1>6 DEF DeviceInv, ReadDevice, Updated

\* An element that is refused.
LEMMA RefuseDeviceStep ==
    ASSUME DeviceInv, RefuseDevice
    PROVE  DeviceInv'
<1>1. DoneSoFar(devs, next, deviceReply)'
  BY DEF DeviceInv, RefuseDevice, DoneSoFar
<1> QED
  BY <1>1 DEF DeviceInv, RefuseDevice

\* setConfig ends.
LEMMA EndDeviceConfigStep ==
    ASSUME DeviceInv, EndDeviceConfig
    PROVE  DeviceInv'
<1>1. DoneSoFar(devs, next, deviceReply)'
  BY DEF DeviceInv, EndDeviceConfig, DoneSoFar
<1> QED
  BY <1>1 DEF DeviceInv, EndDeviceConfig

\* activate begins.
LEMMA ActivateDevicesStep ==
    ASSUME DeviceInv, ActivateDevices
    PROVE  DeviceInv'
<1>1. devs \in Seq(DeviceRec)
  BY DEF DeviceInv, ListOK, IsList
<1>2. next' \in 0..(Len(devs') + 1) /\ DoneSoFar(devs, next, deviceReply)'
  BY <1>1 DEF ActivateDevices, DoneSoFar
<1> QED
  BY <1>1, <1>2 DEF DeviceInv, ActivateDevices, Idle

\* The loop ends.
LEMMA EndDeviceActivateStep ==
    ASSUME DeviceInv, EndDeviceActivate
    PROVE  DeviceInv'
<1>1. devs \in Seq(DeviceRec)
  BY DEF DeviceInv, ListOK, IsList
<1>2. next \in Nat /\ next # 0 /\ \A k \in DOMAIN devs : k < next
  BY <1>1 DEF DeviceInv, EndDeviceActivate
<1>3. next' \in 0..(Len(devs') + 1) /\ DoneSoFar(devs, next, deviceReply)'
  BY <1>1, <1>2 DEF DeviceInv, EndDeviceActivate, DoneSoFar
<1> QED
  BY <1>1, <1>2, <1>3 DEF DeviceInv, EndDeviceActivate

\* The device at next is configured, and the loop goes on.
LEMMA DeviceGoesOn ==
    ASSUME DeviceInv, next \in DOMAIN devs, DeviceTrue,
           UNCHANGED <<deviceState, deviceAsked, deviceReads, deviceLoop>>,
           Activated(devs', deviceAsked, node', missed', devs, next),
           node' \in [DeviceNames -> NodeRec], missed' \in SUBSET DeviceNames
    PROVE  DeviceInv'
<1>1. devs \in Seq(DeviceRec) /\ devs' \in Seq(DeviceRec)
  BY DEF DeviceInv, Activated, ListOK, IsList
<1>2. next \in 1..Len(devs) /\ Len(devs') = Len(devs) /\ next' = next + 1 /\ deviceReply' = deviceReply
      /\ DOMAIN devs = 1..Len(devs)
  BY <1>1 DEF Activated, DeviceTrue
<1>3. next # 0 /\ next' # 0 /\ next' \in 0..(Len(devs') + 1) /\ devs' # <<>>
  BY <1>1, <1>2
<1>4. deviceReply # "activate" /\ deviceLoop = "no" /\ deviceState = "configured"
  BY <1>3 DEF DeviceInv
<1>5. ASSUME NEW k \in DOMAIN devs', k < next' PROVE devs'[k].done = TRUE
  <2>1. k \in DOMAIN devs /\ k \in Nat
    BY <1>1 DEF Activated
  <2>2. CASE k = next
    BY <2>2 DEF Activated
  <2>3. CASE k # next
    <3>1. k < next
      BY <1>2, <1>5, <2>1, <2>3
    <3> QED
      BY <2>1, <2>3, <3>1 DEF Activated, DeviceInv, DoneSoFar
  <2> QED
    BY <2>2, <2>3
<1>6. DoneSoFar(devs', next', deviceReply')
  BY <1>2, <1>4, <1>5 DEF DoneSoFar
<1>7. ListOK(devs', deviceAsked') /\ AllCurrent(devs', node', missed')
  BY DEF Activated
<1> QED
  BY <1>2, <1>3, <1>4, <1>6, <1>7 DEF DeviceInv

\* The loop is left because a device was not configured.
LEMMA DeviceFails ==
    ASSUME DeviceInv, next \in DOMAIN devs, DeviceFalse,
           UNCHANGED <<deviceState, deviceAsked, deviceReads, deviceLoop>>,
           AllCurrent(devs, node', missed'),
           node' \in [DeviceNames -> NodeRec], missed' \in SUBSET DeviceNames
    PROVE  DeviceInv'
<1>1. devs \in Seq(DeviceRec)
  BY DEF DeviceInv, ListOK, IsList
<1>2. next' \in 0..(Len(devs') + 1) /\ DoneSoFar(devs, next, deviceReply)'
  BY <1>1 DEF DeviceFalse, DoneSoFar
<1>3. deviceLoop = "no" /\ deviceState = "configured" /\ devs # <<>>
  BY <1>1 DEF DeviceInv
<1> QED
  BY <1>2, <1>3 DEF DeviceInv, DeviceFalse

\* One device.
LEMMA DeviceActivateStep ==
    ASSUME DeviceInv, DeviceActivate
    PROVE  DeviceInv'
<1> DEFINE dv == devs[next]
<1>1. next \in DOMAIN devs /\ UNCHANGED <<deviceState, deviceAsked, deviceReads, deviceLoop>>
  BY DEF DeviceActivate
<1>2. devs \in Seq(DeviceRec) /\ IsList(devs)
  BY DEF DeviceInv, ListOK, IsList
<1>3. dv.name \in DeviceNames
  BY <1>1, <1>2, DeviceFields
<1>4. node \in [DeviceNames -> NodeRec] /\ missed \in SUBSET DeviceNames
      /\ AllCurrent(devs, node, missed) /\ ListOK(devs, deviceAsked)
  BY DEF DeviceInv
<1>5. HostPerms \in NodeRec /\ (dv.mode # NoMode => Chmod(dv.mode) \in NodeRec)
  <2>1. HostPerms \in NodeRec
    BY DEF HostPerms, NodeRec, NoNode
  <2>2. dv.mode # NoMode => Chmod(dv.mode) \in NodeRec
    BY <1>1, <1>2, NodeLemma
  <2> QED
    BY <2>1, <2>2
<1>6. CASE Unmounted(dv)
  <2>1. node' = node /\ missed' = missed
    BY <1>6 DEF Unmounted
  <2>2. CASE dv.done /\ DeviceTrue /\ UNCHANGED devs
    <3>1. dv \in DeviceRec
      BY <1>1, <1>2
    <3>2. dv.done = TRUE
      BY <2>2, <3>1 DEF DeviceRec
    <3>3. Activated(devs', deviceAsked, node', missed', devs, next)
      BY <1>4, <2>1, <2>2, <3>2 DEF Activated
    <3> QED
      BY <1>1, <1>4, <2>1, <2>2, <3>3, DeviceGoesOn
  <2>3. CASE ~dv.done /\ DeviceFalse
    BY <1>1, <1>4, <2>1, <2>3, DeviceFails
  <2> QED
    BY <1>6, <2>2, <2>3 DEF Unmounted
<1>7. CASE Mounted(dv)
  <2>1. dv.done = FALSE
    <3>1. dv \in DeviceRec
      BY <1>1, <1>2
    <3> QED
      BY <1>7, <3>1 DEF Mounted, DeviceRec
  <2>2. ASSUME NEW v \in NodeRec, DeviceTrue, DeviceDone, node' = [node EXCEPT ![dv.name] = v],
               missed' = missed \ {dv.name} \/ missed' = missed \cup {dv.name},
               v = (IF dv.mode = NoMode \/ dv.name \in missed' THEN HostPerms ELSE Chmod(dv.mode))
        PROVE  DeviceInv'
    <3>1. devs' = Configured(devs, next)
      BY <2>2 DEF DeviceDone, Configured
    <3>2. Activated(Configured(devs, next), deviceAsked, [node EXCEPT ![dv.name] = v], missed', devs, next)
      BY <1>1, <1>4, <2>2, NodeConfigured
    <3>3. Activated(devs', deviceAsked, node', missed', devs, next)
      BY <2>2, <3>1, <3>2
    <3>4. node' \in [DeviceNames -> NodeRec] /\ missed' \in SUBSET DeviceNames
      BY <1>3, <1>4, <2>2
    <3> QED
      BY <1>1, <2>2, <3>3, <3>4, DeviceGoesOn
  <2>3. CASE /\ dv.mode # NoMode /\ DeviceFalse
             /\ node' = [node EXCEPT ![dv.name] = HostPerms] /\ missed' = missed \ {dv.name}
    <3>1. AllCurrent(devs, node', missed')
      BY <1>1, <1>2, <1>4, <2>1, <2>3, NodeFailed
    <3>2. node' \in [DeviceNames -> NodeRec] /\ missed' \in SUBSET DeviceNames
      BY <1>3, <1>4, <1>5, <2>3
    <3> QED
      BY <1>1, <2>3, <3>1, <3>2, DeviceFails
  <2>4. CASE /\ dv.mode # NoMode /\ DeviceTrue /\ DeviceDone
             /\ node' = [node EXCEPT ![dv.name] = Chmod(dv.mode)] /\ missed' = missed \ {dv.name}
    BY <1>5, <2>2, <2>4
  <2>5. CASE /\ dv.mode # NoMode /\ DeviceTrue /\ DeviceDone
             /\ node' = [node EXCEPT ![dv.name] = HostPerms] /\ missed' = missed \cup {dv.name}
    BY <1>5, <2>2, <2>5
  <2>6. CASE /\ dv.mode = NoMode /\ DeviceTrue /\ DeviceDone
             /\ node' = [node EXCEPT ![dv.name] = HostPerms] /\ missed' = missed \ {dv.name}
    BY <1>5, <2>2, <2>6
  <2> QED
    BY <1>7, <2>3, <2>4, <2>5, <2>6 DEF Mounted
<1> QED
  BY <1>6, <1>7 DEF DeviceActivate

\* A step of the device node gateway.
LEMMA DeviceStep ==
    ASSUME DeviceInv, [DeviceNext]_deviceVars
    PROVE  DeviceInv'
<1>1. ASSUME NEW e \in ElementRec, ReadDevice(e) PROVE DeviceInv'
  BY <1>1, ReadDeviceStep
<1>2. CASE UNCHANGED deviceVars
  BY <1>2 DEF deviceVars, DeviceInv, ListOK, IsList, AllCurrent, Current, DoneSoFar
<1> QED
  BY <1>1, <1>2, SetDeviceConfigStep, RefuseDeviceStep, EndDeviceConfigStep, ActivateDevicesStep,
     DeviceActivateStep, EndDeviceActivateStep DEF DeviceNext, DeviceRest

\* The invariant of the devices, along with the behaviours of all the gateways.
THEOREM DeviceInvariance == GatewaysSpec => []DeviceInv
<1>1. GatewaysInit => DeviceInv
  BY DeviceInitLemma DEF GatewaysInit
<1>2. DeviceInv /\ [GatewaysNext]_gatewaysVars => DeviceInv'
  <2> SUFFICES ASSUME DeviceInv, [GatewaysNext]_gatewaysVars PROVE [DeviceNext]_deviceVars
    BY DeviceStep
  <2> QED
    BY DEF GatewaysNext, gatewaysVars
<1> QED
  BY <1>1, <1>2, PTL DEF GatewaysSpec

\* A mode with the greatest digits of M, in the words of DigitsAreGreatest.
LEMMA PermissiveMeans ==
    ASSUME NEW M \in SUBSET ModeSet, NEW mode \in ModeSet, Permissive(mode, M)
    PROVE  /\ M = {NoMode} => mode = NoMode
           /\ Owner(mode)  = Max({Owner(m)  : m \in M})
           /\ Group(mode)  = Max({Group(m)  : m \in M})
           /\ Others(mode) = Max({Others(m) : m \in M})
<1>1. \A m \in ModeSet : Owner(m) \in Int /\ Group(m) \in Int /\ Others(m) \in Int
  BY DigitLemma
<1>2. ASSUME NEW S \in SUBSET Int, NEW x, Top(x, S) PROVE x = Max(S)
  BY <1>2, MaxLemma DEF Top
<1>3. Owner(mode) = Max({Owner(m) : m \in M})
  <2> DEFINE S == {Owner(m) : m \in M}
  <2>1. S \in SUBSET Int
    BY <1>1
  <2>2. Top(Owner(mode), S)
    BY DEF Permissive
  <2> HIDE DEF S
  <2>3. Owner(mode) = Max(S)
    BY <1>2, <2>1, <2>2
  <2> QED
    BY <2>3 DEF S
<1>4. Group(mode) = Max({Group(m) : m \in M})
  <2> DEFINE S == {Group(m) : m \in M}
  <2>1. S \in SUBSET Int
    BY <1>1
  <2>2. Top(Group(mode), S)
    BY DEF Permissive
  <2> HIDE DEF S
  <2>3. Group(mode) = Max(S)
    BY <1>2, <2>1, <2>2
  <2> QED
    BY <2>3 DEF S
<1>5. Others(mode) = Max({Others(m) : m \in M})
  <2> DEFINE S == {Others(m) : m \in M}
  <2>1. S \in SUBSET Int
    BY <1>1
  <2>2. Top(Others(mode), S)
    BY DEF Permissive
  <2> HIDE DEF S
  <2>3. Others(mode) = Max(S)
    BY <1>2, <2>1, <2>2
  <2> QED
    BY <2>3 DEF S
<1>6. ASSUME M = {NoMode} PROVE mode = NoMode
  <2>1. Others(mode) \in {Others(m) : m \in M}
    BY DEF Permissive, Top
  <2>2. Others(mode) = Others(NoMode)
    BY <1>6, <2>1
  <2>3. Others(NoMode) = -1
    BY DEF Others, NoMode
  <2> QED
    BY <2>2, <2>3, DigitLemma
<1> QED
  BY <1>3, <1>4, <1>5, <1>6

\* Every device has, in the list, the greatest decimal digit of each kind that any element
\* asked for, through arrays that fail half-way and activations in between; and the last
\* chmod on the node of a device whose m_isConfigured is set was given that integer, or none
\* was called because its job did not start.
THEOREM DeviceModesAreCurrent == GatewaysSpec => []DevicesAreCurrent
<1>1. ASSUME DeviceInv PROVE DevicesAreCurrent
  <2>1. devs \in Seq(DeviceRec) /\ ListOK(devs, deviceAsked) /\ deviceAsked \in SUBSET ElementRec
    BY <1>1 DEF DeviceInv, ListOK, IsList
  <2>2. \A dv \in ToSet(devs) : \E k \in DOMAIN devs : dv = devs[k]
    BY <2>1 DEF ToSet
  <2>3. \A k \in DOMAIN devs : devs[k] \in ToSet(devs)
    BY <2>1 DEF ToSet
  <2>4. \A n : ModesAsked(n) = ModesOf(deviceAsked, n)
    BY DEF ModesAsked, ModesOf
  <2>5. ASSUME NEW k \in DOMAIN devs PROVE \E e \in deviceAsked : e.name = devs[k].name
    <3>1. Permissive(devs[k].mode, ModesOf(deviceAsked, devs[k].name))
      BY <2>1 DEF ListOK
    <3>2. ModesOf(deviceAsked, devs[k].name) # {}
      BY <3>1 DEF Permissive, Top
    <3> QED
      BY <3>2 DEF ModesOf
  <2>6. {x.name : x \in ToSet(devs)} = {e.name : e \in deviceAsked}
    <3>1. \A e \in deviceAsked : \E k \in DOMAIN devs : devs[k].name = e.name
      BY <2>1 DEF ListOK
    <3> QED
      BY <2>2, <2>3, <2>5, <3>1
  <2>7. ASSUME NEW k \in DOMAIN devs
        PROVE  LET dv == devs[k]
               IN  IF ModesAsked(dv.name) = {NoMode} THEN dv.mode = NoMode
                   ELSE /\ Owner(dv.mode)  = Max({Owner(m)  : m \in ModesAsked(dv.name)})
                        /\ Group(dv.mode)  = Max({Group(m)  : m \in ModesAsked(dv.name)})
                        /\ Others(dv.mode) = Max({Others(m) : m \in ModesAsked(dv.name)})
    <3> DEFINE M == ModesAsked(devs[k].name)  mode == devs[k].mode
    <3>1. M = ModesOf(deviceAsked, devs[k].name)
      BY <2>4
    <3>2. M \in SUBSET ModeSet
      BY <2>1, <3>1, ModesOfType
    <3>3. mode \in ModeSet
      BY <2>1, DeviceFields
    <3>4. Permissive(mode, M)
      BY <2>1, <3>1 DEF ListOK
    <3> HIDE DEF M, mode
    <3>5. /\ M = {NoMode} => mode = NoMode
          /\ Owner(mode)  = Max({Owner(m)  : m \in M})
          /\ Group(mode)  = Max({Group(m)  : m \in M})
          /\ Others(mode) = Max({Others(m) : m \in M})
      BY <3>2, <3>3, <3>4, PermissiveMeans
    <3> QED
      BY <3>5 DEF M, mode
  <2>8. DigitsAreGreatest
    BY <2>2, <2>6, <2>7 DEF DigitsAreGreatest
  <2>9. \A k \in DOMAIN devs : devs[k].done => AsActivated(devs[k])
    BY <1>1 DEF DeviceInv, AllCurrent, Current, AsActivated
  <2>10. deviceReply = "activate" => \A k \in DOMAIN devs : devs[k].done
    BY <1>1 DEF DeviceInv, DoneSoFar
  <2>11. ConfiguredIsCurrent
    BY <2>2, <2>9, <2>10 DEF ConfiguredIsCurrent
  <2> QED
    BY <2>8, <2>11 DEF DevicesAreCurrent
<1> QED
  BY <1>1, DeviceInvariance, PTL

\* Types of all these gateways: the list of devices has no name twice, and a gateway that
\* is configured has one.
THEOREM GatewaysTypeCorrect == GatewaysSpec => []GatewaysTypeOK
<1>1. DeviceInv => DeviceTypeOK
  BY DEF DeviceInv, DeviceTypeOK, ListOK, IsList, NodeRec
<1>2. EnvInv => EnvTypeOK
  BY DEF EnvInv
<1>3. DBusTypeOK /\ CgroupsTypeOK /\ EnvTypeOK /\ DeviceTypeOK => GatewaysTypeOK
  BY DEF GatewaysTypeOK
<1> QED
  BY <1>1, <1>2, <1>3, DBusTypeCorrect, CgroupsTypeCorrect, EnvInvariance, DeviceInvariance, PTL
=============================================================================
