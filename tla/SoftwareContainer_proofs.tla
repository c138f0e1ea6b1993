----------------------- MODULE SoftwareContainer_proofs -----------------------
(***************************************************************************)
(* The properties of module SoftwareContainer, for every number and kind   *)
(* of gateways and every set of configuration elements.  First what the    *)
(* two loops over the gateways preserve, and what it takes for them to     *)
(* reach their end.                                                        *)
(***************************************************************************)
EXTENDS SoftwareContainer, Container_proofs

USE DEF GwCREATED, GwCONFIGURED, GwACTIVATED

\* A gateway with a process of its own is known to be activated from the moment
\* that process has something to serve; and a gateway applies nothing that it has
\* not accepted, so that applying all it has accepted takes nothing back.
Known(i, g) ==
    /\ i \in Flagging /\ g.live # {} => g.once
    /\ g.live \subseteq g.stored

\* From g to h the gateway has neither forgotten an element nor taken one back.
Grows(g, h) == g.live \subseteq h.live /\ g.stored \subseteq h.stored

----------------------------------------------------------------------------
(***************************************************************************)
(* One gateway.                                                            *)
(***************************************************************************)
\* The fields of an outcome.
LEMMA GwOutFields ==
    ASSUME NEW res, NEW g
    PROVE  GwOut(res, g).res = res /\ GwOut(res, g).gw = g
BY DEF GwOut

\* setConfig, when it returns true.
LEMMA ConfiguredLemma ==
    ASSUME NEW g \in GatewayRec, NEW elems \in SUBSET Elements
    PROVE  /\ ConfiguredGw(g, elems) \in GatewayRec
           /\ ConfiguredGw(g, elems).st = GwCONFIGURED
           /\ ConfiguredGw(g, elems).stored = g.stored \cup elems
           /\ ConfiguredGw(g, elems).live = g.live
           /\ ConfiguredGw(g, elems).once = g.once
<1> DEFINE d == [g EXCEPT !.stored = @ \cup elems]
<1>1. d \in GatewayRec
  BY DEF GatewayRec
<1>2. [d EXCEPT !.st = GwCONFIGURED] \in GatewayRec
  <2> HIDE DEF d
  <2> QED  BY <1>1 DEF GatewayRec
<1>3. ConfiguredGw(g, elems) = [d EXCEPT !.st = GwCONFIGURED]
  BY DEF ConfiguredGw, GatewayRec
<1> QED  BY <1>2, <1>3 DEF GatewayRec

\* setConfig, when it does not.
LEMMA SetConfigFailLemma ==
    ASSUME NEW i, NEW g \in GatewayRec, NEW elems \in SUBSET Elements,
           NEW r \in SetConfigFailOut(i, g, elems)
    PROVE  /\ r.gw \in GatewayRec
           /\ Grows(g, r.gw)
           /\ r.gw.live = g.live
           /\ r.gw.once = g.once
           /\ r.res \in {"false", "throw"}
<1>1. CASE r = GwOut("throw", g)
  BY <1>1, GwOutFields DEF Grows
<1>2. ASSUME NEW S \in SUBSET elems, NEW st \in {g.st, GwCONFIGURED},
             r = GwOut("false", ReadGw(g, S, st))
      PROVE  /\ r.gw \in GatewayRec
             /\ Grows(g, r.gw)
             /\ r.gw.live = g.live
             /\ r.gw.once = g.once
             /\ r.res \in {"false", "throw"}
  <2> DEFINE d == [g EXCEPT !.stored = @ \cup S]
  <2>1. d \in GatewayRec /\ d.live = g.live /\ d.once = g.once /\ d.stored = g.stored \cup S
    BY DEF GatewayRec
  <2>2. r.gw = [d EXCEPT !.st = st] /\ r.res = "false"
    BY <1>2, GwOutFields DEF GatewayRec, ReadGw
  <2>3. st \in GwCREATED..GwACTIVATED
    BY DEF GatewayRec
  <2> HIDE DEF d
  <2> QED  BY <2>1, <2>2, <2>3 DEF GatewayRec, Grows
<1>3. \/ r = GwOut("throw", g)
      \/ \E S \in SUBSET elems, st \in {g.st, GwCONFIGURED} :
            r = GwOut("false", ReadGw(g, S, st))
  BY DEF SetConfigFailOut
<1> QED  BY <1>1, <1>2, <1>3

\* activate, when it returns true.
LEMMA ActivatedLemma ==
    ASSUME NEW i, NEW g \in GatewayRec, Known(i, g), NEW lost
    PROVE  /\ ActivatedGw(i, g, lost) \in GatewayRec
           /\ ActivatedGw(i, g, lost).st = GwACTIVATED
           /\ ActivatedGw(i, g, lost).stored = g.stored
           /\ Grows(g, ActivatedGw(i, g, lost))
           /\ Known(i, ActivatedGw(i, g, lost))
           /\ i \notin Unchecked => ActivatedGw(i, g, lost).live = g.stored
<1> DEFINE S == IF i \in Unchecked THEN g.live \cup (g.stored \ lost) ELSE g.stored
           d == [g EXCEPT !.st = GwACTIVATED]
           e == [d EXCEPT !.live = S]
           f == [e EXCEPT !.once = @ \/ i \in Flagging]
<1>1. d \in GatewayRec /\ d.st = GwACTIVATED /\ d.stored = g.stored /\ d.live = g.live
  BY DEF GatewayRec
<1>2. g.live \subseteq S /\ S \subseteq g.stored /\ (i \notin Unchecked => S = g.stored)
  BY DEF Known
<1>3. e \in GatewayRec /\ e.st = GwACTIVATED /\ e.stored = g.stored /\ e.live = S
  <2> HIDE DEF d, S
  <2> QED  BY <1>1, <1>2 DEF GatewayRec
<1>4. /\ f \in GatewayRec /\ f.st = GwACTIVATED /\ f.stored = g.stored
      /\ f.live = S /\ (i \in Flagging => f.once)
  <2> HIDE DEF e
  <2> QED  BY <1>3 DEF GatewayRec
<1>5. ActivatedGw(i, g, lost) = f
  BY DEF ActivatedGw, GatewayRec
<1> HIDE DEF f, S
<1> QED  BY <1>2, <1>4, <1>5 DEF Known, Grows

\* activate, when it does not.
LEMMA ActivateFailLemma ==
    ASSUME NEW i, NEW g \in GatewayRec, Known(i, g), NEW r \in ActivateFailOut(i, g)
    PROVE  /\ r.gw \in GatewayRec
           /\ Known(i, r.gw) /\ Grows(g, r.gw)
           /\ r.res \in {"false", "throw"}
<1>1. ASSUME NEW res \in {"false", "throw"}, r = GwOut(res, g)
      PROVE  r.gw \in GatewayRec /\ Known(i, r.gw) /\ Grows(g, r.gw) /\ r.res = res
  BY <1>1, GwOutFields DEF Grows
<1>2. ASSUME NEW res \in {"false", "throw"}, NEW S \in SUBSET g.stored,
             r = GwOut(res, AppliedGw(i, g, S))
      PROVE  r.gw \in GatewayRec /\ Known(i, r.gw) /\ Grows(g, r.gw) /\ r.res = res
  <2> DEFINE d == [g EXCEPT !.live = @ \cup S]
  <2>1. d \in GatewayRec
    BY DEF GatewayRec
  <2>2. [d EXCEPT !.once = @ \/ i \in Flagging] \in GatewayRec
    <3> HIDE DEF d
    <3> QED  BY <2>1 DEF GatewayRec
  <2>3. r.gw = [d EXCEPT !.once = @ \/ i \in Flagging] /\ r.res = res
    BY <1>2, GwOutFields DEF GatewayRec, AppliedGw
  <2>4. r.gw.live = g.live \cup S /\ r.gw.stored = g.stored
    BY <2>3 DEF GatewayRec
  <2>5. i \in Flagging => r.gw.once
    <3> HIDE DEF d
    <3> QED  BY <2>1, <2>3 DEF GatewayRec
  <2>6. i \in Flagging /\ r.gw.live # {} => r.gw.once
    BY <2>5
  <2>7. r.gw.live \subseteq r.gw.stored /\ Grows(g, r.gw)
    BY <2>4 DEF Known, Grows
  <2> QED  BY <2>2, <2>3, <2>6, <2>7 DEF Known
<1>3. \E res \in {"false", "throw"} :
         r = GwOut(res, g) \/ \E S \in SUBSET g.stored : r = GwOut(res, AppliedGw(i, g, S))
  BY DEF ActivateFailOut
<1> QED  BY <1>1, <1>2, <1>3

----------------------------------------------------------------------------
(***************************************************************************)
(* The loops.                                                              *)
(***************************************************************************)
\* The gateways as the loops find and leave them.
GoodGws(gs) ==
    /\ gs \in [Gateways -> GatewayRec]
    /\ \A i \in Gateways : Known(i, gs[i])

\* What an activateGateways that returned true leaves of a configured gateway.
Activated(i, g) == g.st = GwACTIVATED /\ (i \notin Unchecked => g.live = g.stored)

\* The same of all gateways.
GrowsAll(gs, hws) == \A i \in Gateways : Grows(gs[i], hws[i])

\* A configuration names gateways and gives each a set of elements.
GoodCfg(cfg) ==
    /\ DOMAIN cfg \subseteq Gateways
    /\ \A i \in DOMAIN cfg : cfg[i] \in SUBSET Elements

\* configureGateways: whether or not it reaches the end of the list, a static
\* gateway that is activated stays as it is, and if one is named it does not.
LEMMA ConfigureLemma ==
    ASSUME NEW gs, GoodGws(gs), NEW cfg, GoodCfg(cfg),
           NEW r \in ConfigureGatewaysOut(gs, cfg)
    PROVE  /\ GoodGws(r.gws)
           /\ GrowsAll(gs, r.gws)
           /\ r.res \in {"true", "false", "throw"}
           /\ r.res = "true" =>
                /\ \A i \in Gateways \ Dynamic : gs[i].st = GwACTIVATED => r.gws[i] = gs[i]
                /\ \A i \in DOMAIN cfg : IsConfigured(r.gws[i]) /\ cfg[i] \subseteq r.gws[i].stored
<1> DEFINE Can(i)   == i \in DOMAIN cfg => CanConfigure(i, gs[i], cfg[i])
           Done(i)  == IF i \in DOMAIN cfg THEN ConfiguredGw(gs[i], cfg[i]) ELSE gs[i]
           Fails(i) == IF i \in DOMAIN cfg THEN SetConfigFailOut(i, gs[i], cfg[i]) ELSE {}
           Reaches(k) == \A j \in 1..(k - 1) : Can(j)
           Before(k)  == [j \in Gateways |-> IF j < k THEN Done(j) ELSE gs[j]]
<1>1. ASSUME NEW i \in Gateways
      PROVE  Done(i) \in GatewayRec /\ Known(i, Done(i)) /\ Grows(gs[i], Done(i))
  <2>1. gs[i] \in GatewayRec /\ Known(i, gs[i])
    BY DEF GoodGws
  <2>2. CASE i \in DOMAIN cfg
    <3>1. Done(i) = ConfiguredGw(gs[i], cfg[i]) /\ cfg[i] \in SUBSET Elements
      BY <2>2 DEF GoodCfg
    <3> HIDE DEF Done
    <3>2. /\ Done(i) \in GatewayRec /\ Done(i).stored = gs[i].stored \cup cfg[i]
          /\ Done(i).live = gs[i].live /\ Done(i).once = gs[i].once
      BY <2>1, <3>1, ConfiguredLemma
    <3> QED  BY <2>1, <3>2 DEF Known, Grows
  <2>3. CASE i \notin DOMAIN cfg
    BY <2>1, <2>3 DEF Grows
  <2> QED  BY <2>2, <2>3
<1>2. ASSUME NEW i \in Gateways, NEW q \in Fails(i)
      PROVE  /\ q.gw \in GatewayRec /\ Known(i, q.gw) /\ Grows(gs[i], q.gw)
             /\ q.res \in {"false", "throw"}
  <2>1. gs[i] \in GatewayRec /\ Known(i, gs[i])
    BY DEF GoodGws
  <2>2. cfg[i] \in SUBSET Elements /\ q \in SetConfigFailOut(i, gs[i], cfg[i])
    BY <1>2 DEF GoodCfg
  <2>3. /\ q.gw \in GatewayRec /\ Grows(gs[i], q.gw)
        /\ q.gw.live = gs[i].live /\ q.gw.once = gs[i].once
        /\ q.res \in {"false", "throw"}
    <3> HIDE DEF Fails
    <3> QED  BY <2>1, <2>2, SetConfigFailLemma
  <2> QED  BY <2>1, <2>3 DEF Known, Grows
<1>3. ASSUME NEW k \in Nat
      PROVE  GoodGws(Before(k)) /\ GrowsAll(gs, Before(k))
  <2> HIDE DEF Done
  <2> QED  BY <1>1 DEF GoodGws, GrowsAll, Grows
<1>4. \/ /\ Reaches(NGateways + 1)
         /\ r = [res |-> "true", gws |-> Before(NGateways + 1)]
      \/ \E k \in Gateways : \E q \in Fails(k) :
            r = [res |-> q.res, gws |-> [Before(k) EXCEPT ![k] = q.gw]]
  BY DEF ConfigureGatewaysOut, LoopOut
<1>5. CASE /\ Reaches(NGateways + 1)
           /\ r = [res |-> "true", gws |-> Before(NGateways + 1)]
  <2>1. r.res = "true" /\ r.gws = Before(NGateways + 1)
    BY <1>5
  <2>2. ASSUME NEW i \in Gateways \ Dynamic, gs[i].st = GwACTIVATED
        PROVE  r.gws[i] = gs[i]
    <3>1. i \in 1..((NGateways + 1) - 1) /\ i < NGateways + 1
      BY GatewayAssumption DEF Gateways
    <3>2. i \notin DOMAIN cfg
      BY <1>5, <2>2, <3>1 DEF CanConfigure
    <3> QED  BY <2>1, <3>1, <3>2
  <2>3. GoodGws(r.gws) /\ GrowsAll(gs, r.gws)
    BY <1>3, <2>1, GatewayAssumption
  <2>4. ASSUME NEW i \in DOMAIN cfg
        PROVE  IsConfigured(r.gws[i]) /\ cfg[i] \subseteq r.gws[i].stored
    <3>1. i \in Gateways /\ i < NGateways + 1 /\ gs[i] \in GatewayRec /\ cfg[i] \in SUBSET Elements
      BY <2>4, GatewayAssumption DEF Gateways, GoodCfg, GoodGws
    <3>2. r.gws[i] = ConfiguredGw(gs[i], cfg[i])
      BY <2>1, <2>4, <3>1
    <3> QED  BY <3>1, <3>2, ConfiguredLemma DEF IsConfigured
  <2> QED  BY <2>1, <2>2, <2>3, <2>4
<1>6. ASSUME NEW k \in Gateways, NEW q \in Fails(k),
             r = [res |-> q.res, gws |-> [Before(k) EXCEPT ![k] = q.gw]]
      PROVE  GoodGws(r.gws) /\ GrowsAll(gs, r.gws) /\ r.res \in {"false", "throw"}
  <2>1. GoodGws(Before(k)) /\ GrowsAll(gs, Before(k))
    <3>1. k \in Nat
      BY DEF Gateways
    <3> HIDE DEF Before
    <3> QED  BY <1>3, <3>1
  <2>2. r.res = q.res /\ r.gws = [Before(k) EXCEPT ![k] = q.gw]
    BY <1>6
  <2> HIDE DEF Before, Fails
  <2>3. /\ q.gw \in GatewayRec /\ Known(k, q.gw) /\ Grows(gs[k], q.gw)
        /\ q.res \in {"false", "throw"}
    BY <1>2
  <2> QED  BY <2>1, <2>2, <2>3 DEF GoodGws, GrowsAll
<1> QED  BY <1>4, <1>5, <1>6

\* activateGateways: if it reaches the end of the list then every configured
\* gateway was waiting to be activated, and is activated with all it has stored, save
\* what a gateway in Unchecked has lost.
LEMMA ActivateLemma ==
    ASSUME NEW gs, GoodGws(gs), NEW lost, NEW r \in ActivateWithOut(gs, lost)
    PROVE  /\ GoodGws(r.gws)
           /\ GrowsAll(gs, r.gws)
           /\ r.res \in {"true", "false", "throw"}
           /\ r.res = "true" => \A i \in Gateways :
                /\ gs[i].st # GwACTIVATED
                /\ IsConfigured(gs[i]) => IsConfigured(r.gws[i])
                /\ IsConfigured(r.gws[i]) =>
                     Activated(i, r.gws[i])
<1> DEFINE Can(i)   == IsConfigured(gs[i]) => CanActivate(gs[i])
           Done(i)  == IF IsConfigured(gs[i]) THEN ActivatedGw(i, gs[i], lost[i]) ELSE gs[i]
           Fails(i) == IF IsConfigured(gs[i]) THEN ActivateFailOut(i, gs[i]) ELSE {}
           Reaches(k) == \A j \in 1..(k - 1) : Can(j)
           Before(k)  == [j \in Gateways |-> IF j < k THEN Done(j) ELSE gs[j]]
<1>1. ASSUME NEW i \in Gateways
      PROVE  Done(i) \in GatewayRec /\ Known(i, Done(i)) /\ Grows(gs[i], Done(i))
  <2>1. gs[i] \in GatewayRec /\ Known(i, gs[i])
    BY DEF GoodGws
  <2>2. CASE IsConfigured(gs[i])
    <3>1. Done(i) = ActivatedGw(i, gs[i], lost[i])
      BY <2>2
    <3> HIDE DEF Done
    <3> QED  BY <2>1, <3>1, ActivatedLemma
  <2>3. CASE ~IsConfigured(gs[i])
    BY <2>1, <2>3 DEF Grows
  <2> QED  BY <2>2, <2>3
<1>2. ASSUME NEW i \in Gateways, NEW q \in Fails(i)
      PROVE  /\ q.gw \in GatewayRec /\ Known(i, q.gw) /\ Grows(gs[i], q.gw)
             /\ q.res \in {"false", "throw"}
  BY <1>2, ActivateFailLemma DEF GoodGws
<1>3. ASSUME NEW k \in Nat
      PROVE  GoodGws(Before(k)) /\ GrowsAll(gs, Before(k))
  <2> HIDE DEF Done
  <2> QED  BY <1>1 DEF GoodGws, GrowsAll, Grows
<1>4. \/ /\ Reaches(NGateways + 1)
         /\ r = [res |-> "true", gws |-> Before(NGateways + 1)]
      \/ \E k \in Gateways : \E q \in Fails(k) :
            r = [res |-> q.res, gws |-> [Before(k) EXCEPT ![k] = q.gw]]
  BY DEF ActivateWithOut, LoopOut
<1>5. CASE /\ Reaches(NGateways + 1)
           /\ r = [res |-> "true", gws |-> Before(NGateways + 1)]
  <2>1. r.res = "true" /\ r.gws = Before(NGateways + 1)
    BY <1>5
  <2>2. ASSUME NEW i \in Gateways
        PROVE  /\ gs[i].st # GwACTIVATED
               /\ IsConfigured(gs[i]) => IsConfigured(r.gws[i])
               /\ IsConfigured(r.gws[i]) =>
                    Activated(i, r.gws[i])
    <3>1. i \in 1..((NGateways + 1) - 1) /\ i < NGateways + 1
      BY GatewayAssumption DEF Gateways
    <3>2. Can(i) /\ r.gws[i] = Done(i)
      BY <1>5, <2>1, <3>1
    <3>3. gs[i] \in GatewayRec /\ Known(i, gs[i])
      BY DEF GoodGws
    <3>4. CASE IsConfigured(gs[i])
      <4>1. gs[i].st # GwACTIVATED
        BY <3>2, <3>4 DEF CanActivate
      <4>2. Activated(i, r.gws[i])
        BY <3>2, <3>3, <3>4, ActivatedLemma DEF Activated
      <4> QED  BY <4>1, <4>2 DEF IsConfigured, Activated
    <3>5. CASE ~IsConfigured(gs[i])
      BY <3>2, <3>3, <3>5 DEF IsConfigured
    <3> QED  BY <3>4, <3>5
  <2>3. GoodGws(r.gws) /\ GrowsAll(gs, r.gws)
    BY <1>3, <2>1, GatewayAssumption
  <2> QED  BY <2>1, <2>2, <2>3
<1>6. ASSUME NEW k \in Gateways, NEW q \in Fails(k),
             r = [res |-> q.res, gws |-> [Before(k) EXCEPT ![k] = q.gw]]
      PROVE  GoodGws(r.gws) /\ GrowsAll(gs, r.gws) /\ r.res \in {"false", "throw"}
  <2>1. GoodGws(Before(k)) /\ GrowsAll(gs, Before(k))
    <3>1. k \in Nat
      BY DEF Gateways
    <3> HIDE DEF Before
    <3> QED  BY <1>3, <3>1
  <2>2. r.res = q.res /\ r.gws = [Before(k) EXCEPT ![k] = q.gw]
    BY <1>6
  <2> HIDE DEF Before, Fails
  <2>3. /\ q.gw \in GatewayRec /\ Known(k, q.gw) /\ Grows(gs[k], q.gw)
        /\ q.res \in {"false", "throw"}
    BY <1>2
  <2> QED  BY <2>1, <2>2, <2>3 DEF GoodGws, GrowsAll
<1> QED  BY <1>4, <1>5, <1>6

\* startGateways: it can return true only if no static gateway is activated yet,
\* and then all that is configured is activated, what it was called with included.
LEMMA StartGatewaysLemma ==
    ASSUME NEW gs, GoodGws(gs), NEW cfg, GoodCfg(cfg), NEW unknown,
           NEW r \in StartGatewaysOut(gs, cfg, unknown)
    PROVE  /\ GoodGws(r.gws)
           /\ GrowsAll(gs, r.gws)
           /\ r.res \in {"true", "false", "throw"}
           /\ r.res = "true" =>
                /\ \A i \in Gateways \ Dynamic : gs[i].st # GwACTIVATED
                /\ \A i \in Gateways : IsConfigured(r.gws[i]) =>
                     Activated(i, r.gws[i])
                /\ \A i \in DOMAIN cfg \ Unchecked : cfg[i] \subseteq r.gws[i].live
<1>1. CASE r = [res |-> "throw", gws |-> gs]
  BY <1>1 DEF GrowsAll, Grows
<1>2. ASSUME NEW q \in ConfigureGatewaysOut(gs, cfg), q.res # "true", r = q
      PROVE  /\ GoodGws(r.gws)
             /\ GrowsAll(gs, r.gws)
             /\ r.res \in {"false", "throw"}
  BY <1>2, ConfigureLemma
<1>3. ASSUME NEW q \in ConfigureGatewaysOut(gs, cfg), q.res = "true",
             NEW lost, r \in ActivateWithOut(q.gws, lost)
      PROVE  /\ GoodGws(r.gws)
             /\ GrowsAll(gs, r.gws)
             /\ r.res \in {"true", "false", "throw"}
             /\ r.res = "true" =>
                  /\ \A i \in Gateways \ Dynamic : gs[i].st # GwACTIVATED
                  /\ \A i \in Gateways : IsConfigured(r.gws[i]) =>
                       Activated(i, r.gws[i])
                  /\ \A i \in DOMAIN cfg \ Unchecked : cfg[i] \subseteq r.gws[i].live
  <2>1. GoodGws(q.gws) /\ GrowsAll(gs, q.gws)
    BY ConfigureLemma
  <2>2. GoodGws(r.gws) /\ GrowsAll(q.gws, r.gws) /\ r.res \in {"true", "false", "throw"}
    BY <1>3, <2>1, ActivateLemma
  <2>3. GrowsAll(gs, r.gws)
    BY <2>1, <2>2 DEF GrowsAll, Grows
  <2>4. ASSUME r.res = "true"
        PROVE  /\ \A i \in Gateways \ Dynamic : gs[i].st # GwACTIVATED
               /\ \A i \in Gateways : IsConfigured(r.gws[i]) =>
                    Activated(i, r.gws[i])
    BY <1>3, <2>1, <2>4, ConfigureLemma, ActivateLemma
  <2>5. ASSUME r.res = "true", NEW i \in DOMAIN cfg \ Unchecked
        PROVE  cfg[i] \subseteq r.gws[i].live
    <3>1. i \in Gateways
      BY <2>5 DEF GoodCfg
    <3>2. IsConfigured(q.gws[i]) /\ cfg[i] \subseteq q.gws[i].stored
      BY <1>3, <2>5, ConfigureLemma
    <3>3. Activated(i, r.gws[i])
      BY <1>3, <2>1, <2>5, <3>1, <3>2, ActivateLemma
    <3> QED  BY <2>2, <3>1, <3>2, <3>3 DEF GrowsAll, Grows, Activated
  <2> QED  BY <2>2, <2>3, <2>4, <2>5
<1> QED  BY <1>1, <1>2, <1>3 DEF StartGatewaysOut, ActivateGatewaysOut

----------------------------------------------------------------------------
(***************************************************************************)
(* The object.                                                             *)
(***************************************************************************)
USE DEF DEFAULT, PREPARED, DESTROYED, CREATED, STARTED, FROZEN

\* The inductive invariant: what the object, its container and its gateways are
\* to each other between two calls.
IInv ==
    /\ TypeOK
    /\ alive => Healthy(sc) /\ Tracked(sc.c)
    /\ DestructorUnmounts
    /\ alive /\ sc.state \in Mortal => GoodGws(gws)
    /\ gws # NoGateways => GoodGws(gws)
    /\ SuccessMeansApplied
    /\ GrantedStaysApplied

----------------------------------------------------------------------------
\* A configuration, as startGateways gets it.
LEMMA ConfigsLemma ==
    ASSUME NEW cfg \in Configs
    PROVE  GoodCfg(cfg)
BY DEF Configs, GoodCfg

\* Init: the constructor has succeeded on a clean host.
LEMMA InitLemma == Init => IInv
<1> SUFFICES ASSUME Init PROVE IInv
  OBVIOUS
<1>1. CleanHost \in ContainerRec /\ Bare(CleanHost)
  <2> DEFINE M == [m \in MountPoints |-> 0]
  <2>1. M \in [MountPoints -> Nat] /\ \A m \in MountPoints : M[m] = 0
    OBVIOUS
  <2> HIDE DEF M
  <2>2. CleanHost = [state |-> 0, wb |-> FALSE, lxc |-> "undefined", mounts |-> M, undo |-> {}]
    BY DEF CleanHost, M
  <2> QED  BY <2>1, <2>2 DEF Bare, ContainerRec, LxcStates
<1>2. PICK wb \in BOOLEAN : \E q \in ConstructOut(CleanHost, wb) :
         q.res = "true" /\ sc = [state |-> "READY", prev |-> FALSE, c |-> q.c]
  BY DEF Init
<1>3. PICK r \in ConstructOut(CleanHost, wb) :
         r.res = "true" /\ sc = [state |-> "READY", prev |-> FALSE, c |-> r.c]
  BY <1>2
<1>4. Sound(r.c) /\ Tracked(r.c) /\ r.c.state = STARTED /\ r.c \in ContainerRec
  BY <1>1, <1>3, ConstructLemma DEF Sound
<1>5. sc \in SoftwareContainerRec /\ sc.state = "READY" /\ sc.c = r.c
  BY <1>3, <1>4 DEF SoftwareContainerRec, SCStates
<1>6. Healthy(sc) /\ Tracked(sc.c)
  BY <1>4, <1>5 DEF Healthy
<1>7. NewGateway \in GatewayRec /\ NewGateway.live = {} /\ NewGateway.stored = {}
  BY DEF NewGateway, GatewayRec
<1>8. GoodGws(gws)
  BY <1>7 DEF Init, GoodGws, Known
<1>9. TypeOK
  BY <1>5, <1>8 DEF Init, TypeOK, GoodGws, NoReply, Ops, Errors
<1>10. reply.op = "none" /\ alive
  BY DEF Init, NoReply
<1> QED  BY <1>6, <1>8, <1>9, <1>10 DEF IInv, Init, DestructorUnmounts, SuccessMeansApplied, GrantedStaysApplied

----------------------------------------------------------------------------
(***************************************************************************)
(* One lemma for each action.                                              *)
(***************************************************************************)
\* The parts of IInv that only concern the gateways and the reply hold after a
\* step that leaves the gateways alone, keeps a Mortal object Mortal only if it
\* was, and does not answer startGateways with true.
LEMMA StepLemma ==
    ASSUME IInv, Healthy(sc'), Tracked(sc'.c), alive', gws' = gws, torn' = torn, granted' = granted,
           reply' \in [op : Ops \cup {"none", "destruct"}, res : Errors \cup {"ok", "false"}],
           reply' # [op |-> "startGateways", res |-> "ok"],
           alive, sc'.state \in Mortal => sc.state \in Mortal
    PROVE  IInv'
<1>1. TypeOK'
  BY DEF IInv, TypeOK, Healthy
<1>2. (alive /\ sc.state \in Mortal => GoodGws(gws))'
  BY DEF IInv, GoodGws, Known
<1>3. (gws # NoGateways => GoodGws(gws))'
  BY DEF IInv, GoodGws, Known, NoGateways
<1> QED  BY <1>1, <1>2, <1>3
         DEF IInv, DestructorUnmounts, SuccessMeansApplied, GrantedStaysApplied

\* The answer of a method that is refused is an error, so is a failed one.
LEMMA AnswerLemma ==
    ASSUME NEW op \in Ops, NEW r, NEW s, NEW allowed, Answered(op, r),
           \/ RefusedFor(r, s, allowed)
           \/ r.res \in {"ok", "false", "SoftwareContainerError", "ContainerError", "GatewayError"}
    PROVE  reply' \in [op : Ops \cup {"none", "destruct"}, res : Errors \cup {"ok", "false"}]
BY DEF Answered, RefusedFor, Errors

\* suspend()
LEMMA SuspendStep == IInv /\ Suspend => IInv'
<1> SUFFICES ASSUME IInv, Suspend PROVE IInv'
  OBVIOUS
<1>1. PICK r \in SCSuspendOut(sc) : Answered("suspend", r)
  BY DEF Suspend
<1>2. Healthy(sc) /\ Tracked(sc.c) /\ alive
  BY DEF Suspend, IInv
<1>3. /\ Healthy(r.s) /\ Tracked(r.s.c)
      /\ \/ RefusedFor(r, sc, {"READY"})
         \/ sc.state = "READY" /\ r.res = "ok" /\ r.s.state = "SUSPENDED"
         \/ sc.state = "READY" /\ r.res = "SoftwareContainerError" /\ r.s = sc
  BY <1>1, <1>2, SCSuspendLemma
<1>4. reply' \in [op : Ops \cup {"none", "destruct"}, res : Errors \cup {"ok", "false"}]
  BY <1>1, <1>3, AnswerLemma DEF Ops
<1>5. sc' = r.s /\ reply' # [op |-> "startGateways", res |-> "ok"]
  BY <1>1 DEF Answered
<1>6. sc'.state \in Mortal => sc.state \in Mortal
  BY <1>3, <1>5 DEF RefusedFor, Mortal
<1>7. Healthy(sc') /\ Tracked(sc'.c)
  BY <1>3, <1>5
<1> QED  BY <1>2, <1>4, <1>5, <1>6, <1>7, StepLemma DEF Suspend

\* resume()
LEMMA ResumeStep == IInv /\ Resume => IInv'
<1> SUFFICES ASSUME IInv, Resume PROVE IInv'
  OBVIOUS
<1>1. PICK r \in SCResumeOut(sc) : Answered("resume", r)
  BY DEF Resume
<1>2. Healthy(sc) /\ Tracked(sc.c) /\ alive
  BY DEF Resume, IInv
<1>3. /\ Healthy(r.s) /\ Tracked(r.s.c)
      /\ \/ RefusedFor(r, sc, {"SUSPENDED"})
         \/ sc.state = "SUSPENDED" /\ r.res = "ok" /\ r.s.state = "READY"
         \/ sc.state = "SUSPENDED" /\ r.res = "SoftwareContainerError" /\ r.s = sc
  BY <1>1, <1>2, SCResumeLemma
<1>4. reply' \in [op : Ops \cup {"none", "destruct"}, res : Errors \cup {"ok", "false"}]
  BY <1>1, <1>3, AnswerLemma DEF Ops
<1>5. sc' = r.s /\ reply' # [op |-> "startGateways", res |-> "ok"]
  BY <1>1 DEF Answered
<1>6. sc'.state \in Mortal => sc.state \in Mortal
  BY <1>3, <1>5 DEF RefusedFor, Mortal
<1>7. Healthy(sc') /\ Tracked(sc'.c)
  BY <1>3, <1>5
<1> QED  BY <1>2, <1>4, <1>5, <1>6, <1>7, StepLemma DEF Resume

\* shutdown(): past the state checks the gateways go, and the object with them.
LEMMA ShutdownStep == IInv /\ Shutdown => IInv'
<1> SUFFICES ASSUME IInv, Shutdown PROVE IInv'
  OBVIOUS
<1>1. PICK r \in SCShutdownOut(sc) : Answered("shutdown", r)
  BY DEF Shutdown
<1>2. Healthy(sc) /\ Tracked(sc.c) /\ alive
  BY DEF Shutdown, IInv
<1>3. /\ Healthy(r.s) /\ Tracked(r.s.c)
      /\ \/ RefusedFor(r, sc, Mortal)
         \/ sc.state \in Mortal /\ r.res = "ok" /\ r.s.state = "TERMINATED"
         \/ sc.state \in Mortal /\ r.res = "ContainerError" /\ r.s.state = "INVALID"
  BY <1>1, <1>2, SCShutdownLemma
<1>4. reply' \in [op : Ops \cup {"none", "destruct"}, res : Errors \cup {"ok", "false"}]
  BY <1>1, <1>3, AnswerLemma DEF Ops
<1>5. sc' = r.s /\ reply' # [op |-> "startGateways", res |-> "ok"]
  BY <1>1 DEF Answered
<1>6. Refusal(sc, Mortal) = "none" <=> sc.state \in Mortal
  BY RefusalLemma DEF Mortal
<1>7. Healthy(sc') /\ Tracked(sc'.c)
  BY <1>3, <1>5
<1>8. CASE sc.state \notin Mortal
  BY <1>2, <1>3, <1>4, <1>5, <1>6, <1>7, <1>8, StepLemma DEF Shutdown, RefusedFor
<1>9. CASE sc.state \in Mortal
  <2>1. gws' = NoGateways /\ torn' = torn \cup TornDown(gws) /\ GoodGws(gws)
    BY <1>2, <1>6, <1>9 DEF Shutdown, IInv
  <2>2. torn' \in SUBSET Gateways
    BY <2>1 DEF IInv, TypeOK, TornDown, GoodGws
  <2>3. sc'.state \notin Mortal
    BY <1>3, <1>5, <1>9 DEF RefusedFor, Mortal
  <2>4. alive' /\ granted' = granted
    BY <1>2 DEF Shutdown
  <2>5. TypeOK'
    BY <1>4, <1>7, <2>1, <2>2, <2>4 DEF IInv, TypeOK, Healthy
  <2> QED  BY <1>5, <1>7, <2>1, <2>3, <2>4, <2>5
           DEF IInv, DestructorUnmounts, SuccessMeansApplied, GrantedStaysApplied, NoGateways
<1> QED  BY <1>8, <1>9

\* The change of m_previouslyConfigured touches nothing else.
LEMMA PrevFields ==
    ASSUME NEW s \in SoftwareContainerRec, NEW p \in BOOLEAN
    PROVE  /\ [s EXCEPT !.prev = p] \in SoftwareContainerRec
           /\ [s EXCEPT !.prev = p].state = s.state
           /\ [s EXCEPT !.prev = p].c = s.c
           /\ [s EXCEPT !.prev = p].prev = p
BY DEF SoftwareContainerRec

\* startGateways()
LEMMA StartGatewaysStep ==
    ASSUME NEW cfg \in Configs, NEW unknown \in BOOLEAN, IInv, StartGateways(cfg, unknown)
    PROVE  IInv'
<1>1. Healthy(sc) /\ Tracked(sc.c) /\ alive /\ alive' /\ torn' = torn
  BY DEF IInv, StartGateways
<1>2. Refusal(sc, {"READY"}) = "none" <=> sc.state = "READY"
  BY RefusalLemma
<1>3. CASE sc.state # "READY"
  <2> DEFINE r == Reply(Refusal(sc, {"READY"}), sc)
  <2>1. Answered("startGateways", r) /\ gws' = gws /\ granted' = granted
    BY <1>2, <1>3 DEF StartGateways
  <2>2. RefusedFor(r, sc, {"READY"})
    BY <1>2, <1>3, RefusalLemma
  <2> HIDE DEF r
  <2>3. reply' \in [op : Ops \cup {"none", "destruct"}, res : Errors \cup {"ok", "false"}]
    BY <2>1, <2>2, AnswerLemma DEF Ops
  <2>4. sc' = sc /\ reply'.res # "ok"
    BY <2>1, <2>2 DEF Answered, RefusedFor
  <2> QED  BY <1>1, <2>1, <2>3, <2>4, StepLemma
<1>4. CASE sc.state = "READY"
  <2>1. PICK r \in StartGatewaysOut(gws, cfg, unknown) :
           /\ gws' = r.gws
           /\ Answered("startGateways",
                 Reply(StartResult(r.res), [sc EXCEPT !.prev = IF r.res = "true" THEN TRUE ELSE @]))
           /\ granted' = IF r.res = "true" THEN Granted(cfg) ELSE granted
    BY <1>2, <1>4 DEF StartGateways
  <2>2. GoodGws(gws) /\ GoodCfg(cfg)
    BY <1>1, <1>4, ConfigsLemma DEF IInv, Mortal
  <2>3. /\ GoodGws(r.gws) /\ GrowsAll(gws, r.gws)
        /\ r.res \in {"true", "false", "throw"}
        /\ r.res = "true" =>
             /\ \A i \in Gateways : IsConfigured(r.gws[i]) =>
                  Activated(i, r.gws[i])
             /\ \A i \in DOMAIN cfg \ Unchecked : cfg[i] \subseteq r.gws[i].live
    BY <2>1, <2>2, StartGatewaysLemma
  <2>4. /\ sc' = [sc EXCEPT !.prev = IF r.res = "true" THEN TRUE ELSE sc.prev]
        /\ reply' = [op |-> "startGateways", res |-> StartResult(r.res)]
    BY <2>1, ReplyFields DEF Answered
  <2>5. sc \in SoftwareContainerRec /\ sc.prev \in BOOLEAN
    BY <1>1 DEF Healthy, SoftwareContainerRec
  <2>6. /\ sc' \in SoftwareContainerRec /\ sc'.state = sc.state /\ sc'.c = sc.c
        /\ r.res = "true" => sc'.prev
    BY <2>4, <2>5, PrevFields
  <2>7. Healthy(sc') /\ Tracked(sc'.c)
    BY <1>1, <2>6 DEF Healthy
  <2>8. reply' \in [op : Ops \cup {"none", "destruct"}, res : Errors \cup {"ok", "false"}]
    BY <2>3, <2>4 DEF StartResult, Ops, Errors
  <2>9. granted' \in [Gateways -> SUBSET Elements]
    BY <2>1, <2>2 DEF Granted, GoodCfg, IInv, TypeOK
  <2>10. GoodGws(gws)'
    BY <2>1, <2>3 DEF GoodGws, Known
  <2>11. TypeOK'
    BY <1>1, <2>6, <2>8, <2>9, <2>10 DEF IInv, TypeOK, GoodGws
  <2>12. SuccessMeansApplied'
    <3>1. reply' = [op |-> "startGateways", res |-> "ok"] => r.res = "true"
      BY <2>3, <2>4 DEF StartResult
    <3> QED  BY <2>1, <2>3, <2>6, <3>1 DEF SuccessMeansApplied, IsConfigured, Activated
  <2>13. GrantedStaysApplied'
    <3>1. ASSUME NEW i \in Gateways \ Unchecked
          PROVE  granted'[i] \subseteq r.gws[i].live
      <4>1. granted[i] \subseteq gws[i].live /\ granted \in [Gateways -> SUBSET Elements]
        BY <3>1, <2>2 DEF IInv, TypeOK, GrantedStaysApplied, GoodGws, NoGateways
      <4>2. gws[i].live \subseteq r.gws[i].live
        BY <2>3 DEF GrowsAll, Grows
      <4>3. CASE r.res # "true"
        BY <2>1, <4>1, <4>2, <4>3
      <4>4. CASE r.res = "true"
        <5>1. granted'[i] = granted[i] \cup (IF i \in DOMAIN cfg \ Unchecked THEN cfg[i] ELSE {})
          BY <2>1, <4>4 DEF Granted
        <5> QED  BY <2>3, <4>1, <4>2, <4>4, <5>1
      <4> QED  BY <4>3, <4>4
    <3> QED  BY <2>1, <3>1 DEF GrantedStaysApplied
  <2> QED  BY <1>1, <2>7, <2>10, <2>11, <2>12, <2>13 DEF IInv, DestructorUnmounts
<1> QED  BY <1>3, <1>4

\* bindMount(), createFunctionJob(), createCommandJob()
LEMMA UseReadyStep ==
    ASSUME NEW op \in {"bindMount", "createFunctionJob", "createCommandJob"}, IInv, UseReady(op)
    PROVE  IInv'
<1>1. Healthy(sc) /\ Tracked(sc.c) /\ alive /\ alive' /\ gws' = gws /\ torn' = torn /\ granted' = granted
  BY DEF IInv, UseReady
<1>2. PICK res : /\ Answered(op, Reply(res, sc))
                 /\ \/ RefusedFor(Reply(res, sc), sc, {"READY"})
                    \/ res \in {"ok", "false"}
  BY RefusalLemma DEF UseReady
<1>3. reply' \in [op : Ops \cup {"none", "destruct"}, res : Errors \cup {"ok", "false"}]
  BY <1>2, AnswerLemma, ReplyFields DEF Ops
<1>4. sc' = sc /\ reply'.op = op
  BY <1>2, ReplyFields DEF Answered
<1> QED  BY <1>1, <1>3, <1>4, StepLemma

\* The destructor
LEMMA DestructStep == IInv /\ Destruct => IInv'
<1> SUFFICES ASSUME IInv, Destruct PROVE IInv'
  OBVIOUS
<1>1. /\ Healthy(sc) /\ Tracked(sc.c) /\ ~alive' /\ gws' = NoGateways /\ granted' = granted
      /\ torn' = torn \cup (TornDown(gws) \cap Flagging)
      /\ reply' = [op |-> "destruct", res |-> "ok"]
  BY DEF IInv, Destruct
<1>2. PICK c \in SCDestructOut(sc.c) : sc' = Now(sc, sc.state, c)
  BY DEF Destruct
<1>3. c \in ContainerRec /\ \A m \in MountPoints : c.mounts[m] = 0
  BY <1>1, DestructLemma DEF Healthy
<1>4. sc \in SoftwareContainerRec /\ sc.state \in SCStates
  BY <1>1 DEF Healthy, SoftwareContainerRec
<1>5. sc' \in SoftwareContainerRec /\ sc'.c = c
  BY <1>2, <1>3, <1>4, NowFields
<1>6. torn' \in SUBSET Gateways
  BY <1>1, GatewayAssumption DEF IInv, TypeOK
<1>7. alive' \in BOOLEAN
  BY DEF Destruct
<1>8. TypeOK'
  BY <1>1, <1>5, <1>6, <1>7 DEF IInv, TypeOK, Errors
<1> QED  BY <1>1, <1>3, <1>5, <1>8
         DEF IInv, DestructorUnmounts, SuccessMeansApplied, GrantedStaysApplied, NoGateways

\* The death of the container's init
LEMMA InitDiesStep == IInv /\ InitDies => IInv'
<1> SUFFICES ASSUME IInv, InitDies PROVE IInv'
  OBVIOUS
<1>1. /\ Healthy(sc) /\ Tracked(sc.c) /\ alive /\ alive' /\ gws' = gws /\ torn' = torn /\ granted' = granted
      /\ sc' = Now(sc, sc.state, InitDied(sc.c)) /\ reply' = NoReply
  BY DEF IInv, InitDies
<1>2. Sound(InitDied(sc.c)) /\ Tracked(InitDied(sc.c)) /\ InitDied(sc.c).state = sc.c.state
  BY <1>1, InitDiedLemma DEF InitDies, Healthy, Keeps
<1>3. /\ sc \in SoftwareContainerRec /\ sc.state \in SCStates
      /\ InitDied(sc.c) \in ContainerRec
  BY <1>1, <1>2 DEF Healthy, SoftwareContainerRec, Keeps, Sound
<1>4. sc' \in SoftwareContainerRec /\ sc'.state = sc.state /\ sc'.c = InitDied(sc.c)
  BY <1>1, <1>3, NowFields
<1>5. Healthy(sc') /\ Tracked(sc'.c)
  BY <1>1, <1>2, <1>4 DEF Healthy
<1>6. reply' \in [op : Ops \cup {"none", "destruct"}, res : Errors \cup {"ok", "false"}]
  BY <1>1 DEF NoReply
<1>7. reply' # [op |-> "startGateways", res |-> "ok"]
  BY <1>1 DEF NoReply
<1> QED  BY <1>1, <1>4, <1>5, <1>6, <1>7, StepLemma

\* Every step preserves IInv.
LEMMA NextLemma == IInv /\ [Next]_vars => IInv'
<1> SUFFICES ASSUME IInv, [Next]_vars PROVE IInv'
  OBVIOUS
<1>1. CASE Suspend
  BY <1>1, SuspendStep
<1>2. CASE Resume
  BY <1>2, ResumeStep
<1>3. CASE Shutdown
  BY <1>3, ShutdownStep
<1>4. ASSUME NEW cfg \in Configs, NEW unknown \in BOOLEAN, StartGateways(cfg, unknown)
      PROVE  IInv'
  BY <1>4, StartGatewaysStep
<1>5. ASSUME NEW op \in {"bindMount", "createFunctionJob", "createCommandJob"}, UseReady(op)
      PROVE  IInv'
  BY <1>5, UseReadyStep
<1>6. CASE Destruct
  BY <1>6, DestructStep
<1>7. CASE InitDies
  BY <1>7, InitDiesStep
<1>8. CASE UNCHANGED vars
  BY <1>8 DEF vars, IInv, TypeOK, DestructorUnmounts, SuccessMeansApplied, GrantedStaysApplied,
              GoodGws, Known,
              IsConfigured, NoGateways, Healthy, Tracked
<1> QED  BY <1>1, <1>2, <1>3, <1>4, <1>5, <1>6, <1>7, <1>8 DEF Next

\* The inductive invariant holds.
THEOREM Invariance == Spec => []IInv
BY InitLemma, NextLemma, PTL DEF Spec

----------------------------------------------------------------------------
(***************************************************************************)
(* The theorems.                                                           *)
(***************************************************************************)
\* Every variable keeps to its type.
THEOREM TypeCorrect == Spec => []TypeOK
<1>1. IInv => TypeOK
  BY DEF IInv
<1> QED  BY <1>1, Invariance, PTL

\* A startGateways that returned true has activated every configured gateway, and those
\* that look at all their failures have applied all they ever accepted, whatever failed
\* before it and however many gateways there are.
THEOREM SuccessAppliesAll == Spec => []SuccessMeansApplied
<1>1. IInv => SuccessMeansApplied
  BY DEF IInv
<1> QED  BY <1>1, Invariance, PTL

\* What a startGateways that returned true has applied in a gateway that looks at all its
\* failures stays applied until the gateways are dropped, whatever fails after it.
THEOREM GrantsAreKept == Spec => []GrantedStaysApplied
<1>1. IInv => GrantedStaysApplied
  BY DEF IInv
<1> QED  BY <1>1, Invariance, PTL

\* m_containerState, m_state and LXC never drift apart.
THEOREM LayersStayInAgreement == Spec => []LayersAgree
<1>1. IInv => LayersAgree
  BY DEF IInv, LayersAgree, Healthy, Sound
<1> QED  BY <1>1, Invariance, PTL

\* The destructors leave nothing mounted, whatever has failed before them.
THEOREM NothingStaysMounted == Spec => []DestructorUnmounts
<1>1. IInv => DestructorUnmounts
  BY DEF IInv
<1> QED  BY <1>1, Invariance, PTL

\* What every step does to m_containerState and what it answers, in the terms of
\* the life cycle.
LEMMA LifecycleLemma == IInv /\ [Next]_vars => [LifecycleStep]_(Lifecycle!vars)
<1> SUFFICES ASSUME IInv, [Next]_vars PROVE [LifecycleStep]_(Lifecycle!vars)
  OBVIOUS
<1> USE DEF LifecycleStep, Lifecycle!Next, Lifecycle!Call
<1>1. CASE Suspend
  <2>1. PICK r \in SCSuspendOut(sc) : Answered("suspend", r)
    BY <1>1 DEF Suspend
  <2>2. \/ RefusedFor(r, sc, {"READY"})
        \/ sc.state = "READY" /\ r.res = "ok" /\ r.s.state = "SUSPENDED"
        \/ sc.state = "READY" /\ r.res = "SoftwareContainerError" /\ r.s = sc
    BY <1>1, <2>1, SCSuspendLemma DEF IInv, Suspend
  <2>3. sc' = r.s /\ reply' = [op |-> "suspend", res |-> r.res] /\ alive /\ alive' = alive
    BY <1>1, <2>1 DEF Suspend, Answered
  <2>4. Lifecycle!Suspend \/ LXCRefuses("suspend", "READY")
    BY <2>2, <2>3 DEF RefusedFor, LXCRefuses, Lifecycle!Suspend, Lifecycle!Refused,
                      Lifecycle!Works, Lifecycle!Answer
  <2> QED  BY <2>3, <2>4
<1>2. CASE Resume
  <2>1. PICK r \in SCResumeOut(sc) : Answered("resume", r)
    BY <1>2 DEF Resume
  <2>2. \/ RefusedFor(r, sc, {"SUSPENDED"})
        \/ sc.state = "SUSPENDED" /\ r.res = "ok" /\ r.s.state = "READY"
        \/ sc.state = "SUSPENDED" /\ r.res = "SoftwareContainerError" /\ r.s = sc
    BY <1>2, <2>1, SCResumeLemma DEF IInv, Resume
  <2>3. sc' = r.s /\ reply' = [op |-> "resume", res |-> r.res] /\ alive /\ alive' = alive
    BY <1>2, <2>1 DEF Resume, Answered
  <2>4. Lifecycle!Resume \/ LXCRefuses("resume", "SUSPENDED")
    BY <2>2, <2>3 DEF RefusedFor, LXCRefuses, Lifecycle!Resume, Lifecycle!Refused,
                      Lifecycle!Works, Lifecycle!Answer
  <2> QED  BY <2>3, <2>4
<1>3. CASE Shutdown
  <2>1. PICK r \in SCShutdownOut(sc) : Answered("shutdown", r)
    BY <1>3 DEF Shutdown
  <2>2. \/ RefusedFor(r, sc, Mortal)
        \/ sc.state \in Mortal /\ r.res = "ok" /\ r.s.state = "TERMINATED"
        \/ sc.state \in Mortal /\ r.res = "ContainerError" /\ r.s.state = "INVALID"
    BY <1>3, <2>1, SCShutdownLemma DEF IInv, Shutdown
  <2>3. Lifecycle!Shutdown
    BY <2>1, <2>2 DEF Answered, RefusedFor, Mortal, Lifecycle!Shutdown, Lifecycle!Refused,
                      Lifecycle!Works, Lifecycle!Breaks, Lifecycle!Answer
  <2> QED  BY <1>3, <2>3 DEF Shutdown
<1>4. ASSUME NEW cfg \in Configs, NEW unknown \in BOOLEAN, StartGateways(cfg, unknown)
      PROVE  Lifecycle!Next
  <2>1. alive /\ alive' = alive
    BY <1>4 DEF StartGateways
  <2>2. Refusal(sc, {"READY"}) = "none" <=> sc.state = "READY"
    BY RefusalLemma
  <2>3. CASE sc.state # "READY"
    <3>1. /\ Answered("startGateways", Reply(Refusal(sc, {"READY"}), sc))
          /\ RefusedFor(Reply(Refusal(sc, {"READY"}), sc), sc, {"READY"})
      BY <1>4, <2>2, <2>3, RefusalLemma DEF StartGateways
    <3>2. Lifecycle!Refused("startGateways", {"READY"})
      BY <3>1 DEF Answered, RefusedFor, Lifecycle!Refused, Lifecycle!Answer
    <3> QED  BY <2>1, <3>2 DEF Lifecycle!Use, Lifecycle!UseOps
  <2>4. CASE sc.state = "READY"
    <3>1. PICK r \in StartGatewaysOut(gws, cfg, unknown) :
             Answered("startGateways",
               Reply(StartResult(r.res), [sc EXCEPT !.prev = IF r.res = "true" THEN TRUE ELSE @]))
      BY <1>4, <2>2, <2>4 DEF StartGateways
    <3>2. /\ sc' = [sc EXCEPT !.prev = IF r.res = "true" THEN TRUE ELSE sc.prev]
          /\ reply' = [op |-> "startGateways", res |-> StartResult(r.res)]
      BY <3>1, ReplyFields DEF Answered
    <3>3. sc \in SoftwareContainerRec /\ sc.prev \in BOOLEAN
      BY DEF IInv, TypeOK, SoftwareContainerRec
    <3>4. sc'.state = sc.state
      BY <3>2, <3>3, PrevFields
    <3>5. StartResult(r.res) \in {"ok", "false", "GatewayError"}
      BY DEF StartResult
    <3> QED  BY <2>1, <2>4, <3>2, <3>4, <3>5 DEF Lifecycle!Use, Lifecycle!UseOps, Lifecycle!Answer
  <2> QED  BY <2>3, <2>4
<1>5. ASSUME NEW op \in {"bindMount", "createFunctionJob", "createCommandJob"}, UseReady(op)
      PROVE  Lifecycle!Next
  <2>1. alive /\ alive' = alive
    BY <1>5 DEF UseReady
  <2>2. PICK res : /\ Answered(op, Reply(res, sc))
                   /\ \/ RefusedFor(Reply(res, sc), sc, {"READY"})
                      \/ sc.state = "READY" /\ res \in {"ok", "false"}
    BY <1>5, RefusalLemma DEF UseReady
  <2>3. sc' = sc /\ reply' = [op |-> op, res |-> res]
    BY <2>2, ReplyFields DEF Answered
  <2>4. Lifecycle!Use(op)
    BY <2>2, <2>3, ReplyFields DEF RefusedFor, Lifecycle!Use, Lifecycle!Refused, Lifecycle!Answer
  <2> QED  BY <2>1, <2>4 DEF Lifecycle!UseOps
<1>6. CASE Destruct
  <2>1. PICK c \in SCDestructOut(sc.c) : sc' = Now(sc, sc.state, c)
    BY <1>6 DEF Destruct
  <2>2. /\ sc \in SoftwareContainerRec /\ sc.state \in SCStates
        /\ c \in ContainerRec
    BY <1>6, DestructLemma DEF Destruct, IInv, Healthy, SoftwareContainerRec
  <2>3. sc'.state = sc.state
    BY <2>1, <2>2, NowFields
  <2> QED  BY <1>6, <2>3 DEF Destruct, Lifecycle!Destruct, Lifecycle!Answer
<1>7. CASE InitDies
  <2>1. /\ sc \in SoftwareContainerRec /\ sc.state \in SCStates
        /\ InitDied(sc.c) \in ContainerRec
    BY <1>7, InitDiedLemma DEF InitDies, IInv, Healthy, SoftwareContainerRec, Keeps, Sound
  <2>2. sc'.state = sc.state
    BY <1>7, <2>1, NowFields DEF InitDies
  <2> QED  BY <1>7, <2>2 DEF InitDies, NoReply, Lifecycle!Unseen, Lifecycle!Answer
<1>8. CASE UNCHANGED vars
  BY <1>8 DEF vars, Lifecycle!vars
<1> QED  BY <1>1, <1>2, <1>3, <1>4, <1>5, <1>6, <1>7, <1>8 DEF Next

\* The object implements the documented life cycle, save that it survives a suspend() or
\* resume() that LXC refuses in the state it was in.
THEOREM LifecycleRefinement == Spec => ImplementsLifecycle
<1>1. Init => Lifecycle!Init
  BY DEF Init, NoReply, Lifecycle!Init
<1> QED  BY <1>1, LifecycleLemma, Invariance, PTL DEF Spec, ImplementsLifecycle

\* Only a failed shutdown makes the object INVALID.
THEOREM OnlyShutdownInvalidates == Spec => InvalidOnlyByShutdown
<1>1. ASSUME IInv, [Next]_vars, sc.state # "INVALID", sc'.state = "INVALID"
      PROVE  reply'.op = "shutdown"
  <2>1. CASE Suspend
    <3>1. PICK r \in SCSuspendOut(sc) : sc' = r.s
      BY <2>1 DEF Suspend, Answered
    <3>2. RefusedFor(r, sc, {"READY"}) \/ r.s.state = "SUSPENDED" \/ r.s = sc
      BY <1>1, <2>1, SCSuspendLemma DEF IInv, Suspend
    <3> QED  BY <1>1, <3>1, <3>2 DEF RefusedFor
  <2>2. CASE Resume
    <3>1. PICK r \in SCResumeOut(sc) : sc' = r.s
      BY <2>2 DEF Resume, Answered
    <3>2. RefusedFor(r, sc, {"SUSPENDED"}) \/ r.s.state = "READY" \/ r.s = sc
      BY <1>1, <2>2, SCResumeLemma DEF IInv, Resume
    <3> QED  BY <1>1, <3>1, <3>2 DEF RefusedFor
  <2>3. CASE Shutdown
    BY <2>3 DEF Shutdown, Answered
  <2>4. CASE ~Suspend /\ ~Resume /\ ~Shutdown
    <3>1. LifecycleStep
      BY <1>1, <2>4, LifecycleLemma DEF Lifecycle!vars
    <3>2. Next
      BY <1>1 DEF vars
    <3>3. reply'.op \notin {"suspend", "resume"}
      <4>1. ASSUME NEW cfg \in Configs, NEW unknown \in BOOLEAN, StartGateways(cfg, unknown)
            PROVE  reply'.op = "startGateways"
        <5>1. \E r : Answered("startGateways", r)
          BY <4>1, Zenon DEF StartGateways
        <5> QED  BY <5>1 DEF Answered
      <4>2. ASSUME NEW op \in {"bindMount", "createFunctionJob", "createCommandJob"}, UseReady(op)
            PROVE  reply'.op = op
        BY <4>2 DEF UseReady, Answered
      <4>3. CASE Destruct \/ InitDies
        BY <4>3 DEF Destruct, InitDies, NoReply
      <4> QED  BY <2>4, <3>2, <4>1, <4>2, <4>3 DEF Next
    <3> QED  BY <1>1, <3>1, <3>3
         DEF LifecycleStep, LXCRefuses, Lifecycle!Next, Lifecycle!Call, Lifecycle!Suspend,
             Lifecycle!Resume, Lifecycle!Shutdown, Lifecycle!Use, Lifecycle!Unseen,
             Lifecycle!Destruct, Lifecycle!Refused, Lifecycle!Works, Lifecycle!Breaks,
             Lifecycle!Answer
  <2> QED  BY <2>1, <2>2, <2>3, <2>4
<1>2. IInv /\ [Next]_vars =>
         [sc.state # "INVALID" /\ sc'.state = "INVALID" => reply'.op = "shutdown"]_vars
  BY <1>1
<1> QED  BY <1>2, Invariance, PTL DEF Spec, InvalidOnlyByShutdown

\* Only startGateways itself answers startGateways with true, and only if it has
\* reached the end of both loops.
LEMMA StartedTrueLemma ==
    ASSUME IInv, Next, reply' = [op |-> "startGateways", res |-> "ok"]
    PROVE  /\ GoodGws(gws)
           /\ \A i \in Gateways \ Dynamic : gws[i].st # GwACTIVATED
<1>1. PICK cfg \in Configs : \E unknown \in BOOLEAN : StartGateways(cfg, unknown)
  BY DEF Next, Suspend, Resume, Shutdown, UseReady, Destruct, InitDies, Answered, NoReply
<1>2. PICK unknown \in BOOLEAN : StartGateways(cfg, unknown)
  BY <1>1
<1>3. sc.state = "READY"
  <2>1. Refusal(sc, {"READY"}) # "none" =>
           reply' = [op |-> "startGateways", res |-> Refusal(sc, {"READY"})]
    BY <1>2, ReplyFields DEF StartGateways, Answered
  <2>2. Refusal(sc, {"READY"}) # "ok"
    BY DEF Refusal
  <2> QED  BY <2>1, <2>2, RefusalLemma
<1>4. GoodGws(gws) /\ GoodCfg(cfg)
  BY <1>2, <1>3, ConfigsLemma DEF IInv, StartGateways, Mortal
<1>5. PICK r \in StartGatewaysOut(gws, cfg, unknown) :
         reply' = [op |-> "startGateways", res |-> StartResult(r.res)]
  <2>1. Refusal(sc, {"READY"}) = "none"
    BY <1>3, RefusalLemma
  <2>2. PICK r \in StartGatewaysOut(gws, cfg, unknown) :
           Answered("startGateways",
             Reply(StartResult(r.res), [sc EXCEPT !.prev = IF r.res = "true" THEN TRUE ELSE @]))
    BY <1>2, <2>1 DEF StartGateways
  <2> QED  BY <2>2, ReplyFields DEF Answered
<1>6. r.res = "true"
  BY <1>5 DEF StartResult
<1> QED  BY <1>4, <1>6, StartGatewaysLemma

\* Once a gateway that is not dynamic has been activated, no startGateways ever
\* returns true again.
THEOREM StaticGatewaysAreFinal == Spec => StaticGatewayIsFinal
<1>1. IInv /\ [Next]_vars =>
         [(\E i \in Gateways \ Dynamic : gws # NoGateways /\ gws[i].st = GwACTIVATED)
            => reply' # [op |-> "startGateways", res |-> "ok"]]_vars
  BY StartedTrueLemma
<1> QED  BY <1>1, Invariance, PTL DEF Spec, StaticGatewayIsFinal

\* Wherever the gateways are dropped, those that run a process are torn down.
LEMMA DropLemma ==
    ASSUME IInv, Next, gws # NoGateways, gws' = NoGateways
    PROVE  {i \in Flagging : gws[i].live # {}} \subseteq torn'
<1>1. GoodGws(gws)
  BY DEF IInv
<1>2. {i \in Flagging : gws[i].live # {}} \subseteq TornDown(gws) \cap Flagging
  BY <1>1, GatewayAssumption DEF GoodGws, Known, TornDown, IsActivated
<1>3. CASE Shutdown \/ Destruct
  BY <1>2, <1>3 DEF Shutdown, Destruct
<1>4. ASSUME NEW cfg \in Configs, NEW unknown \in BOOLEAN, StartGateways(cfg, unknown)
      PROVE  Flagging = {}
  <2>2. Refusal(sc, {"READY"}) = "none"
    BY <1>4 DEF StartGateways, NoGateways
  <2>3. PICK r \in StartGatewaysOut(gws, cfg, unknown) : gws' = r.gws
    BY <1>4, <2>2 DEF StartGateways
  <2>4. GoodGws(r.gws)
    BY <1>1, <2>3, ConfigsLemma, StartGatewaysLemma
  <2>5. DOMAIN gws' = Gateways /\ DOMAIN gws' = {}
    BY <2>3, <2>4 DEF GoodGws, NoGateways
  <2> QED  BY <2>5, GatewayAssumption
<1> QED  BY <1>3, <1>4 DEF Next, Suspend, Resume, UseReady, InitDies

\* No proxy process outlives the gateway that started it.
THEOREM ProxiesDoNotOutliveGateways == Spec => ProxiesAreStopped
<1>1. IInv /\ [Next]_vars =>
         [gws # NoGateways /\ gws' = NoGateways
            => {i \in Flagging : gws[i].live # {}} \subseteq torn']_vars
  BY DropLemma
<1> QED  BY <1>1, Invariance, PTL DEF Spec, ProxiesAreStopped
=============================================================================
