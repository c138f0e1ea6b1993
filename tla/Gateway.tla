------------------------------- MODULE Gateway -------------------------------
(***************************************************************************)
(* The base class Gateway, and the two loops SoftwareContainer runs over   *)
(* its gateways: configureGateways and activateGateways.                   *)
(*                                                                         *)
(* The gateways are numbered in the order init() adds them.  What a        *)
(* configuration says is a set of elements; a gateway is a record          *)
(*   st      m_state                                                       *)
(*   once    m_activatedOnce                                               *)
(*   stored  the elements readConfigElement has accepted so far; of a pair *)
(*           also those that only one half was asked for, and did not take *)
(*   live    the elements activateGateway has applied to the container     *)
(*                                                                         *)
(* The answer of activateGateway is not always the truth: the D-Bus        *)
(* gateway lets the answer of one bus stand for both, the network gateway  *)
(* skips on a retry what failed before and takes a job that never ran for  *)
(* one that worked, and so does the device node gateway.  These are the    *)
(* gateways of Unchecked.                                                  *)
(***************************************************************************)
EXTENDS Naturals

CONSTANTS
    NGateways,   \* how many gateways the build enables
    Dynamic,     \* those constructed with isDynamic = true
    Flagging,    \* those of them whose activateGateway sets m_activatedOnce
    Unchecked,   \* those that may answer true with elements not applied
    Elements     \* configuration elements

Gateways == 1..NGateways

ASSUME GatewayAssumption ==
    /\ NGateways \in Nat
    /\ Dynamic \subseteq Gateways
    /\ Flagging \subseteq Dynamic
    /\ Unchecked \subseteq Gateways

\* GatewayState
GwCREATED    == 0
GwCONFIGURED == 1
GwACTIVATED  == 2

GatewayRec == [st : GwCREATED..GwACTIVATED, once : BOOLEAN,
               stored : SUBSET Elements, live : SUBSET Elements]

\* The constructor.
NewGateway == [st |-> GwCREATED, once |-> FALSE, stored |-> {}, live |-> {}]

IsConfigured(g) == g.st >= GwCONFIGURED

IsActivated(i, g) == IF i \in Dynamic THEN g.once ELSE g.st >= GwACTIVATED

GwOut(res, g) == [res |-> res, gw |-> g]

\* The D-Bus gateway is a pair of gateways, of which its one record shows what the
\* calls of the pair answered.
Paired == Flagging \cap Unchecked

----------------------------------------------------------------------------
(***************************************************************************)
(* setConfig(config).  A configuration without elements is an empty array  *)
(* or no array at all.  An element that is no object, or that              *)
(* readConfigElement refuses, ends the loop with the elements before it    *)
(* already read; the array's order is the manifest's, so those may be any  *)
(* of the others.                                                          *)
(***************************************************************************)
ConfiguredGw(g, elems) == [g EXCEPT !.stored = @ \cup elems, !.st = GwCONFIGURED]

CanConfigure(i, g, elems) == elems # {} /\ (i \in Dynamic \/ g.st # GwACTIVATED)

\* The elements of S have been read when a later one ends the loop.
ReadGw(g, S, st) == [g EXCEPT !.stored = @ \cup S, !.st = st]

SetConfigFailOut(i, g, elems) ==
    IF g.st = GwACTIVATED /\ i \notin Dynamic THEN {GwOut("throw", g)}
    ELSE {GwOut("false", ReadGw(g, S, st)) :
             S \in {S \in SUBSET elems : S # elems \/ elems = {}},
             st \in {g.st} \cup (IF i \in Paired THEN {GwCONFIGURED} ELSE {})}

\* Mutant: a gateway that already runs is not given its new elements.
ActivatedGwOnce(i, g, lost) ==
    [g EXCEPT !.st = GwACTIVATED, !.live = IF @ = {} THEN g.stored ELSE @,
              !.once = @ \/ i \in Flagging]

\* Mutant: activate() also runs a gateway that is already activated.
CanActivateAgain(g) == g.st >= GwCONFIGURED

\* Mutant: m_activatedOnce is set only once everything has worked.
ActivateFailOutForgets(i, g) ==
    IF g.st # GwCONFIGURED THEN {GwOut("throw", g)}
    ELSE {GwOut("false", [g EXCEPT !.live = @ \cup S]) : S \in SUBSET g.stored}

(***************************************************************************)
(* activate().  A gateway that is not CONFIGURED throws, whether it is     *)
(* dynamic or not; activateGateway may fail with some elements applied.    *)
(* lost are the elements whose failure goes unnoticed, and of a pair one   *)
(* half may throw after the other one has been activated.                  *)
(***************************************************************************)
ActivatedGw(i, g, lost) ==
    [g EXCEPT !.st = GwACTIVATED, !.once = @ \/ i \in Flagging,
              !.live = IF i \in Unchecked THEN @ \cup (g.stored \ lost) ELSE g.stored]

CanActivate(g) == g.st = GwCONFIGURED

\* activateGateway, or one half of a pair, has applied the elements of S.
AppliedGw(i, g, S) == [g EXCEPT !.live = @ \cup S, !.once = @ \/ i \in Flagging]

ActivateFailOut(i, g) ==
    LET fails == (IF g.st = GwCONFIGURED THEN {"false"} ELSE {})
                 \cup (IF g.st # GwCONFIGURED \/ i \in Paired THEN {"throw"} ELSE {})
    IN  {GwOut(res, g) : res \in fails} \cup
        (IF g.st # GwCONFIGURED /\ i \notin Paired THEN {}
         ELSE {GwOut(res, AppliedGw(i, g, S)) : res \in fails, S \in SUBSET g.stored})

(***************************************************************************)
(* shutdownGateways() calls teardown() on these gateways.  A teardown that *)
(* fails is only logged, and m_gateways is cleared after the loop.         *)
(***************************************************************************)
TornDown(gws) == {i \in DOMAIN gws : IsActivated(i, gws[i])}

NoGateways == <<>>

----------------------------------------------------------------------------
(***************************************************************************)
(* A loop over the gateways in order that stops at the first one that      *)
(* fails: Can(i) says gateway i can pass, Done(i) is what it becomes then, *)
(* Fails(i) is the set of its failures.                                    *)
(***************************************************************************)
LoopOut(gws, Can(_), Done(_), Fails(_)) ==
    LET Reaches(k) == \A j \in 1..(k - 1) : Can(j)
        Before(k)  == [j \in Gateways |-> IF j < k THEN Done(j) ELSE gws[j]]
    IN  (IF Reaches(NGateways + 1)
           THEN {[res |-> "true", gws |-> Before(NGateways + 1)]} ELSE {})
        \cup UNION {{[res |-> r.res, gws |-> [Before(k) EXCEPT ![k] = r.gw]] :
                        r \in Fails(k)} :
                    k \in {n \in Gateways : Reaches(n)}}

\* configureGateways(gwConfig): cfg maps the gateways it names to elements.
ConfigureGatewaysOut(gws, cfg) ==
    LET Can(i)   == i \in DOMAIN cfg => CanConfigure(i, gws[i], cfg[i])
        Done(i)  == IF i \in DOMAIN cfg THEN ConfiguredGw(gws[i], cfg[i]) ELSE gws[i]
        Fails(i) == IF i \in DOMAIN cfg THEN SetConfigFailOut(i, gws[i], cfg[i]) ELSE {}
    IN  LoopOut(gws, Can, Done, Fails)

\* activateGateways(), where lost are the elements that fail unnoticed.
ActivateWithOut(gws, lost) ==
    LET Can(i)   == IsConfigured(gws[i]) => CanActivate(gws[i])
        Done(i)  == IF IsConfigured(gws[i]) THEN ActivatedGw(i, gws[i], lost[i]) ELSE gws[i]
        Fails(i) == IF IsConfigured(gws[i]) THEN ActivateFailOut(i, gws[i]) ELSE {}
    IN  LoopOut(gws, Can, Done, Fails)

ActivateGatewaysOut(gws) ==
    UNION {ActivateWithOut(gws, lost) :
              lost \in {f \in [Gateways -> SUBSET Elements] :
                           \A i \in Gateways : f[i] \subseteq
                               IF i \in Unchecked THEN gws[i].stored \ gws[i].live ELSE {}}}

\* startGateways(gwConfig) past its state checks; unknown says that gwConfig
\* names a gateway id no gateway has, which throws before anything is set.
StartGatewaysOut(gws, cfg, unknown) ==
    IF unknown THEN {[res |-> "throw", gws |-> gws]}
    ELSE UNION {IF r.res = "true" THEN ActivateGatewaysOut(r.gws) ELSE {r} :
                r \in ConfigureGatewaysOut(gws, cfg)}
=============================================================================
