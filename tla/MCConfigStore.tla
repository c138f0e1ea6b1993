---------------------------- MODULE MCConfigStore ----------------------------
(***************************************************************************)
(* Manifests for model checking: capabilities with one gateway, two, the   *)
(* same one twice, a malformed one or none; the same name in two manifests *)
(* or twice in one.                                                        *)
(***************************************************************************)
EXTENDS ConfigStore

Gw(i)       == [id |-> i, ok |-> TRUE]
Cap(c, gs)  == [name |-> c, gateways |-> gs]
Manifest(e) == [kind |-> "ok", entries |-> e]

GatewayLists == {<<>>, <<Gw("g1")>>, <<Gw("g1"), Gw("g2")>>, <<Gw("g2"), Gw("g2")>>,
                 <<Gw("g1"), [id |-> "g2", ok |-> FALSE]>>}

Manifests ==
    {Manifest(<<Cap(c, gs)>>) : c \in {"c1", "c2"}, gs \in GatewayLists}
    \cup {[kind |-> k, entries |-> <<>>] : k \in {"unreadable", "nocaps"}}
    \cup {Manifest(<<Cap("c1", <<Gw("g1")>>), Cap("c2", <<Gw("g1")>>)>>),
          Manifest(<<Cap("c1", <<Gw("g1")>>), Cap("c1", <<Gw("g2")>>)>>)}

MCFiltered == {<<>>} \cup {<<m>> : m \in Manifests} \cup (Manifests \X Manifests)
MCDefault  == {<<>>, <<Manifest(<<Cap("c2", <<Gw("g1")>>)>>)>>,
               <<Manifest(<<Cap("c1", <<Gw("g1")>>), Cap("c2", <<Gw("g1"), Gw("g2")>>)>>)>>}
MCRequests == {<<>>, <<"c1">>, <<"c2">>, <<"c1", "c2">>, <<"c1", "c1">>, <<"c1", "unknown">>}
=============================================================================
