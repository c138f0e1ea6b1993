----------------------------- MODULE ConfigStore -----------------------------
(***************************************************************************)
(* The two capability stores of the agent (BaseConfigStore and its         *)
(* subclasses), ServiceManifestFileLoader, and the GatewayConfiguration    *)
(* objects that the stores keep and hand out.  A GatewayConfiguration maps *)
(* gateway ids to JSON arrays that are shared and counted, so the arrays   *)
(* are cells of a heap.  Strings and JSON are what the code tells apart;   *)
(* the element of a gateway's configuration is named after its origin:     *)
(* store, manifest, entry and gateway.                                     *)
(*                                                                         *)
(* Constructor and calls take one step for each round of their loops.      *)
(***************************************************************************)
EXTENDS Naturals, Sequences, FiniteSets, SequencesExt

CONSTANTS
    FilteredContents, DefaultContents,   \* manifests the paths of the stores may hold
    Requests,                            \* lists of capabilities a client may ask for
    MaxRequests                          \* bound on the requests

\* A manifest is unreadable, has no array of capabilities, or has entries: a name and a
\* sequence of gateways, each of them well-formed or not.
GatewayRec  == [id : STRING, ok : BOOLEAN]
EntryRec    == [name : STRING, gateways : Seq(GatewayRec)]
ManifestRec == [kind : {"unreadable", "nocaps", "ok"}, entries : Seq(EntryRec)]

ASSUME StoreAssumption ==
    /\ FilteredContents \subseteq Seq(ManifestRec) /\ DefaultContents \subseteq Seq(ManifestRec)
    /\ Requests \subseteq Seq(STRING) /\ MaxRequests \in Nat

Stores == <<"filtered", "default">>      \* in the order the agent makes them
Names  == {"filtered", "default"}
Paths  == {"empty", "root", "dir", "json", "other", "missing"}
Empty  == <<>>                           \* a map without keys

VARIABLES
    path,      \* what each store's path is
    content,   \* the manifests there, in the order they are read
    status,    \* "loading", "up", "failing" or "failed"
    store,     \* the store that is being made, an index of Stores
    next,      \* its next manifest, or 0 if they are not loaded yet
    entry,     \* the next entry of that manifest
    gateway,   \* and the next gateway of that entry
    heap,      \* the JSON arrays: elements and reference count
    capMap,    \* m_capMap of each store: for a capability, ids and addresses of arrays
    local,     \* the GatewayConfigurations on the stack: ids and addresses
    call,      \* the method that is running, or "none"
    todo,      \* the capabilities that the loop of configs has before it
    pos,       \* the next capability of the loop of configsByID
    request,   \* the capabilities last asked for
    answer,    \* the outcome: "none", "ok" or "notfound"
    given,     \* the configuration passed to startGateways: ids and elements
    requests

manifestVars == <<path, content>>
loadVars     == <<store, next, entry, gateway>>
callVars     == <<call, todo, pos, request, answer, given, requests>>
storeVars    == <<manifestVars, status, loadVars, heap, capMap, local, callVars>>

\* What a path holds: the manifests of a directory, one file, or nothing that is read.
Fits(p, c) == (p = "json" => Len(c) = 1) /\ (p \notin {"dir", "json"} => c = <<>>)

StoreInit ==
    /\ path \in [Names -> Paths]
    /\ \E f \in FilteredContents, d \in DefaultContents :
         content = [s \in Names |-> IF s = "filtered" THEN f ELSE d]
    /\ \A s \in Names : Fits(path[s], content[s])
    /\ status = "loading" /\ store = 1 /\ next = 0 /\ entry = 1 /\ gateway = 1
    /\ heap = Empty /\ capMap = [s \in Names |-> Empty] /\ local = Empty
    /\ call = "none" /\ todo = {} /\ pos = 1
    /\ request = <<>> /\ answer = "none" /\ given = Empty /\ requests = 0

----------------------------------------------------------------------------
(***************************************************************************)
(* GatewayConfiguration.  A value g is the map of one object with the heap.*)
(* The address of an array is <<n, id>>: it is made for the gateway id, in *)
(* an append that made arrays of one number.                               *)
(***************************************************************************)
NewConf(h)   == [heap |-> h, map |-> Empty]
Free(h)      == CHOOSE n \in 0..Cardinality(DOMAIN h) : \A a \in DOMAIN h : a[1] # n
Targets(map) == {map[id] : id \in DOMAIN map}
Value(g)     == [id \in DOMAIN g.map |-> g.heap[g.map[id]].elems]
One(key, v)  == [x \in {key} |-> v]
Joined(f, g) == [x \in DOMAIN f \cup DOMAIN g |-> IF x \in DOMAIN f THEN f[x] ELSE g[x]]

\* The arrays after an append: elements go behind those that are there, or into a new
\* array.
Grown(g, more) ==
    [a \in DOMAIN g.heap |->
       IF a \in Targets(g.map) /\ a[2] \in DOMAIN more
       THEN [g.heap[a] EXCEPT !.elems = @ \o more[a[2]]] ELSE g.heap[a]]

NewArrays(g, more) == [id \in DOMAIN more \ DOMAIN g.map |-> <<Free(g.heap), id>>]

Appended(g, more) ==
    LET new  == NewArrays(g, more)
        made == [a \in Targets(new) |-> [elems |-> more[a[2]], refs |-> 1]]
    IN  [heap |-> Joined(Grown(g, more), made), map |-> Joined(g.map, new)]

\* append of an array, whose elements are copied.
AppendArray(g, id, elems) == Appended(g, One(id, elems))

\* Mutant: the arrays are shared without a reference.
AssignedPlain(h, map) == h

\* operator=: the arrays are shared.
Assigned(h, map) ==
    [a \in DOMAIN h |-> IF a \in Targets(map) THEN [h[a] EXCEPT !.refs = @ + 1] ELSE h[a]]

\* Mutant: an array is shared instead of copied.
AppendConfShares(g, from) ==
    LET both == DOMAIN g.map \cap DOMAIN from
        sum  == Appended(g, [id \in both |-> g.heap[from[id]].elems])
        new  == [id \in DOMAIN from \ both |-> from[id]]
    IN  [heap |-> Assigned(sum.heap, new), map |-> Joined(sum.map, new)]

\* append of another configuration, array by array.
AppendConf(g, from) == Appended(g, Value([heap |-> g.heap, map |-> from]))

\* The copy constructor.
CopyOf(h, map) == AppendConf(NewConf(h), map)

\* Mutant: an array is kept when nobody refers to it.
DestroyedKeeps(h, map) ==
    [a \in DOMAIN h |-> IF a \in Targets(map) THEN [h[a] EXCEPT !.refs = @ - 1] ELSE h[a]]

\* The destructor.
Destroyed(h, map) ==
    LET left == [a \in DOMAIN h |-> IF a \in Targets(map) THEN [h[a] EXCEPT !.refs = @ - 1] ELSE h[a]]
    IN  [a \in {b \in DOMAIN h : left[b].refs > 0} |-> left[a]]

\* What is on the stack under a name.
Local(v) == [heap |-> heap, map |-> local[v]]

----------------------------------------------------------------------------
(***************************************************************************)
(* Loading.  An error ends the agent's constructor: what is on the stack   *)
(* is destroyed, then what the stores hold.                                *)
(***************************************************************************)
Fail == status' = "failing" /\ UNCHANGED <<loadVars, heap, capMap, local>>

Unwind ==
    /\ status = "failing"
    /\ \/ /\ local # Empty
          /\ heap' = Destroyed(heap, local["gwConf"]) /\ local' = Empty
          /\ UNCHANGED <<status, capMap>>
       \/ \E s \in Names : \E c \in DOMAIN capMap[s] :
            /\ local = Empty
            /\ heap' = Destroyed(heap, capMap[s][c])
            /\ capMap' = [capMap EXCEPT ![s] = [b \in DOMAIN capMap[s] \ {c} |-> capMap[s][b]]]
            /\ UNCHANGED <<status, local>>
       \/ /\ local = Empty /\ \A s \in Names : DOMAIN capMap[s] = {}
          /\ status' = "failed" /\ UNCHANGED <<heap, capMap, local>>
    /\ UNCHANGED <<manifestVars, loadVars, callVars>>

Current == Stores[store]
CurrentManifest == content[Current][next]
CurrentEntry == CurrentManifest.entries[entry]

\* loadContent
LoadContent ==
    /\ status = "loading" /\ next = 0
    /\ IF \/ path[Current] \in {"root", "other", "missing"}
          \/ \E m \in DOMAIN content[Current] : content[Current][m].kind = "unreadable"
       THEN Fail
       ELSE next' = 1 /\ UNCHANGED <<status, store, entry, gateway, heap, capMap, local>>
    /\ UNCHANGED <<manifestVars, callVars>>

\* parseServiceManifest: one entry, or the end of the manifest.  A capability that is
\* there is left alone, before its gateways are looked at.
ParseServiceManifest ==
    /\ status = "loading" /\ next \in DOMAIN content[Current] /\ local = Empty
    /\ \/ CurrentManifest.kind # "ok" /\ Fail
       \/ /\ CurrentManifest.kind = "ok" /\ entry \in DOMAIN CurrentManifest.entries
          /\ IF CurrentEntry.name \in DOMAIN capMap[Current]
             THEN entry' = entry + 1 /\ UNCHANGED <<gateway, local>>
             ELSE gateway' = 1 /\ local' = [v \in {"gwConf"} |-> Empty] /\ UNCHANGED entry
          /\ UNCHANGED <<status, store, next, heap, capMap>>
       \/ /\ CurrentManifest.kind = "ok" /\ entry = Len(CurrentManifest.entries) + 1
          /\ next' = next + 1 /\ entry' = 1
          /\ UNCHANGED <<status, store, gateway, heap, capMap, local>>
    /\ UNCHANGED <<manifestVars, callVars>>

\* parseGatewayConfigs: one gateway, or the end of the entry, where what was collected is
\* assigned to the map and the collection destroyed.
ParseGatewayConfigs ==
    /\ status = "loading" /\ local # Empty
    /\ \/ /\ gateway \in DOMAIN CurrentEntry.gateways /\ ~CurrentEntry.gateways[gateway].ok /\ Fail
       \/ /\ gateway \in DOMAIN CurrentEntry.gateways /\ CurrentEntry.gateways[gateway].ok
          /\ LET g == AppendArray(Local("gwConf"), CurrentEntry.gateways[gateway].id,
                                  <<<<Current, next, entry, gateway>>>>)
             IN  heap' = g.heap /\ local' = [v \in {"gwConf"} |-> g.map]
          /\ gateway' = gateway + 1
          /\ UNCHANGED <<status, store, next, entry, capMap>>
       \/ /\ gateway = Len(CurrentEntry.gateways) + 1
          /\ heap' = Destroyed(Assigned(heap, local["gwConf"]), local["gwConf"])
          /\ capMap' = [capMap EXCEPT ![Current] = Joined(One(CurrentEntry.name, local["gwConf"]), @)]
          /\ local' = Empty /\ entry' = entry + 1
          /\ UNCHANGED <<status, store, next, gateway>>
    /\ UNCHANGED <<manifestVars, callVars>>

StoreIsMade ==
    /\ status = "loading" /\ next = Len(content[Current]) + 1
    /\ IF store = Len(Stores) THEN status' = "up" /\ UNCHANGED <<store, next>>
       ELSE store' = store + 1 /\ next' = 0 /\ UNCHANGED status
    /\ UNCHANGED <<manifestVars, entry, gateway, heap, capMap, local, callVars>>

----------------------------------------------------------------------------
(***************************************************************************)
(* Requests.  Both begin with the default capabilities.                    *)
(***************************************************************************)
Begin(name, vs) ==
    /\ call' = name /\ todo' = DOMAIN capMap["default"] /\ pos' = 1
    /\ local' = [v \in vs |-> Empty]

\* The objects on the stack go, the last one first, and the method has ended.
End(h) ==
    /\ heap' = h /\ local' = Empty /\ call' = "none"
    /\ UNCHANGED <<manifestVars, status, loadVars, capMap, todo, pos, request, requests>>

\* SoftwareContainerAgent::setCapabilities; an empty request is answered at once.
CallSetCapabilities(ids) ==
    /\ status = "up" /\ call = "none" /\ requests < MaxRequests
    /\ requests' = requests + 1 /\ request' = ids /\ given' = Empty
    /\ IF ids = <<>> THEN answer' = "ok" /\ UNCHANGED <<call, todo, pos, local>>
       ELSE answer' = "none" /\ Begin("setCapabilities", {"gatewayConfigs", "filteredConfigs"})
    /\ UNCHANGED <<manifestVars, status, loadVars, heap, capMap>>

\* execute in a container that was not configured: the default capabilities.
ExecuteUnconfigured ==
    /\ status = "up" /\ call = "none" /\ requests < MaxRequests
    /\ requests' = requests + 1 /\ request' = <<>> /\ given' = Empty /\ answer' = "none"
    /\ Begin("execute", {"gatewayConfigs"})
    /\ UNCHANGED <<manifestVars, status, loadVars, heap, capMap>>

\* DefaultConfigStore::configs, one capability.
Configs ==
    /\ call # "none" /\ todo # {}
    /\ LET c == CHOOSE b \in todo : TRUE
           g == AppendConf(Local("gatewayConfigs"), capMap["default"][c])
       IN  /\ heap' = g.heap /\ local' = [local EXCEPT !["gatewayConfigs"] = g.map]
           /\ todo' = todo \ {c}
    /\ UNCHANGED <<manifestVars, status, loadVars, capMap, call, pos, request, answer, given, requests>>

\* configByID; an unknown capability has an empty configuration.
ConfigByID(h, id) ==
    IF id \in DOMAIN capMap["filtered"] THEN CopyOf(h, capMap["filtered"][id]) ELSE NewConf(h)

\* FilteredConfigStore::configsByID, one capability: the copy is appended and destroyed.
ConfigsByID ==
    /\ call = "setCapabilities" /\ todo = {} /\ pos \in DOMAIN request
    /\ LET one == ConfigByID(heap, request[pos])
           sum == AppendConf([heap |-> one.heap, map |-> local["filteredConfigs"]], one.map)
       IN  /\ heap' = Destroyed(sum.heap, one.map)
           /\ local' = [local EXCEPT !["filteredConfigs"] = sum.map]
    /\ pos' = pos + 1
    /\ UNCHANGED <<manifestVars, status, loadVars, capMap, call, todo, request, answer, given, requests>>

\* The end of setCapabilities: nothing was found, or updateGatewayConfigs.
CapabilitiesSet ==
    /\ call = "setCapabilities" /\ todo = {} /\ pos = Len(request) + 1
    /\ LET d   == Local("gatewayConfigs")
           f   == Local("filteredConfigs")
           all == AppendConf(d, f.map)
       IN  \/ /\ f.map = Empty
              /\ answer' = "notfound" /\ given' = Empty
              /\ End(Destroyed(Destroyed(heap, f.map), d.map))
           \/ /\ f.map # Empty
              /\ answer' = "ok" /\ given' = Value(all)
              /\ End(Destroyed(Destroyed(all.heap, f.map), all.map))

DefaultsSet ==
    /\ call = "execute" /\ todo = {}
    /\ given' = Value(Local("gatewayConfigs")) /\ UNCHANGED answer
    /\ End(Destroyed(heap, local["gatewayConfigs"]))

StoreRest ==
    /\ status = "failed" \/ (requests = MaxRequests /\ call = "none")
    /\ UNCHANGED storeVars

StoreNext ==
    \/ LoadContent \/ ParseServiceManifest \/ ParseGatewayConfigs \/ StoreIsMade \/ Unwind
    \/ \E ids \in Requests : CallSetCapabilities(ids)
    \/ ExecuteUnconfigured \/ Configs \/ ConfigsByID \/ CapabilitiesSet \/ DefaultsSet
    \/ StoreRest

StoreSpec == StoreInit /\ [][StoreNext]_storeVars

----------------------------------------------------------------------------
\* Every array is one that somebody refers to, and the loops stay within their bounds.
StoreTypeOK ==
    /\ status \in {"loading", "up", "failing", "failed"} /\ answer \in {"none", "ok", "notfound"}
    /\ store \in DOMAIN Stores /\ next \in 0..(Len(content[Current]) + 1)
    /\ DOMAIN local = CASE call = "setCapabilities" -> {"gatewayConfigs", "filteredConfigs"}
                        [] call = "execute" -> {"gatewayConfigs"}
                        [] call = "none" -> IF local = Empty THEN {} ELSE {"gwConf"}
    /\ requests \in 0..MaxRequests
    /\ \A a \in DOMAIN heap : heap[a].refs \in Nat \ {0}

\* The objects that there are: those of the stores and those on the stack.
InStores(cm) == UNION {{<<s, c>> : c \in DOMAIN cm[s]} : s \in Names}
OnStack(l)   == {<<"local", v>> : v \in DOMAIN l}
Objects      == InStores(capMap) \cup OnStack(local)

MapOf(o)  == IF o[1] = "local" THEN local[o[2]] ELSE capMap[o[1]][o[2]]
Owners(a) == {o \in Objects : a \in Targets(MapOf(o))}

\* The counts are right at every step of a call, and of a constructor that is undone: an
\* array has one reference for each object that uses it, all of these are there, and
\* there are no others.
RefsAreOwners ==
    /\ \A a \in DOMAIN heap : heap[a].refs = Cardinality(Owners(a))
    /\ \A o \in Objects : Targets(MapOf(o)) \subseteq DOMAIN heap

ValueOf(s, c) == Value([heap |-> heap, map |-> capMap[s][c]])

\* What a capability means never changes once the agent is up, whatever is asked for.
StoreIsConstant ==
    [][status = "up" => \A s \in Names : \A c \in DOMAIN capMap[s] :
          c \in DOMAIN capMap'[s] /\ ValueOf(s, c) = ValueOf(s, c)']_storeVars

Entries(s) == UNION {{<<m, k>> : k \in DOMAIN content[s][m].entries} : m \in DOMAIN content[s]}
EntriesOf(s, c) == {e \in Entries(s) : content[s][e[1]].entries[e[2]].name = c}

\* What an entry says of a gateway, and the gateways it speaks of.
GatewaysIn(s, e)    == content[s][e[1]].entries[e[2]].gateways
GatewayIds(s, e)    == {GatewaysIn(s, e)[j].id : j \in DOMAIN GatewaysIn(s, e)}
Elements(s, e, id)  ==
    {<<s, e[1], e[2], j>> : j \in {i \in DOMAIN GatewaysIn(s, e) : GatewaysIn(s, e)[i].id = id}}

\* A capability holds nothing but what entries of its own name, in its own store, say of
\* the gateway in question; one that has a single entry holds all that this entry says.
\* Of a name with several entries no more is claimed: see EntriesAreCombined.
EntriesAreKept ==
    \A s \in Names : \A c \in DOMAIN capMap[s] :
        /\ \A id \in DOMAIN capMap[s][c] :
             ToSet(ValueOf(s, c)[id]) \subseteq UNION {Elements(s, e, id) : e \in EntriesOf(s, c)}
        /\ \A e \in EntriesOf(s, c) : EntriesOf(s, c) = {e} =>
             /\ DOMAIN capMap[s][c] = GatewayIds(s, e)
             /\ \A id \in DOMAIN capMap[s][c] : ToSet(ValueOf(s, c)[id]) = Elements(s, e, id)

\* The documentation's claim: "If two service manifests contain capabilities with the same
\* name the gateway configurations will be combined" (10-service-manifests.rst).  Once the
\* agent is up, a capability holds what every entry of its name says.  It does not:
\* parseGatewayConfigs leaves a name that is "already loaded" as it is.
EntriesAreCombined ==
    status = "up" =>
        \A s \in Names : \A c \in DOMAIN capMap[s] : \A e \in EntriesOf(s, c) :
            \A id \in GatewayIds(s, e) :
                /\ id \in DOMAIN capMap[s][c]
                /\ Elements(s, e, id) \subseteq ToSet(ValueOf(s, c)[id])

IdsOf(s, c)         == IF c \in DOMAIN capMap[s] THEN DOMAIN capMap[s][c] ELSE {}
HasElement(s, c, id, x) == id \in IdsOf(s, c) /\ x \in ToSet(ValueOf(s, c)[id])

\* How often an element is in an array.
Occurrences(array, x) == Cardinality({i \in DOMAIN array : array[i] = x})

Stored == UNION {ToSet(heap[a].elems) : a \in DOMAIN heap}

\* A successful request whose names are all known gives the container the default
\* capabilities and those it asked for, each element as often as it asked for it, and
\* nothing else.  (One with an unknown name among known ones succeeds too, although the
\* documentation calls a missing capability fatal; nothing is claimed of it.)
GivenIsAsked ==
    answer = "ok" /\ request # <<>> /\ ToSet(request) \subseteq DOMAIN capMap["filtered"] =>
        /\ DOMAIN given = UNION ({IdsOf("filtered", request[k]) : k \in DOMAIN request}
                                 \cup {IdsOf("default", c) : c \in DOMAIN capMap["default"]})
        /\ \A id \in DOMAIN given : \A x \in ToSet(given[id]) \cup Stored :
             Occurrences(given[id], x) =
                 Cardinality({k \in DOMAIN request : HasElement("filtered", request[k], id, x)})
                 + Cardinality({c \in DOMAIN capMap["default"] : HasElement("default", c, id, x)})

\* The stores mix up no capabilities and lose none of an only entry, share the arrays
\* without losing count of them, and give out what was asked for.
StoreIsSound == RefsAreOwners /\ EntriesAreKept /\ GivenIsAsked
=============================================================================
