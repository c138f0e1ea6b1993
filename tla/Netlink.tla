------------------------------- MODULE Netlink -------------------------------
(***************************************************************************)
(* One Netlink object: its socket, the cache of links, addresses and routes*)
(* that its constructor reads from the kernel, the requests that change an *)
(* interface, and the destructor.  Every message sent and every message    *)
(* received is a step: meanwhile the network of the host changes.          *)
(*                                                                         *)
(* The kernel has the loopback device, index 1, and one device the caller  *)
(* is interested in (the bridge, or eth0), which gets a new index whenever *)
(* it is made again.  An attribute list is one allocation.                 *)
(***************************************************************************)
EXTENDS Naturals, Sequences, FiniteSets, SequencesExt

CONSTANTS
    MaxIndex,     \* bound on the indices the kernel gives out
    MaxLinkCalls, \* bound on the calls
    MaxFailures   \* bound on the system calls and requests that fail

ASSUME NetlinkAssumption == MaxIndex \in Nat \ {0, 1} /\ {MaxLinkCalls, MaxFailures} \subseteq Nat

Loopback == 1
None     == 0          \* no device; also what an empty LinkInfo has for an index
Indices  == 1..MaxIndex
Dump     == <<"getlink", "getaddr", "getroute">>
Setters  == {"linkUp", "setIP", "linkDown", "setDefaultGateway"}
Ops      == {"construct", "findLink", "findAddresses"} \cup Setters

VARIABLES
    kernel,      \* the device: its index, whether it is up and whether it has the address
    lastIndex,   \* the last index given out
    had,         \* history: indices under which the device had the address
    obj,         \* "none", "live" or "gone"
    nl,          \* m_netlinkInitialized and m_hasKernelDump
    links,       \* m_links, m_addresses: the indices in the order they were saved
    addresses,
    fds,         \* open sockets
    lists,       \* attribute lists allocated for links, addresses and routes
    pc,          \* "idle", "send", "read" or "resume"
    todo,        \* requests still to be sent before the call goes on
    inbox,       \* messages of the kernel that were not received yet
    call,        \* the call in progress, or the last one: operation and index
    result,      \* what the last call returned
    found,       \* the index findLink gave the caller
    carried,     \* history: the last request the kernel carried out
    linkCalls, failures, unbound   \* history: sockets whose bind failed

netlinkVars == <<kernel, lastIndex, had, obj, nl, links, addresses, fds, lists, pc, todo, inbox, call,
          result, found, carried, linkCalls, failures, unbound>>

hostVars   == <<kernel, lastIndex, had>>
cacheVars  == <<links, addresses, lists>>
callerVars == <<found, linkCalls>>

NetlinkInit ==
    /\ kernel \in [index : {None, 2}, up : {FALSE}, address : BOOLEAN]
    /\ kernel.address => kernel.index # None
    /\ lastIndex = 2 /\ had = IF kernel.address THEN {kernel.index} ELSE {}
    /\ obj = "none" /\ nl = [inited |-> FALSE, dumped |-> FALSE]
    /\ links = <<>> /\ addresses = <<>> /\ fds = 0
    /\ lists = [k \in {"link", "address", "route"} |-> 0]
    /\ pc = "idle" /\ todo = <<>> /\ inbox = <<>> /\ call = [op |-> "construct", index |-> None]
    /\ result = TRUE /\ found = None /\ carried = call /\ linkCalls = 0 /\ failures = 0 /\ unbound = 0

CanFail  == failures < MaxFailures
Fail     == CanFail /\ failures' = failures + 1

----------------------------------------------------------------------------
(***************************************************************************)
(* The kernel.                                                             *)
(***************************************************************************)
Devices == IF kernel.index = None THEN <<Loopback>> ELSE <<Loopback, kernel.index>>

\* The messages of a dump, or the answer to a request: an acknowledgement if it names
\* a device there is, or, for a route, if the network of the gateway can be reached.
Message(type, index) == [type |-> type, index |-> index]
Ack   == Message("ack", None)
Error == Message("error", None)
Done  == Message("done", None)

Reply(request) ==
    CASE request = "getlink"  -> [k \in 1..Len(Devices) |-> Message("link", Devices[k])] \o <<Done>>
      [] request = "getaddr"  -> (IF kernel.address THEN <<Message("address", kernel.index)>> ELSE <<>>)
                                 \o <<Done>>
      [] request = "getroute" -> <<Message("route", None), Done>>
      [] request = "setDefaultGateway" -> <<IF kernel.up /\ kernel.address THEN Ack ELSE Error>>
      [] OTHER -> <<IF call.index \in ToSet(Devices) THEN Ack ELSE Error>>

CarryOut(request) ==
    CASE request = "linkUp"   -> [kernel EXCEPT !.up = @ \/ call.index = kernel.index]
      [] request = "linkDown" -> [kernel EXCEPT !.up = @ /\ call.index # kernel.index]
      [] request = "setIP"    -> [kernel EXCEPT !.address = @ \/ call.index = kernel.index]
      [] OTHER -> kernel

\* Somebody on the host makes the device, removes it, or gives it the address.
HostChanges ==
    /\ \/ kernel.index = None /\ lastIndex < MaxIndex /\ lastIndex' = lastIndex + 1
          /\ \E a \in BOOLEAN : kernel' = [index |-> lastIndex', up |-> FALSE, address |-> a]
       \/ kernel.index # None /\ kernel' = [index |-> None, up |-> FALSE, address |-> FALSE]
          /\ UNCHANGED lastIndex
       \/ kernel.index # None /\ ~kernel.address /\ kernel' = [kernel EXCEPT !.address = TRUE]
          /\ UNCHANGED lastIndex
    /\ had' = had \cup (IF kernel'.address THEN {kernel'.index} ELSE {})
    /\ UNCHANGED <<obj, nl, cacheVars, fds, pc, todo, inbox, call, result, callerVars, carried,
                   failures, unbound>>

----------------------------------------------------------------------------
(***************************************************************************)
(* The socket.                                                             *)
(***************************************************************************)
\* setupNetlink: no socket, a socket that cannot be bound, or success.
SetupNetlink(ok) ==
    IF nl.inited THEN ok /\ UNCHANGED <<nl, fds, unbound, failures>>
    ELSE \/ ok /\ nl' = [nl EXCEPT !.inited = TRUE] /\ fds' = fds + 1
            /\ UNCHANGED <<unbound, failures>>
         \/ ~ok /\ Fail /\ UNCHANGED <<nl, fds, unbound>>
         \/ ~ok /\ Fail /\ fds' = fds + 1 /\ unbound' = unbound + 1 /\ UNCHANGED nl

\* Mutant: a call that fails is tried again, however often.
EndCallRetries(r) ==
    /\ pc' = IF r \/ call.op = "construct" THEN "idle" ELSE "resume"
    /\ todo' = <<>> /\ result' = r

EndCall(r) == pc' = "idle" /\ todo' = <<>> /\ result' = r

\* Netlink::Netlink
Construct ==
    /\ obj = "none"
    /\ obj' = "live" /\ pc' = "send" /\ todo' = Dump
    /\ \E ok \in BOOLEAN : SetupNetlink(ok)
    /\ UNCHANGED <<hostVars, cacheVars, inbox, call, result, callerVars, carried>>

\* sendMessage, up to the reading of the reply: setupNetlink is tried again, sendmsg
\* may fail, and so may a request the kernel has got.
SendMessage ==
    /\ pc = "send"
    /\ LET request == Head(todo) IN
         \/ /\ SetupNetlink(TRUE)
            /\ inbox' = Reply(request) /\ pc' = "read"
            /\ kernel' = CarryOut(request)
            /\ had' = had \cup (IF kernel'.address THEN {kernel'.index} ELSE {})
            /\ carried' = IF request \in Setters /\ Reply(request) = <<Ack>> THEN call ELSE carried
            /\ UNCHANGED <<lastIndex, todo, result>>
         \/ /\ nl.inited /\ Fail /\ inbox' = <<Error>> /\ pc' = "read"
            /\ UNCHANGED <<hostVars, nl, fds, unbound, todo, result, carried>>
         \/ /\ nl.inited /\ Fail /\ EndCall(FALSE)
            /\ UNCHANGED <<hostVars, nl, fds, unbound, inbox, carried>>
         \/ /\ SetupNetlink(FALSE) /\ EndCall(FALSE)
            /\ UNCHANGED <<hostVars, inbox, carried>>
    /\ UNCHANGED <<obj, cacheVars, call, callerVars>>

\* saveMessage appends to the vector of the message's type.
SaveMessage(msg) ==
    /\ lists' = [lists EXCEPT ![msg.type] = @ + 1]
    /\ links' = IF msg.type = "link" THEN Append(links, msg.index) ELSE links
    /\ addresses' = IF msg.type = "address" THEN Append(addresses, msg.index) ELSE addresses

\* Mutant: the first message that is read ends the loop.
EndsFirst(msg) == TRUE

\* What ends the loop of readMessage.
NetlinkEnds(msg) == msg.type \in {"ack", "done", "error"}

\* sendMessage: a negative status, an error of the kernel, is a failure.
Fails(msg) == msg.type = "error"

\* readMessage: an error ends the call, the end of a dump or an acknowledgement the
\* request, and everything else is saved.  A recvmsg that fails is tried again.
ReadMessage ==
    /\ pc = "read" /\ inbox # <<>>
    /\ inbox' = Tail(inbox)
    /\ LET msg == Head(inbox) IN
         /\ IF msg.type \in DOMAIN lists THEN SaveMessage(msg) ELSE UNCHANGED cacheVars
         /\ \/ Fails(msg) /\ EndCall(FALSE) /\ UNCHANGED nl
            \/ ~Fails(msg) /\ ~NetlinkEnds(msg) /\ UNCHANGED <<nl, pc, todo, result>>
            \/ /\ ~Fails(msg) /\ NetlinkEnds(msg)
               /\ nl' = [nl EXCEPT !.dumped = @ \/ Head(todo) = "getroute"]
               /\ \/ Len(todo) > 1 /\ todo' = Tail(todo) /\ pc' = "send" /\ UNCHANGED result
                  \/ Len(todo) = 1 /\ Head(todo) = "getroute" /\ call.op # "construct"
                     /\ todo' = <<>> /\ pc' = "resume" /\ UNCHANGED result
                  \/ Len(todo) = 1 /\ ~(Head(todo) = "getroute" /\ call.op # "construct")
                     /\ EndCall(TRUE)
    /\ UNCHANGED <<hostVars, obj, fds, call, callerVars, carried, failures, unbound>>

----------------------------------------------------------------------------
(***************************************************************************)
(* The calls.  findLink, findAddresses and linkUp begin with               *)
(* checkKernelDump, the others do not.                                     *)
(***************************************************************************)
CheckKernelDump(op) == op \in {"setIP", "linkDown", "setDefaultGateway"} \/ nl.dumped

Call(op) ==
    /\ obj = "live" /\ pc = "idle" /\ linkCalls < MaxLinkCalls
    /\ linkCalls' = linkCalls + 1 /\ call' = [op |-> op, index |-> found]
    /\ IF CheckKernelDump(op) THEN pc' = "resume" /\ todo' = <<>>
       ELSE pc' = "send" /\ todo' = Dump
    /\ UNCHANGED <<hostVars, obj, nl, cacheVars, fds, inbox, result, found, carried, failures, unbound>>

\* The first link in the cache with the device's name: any but the loopback device.
Named == {k \in DOMAIN links : links[k] # Loopback}

FindLink ==
    /\ found' = IF Named = {} THEN None
                ELSE links[CHOOSE k \in Named : \A j \in Named : k <= j]
    /\ EndCall(Named # {})

\* findAddresses for the index found, and hasAddress on its result.
FindAddresses == UNCHANGED found /\ EndCall(call.index \in ToSet(addresses))

\* linkUp, setIP and linkDown send a request if the link is in the cache; linkDown skips
\* the loopback device.
Known ==
    /\ call.index \in ToSet(links)
    /\ call.op = "linkDown" => call.index # Loopback

Set ==
    /\ IF call.op = "setDefaultGateway" \/ Known
       THEN todo' = <<call.op>> /\ pc' = "send" /\ UNCHANGED result
       ELSE EndCall(FALSE)
    /\ UNCHANGED found

Resume ==
    /\ pc = "resume"
    /\ \/ call.op = "findLink" /\ FindLink
       \/ call.op = "findAddresses" /\ FindAddresses
       \/ call.op \in Setters /\ Set
    /\ UNCHANGED <<hostVars, obj, nl, cacheVars, fds, inbox, call, carried, linkCalls, failures, unbound>>

----------------------------------------------------------------------------
\* clearCache, freeAttributes
ClearCache == [k \in DOMAIN lists |-> 0]

\* Mutant: the socket is closed also if there is none.
ClosedAlways == fds - 1

\* The socket is closed if it was set up.
Closed == IF nl.inited THEN fds - 1 ELSE fds

\* Netlink::~Netlink
Destruct ==
    /\ obj = "live" /\ pc = "idle"
    /\ obj' = "gone"
    /\ fds' = Closed
    /\ lists' = IF nl.dumped THEN ClearCache ELSE lists
    /\ nl' = [nl EXCEPT !.dumped = FALSE]
    /\ UNCHANGED <<hostVars, links, addresses, pc, todo, inbox, call, result, callerVars, carried,
                   failures, unbound>>

NetlinkRest == obj = "gone" /\ UNCHANGED netlinkVars

NetlinkNext ==
    \/ HostChanges \/ Construct \/ SendMessage \/ ReadMessage \/ Resume \/ Destruct \/ NetlinkRest
    \/ \E op \in Ops \ {"construct"} : Call(op)

\* The thread of the call runs, and the kernel answers what it was sent.
NetlinkFairness ==
    WF_netlinkVars(SendMessage) /\ WF_netlinkVars(ReadMessage) /\ WF_netlinkVars(Resume)

NetlinkSpec == NetlinkInit /\ [][NetlinkNext]_netlinkVars /\ NetlinkFairness

----------------------------------------------------------------------------
\* The cache holds indices, and no socket is closed that is not open.
NetlinkTypeOK ==
    /\ kernel.index \in Indices \cup {None} /\ found \in Indices \cup {None}
    /\ pc \in {"idle", "send", "read", "resume"} /\ call.op \in Ops
    /\ links \in Seq(Indices) /\ addresses \in Seq(Indices)
    /\ fds \in Nat /\ nl \in [inited : BOOLEAN, dumped : BOOLEAN]

\* No message of the kernel is left for the next call to read as the answer to its own
\* request, whichever request failed.
NoReplyIsLeft == pc \in {"idle", "send", "resume"} => inbox = <<>>

\* linkUp, setIP and linkDown return true only if the kernel carried out that request.
TrueMeansDone == pc = "idle" /\ call.op \in Setters /\ result => carried = call

\* findAddresses finds the address only if the device had it under the index that
\* findLink returned, also if the device was made again between the dump of the links
\* and that of the addresses.
AddressIsOfLink == pc = "idle" /\ call.op = "findAddresses" /\ result => call.index \in had

\* The destructor releases all that was allocated if nothing failed, the routes in any
\* case, and every socket but those whose bind failed.
CompleteDumpIsFreed ==
    obj = "gone" =>
        /\ fds = unbound /\ lists["route"] = 0
        /\ failures = 0 => \A k \in DOMAIN lists : lists[k] = 0

\* Every message of the kernel is taken for what it is, by the call it is for, and what
\* was allocated for it is released.
RepliesBelong == NoReplyIsLeft /\ TrueMeansDone /\ AddressIsOfLink /\ CompleteDumpIsFreed

\* Every call returns, also after failed system calls.
CallsReturn == pc # "idle" ~> pc = "idle"
=============================================================================
