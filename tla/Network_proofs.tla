---------------------------- MODULE Network_proofs ----------------------------
(***************************************************************************)
(* The netlink socket and the network gateway, for every number of calls,  *)
(* failures, devices, rules and activations, and the addresses for numbers *)
(* of any width.                                                           *)
(*                                                                         *)
(* Netlink: the invariant says what may lie in the socket while the answer *)
(* to each request is read.  From that follow that the end of a request is *)
(* the end of the socket's contents, and that an acknowledgement is the one*)
(* of the request the call is about.                                       *)
(*                                                                         *)
(* Gateway: iptables has the commands of the entries the activation is     *)
(* past.  Addresses: powers of two and the byte order are functions by     *)
(* recursion; first come the lemmas that such functions exist.             *)
(***************************************************************************)
EXTENDS MCNetwork, MCNetworkGateway, NaturalsInduction, WellFoundedInduction, TLAPS

Devs  == Indices \cup {None}
Kinds == {"link", "address", "route"}

\* What is left of a dump.
Dumps == {<<"getlink", "getaddr", "getroute">>, <<"getaddr", "getroute">>, <<"getroute">>}

NetlinkTypes ==
    /\ kernel \in [index : Devs, up : BOOLEAN, address : BOOLEAN]
    /\ lastIndex \in Nat /\ lastIndex > 0 /\ lastIndex <= MaxIndex
    /\ obj \in {"none", "live", "gone"}
    /\ nl \in [inited : BOOLEAN, dumped : BOOLEAN]
    /\ links \in Seq(Indices) /\ addresses \in Seq(Indices)
    /\ lists \in [Kinds -> Nat]
    /\ fds \in Nat /\ unbound \in Nat /\ failures \in Nat
    /\ pc \in {"idle", "send", "read", "resume"}
    /\ call \in [op : Ops, index : Devs]
    /\ result \in BOOLEAN
    /\ found \in Devs

\* The device has the address only under an index that is remembered, and so has every
\* address in the cache.
HadInv ==
    /\ kernel.address => kernel.index \in had /\ kernel.index # None
    /\ \A n \in 1..Len(addresses) : addresses[n] \in had

\* The one request of a call that changes an interface; it names a link of the cache.
Setting ==
    /\ todo = <<call.op>> /\ call.op \in Setters
    /\ call.op # "setDefaultGateway" => call.index \in Indices

TodoInv ==
    /\ pc = "idle" => todo = <<>>
    /\ pc = "resume" => todo = <<>> /\ call.op # "construct"
    /\ pc \in {"send", "read"} => todo \in Dumps \/ Setting

\* What may be in the socket while the answer to a request is read.
InboxInv ==
    /\ pc # "read" => inbox = <<>>
    /\ pc = "read" =>
         \/ inbox = <<Error>> /\ (failures > 0 \/ Setting)
         \/ inbox = <<Done>> /\ todo \in Dumps
         \/ /\ todo = <<"getlink", "getaddr", "getroute">>
            /\ \/ \E i \in Indices : inbox = <<Message("link", i), Done>>
               \/ \E i \in Indices, j \in Indices : inbox = <<Message("link", i), Message("link", j), Done>>
         \/ /\ todo = <<"getaddr", "getroute">>
            /\ \E i \in Indices \cap had : inbox = <<Message("address", i), Done>>
         \/ todo = <<"getroute">> /\ inbox = <<Message("route", None), Done>>
         \/ Setting /\ inbox = <<Ack>> /\ carried = call

\* The socket is open while the object says so, and as long as the object lives.
SocketInv ==
    /\ obj # "live" => pc = "idle"
    /\ obj = "none" => fds = 0 /\ unbound = 0 /\ ~nl.inited /\ ~nl.dumped /\ failures = 0
    /\ obj = "live" /\ nl.inited => fds = unbound + 1
    /\ obj = "live" /\ ~nl.inited => fds = unbound
    /\ obj = "gone" => fds = unbound
    /\ pc = "read" => nl.inited

\* What was allocated before the dump was complete is lost only after a failure; a route
\* is the last that is read.
ListsInv ==
    /\ obj = "none" => \A t \in Kinds : lists[t] = 0
    /\ obj = "live" /\ failures = 0 => nl.dumped \/ (pc \in {"send", "read"} /\ todo \in Dumps)
    /\ obj = "live" /\ lists["route"] # 0 =>
         nl.dumped \/ (pc = "read" /\ todo = <<"getroute">> /\ inbox = <<Done>>)
    /\ obj = "gone" => lists["route"] = 0
    /\ obj = "gone" /\ failures = 0 => \A t \in Kinds : lists[t] = 0

\* What a call returned.
ResultInv ==
    pc = "idle" /\ result =>
        /\ call.op \in Setters => carried = call
        /\ call.op = "findAddresses" => call.index \in had

NetlinkInv ==
    NetlinkTypes /\ HadInv /\ TodoInv /\ InboxInv /\ SocketInv /\ ListsInv /\ ResultInv

----------------------------------------------------------------------------
\* The messages of the kernel, told apart by their types.
LEMMA MessageLemma ==
    /\ \A t, i : Message(t, i).type = t /\ Message(t, i).index = i
    /\ Ack.type = "ack" /\ Error.type = "error" /\ Done.type = "done"
    /\ Ack # Error /\ Ack # Done /\ Error # Done
BY DEF Message, Ack, Error, Done

\* What is left of a dump after its first request.
LEMMA DumpLemma ==
    /\ Dump = <<"getlink", "getaddr", "getroute">> /\ Dump \in Dumps
    /\ Head(<<"getlink", "getaddr", "getroute">>) = "getlink"
    /\ Tail(<<"getlink", "getaddr", "getroute">>) = <<"getaddr", "getroute">>
    /\ Len(<<"getlink", "getaddr", "getroute">>) = 3
    /\ Head(<<"getaddr", "getroute">>) = "getaddr"
    /\ Tail(<<"getaddr", "getroute">>) = <<"getroute">>
    /\ Len(<<"getaddr", "getroute">>) = 2
    /\ Head(<<"getroute">>) = "getroute" /\ Len(<<"getroute">>) = 1
    /\ \A op : Head(<<op>>) = op /\ Len(<<op>>) = 1
    /\ \A op \in Setters : <<op>> \notin Dumps
BY DEF Dump, Dumps, Setters

\* The first request of the two kinds there are.
LEMMA TodoLemma ==
    ASSUME NetlinkInv, pc \in {"send", "read"}
    PROVE  /\ todo \in Dumps \/ Setting
           /\ Setting => Head(todo) = call.op /\ call.op \in Setters /\ Len(todo) = 1 /\ todo \notin Dumps
           /\ todo \in Dumps => Head(todo) \in {"getlink", "getaddr", "getroute"} /\ Head(todo) \notin Setters
           /\ todo \in Dumps => (Head(todo) = "getroute" <=> todo = <<"getroute">>)
           /\ todo \in Dumps /\ todo # <<"getroute">> => Tail(todo) \in Dumps /\ Len(todo) > 1
<1>1. todo \in Dumps \/ Setting
  BY DEF NetlinkInv, TodoInv
<1>2. ASSUME Setting PROVE Head(todo) = call.op /\ call.op \in Setters /\ Len(todo) = 1 /\ todo \notin Dumps
  BY <1>2, DumpLemma DEF Setting
<1>3. CASE todo = <<"getlink", "getaddr", "getroute">>
  BY <1>1, <1>2, <1>3, DumpLemma DEF Dumps, Setters
<1>4. CASE todo = <<"getaddr", "getroute">>
  BY <1>1, <1>2, <1>4, DumpLemma DEF Dumps, Setters
<1>5. CASE todo = <<"getroute">>
  BY <1>1, <1>2, <1>5, DumpLemma DEF Dumps, Setters
<1> QED
  BY <1>1, <1>2, <1>3, <1>4, <1>5 DEF Dumps

\* Concatenation of the tuples a reply is made of.
LEMMA ConcatLemma ==
    /\ \A a, b : <<a>> \o <<b>> = <<a, b>>
    /\ \A a, b, c : <<a, b>> \o <<c>> = <<a, b, c>>
    /\ \A b : <<>> \o <<b>> = <<b>>
<1>1. ASSUME NEW a, NEW b PROVE <<a>> \o <<b>> = <<a, b>>
  <2> DEFINE s == <<a>> \o <<b>>
             t == <<a, b>>
  <2>1. s \in Seq({a, b}) /\ t \in Seq({a, b}) /\ Len(s) = 2 /\ Len(t) = 2
    OBVIOUS
  <2>2. s[1] = t[1] /\ s[2] = t[2]
    OBVIOUS
  <2> HIDE DEF s, t
  <2>3. \A n \in 1..Len(s) : s[n] = t[n]
    BY <2>1, <2>2
  <2>4. s = t
    BY <2>1, <2>3
  <2> QED
    BY <2>4 DEF s, t
<1>2. ASSUME NEW a, NEW b, NEW c PROVE <<a, b>> \o <<c>> = <<a, b, c>>
  <2> DEFINE s == <<a, b>> \o <<c>>
             t == <<a, b, c>>
  <2>1. s \in Seq({a, b, c}) /\ t \in Seq({a, b, c}) /\ Len(s) = 3 /\ Len(t) = 3
    OBVIOUS
  <2>2. s[1] = t[1] /\ s[2] = t[2] /\ s[3] = t[3]
    OBVIOUS
  <2> HIDE DEF s, t
  <2>3. \A n \in 1..Len(s) : s[n] = t[n]
    BY <2>1, <2>2
  <2>4. s = t
    BY <2>1, <2>3
  <2> QED
    BY <2>4 DEF s, t
<1>3. ASSUME NEW b PROVE <<>> \o <<b>> = <<b>>
  OBVIOUS
<1> QED
  BY <1>1, <1>2, <1>3

\* The kernel's answers to a dump: its messages and the end of the dump.
LEMMA LinkReply ==
    ASSUME NetlinkTypes
    PROVE  \/ \E i \in Indices : Reply("getlink") = <<Message("link", i), Done>>
           \/ \E i \in Indices, j \in Indices : Reply("getlink") = <<Message("link", i), Message("link", j), Done>>
<1>1. Loopback \in Indices
  BY NetlinkAssumption DEF Loopback, Indices
<1> DEFINE msgs == [n \in 1..Len(Devices) |-> Message("link", Devices[n])]
<1>2. Reply("getlink") = msgs \o <<Done>>
  BY DEF Reply
<1>3. CASE kernel.index = None
  <2>1. Devices = <<Loopback>>
    BY <1>3 DEF Devices
  <2>2. msgs = <<Message("link", Loopback)>>
    BY <2>1
  <2> HIDE DEF msgs
  <2>3. Reply("getlink") = <<Message("link", Loopback), Done>>
    BY <1>2, <2>2, ConcatLemma
  <2> QED
    BY <1>1, <2>3
<1>4. CASE kernel.index # None
  <2>1. Devices = <<Loopback, kernel.index>> /\ kernel.index \in Indices
    BY <1>4 DEF Devices, NetlinkTypes, Devs
  <2>2. msgs = <<Message("link", Loopback), Message("link", kernel.index)>>
    BY <2>1
  <2> HIDE DEF msgs
  <2>3. Reply("getlink") = <<Message("link", Loopback), Message("link", kernel.index), Done>>
    BY <1>2, <2>2, ConcatLemma
  <2> QED
    BY <1>1, <2>1, <2>3
<1> QED
  BY <1>3, <1>4

\* The other answers of the kernel.
LEMMA OtherReplies ==
    ASSUME NetlinkTypes, HadInv
    PROVE  /\ Reply("getaddr") = <<Done>>
              \/ \E i \in Indices \cap had : Reply("getaddr") = <<Message("address", i), Done>>
           /\ Reply("getroute") = <<Message("route", None), Done>>
           /\ \A op \in Setters : Reply(op) \in {<<Ack>>, <<Error>>}
<1>1. Reply("getroute") = <<Message("route", None), Done>>
  BY DEF Reply
<1>2. \A op \in Setters : Reply(op) \in {<<Ack>>, <<Error>>}
  BY DEF Reply, Setters
<1>3. CASE kernel.address
  <2>1. kernel.index \in Indices \cap had
    BY <1>3 DEF NetlinkTypes, HadInv, Devs
  <2>2. Reply("getaddr") = <<Message("address", kernel.index)>> \o <<Done>>
    BY <1>3 DEF Reply
  <2>3. Reply("getaddr") = <<Message("address", kernel.index), Done>>
    BY <2>2, ConcatLemma
  <2> QED
    BY <1>1, <1>2, <2>1, <2>3
<1>4. CASE ~kernel.address
  <2>1. Reply("getaddr") = <<>> \o <<Done>>
    BY <1>4 DEF Reply
  <2> QED
    BY <1>1, <1>2, <2>1, ConcatLemma
<1> QED
  BY <1>3, <1>4

----------------------------------------------------------------------------
\* The object is not there yet.
LEMMA NetlinkInitInv == NetlinkInit => NetlinkInv
<1> SUFFICES ASSUME NetlinkInit PROVE NetlinkInv
  OBVIOUS
<1>1. kernel \in [index : {None, 2}, up : {FALSE}, address : BOOLEAN] /\ 2 \in Indices
  <2>1. MaxIndex \in Nat \ {0, 1}
    BY NetlinkAssumption
  <2>2. 2 \in Indices
    BY <2>1 DEF Indices
  <2> QED
    BY <2>2 DEF NetlinkInit
<1>2. NetlinkTypes
  <2>1. kernel \in [index : Devs, up : BOOLEAN, address : BOOLEAN]
    BY <1>1 DEF Devs
  <2>2. call \in [op : Ops, index : Devs] /\ found \in Devs
    BY DEF NetlinkInit, Ops, Devs
  <2>3. lastIndex \in Nat /\ lastIndex > 0 /\ lastIndex <= MaxIndex
    BY NetlinkAssumption DEF NetlinkInit
  <2>4. links \in Seq(Indices) /\ addresses \in Seq(Indices) /\ lists \in [Kinds -> Nat]
    BY DEF NetlinkInit, Kinds
  <2>5. fds \in Nat /\ unbound \in Nat /\ failures \in Nat
    BY DEF NetlinkInit
  <2>6. nl \in [inited : BOOLEAN, dumped : BOOLEAN] /\ result \in BOOLEAN
    BY DEF NetlinkInit
  <2>7. obj \in {"none", "live", "gone"} /\ pc \in {"idle", "send", "read", "resume"}
    BY DEF NetlinkInit
  <2> QED
    BY <2>1, <2>2, <2>3, <2>4, <2>5, <2>6, <2>7 DEF NetlinkTypes
<1>3. HadInv
  BY <1>1 DEF NetlinkInit, HadInv
<1>4. TodoInv /\ InboxInv
  BY DEF NetlinkInit, TodoInv, InboxInv
<1>5. SocketInv
  BY DEF NetlinkInit, SocketInv
<1>6. ListsInv
  BY DEF NetlinkInit, ListsInv, Kinds
<1>7. ResultInv
  BY DEF NetlinkInit, ResultInv, Setters
<1> QED
  BY <1>2, <1>3, <1>4, <1>5, <1>6, <1>7 DEF NetlinkInv

\* The device changes, and what it had is remembered.
LEMMA HadLemma ==
    ASSUME HadInv, UNCHANGED addresses,
           kernel'.address => kernel'.index # None,
           had' = had \cup (IF kernel'.address THEN {kernel'.index} ELSE {})
    PROVE  HadInv' /\ had \subseteq had'
BY DEF HadInv

\* What the socket may hold stays when more is remembered.
LEMMA InboxLemma ==
    ASSUME InboxInv, had \subseteq had', UNCHANGED <<pc, inbox, todo, call, carried, failures>>
    PROVE  InboxInv'
<1>1. Setting' <=> Setting
  BY DEF Setting
<1>2. \A i : i \in Indices \cap had => i \in Indices \cap had'
  OBVIOUS
<1> QED
  BY <1>1, <1>2 DEF InboxInv

\* The host's network changes.
LEMMA HostStep ==
    ASSUME NetlinkInv, HostChanges
    PROVE  NetlinkInv'
<1> USE DEF NetlinkInv
<1>1. /\ UNCHANGED <<obj, nl, links, addresses, lists, fds, pc, todo, inbox, call, result>>
      /\ UNCHANGED <<found, linkCalls, carried, failures, unbound>>
      /\ had' = had \cup (IF kernel'.address THEN {kernel'.index} ELSE {})
  BY DEF HostChanges, cacheVars, callerVars
<1>2. /\ kernel' \in [index : Devs, up : BOOLEAN, address : BOOLEAN]
      /\ kernel'.address => kernel'.index # None
      /\ lastIndex' \in Nat /\ lastIndex' > 0 /\ lastIndex' <= MaxIndex
  <2>0. kernel \in [index : Devs, up : BOOLEAN, address : BOOLEAN] /\ lastIndex \in Nat /\ lastIndex > 0 /\ lastIndex <= MaxIndex
    BY DEF NetlinkTypes
  <2>1. CASE /\ kernel.index = None /\ lastIndex < MaxIndex /\ lastIndex' = lastIndex + 1
             /\ \E a \in BOOLEAN : kernel' = [index |-> lastIndex', up |-> FALSE, address |-> a]
    <3>1. lastIndex' \in Indices /\ lastIndex' # None /\ lastIndex' \in Nat /\ lastIndex' > 0 /\ lastIndex' <= MaxIndex
      BY <2>0, <2>1, NetlinkAssumption DEF Indices, None
    <3>2. PICK a \in BOOLEAN : kernel' = [index |-> lastIndex', up |-> FALSE, address |-> a]
      BY <2>1
    <3> QED
      BY <3>1, <3>2 DEF Devs
  <2>2. CASE kernel' = [index |-> None, up |-> FALSE, address |-> FALSE] /\ UNCHANGED lastIndex
    BY <2>0, <2>2 DEF Devs
  <2>3. CASE kernel.index # None /\ kernel' = [kernel EXCEPT !.address = TRUE] /\ UNCHANGED lastIndex
    BY <2>0, <2>3
  <2> QED
    BY <2>1, <2>2, <2>3 DEF HostChanges
<1>3. NetlinkTypes'
  BY <1>1, <1>2 DEF NetlinkTypes
<1>4. HadInv' /\ had \subseteq had'
  BY <1>1, <1>2, HadLemma
<1>5. TodoInv'
  BY <1>1 DEF TodoInv, Setting
<1>6. InboxInv'
  BY <1>1, <1>4, InboxLemma
<1>7. SocketInv' /\ ListsInv'
  BY <1>1 DEF SocketInv, ListsInv
<1>8. ResultInv'
  BY <1>1, <1>4 DEF ResultInv
<1> QED
  BY <1>3, <1>4, <1>5, <1>6, <1>7, <1>8

\* setupNetlink: the socket that is counted is open, or its bind failed.
LEMMA SetupLemma ==
    ASSUME NetlinkTypes, NEW ok \in BOOLEAN, SetupNetlink(ok)
    PROVE  /\ nl' \in [inited : BOOLEAN, dumped : BOOLEAN] /\ nl'.dumped = nl.dumped
           /\ fds' \in Nat /\ unbound' \in Nat /\ failures' \in Nat
           /\ ok => nl'.inited /\ failures' = failures
           /\ ~ok => ~nl'.inited /\ failures' > 0
           /\ ~nl.inited /\ fds = unbound => (nl'.inited => fds' = unbound' + 1) /\ (~nl'.inited => fds' = unbound')
           /\ nl.inited /\ fds = unbound + 1 => nl'.inited /\ fds' = unbound' + 1
<1>1. nl \in [inited : BOOLEAN, dumped : BOOLEAN] /\ fds \in Nat /\ unbound \in Nat /\ failures \in Nat
  BY DEF NetlinkTypes
<1>2. CASE nl.inited
  BY <1>1, <1>2 DEF SetupNetlink
<1>3. CASE ~nl.inited /\ ok /\ nl' = [nl EXCEPT !.inited = TRUE] /\ fds' = fds + 1 /\ UNCHANGED <<unbound, failures>>
  <2>1. nl' \in [inited : BOOLEAN, dumped : BOOLEAN] /\ nl'.inited /\ nl'.dumped = nl.dumped
    BY <1>1, <1>3
  <2> QED
    BY <1>1, <1>3, <2>1
<1>4. CASE ~nl.inited /\ ~ok /\ Fail /\ UNCHANGED <<nl, fds, unbound>>
  BY <1>1, <1>4 DEF Fail
<1>5. CASE ~nl.inited /\ ~ok /\ Fail /\ fds' = fds + 1 /\ unbound' = unbound + 1 /\ UNCHANGED nl
  BY <1>1, <1>5 DEF Fail
<1> QED
  BY <1>2, <1>3, <1>4, <1>5 DEF SetupNetlink

\* The object is made, and its dump begins.
LEMMA ConstructStep ==
    ASSUME NetlinkInv, Construct
    PROVE  NetlinkInv'
<1> USE DEF NetlinkInv
<1>1. /\ obj = "none" /\ obj' = "live" /\ pc' = "send" /\ todo' = Dump
      /\ UNCHANGED <<kernel, lastIndex, had, links, addresses, lists, inbox, call, result, found, linkCalls, carried>>
  BY DEF Construct, hostVars, cacheVars, callerVars
<1>2. PICK ok \in BOOLEAN : SetupNetlink(ok)
  BY DEF Construct
<1>3. pc = "idle" /\ fds = 0 /\ unbound = 0 /\ ~nl.inited /\ ~nl.dumped
  BY <1>1 DEF SocketInv
<1>4. /\ nl' \in [inited : BOOLEAN, dumped : BOOLEAN]
      /\ fds' \in Nat /\ unbound' \in Nat /\ failures' \in Nat
      /\ (nl'.inited => fds' = unbound' + 1) /\ (~nl'.inited => fds' = unbound')
  BY <1>2, <1>3, SetupLemma
<1>5. todo' \in Dumps
  BY <1>1, DumpLemma
<1>6. NetlinkTypes'
  BY <1>1, <1>4 DEF NetlinkTypes
<1>7. HadInv'
  BY <1>1 DEF HadInv
<1>8. TodoInv' /\ InboxInv'
  BY <1>1, <1>3, <1>5 DEF TodoInv, InboxInv
<1>9. SocketInv'
  BY <1>1, <1>4 DEF SocketInv
<1>10. ListsInv'
  BY <1>1, <1>5 DEF ListsInv, Kinds
<1>11. ResultInv'
  BY <1>1 DEF ResultInv
<1> QED
  BY <1>6, <1>7, <1>8, <1>9, <1>10, <1>11

\* The end of a call: nothing is left to be sent or to be read.
LEMMA ReturnLemma ==
    ASSUME NetlinkInv, NEW r \in BOOLEAN, EndCall(r), obj = "live", inbox' = <<>>,
           NetlinkTypes', UNCHANGED <<kernel, had, obj, addresses, call>>,
           nl'.inited => fds' = unbound' + 1,
           ~nl'.inited => fds' = unbound',
           failures' = 0 => nl'.dumped,
           lists'["route"] # 0 => nl'.dumped,
           r => /\ call.op \in Setters => carried' = call'
                /\ call.op = "findAddresses" => call.index \in had
    PROVE  NetlinkInv'
<1>1. pc' = "idle" /\ todo' = <<>> /\ result' = r
  BY DEF EndCall
<1>2. HadInv'
  BY DEF NetlinkInv, HadInv
<1>3. TodoInv' /\ InboxInv'
  BY <1>1 DEF TodoInv, InboxInv
<1>4. SocketInv'
  BY <1>1 DEF SocketInv
<1>5. ListsInv'
  BY DEF ListsInv
<1>6. ResultInv'
  BY <1>1 DEF ResultInv
<1> QED
  BY <1>2, <1>3, <1>4, <1>5, <1>6 DEF NetlinkInv

\* What a request of the agent changes in the kernel.
LEMMA ChangeLemma ==
    ASSUME NetlinkInv, pc = "send", kernel' = CarryOut(Head(todo))
    PROVE  /\ kernel' \in [index : Devs, up : BOOLEAN, address : BOOLEAN]
           /\ kernel'.address => kernel'.index # None
<1>1. /\ kernel \in [index : Devs, up : BOOLEAN, address : BOOLEAN]
      /\ kernel.address => kernel.index # None
  BY DEF NetlinkInv, NetlinkTypes, HadInv
<1>2. Head(todo) = "setIP" => call.index # None
  <2>1. Head(todo) = "setIP" => Setting /\ call.op = "setIP"
    BY TodoLemma DEF Setters
  <2>2. \A i \in Indices : i # None
    BY NetlinkAssumption DEF Indices, None
  <2> QED
    BY <2>1, <2>2 DEF Setting
<1>3. CASE Head(todo) = "linkUp"
  <2>1. kernel' = [kernel EXCEPT !.up = @ \/ call.index = kernel.index]
    BY <1>3 DEF CarryOut
  <2> QED
    BY <1>1, <2>1
<1>4. CASE Head(todo) = "linkDown"
  <2>1. kernel' = [kernel EXCEPT !.up = @ /\ call.index # kernel.index]
    BY <1>4 DEF CarryOut
  <2> QED
    BY <1>1, <2>1
<1>5. CASE Head(todo) = "setIP"
  <2>1. kernel' = [kernel EXCEPT !.address = @ \/ call.index = kernel.index]
    BY <1>5 DEF CarryOut
  <2> QED
    BY <1>1, <1>2, <1>5, <2>1
<1>6. CASE Head(todo) \notin {"linkUp", "linkDown", "setIP"}
  <2>1. kernel' = kernel
    BY <1>6 DEF CarryOut
  <2> QED
    BY <1>1, <2>1
<1> QED
  BY <1>3, <1>4, <1>5, <1>6

\* The answer that is in the socket once a request was sent.
LEMMA AnswerLemma ==
    ASSUME NetlinkInv, pc = "send", pc' = "read", UNCHANGED <<todo, call>>, had \subseteq had',
           inbox' = Reply(Head(todo)),
           carried' = IF Head(todo) \in Setters /\ Reply(Head(todo)) = <<Ack>> THEN call ELSE carried
    PROVE  InboxInv'
<1>1. NetlinkTypes /\ HadInv
  BY DEF NetlinkInv
<1>2. Setting' <=> Setting
  BY DEF Setting
<1>3. CASE todo = <<"getlink", "getaddr", "getroute">>
  <2>1. inbox' = Reply("getlink")
    BY <1>3, DumpLemma
  <2> QED
    BY <1>1, <1>3, <2>1, LinkReply DEF InboxInv
<1>4. CASE todo = <<"getaddr", "getroute">>
  <2>1. inbox' = Reply("getaddr") /\ todo' \in Dumps
    BY <1>4, DumpLemma DEF Dumps
  <2>2. inbox' = <<Done>> \/ \E i \in Indices \cap had' : inbox' = <<Message("address", i), Done>>
    BY <1>1, <2>1, OtherReplies
  <2> QED
    BY <1>4, <2>1, <2>2 DEF InboxInv
<1>5. CASE todo = <<"getroute">>
  <2>1. inbox' = Reply("getroute")
    BY <1>5, DumpLemma
  <2>2. inbox' = <<Message("route", None), Done>>
    BY <1>1, <2>1, OtherReplies
  <2> QED
    BY <1>5, <2>2 DEF InboxInv
<1>6. CASE Setting
  <2>1. Head(todo) \in Setters
    BY <1>6, TodoLemma
  <2>2. inbox' = <<Error>> \/ (inbox' = <<Ack>> /\ carried' = call')
    BY <1>1, <2>1, OtherReplies
  <2> QED
    BY <1>2, <1>6, <2>2 DEF InboxInv
<1> QED
  BY <1>3, <1>4, <1>5, <1>6, TodoLemma DEF Dumps

\* A request is sent, or cannot be.
LEMMA SendStep ==
    ASSUME NetlinkInv, SendMessage
    PROVE  NetlinkInv'
<1>1. /\ pc = "send" /\ UNCHANGED <<obj, links, addresses, lists, call, found, linkCalls>>
  BY DEF SendMessage, cacheVars, callerVars
<1>2. /\ obj = "live" /\ inbox = <<>>
      /\ lists["route"] # 0 => nl.dumped
      /\ nl.inited => fds = unbound + 1
      /\ ~nl.inited => fds = unbound
  BY <1>1 DEF NetlinkInv, SocketInv, ListsInv, InboxInv
<1>3. NetlinkTypes /\ fds \in Nat /\ unbound \in Nat /\ failures \in Nat /\ nl \in [inited : BOOLEAN, dumped : BOOLEAN]
  BY DEF NetlinkInv, NetlinkTypes
<1>4. CASE /\ SetupNetlink(TRUE)
           /\ inbox' = Reply(Head(todo)) /\ pc' = "read"
           /\ kernel' = CarryOut(Head(todo))
           /\ had' = had \cup (IF kernel'.address THEN {kernel'.index} ELSE {})
           /\ carried' = IF Head(todo) \in Setters /\ Reply(Head(todo)) = <<Ack>> THEN call ELSE carried
           /\ UNCHANGED <<lastIndex, todo, result>>
  <2>1. /\ kernel' \in [index : Devs, up : BOOLEAN, address : BOOLEAN]
        /\ kernel'.address => kernel'.index # None
    BY <1>1, <1>4, ChangeLemma
  <2>2. /\ nl' \in [inited : BOOLEAN, dumped : BOOLEAN] /\ nl'.dumped = nl.dumped
        /\ fds' \in Nat /\ unbound' \in Nat /\ failures' \in Nat
        /\ nl'.inited /\ failures' = failures
        /\ fds' = unbound' + 1
    BY <1>2, <1>3, <1>4, SetupLemma
  <2>3. NetlinkTypes'
    BY <1>1, <1>3, <1>4, <2>1, <2>2 DEF NetlinkTypes
  <2>4. HadInv' /\ had \subseteq had'
    BY <1>1, <1>4, <2>1, HadLemma DEF NetlinkInv
  <2>5. TodoInv'
    BY <1>1, <1>4 DEF NetlinkInv, TodoInv, Setting
  <2>6. InboxInv'
    BY <1>1, <1>4, <2>4, AnswerLemma
  <2>7. SocketInv'
    BY <1>1, <1>2, <1>4, <2>2 DEF SocketInv
  <2>8. ListsInv'
    BY <1>1, <1>2, <1>4, <2>2 DEF NetlinkInv, ListsInv
  <2>9. ResultInv'
    BY <1>4 DEF ResultInv
  <2> QED
    BY <2>3, <2>4, <2>5, <2>6, <2>7, <2>8, <2>9 DEF NetlinkInv
<1>5. CASE /\ nl.inited /\ Fail /\ inbox' = <<Error>> /\ pc' = "read"
           /\ UNCHANGED <<hostVars, nl, fds, unbound, todo, result, carried>>
  <2>1. failures' \in Nat /\ failures' > 0
    BY <1>3, <1>5 DEF Fail
  <2>2. UNCHANGED <<kernel, lastIndex, had, nl, fds, unbound, todo, result, carried>>
    BY <1>5 DEF hostVars
  <2>3. NetlinkTypes'
    BY <1>1, <1>3, <1>5, <2>1, <2>2 DEF NetlinkTypes
  <2>4. HadInv' /\ TodoInv'
    BY <1>1, <1>5, <2>2 DEF NetlinkInv, HadInv, TodoInv, Setting
  <2>5. InboxInv'
    BY <1>5, <2>1 DEF InboxInv
  <2>6. SocketInv'
    BY <1>1, <1>2, <1>5, <2>2 DEF SocketInv
  <2>7. ListsInv'
    BY <1>1, <1>2, <1>5, <2>1, <2>2 DEF NetlinkInv, ListsInv
  <2>8. ResultInv'
    BY <1>5 DEF ResultInv
  <2> QED
    BY <2>3, <2>4, <2>5, <2>6, <2>7, <2>8 DEF NetlinkInv
<1>6. CASE /\ nl.inited /\ Fail /\ EndCall(FALSE)
           /\ UNCHANGED <<hostVars, nl, fds, unbound, inbox, carried>>
  <2>1. failures' \in Nat /\ failures' # 0
    BY <1>3, <1>6 DEF Fail
  <2>2. UNCHANGED <<kernel, lastIndex, had, nl, fds, unbound, inbox, carried>>
    BY <1>6 DEF hostVars
  <2>3. NetlinkTypes'
    BY <1>1, <1>3, <1>6, <2>1, <2>2 DEF NetlinkTypes, EndCall
  <2> QED
    BY <1>1, <1>2, <1>6, <2>1, <2>2, <2>3, ReturnLemma
<1>7. CASE SetupNetlink(FALSE) /\ EndCall(FALSE) /\ UNCHANGED <<hostVars, inbox, carried>>
  <2>1. UNCHANGED <<kernel, lastIndex, had, inbox, carried>>
    BY <1>7 DEF hostVars
  <2>2. /\ nl' \in [inited : BOOLEAN, dumped : BOOLEAN] /\ nl'.dumped = nl.dumped
        /\ fds' \in Nat /\ unbound' \in Nat /\ failures' \in Nat
        /\ ~nl'.inited /\ failures' > 0
    BY <1>3, <1>7, SetupLemma
  <2>3. fds' = unbound'
    BY <1>2, <1>3, <1>7, <2>2, SetupLemma
  <2>4. NetlinkTypes'
    BY <1>1, <1>3, <1>7, <2>1, <2>2 DEF NetlinkTypes, EndCall
  <2>5. failures' # 0
    BY <2>2
  <2> QED
    BY <1>1, <1>2, <1>7, <2>1, <2>2, <2>3, <2>4, <2>5, ReturnLemma
<1> QED
  BY <1>4, <1>5, <1>6, <1>7 DEF SendMessage

\* The beginning and the rest of what is in the socket.
LEMMA TupleLemma ==
    /\ \A a : Head(<<a>>) = a /\ Tail(<<a>>) = <<>>
    /\ \A a, b : Head(<<a, b>>) = a /\ Tail(<<a, b>>) = <<b>>
    /\ \A a, b, c : Head(<<a, b, c>>) = a /\ Tail(<<a, b, c>>) = <<b, c>>
OBVIOUS

\* saveMessage of a link, of an address the device had, or of a route.
LEMMA SaveLemma ==
    ASSUME NetlinkInv, pc = "read", NEW msg, SaveMessage(msg),
           \/ msg.type = "link" /\ msg.index \in Indices
           \/ msg.type = "address" /\ msg.index \in Indices \cap had
           \/ msg.type = "route",
           UNCHANGED <<kernel, lastIndex, had, obj, nl, fds, unbound, failures, pc, todo, call, result, found, carried>>,
           InboxInv',
           msg.type = "route" => todo = <<"getroute">> /\ inbox' = <<Done>>,
           inbox # <<Done>>
    PROVE  NetlinkInv'
<1>1. NetlinkTypes /\ lists \in [Kinds -> Nat] /\ links \in Seq(Indices) /\ addresses \in Seq(Indices)
  BY DEF NetlinkInv, NetlinkTypes
<1>2. /\ lists' \in [Kinds -> Nat]
      /\ msg.type # "route" => lists'["route"] = lists["route"]
  BY <1>1 DEF SaveMessage, Kinds
<1>3. links' \in Seq(Indices)
  BY <1>1 DEF SaveMessage
<1>4. addresses' \in Seq(Indices)
  BY <1>1 DEF SaveMessage
<1>5. NetlinkTypes'
  BY <1>1, <1>2, <1>3, <1>4 DEF NetlinkTypes
<1>6. HadInv'
  <2>1. CASE msg.type = "address"
    <3>1. addresses' = Append(addresses, msg.index) /\ msg.index \in had
      BY <2>1 DEF SaveMessage
    <3>2. \A n \in 1..Len(addresses) : addresses[n] \in had
      BY DEF NetlinkInv, HadInv
    <3>3. \A n \in 1..Len(addresses') : addresses'[n] \in had
      BY <1>1, <3>1, <3>2
    <3> QED
      BY <3>3 DEF NetlinkInv, HadInv
  <2>2. CASE msg.type # "address"
    BY <2>2 DEF SaveMessage, NetlinkInv, HadInv
  <2> QED
    BY <2>1, <2>2
<1>7. TodoInv'
  BY DEF NetlinkInv, TodoInv, Setting
<1>8. SocketInv'
  BY DEF NetlinkInv, SocketInv
<1>9. obj = "live"
  BY DEF NetlinkInv, SocketInv
<1>10. ListsInv'
  <2>1. failures = 0 => nl.dumped \/ todo \in Dumps
    BY <1>9 DEF NetlinkInv, ListsInv
  <2>2. lists["route"] # 0 => nl.dumped
    BY <1>9 DEF NetlinkInv, ListsInv
  <2>3. lists'["route"] # 0 => nl.dumped \/ (todo = <<"getroute">> /\ inbox' = <<Done>>)
    BY <1>2, <2>2
  <2> QED
    BY <1>9, <2>1, <2>3 DEF ListsInv
<1>11. ResultInv'
  BY DEF ResultInv
<1> QED
  BY <1>5, <1>6, <1>7, <1>8, <1>10, <1>11, InboxInv' DEF NetlinkInv

\* One message is received.
LEMMA ReadStep ==
    ASSUME NetlinkInv, ReadMessage
    PROVE  NetlinkInv'
<1> DEFINE msg == Head(inbox)
<1>1. /\ pc = "read" /\ inbox' = Tail(inbox)
      /\ UNCHANGED <<kernel, lastIndex, had, obj, fds, call, found, linkCalls, carried, failures, unbound>>
  BY DEF ReadMessage, hostVars, callerVars
<1>2. /\ obj = "live" /\ nl.inited /\ fds = unbound + 1
      /\ failures = 0 => nl.dumped \/ todo \in Dumps
      /\ lists["route"] # 0 => nl.dumped \/ (todo = <<"getroute">> /\ inbox = <<Done>>)
  BY <1>1 DEF NetlinkInv, SocketInv, ListsInv
<1>3. NetlinkTypes /\ lists \in [Kinds -> Nat] /\ nl \in [inited : BOOLEAN, dumped : BOOLEAN]
  BY DEF NetlinkInv, NetlinkTypes
<1>4. ASSUME msg.type \in {"ack", "done", "error"}
      PROVE  UNCHANGED <<links, addresses, lists>>
  BY <1>3, <1>4 DEF ReadMessage, cacheVars, Kinds
<1>5. ASSUME msg.type \in Kinds
      PROVE  SaveMessage(msg) /\ UNCHANGED <<nl, pc, todo, result>>
  BY <1>3, <1>5 DEF ReadMessage, Fails, NetlinkEnds, Kinds
<1>6. CASE inbox = <<Error>> /\ (failures > 0 \/ Setting)
  <2>1. msg = Error /\ inbox' = <<>> /\ msg.type = "error" /\ inbox # <<Done>>
    BY <1>1, <1>6, TupleLemma, MessageLemma
  <2>2. UNCHANGED <<links, addresses, lists>>
    BY <1>4, <2>1
  <2>3. EndCall(FALSE) /\ UNCHANGED nl
    BY <2>1 DEF ReadMessage, Fails
  <2>4. NetlinkTypes'
    BY <1>1, <1>3, <2>2, <2>3 DEF NetlinkTypes, EndCall
  <2>5. failures = 0 => nl.dumped
    <3>1. failures = 0 => Setting
      BY <1>6
    <3>2. Setting => todo \notin Dumps
      BY <1>1, TodoLemma
    <3> QED
      BY <1>2, <3>1, <3>2
  <2> QED
    BY <1>1, <1>2, <2>1, <2>2, <2>3, <2>4, <2>5, ReturnLemma
<1>7. CASE inbox = <<Done>> /\ todo \in Dumps
  <2>1. msg = Done /\ inbox' = <<>> /\ msg.type = "done"
    BY <1>1, <1>7, TupleLemma, MessageLemma
  <2>2. UNCHANGED <<links, addresses, lists>>
    BY <1>4, <2>1
  <2>3. /\ nl' = [nl EXCEPT !.dumped = @ \/ Head(todo) = "getroute"]
        /\ \/ Len(todo) > 1 /\ todo' = Tail(todo) /\ pc' = "send" /\ UNCHANGED result
           \/ Len(todo) = 1 /\ Head(todo) = "getroute" /\ call.op # "construct"
              /\ todo' = <<>> /\ pc' = "resume" /\ UNCHANGED result
           \/ Len(todo) = 1 /\ ~(Head(todo) = "getroute" /\ call.op # "construct")
              /\ EndCall(TRUE)
    BY <2>1 DEF ReadMessage, Fails, NetlinkEnds
  <2>4. /\ nl' \in [inited : BOOLEAN, dumped : BOOLEAN] /\ nl'.inited
        /\ nl.dumped => nl'.dumped
        /\ Head(todo) = "getroute" => nl'.dumped
    BY <1>2, <1>3, <2>3
  <2>5. todo = <<"getroute">> <=> Head(todo) = "getroute"
    BY <1>1, <1>7, TodoLemma
  <2>6. CASE Len(todo) > 1 /\ todo' = Tail(todo) /\ pc' = "send" /\ UNCHANGED result
    <3>1. todo # <<"getroute">> /\ todo' \in Dumps
      <4>1. todo # <<"getroute">>
        BY <2>6, DumpLemma
      <4> QED
        BY <1>1, <1>7, <2>6, <4>1, TodoLemma
    <3>2. NetlinkTypes'
      BY <1>1, <1>3, <2>2, <2>4, <2>6 DEF NetlinkTypes
    <3>3. HadInv'
      BY <1>1, <2>2 DEF NetlinkInv, HadInv
    <3>4. TodoInv' /\ InboxInv'
      BY <2>1, <2>6, <3>1 DEF TodoInv, InboxInv
    <3>5. SocketInv'
      BY <1>1, <1>2, <2>4, <2>6 DEF SocketInv
    <3>6. ListsInv'
      BY <1>1, <1>2, <2>2, <2>4, <2>6, <3>1 DEF ListsInv
    <3>7. ResultInv'
      BY <2>6 DEF ResultInv
    <3> QED
      BY <3>2, <3>3, <3>4, <3>5, <3>6, <3>7 DEF NetlinkInv
  <2>7. CASE Head(todo) = "getroute" /\ call.op # "construct" /\ todo' = <<>> /\ pc' = "resume" /\ UNCHANGED result
    <3>1. NetlinkTypes'
      BY <1>1, <1>3, <2>2, <2>4, <2>7 DEF NetlinkTypes
    <3>2. HadInv'
      BY <1>1, <2>2 DEF NetlinkInv, HadInv
    <3>3. TodoInv' /\ InboxInv'
      BY <1>1, <2>1, <2>7 DEF TodoInv, InboxInv
    <3>4. SocketInv'
      BY <1>1, <1>2, <2>4, <2>7 DEF SocketInv
    <3>5. ListsInv'
      BY <1>1, <1>2, <2>2, <2>4, <2>7 DEF ListsInv
    <3>6. ResultInv'
      BY <2>7 DEF ResultInv
    <3> QED
      BY <3>1, <3>2, <3>3, <3>4, <3>5, <3>6 DEF NetlinkInv
  <2>8. CASE Len(todo) = 1 /\ ~(Head(todo) = "getroute" /\ call.op # "construct") /\ EndCall(TRUE)
    <3>1. Head(todo) = "getroute"
      BY <1>7, <2>8, DumpLemma DEF Dumps
    <3>2. call.op \notin Setters /\ call.op # "findAddresses"
      BY <2>8, <3>1 DEF Setters
    <3>3. NetlinkTypes'
      BY <1>1, <1>3, <2>2, <2>4, <2>8 DEF NetlinkTypes, EndCall
    <3> QED
      BY <1>1, <1>2, <2>1, <2>2, <2>4, <2>8, <3>1, <3>2, <3>3, ReturnLemma
  <2> QED
    BY <2>3, <2>6, <2>7, <2>8
<1>8. CASE todo = <<"getlink", "getaddr", "getroute">> /\ \E i \in Indices : inbox = <<Message("link", i), Done>>
  <2>1. PICK i \in Indices : inbox = <<Message("link", i), Done>>
    BY <1>8
  <2>2. msg = Message("link", i) /\ inbox' = <<Done>>
    BY <1>1, <2>1, TupleLemma
  <2>3. msg.type = "link" /\ msg.index \in Indices /\ todo \in Dumps
    BY <1>8, <2>2, MessageLemma DEF Dumps
  <2>4. SaveMessage(msg) /\ UNCHANGED <<nl, pc, todo, result>>
    BY <1>5, <2>3 DEF Kinds
  <2>5. InboxInv' /\ inbox # <<Done>>
    BY <1>1, <2>1, <2>2, <2>3, <2>4, TupleLemma DEF InboxInv
  <2> HIDE DEF msg
  <2> QED
    BY <1>1, <2>3, <2>4, <2>5, SaveLemma
<1>9. CASE /\ todo = <<"getlink", "getaddr", "getroute">>
           /\ \E i \in Indices, j \in Indices : inbox = <<Message("link", i), Message("link", j), Done>>
  <2>1. PICK i \in Indices, j \in Indices : inbox = <<Message("link", i), Message("link", j), Done>>
    BY <1>9
  <2>2. msg = Message("link", i) /\ inbox' = <<Message("link", j), Done>>
    BY <1>1, <2>1, TupleLemma
  <2>3. msg.type = "link" /\ msg.index \in Indices
    BY <2>2, MessageLemma
  <2>4. SaveMessage(msg) /\ UNCHANGED <<nl, pc, todo, result>>
    BY <1>5, <2>3 DEF Kinds
  <2>5. InboxInv' /\ inbox # <<Done>>
    BY <1>1, <1>9, <2>1, <2>2, <2>4, TupleLemma DEF InboxInv
  <2> HIDE DEF msg
  <2> QED
    BY <1>1, <2>3, <2>4, <2>5, SaveLemma
<1>10. CASE todo = <<"getaddr", "getroute">> /\ \E i \in Indices \cap had : inbox = <<Message("address", i), Done>>
  <2>1. PICK i \in Indices \cap had : inbox = <<Message("address", i), Done>>
    BY <1>10
  <2>2. msg = Message("address", i) /\ inbox' = <<Done>>
    BY <1>1, <2>1, TupleLemma
  <2>3. msg.type = "address" /\ msg.index \in Indices \cap had /\ todo \in Dumps
    BY <1>10, <2>2, MessageLemma DEF Dumps
  <2>4. SaveMessage(msg) /\ UNCHANGED <<nl, pc, todo, result>>
    BY <1>5, <2>3 DEF Kinds
  <2>5. InboxInv' /\ inbox # <<Done>>
    BY <1>1, <2>1, <2>2, <2>3, <2>4, TupleLemma DEF InboxInv
  <2> HIDE DEF msg
  <2> QED
    BY <1>1, <2>3, <2>4, <2>5, SaveLemma
<1>11. CASE todo = <<"getroute">> /\ inbox = <<Message("route", None), Done>>
  <2>1. msg = Message("route", None) /\ inbox' = <<Done>>
    BY <1>1, <1>11, TupleLemma
  <2>2. msg.type = "route" /\ todo \in Dumps
    BY <1>11, <2>1, MessageLemma DEF Dumps
  <2>3. SaveMessage(msg) /\ UNCHANGED <<nl, pc, todo, result>>
    BY <1>5, <2>2 DEF Kinds
  <2>4. InboxInv' /\ inbox # <<Done>>
    BY <1>1, <1>11, <2>1, <2>2, <2>3, TupleLemma DEF InboxInv
  <2> HIDE DEF msg
  <2> QED
    BY <1>1, <1>11, <2>1, <2>2, <2>3, <2>4, SaveLemma
<1>12. CASE Setting /\ inbox = <<Ack>> /\ carried = call
  <2>1. msg = Ack /\ inbox' = <<>> /\ msg.type = "ack" /\ inbox # <<Done>>
    BY <1>1, <1>12, TupleLemma, MessageLemma
  <2>2. UNCHANGED <<links, addresses, lists>>
    BY <1>4, <2>1
  <2>3. Head(todo) # "getroute" /\ Len(todo) = 1 /\ call.op \in Setters /\ todo \notin Dumps
    BY <1>1, <1>12, TodoLemma DEF Setters
  <2>4. nl' = [nl EXCEPT !.dumped = @ \/ Head(todo) = "getroute"] /\ EndCall(TRUE)
    <3>1. /\ nl' = [nl EXCEPT !.dumped = @ \/ Head(todo) = "getroute"]
          /\ Len(todo) > 1 \/ Head(todo) = "getroute" \/ EndCall(TRUE)
      BY <2>1 DEF ReadMessage, Fails, NetlinkEnds
    <3>2. ~(Len(todo) > 1)
      BY <2>3
    <3> QED
      BY <2>3, <3>1, <3>2
  <2>5. /\ nl' \in [inited : BOOLEAN, dumped : BOOLEAN] /\ nl'.inited
        /\ nl.dumped => nl'.dumped
    BY <1>2, <1>3, <2>4
  <2>6. NetlinkTypes'
    BY <1>1, <1>3, <2>2, <2>4, <2>5 DEF NetlinkTypes, EndCall
  <2>7. call.op # "findAddresses"
    BY <2>3 DEF Setters
  <2> QED
    BY <1>1, <1>2, <1>12, <2>1, <2>2, <2>3, <2>4, <2>5, <2>6, <2>7, ReturnLemma
<1> QED
  BY <1>1, <1>6, <1>7, <1>8, <1>9, <1>10, <1>11, <1>12 DEF NetlinkInv, InboxInv

\* A call begins, with the dump if there was none.
LEMMA CallStep ==
    ASSUME NetlinkInv, NEW op \in Ops \ {"construct"}, Call(op)
    PROVE  NetlinkInv'
<1>1. /\ obj = "live" /\ pc = "idle" /\ call' = [op |-> op, index |-> found]
      /\ UNCHANGED <<kernel, lastIndex, had, obj, nl, links, addresses, lists, fds, inbox, result, found, carried>>
      /\ UNCHANGED <<failures, unbound>>
  BY DEF Call, hostVars, cacheVars
<1>2. NetlinkTypes /\ found \in Devs
  BY DEF NetlinkInv, NetlinkTypes
<1>3. /\ inbox = <<>>
      /\ failures = 0 => nl.dumped
      /\ lists["route"] # 0 => nl.dumped
      /\ nl.inited => fds = unbound + 1
      /\ ~nl.inited => fds = unbound
  BY <1>1 DEF NetlinkInv, InboxInv, ListsInv, SocketInv
<1>4. \/ pc' = "resume" /\ todo' = <<>>
      \/ pc' = "send" /\ todo' = Dump
  BY DEF Call
<1>5. call' \in [op : Ops, index : Devs] /\ call'.op # "construct"
  BY <1>1, <1>2
<1>6. NetlinkTypes'
  BY <1>1, <1>2, <1>4, <1>5 DEF NetlinkTypes
<1>7. HadInv'
  BY <1>1 DEF NetlinkInv, HadInv
<1>8. TodoInv'
  BY <1>4, <1>5, DumpLemma DEF TodoInv
<1>9. InboxInv'
  BY <1>1, <1>3, <1>4 DEF InboxInv
<1>10. SocketInv'
  BY <1>1, <1>3, <1>4 DEF SocketInv
<1>11. ListsInv'
  BY <1>1, <1>3 DEF ListsInv
<1>12. ResultInv'
  BY <1>4 DEF ResultInv
<1> QED
  BY <1>6, <1>7, <1>8, <1>9, <1>10, <1>11, <1>12 DEF NetlinkInv

\* A set of numbers that is not empty has a least element.
LEMMA LeastLemma ==
    ASSUME NEW S \in SUBSET Nat, S # {}
    PROVE  \E n \in S : \A j \in S : n <= j
<1>1. IsWellFoundedOn(OpToRel(<, Nat), Nat)
  BY NatLessThanWellFounded
<1>2. PICK n \in S : \A j \in S : <<j, n>> \notin OpToRel(<, Nat)
  BY <1>1, WFMin
<1>3. \A j \in S : ~(j < n)
  BY <1>2 DEF OpToRel
<1> QED
  BY <1>3

\* findLink gives the caller an index of the cache, or none.
LEMMA FindLemma ==
    ASSUME NetlinkTypes, FindLink
    PROVE  found' \in Devs
<1>1. CASE Named = {}
  BY <1>1 DEF FindLink, Devs
<1>2. CASE Named # {}
  <2>1. links \in Seq(Indices)
    BY DEF NetlinkTypes
  <2>2. Named \subseteq 1..Len(links)
    BY <2>1 DEF Named
  <2> DEFINE first == CHOOSE n \in Named : \A j \in Named : n <= j
  <2>3. first \in Named
    <3>1. \E n \in Named : \A j \in Named : n <= j
      BY <1>2, <2>2, LeastLemma
    <3> QED
      BY <3>1
  <2>4. found' = links[first]
    BY <1>2 DEF FindLink
  <2> HIDE DEF first
  <2>5. first \in 1..Len(links)
    BY <2>2, <2>3
  <2> QED
    BY <2>1, <2>4, <2>5 DEF Devs
<1> QED
  BY <1>1, <1>2

\* A call goes on after the dump.
LEMMA ResumeStep ==
    ASSUME NetlinkInv, Resume
    PROVE  NetlinkInv'
<1>1. /\ pc = "resume" /\ UNCHANGED <<kernel, lastIndex, had, obj, nl, links, addresses, lists, fds>>
      /\ UNCHANGED <<inbox, call, carried, linkCalls, failures, unbound>>
  BY DEF Resume, hostVars, cacheVars
<1>2. NetlinkTypes /\ links \in Seq(Indices) /\ addresses \in Seq(Indices)
  BY DEF NetlinkInv, NetlinkTypes
<1>3. /\ obj = "live" /\ inbox = <<>>
      /\ failures = 0 => nl.dumped
      /\ lists["route"] # 0 => nl.dumped
      /\ nl.inited => fds = unbound + 1
      /\ ~nl.inited => fds = unbound
  BY <1>1 DEF NetlinkInv, InboxInv, ListsInv, SocketInv
<1>4. ASSUME NEW r \in BOOLEAN, EndCall(r), found' \in Devs,
             r => call.op \notin Setters /\ (call.op = "findAddresses" => call.index \in had)
      PROVE  NetlinkInv'
  <2>1. NetlinkTypes'
    BY <1>1, <1>2, <1>4 DEF NetlinkTypes, EndCall
  <2> QED
    BY <1>1, <1>3, <1>4, <2>1, ReturnLemma
<1>5. CASE call.op = "findLink" /\ FindLink
  <2>1. found' \in Devs
    BY <1>2, <1>5, FindLemma
  <2>2. EndCall(Named # {}) /\ (Named # {}) \in BOOLEAN
    BY <1>5 DEF FindLink
  <2>3. call.op \notin Setters /\ call.op # "findAddresses"
    BY <1>5 DEF Setters
  <2> QED
    BY <1>4, <2>1, <2>2, <2>3
<1>6. CASE call.op = "findAddresses" /\ FindAddresses
  <2>1. found' \in Devs
    BY <1>2, <1>6 DEF FindAddresses, NetlinkTypes
  <2>2. EndCall(call.index \in ToSet(addresses)) /\ (call.index \in ToSet(addresses)) \in BOOLEAN
    BY <1>6 DEF FindAddresses
  <2>3. call.op \notin Setters
    BY <1>6 DEF Setters
  <2>4. call.index \in ToSet(addresses) => call.index \in had
    <3>1. DOMAIN addresses = 1..Len(addresses) /\ \A n \in 1..Len(addresses) : addresses[n] \in had
      BY <1>2 DEF NetlinkInv, HadInv
    <3> QED
      BY <3>1 DEF ToSet
  <2> QED
    BY <1>4, <2>1, <2>2, <2>3, <2>4
<1>7. CASE call.op \in Setters /\ Set
  <2>1. found' \in Devs
    BY <1>2, <1>7 DEF Set, NetlinkTypes
  <2>2. CASE EndCall(FALSE)
    BY <1>4, <2>1, <2>2
  <2>3. CASE (call.op = "setDefaultGateway" \/ Known) /\ todo' = <<call.op>> /\ pc' = "send" /\ UNCHANGED result
    <3>1. call.op # "setDefaultGateway" => call.index \in Indices
      BY <1>2, <2>3 DEF Known, ToSet
    <3>2. Setting'
      BY <1>1, <1>7, <2>3, <3>1 DEF Setting
    <3>3. NetlinkTypes'
      BY <1>1, <1>2, <2>1, <2>3 DEF NetlinkTypes
    <3>4. HadInv'
      BY <1>1 DEF NetlinkInv, HadInv
    <3>5. TodoInv' /\ InboxInv'
      BY <1>1, <1>3, <2>3, <3>2 DEF TodoInv, InboxInv
    <3>6. SocketInv'
      BY <1>1, <1>3, <2>3 DEF SocketInv
    <3>7. ListsInv'
      BY <1>1, <1>3 DEF ListsInv
    <3>8. ResultInv'
      BY <2>3 DEF ResultInv
    <3> QED
      BY <3>3, <3>4, <3>5, <3>6, <3>7, <3>8 DEF NetlinkInv
  <2> QED
    BY <1>7, <2>2, <2>3 DEF Set
<1> QED
  BY <1>5, <1>6, <1>7 DEF Resume

\* The object goes, and with it the socket and a complete cache.
LEMMA DestructStep ==
    ASSUME NetlinkInv, Destruct
    PROVE  NetlinkInv'
<1>1. /\ obj = "live" /\ obj' = "gone" /\ pc = "idle" /\ fds' = Closed
      /\ lists' = IF nl.dumped THEN ClearCache ELSE lists
      /\ nl' = [nl EXCEPT !.dumped = FALSE]
      /\ UNCHANGED <<kernel, lastIndex, had, links, addresses, pc, todo, inbox, call, result, found, linkCalls, carried>>
      /\ UNCHANGED <<failures, unbound>>
  BY DEF Destruct, hostVars, callerVars
<1>2. /\ NetlinkTypes /\ lists \in [Kinds -> Nat] /\ nl \in [inited : BOOLEAN, dumped : BOOLEAN]
      /\ fds \in Nat /\ unbound \in Nat
  BY DEF NetlinkInv, NetlinkTypes
<1>3. /\ failures = 0 => nl.dumped
      /\ lists["route"] # 0 => nl.dumped
      /\ nl.inited => fds = unbound + 1
      /\ ~nl.inited => fds = unbound
  BY <1>1 DEF NetlinkInv, ListsInv, SocketInv
<1>4. fds' = unbound
  BY <1>1, <1>2, <1>3 DEF Closed
<1>5. /\ lists' \in [Kinds -> Nat]
      /\ nl.dumped => \A t \in Kinds : lists'[t] = 0
      /\ ~nl.dumped => lists' = lists
  BY <1>1, <1>2 DEF ClearCache
<1>6. lists'["route"] = 0 /\ (failures = 0 => \A t \in Kinds : lists'[t] = 0)
  BY <1>3, <1>5 DEF Kinds
<1>7. NetlinkTypes'
  BY <1>1, <1>2, <1>4, <1>5 DEF NetlinkTypes
<1>8. HadInv'
  BY <1>1 DEF NetlinkInv, HadInv
<1>9. TodoInv' /\ InboxInv'
  BY <1>1 DEF NetlinkInv, TodoInv, InboxInv
<1>10. SocketInv'
  BY <1>1, <1>4 DEF SocketInv
<1>11. ListsInv'
  BY <1>1, <1>6 DEF ListsInv
<1>12. ResultInv'
  BY <1>1 DEF NetlinkInv, ResultInv
<1> QED
  BY <1>7, <1>8, <1>9, <1>10, <1>11, <1>12 DEF NetlinkInv

\* Every step of the object, of the kernel and of the host.
LEMMA NetlinkNextInv == NetlinkInv /\ [NetlinkNext]_netlinkVars => NetlinkInv'
<1> SUFFICES ASSUME NetlinkInv, [NetlinkNext]_netlinkVars PROVE NetlinkInv'
  OBVIOUS
<1>1. CASE UNCHANGED netlinkVars
  <2>1. NetlinkTypes' /\ HadInv'
    BY <1>1 DEF netlinkVars, NetlinkInv, NetlinkTypes, HadInv
  <2>2. TodoInv' /\ InboxInv'
    BY <1>1 DEF netlinkVars, NetlinkInv, TodoInv, InboxInv, Setting
  <2>3. SocketInv' /\ ListsInv' /\ ResultInv'
    BY <1>1 DEF netlinkVars, NetlinkInv, SocketInv, ListsInv, ResultInv
  <2> QED
    BY <2>1, <2>2, <2>3 DEF NetlinkInv
<1> QED
  BY <1>1, HostStep, ConstructStep, SendStep, ReadStep, ResumeStep, DestructStep, CallStep
     DEF NetlinkNext, NetlinkRest

\* What the run checks of the object follows.
LEMMA NetlinkSound == NetlinkInv => RepliesBelong /\ NetlinkTypeOK
<1> SUFFICES ASSUME NetlinkInv PROVE RepliesBelong /\ NetlinkTypeOK
  OBVIOUS
<1> USE DEF NetlinkInv
<1>1. NoReplyIsLeft
  BY DEF NoReplyIsLeft, InboxInv
<1>2. TrueMeansDone /\ AddressIsOfLink
  BY DEF TrueMeansDone, AddressIsOfLink, ResultInv
<1>3. CompleteDumpIsFreed
  BY DEF CompleteDumpIsFreed, SocketInv, ListsInv, NetlinkTypes
<1>4. NetlinkTypeOK
  BY DEF NetlinkTypeOK, NetlinkTypes, Devs
<1> QED
  BY <1>1, <1>2, <1>3, <1>4 DEF RepliesBelong

----------------------------------------------------------------------------
(***************************************************************************)
(* The network gateway.  The invariant ties the entries to the accepted    *)
(* rules and the contents of iptables to the entries: the table holds only *)
(* commands of entries, and an entry the activation is past has all its    *)
(* commands there, unless a job for its chain is lost, and whatever earlier*)
(* activations left behind.                                                *)
(***************************************************************************)
\* An entry was made from an accepted rule.
MadeFrom(e, a) == e.chain = a.chain /\ e.rule = ParseRule(a.rule)

\* All that the job of an entry does has been done.
AppliedIn(t, p, e) ==
    /\ p[e.chain] = "DROP"
    /\ \A c \in CommandsOf(e.rule) : Valid(c) => c \in t[e.chain]

Applied(e) == AppliedIn(table, policy, e)

GatewayTypes ==
    /\ gateway \in BOOLEAN /\ init \in BOOLEAN
    /\ st \in {"created", "configured", "activated"}
    /\ step \in {"idle", "up", "route", "entries"}
    /\ attempts \in 0..MaxActivations
    /\ entries \in Seq([chain : Chains, rule : {ParseRule(r) : r \in RuleConfigs}])
    /\ Len(entries) <= MaxElements
    /\ k \in Nat /\ k > 0 /\ k <= Len(entries) + 1
    /\ net \in [link : BOOLEAN, address : BOOLEAN, route : BOOLEAN]
    /\ policy \in [Chains -> {"ACCEPT", "DROP"}]
    /\ DOMAIN table = Chains
    /\ lost \subseteq {"link", "route"} \cup Chains

EntriesInv ==
    /\ \A a \in rules : a.chain \in Chains
    /\ \A n \in 1..Len(entries) : \E a \in rules : MadeFrom(entries[n], a)
    /\ \A a \in rules : \E n \in 1..Len(entries) : MadeFrom(entries[n], a)

TableInv ==
    \A chain \in Chains : \A c \in table[chain] :
        /\ Valid(c)
        /\ \E n \in 1..Len(entries) : entries[n].chain = chain /\ c \in CommandsOf(entries[n].rule)

AppliedInv ==
    /\ step # "entries" => k = 1
    /\ \A n \in 1..(k - 1) : Applied(entries[n]) \/ entries[n].chain \in lost
    /\ Networked => \A n \in 1..Len(entries) : Applied(entries[n]) \/ entries[n].chain \in lost

UpInv ==
    /\ init /\ "link" \notin lost => net.link /\ net.address
    /\ step \in {"route", "entries"} => init
    /\ Networked => init
    /\ ~gateway => ~net.link /\ ~net.address /\ step = "idle"
    /\ step # "idle" => st = "configured"

GatewayInv == GatewayTypes /\ EntriesInv /\ TableInv /\ AppliedInv /\ UpInv

\* An object of the gateway before its configuration.
LEMMA GatewayInitInv == NetworkInit => GatewayInv
<1> SUFFICES ASSUME NetworkInit PROVE GatewayInv
  OBVIOUS
<1>1. GatewayTypes
  <2>1. MaxElements \in Nat /\ MaxActivations \in Nat
    BY NetworkAssumption
  <2>2. entries = <<>> /\ k = 1 /\ attempts = 0
    BY DEF NetworkInit
  <2>3. /\ entries \in Seq([chain : Chains, rule : {ParseRule(r) : r \in RuleConfigs}])
        /\ Len(entries) <= MaxElements
        /\ k \in Nat /\ k > 0 /\ k <= Len(entries) + 1
        /\ attempts \in 0..MaxActivations
    BY <2>1, <2>2
  <2>4. gateway \in BOOLEAN /\ init \in BOOLEAN /\ net \in [link : BOOLEAN, address : BOOLEAN, route : BOOLEAN]
    BY DEF NetworkInit
  <2>5. /\ st \in {"created", "configured", "activated"} /\ step \in {"idle", "up", "route", "entries"}
        /\ policy \in [Chains -> {"ACCEPT", "DROP"}] /\ DOMAIN table = Chains
        /\ lost = {}
    BY DEF NetworkInit
  <2> QED
    BY <2>3, <2>4, <2>5 DEF GatewayTypes
<1>2. EntriesInv
  BY DEF NetworkInit, EntriesInv
<1>3. TableInv
  BY DEF NetworkInit, TableInv
<1>4. AppliedInv
  BY DEF NetworkInit, AppliedInv, Networked
<1>5. UpInv
  BY DEF NetworkInit, UpInv, Networked
<1> QED
  BY <1>1, <1>2, <1>3, <1>4, <1>5 DEF GatewayInv

\* readConfigElement: one more entry, made from the rule that is accepted.
LEMMA SetNetworkConfigStep ==
    ASSUME GatewayInv, NEW chain \in Chains, NEW r \in RuleConfigs, SetNetworkConfig(chain, r)
    PROVE  GatewayInv'
<1> DEFINE e == [chain |-> chain, rule |-> ParseRule(r)]
           E == [chain : Chains, rule : {ParseRule(q) : q \in RuleConfigs}]
           N == Len(entries) + 1
<1>1. /\ step = "idle" /\ st # "activated" /\ Len(entries) < MaxElements /\ st' = "configured"
      /\ entries' = Append(entries, e)
      /\ rules' = rules \cup {[chain |-> chain, rule |-> r]}
      /\ UNCHANGED <<gateway, step, k, attempts, init, net, table, policy, lost>>
  BY DEF SetNetworkConfig
<1>2. e \in E
  OBVIOUS
<1>3. entries \in Seq(E) /\ GatewayTypes
  BY DEF GatewayInv, GatewayTypes
<1> HIDE DEF e, E
<1>4. /\ entries' \in Seq(E) /\ Len(entries') = N /\ N \in Nat
      /\ \A n \in 1..Len(entries) : entries'[n] = entries[n] /\ n \in 1..Len(entries')
      /\ entries'[N] = e /\ N \in 1..Len(entries')
      /\ \A n \in 1..Len(entries') : n \in 1..Len(entries) \/ n = N
  BY <1>1, <1>2, <1>3
<1>5. GatewayTypes'
  <2>1. Len(entries') <= MaxElements /\ k' <= Len(entries') + 1
    BY <1>1, <1>3, <1>4, NetworkAssumption DEF GatewayTypes
  <2> QED
    BY <1>1, <1>3, <1>4, <2>1 DEF GatewayTypes, E
<1> HIDE DEF N
<1>6. EntriesInv'
  <2> DEFINE b == [chain |-> chain, rule |-> r]
  <2>1. MadeFrom(e, b) /\ b.chain \in Chains
    BY DEF e, MadeFrom
  <2> HIDE DEF b
  <2>2. rules' = rules \cup {b}
    BY <1>1 DEF b
  <2>3. \A n \in 1..Len(entries') : \E a \in rules' : MadeFrom(entries'[n], a)
    BY <1>4, <2>1, <2>2 DEF GatewayInv, EntriesInv
  <2>4. \A a \in rules' : \E n \in 1..Len(entries') : MadeFrom(entries'[n], a)
    BY <1>4, <2>1, <2>2 DEF GatewayInv, EntriesInv
  <2>5. \A a \in rules' : a.chain \in Chains
    BY <2>1, <2>2 DEF GatewayInv, EntriesInv
  <2> QED
    BY <2>3, <2>4, <2>5 DEF EntriesInv, MadeFrom
<1>7. TableInv'
  BY <1>1, <1>4 DEF GatewayInv, TableInv
<1>8. AppliedInv'
  <2>1. k = 1 /\ ~Networked'
    BY <1>1 DEF GatewayInv, AppliedInv, Networked
  <2> QED
    BY <1>1, <2>1 DEF AppliedInv
<1>9. UpInv'
  BY <1>1 DEF GatewayInv, UpInv, Networked
<1> QED
  BY <1>5, <1>6, <1>7, <1>8, <1>9 DEF GatewayInv

\* The end of an activation that leaves the table alone.
LEMMA EndsLemma ==
    ASSUME GatewayInv, NEW result0 \in BOOLEAN, NetworkEnds(result0),
           UNCHANGED <<gateway, entries, rules, table, policy>>,
           gateway => ~Networked,
           attempts' \in 0..MaxActivations, init' \in BOOLEAN,
           net' \in [link : BOOLEAN, address : BOOLEAN, route : BOOLEAN],
           lost' \subseteq {"link", "route"} \cup Chains,
           init' /\ "link" \notin lost' => net'.link /\ net'.address,
           ~gateway => ~net'.link /\ ~net'.address,
           result0 /\ gateway =>
             init' /\ \A n \in 1..Len(entries) : Applied(entries[n]) \/ entries[n].chain \in lost'
    PROVE  GatewayInv'
<1>1. step' = "idle" /\ k' = 1 /\ (result0 => st' = "activated") /\ (~result0 => st' = st)
  BY DEF NetworkEnds
<1>2. GatewayTypes'
  <2>1. GatewayTypes
    BY DEF GatewayInv
  <2>2. k' \in Nat /\ k' > 0 /\ k' <= Len(entries') + 1
    BY <1>1, <2>1 DEF GatewayTypes
  <2>3. st' \in {"created", "configured", "activated"}
    BY <1>1, <2>1 DEF GatewayTypes
  <2> QED
    BY <1>1, <2>1, <2>2, <2>3 DEF GatewayTypes
<1>3. EntriesInv' /\ TableInv'
  BY DEF GatewayInv, EntriesInv, TableInv
<1>4. \A e : Applied(e)' <=> Applied(e)
  BY DEF Applied, AppliedIn
<1>5. Networked' => result0 /\ gateway
  BY <1>1 DEF Networked
<1>6. AppliedInv'
  <2>1. Networked' => \A n \in 1..Len(entries) : Applied(entries[n]) \/ entries[n].chain \in lost'
    BY <1>5
  <2> QED
    BY <1>1, <1>4, <2>1 DEF AppliedInv
<1>7. UpInv'
  BY <1>1, <1>5 DEF GatewayInv, UpInv, Networked
<1> QED
  BY <1>2, <1>3, <1>6, <1>7 DEF GatewayInv

\* The steps that change neither the entries nor the table.
LEMMA GoesOnLemma ==
    ASSUME GatewayInv, gateway, UNCHANGED <<gateway, entries, rules, table, policy, st, k>>,
           step' \in {"up", "route", "entries"}, step # "entries", st = "configured",
           step' # "up" => init',
           attempts' \in 0..MaxActivations, init' \in BOOLEAN,
           net' \in [link : BOOLEAN, address : BOOLEAN, route : BOOLEAN],
           lost' \subseteq {"link", "route"} \cup Chains,
           init' /\ "link" \notin lost' => net'.link /\ net'.address
    PROVE  GatewayInv'
<1>1. GatewayTypes'
  BY DEF GatewayInv, GatewayTypes
<1>2. EntriesInv' /\ TableInv'
  BY DEF GatewayInv, EntriesInv, TableInv
<1>3. AppliedInv'
  <2>1. k = 1 /\ ~Networked'
    BY DEF GatewayInv, AppliedInv, Networked
  <2> QED
    BY <2>1 DEF AppliedInv
<1>4. UpInv'
  BY DEF UpInv, Networked
<1> QED
  BY <1>1, <1>2, <1>3, <1>4 DEF GatewayInv

\* While an activation goes on, there is a bridge, and the gateway is not activated yet.
\* What is lost is the link, the route or chains.
LEMMA ActiveLemma ==
    ASSUME GatewayInv
    PROVE  /\ step # "idle" => gateway /\ st = "configured"
           /\ st = "configured" => ~Networked
           /\ lost \subseteq {"link", "route"} \cup Chains
BY DEF GatewayInv, GatewayTypes, UpInv, Networked

\* The beginning of activateGateway.
LEMMA BeginStep ==
    ASSUME GatewayInv, Begin
    PROVE  GatewayInv'
<1>1. /\ step = "idle" /\ st = "configured" /\ attempts < MaxActivations /\ attempts' = attempts + 1
      /\ lost' = lost \ Chains
      /\ UNCHANGED <<gateway, entries, rules, init, net, table, policy>>
  BY DEF Begin
<1>2. attempts' \in 0..MaxActivations
  BY <1>1, NetworkAssumption DEF GatewayInv, GatewayTypes
<1>3. /\ init' \in BOOLEAN /\ net' \in [link : BOOLEAN, address : BOOLEAN, route : BOOLEAN]
      /\ lost' \subseteq {"link", "route"} \cup Chains
      /\ init' /\ "link" \notin lost' => net'.link /\ net'.address
      /\ ~gateway => ~net'.link /\ ~net'.address
      /\ ~Networked
  BY <1>1, ActiveLemma DEF GatewayInv, GatewayTypes, UpInv, Chains
<1>4. CASE ~gateway /\ NetworkEnds(TRUE)
  BY <1>1, <1>2, <1>3, <1>4, EndsLemma
<1>5. CASE gateway /\ step' = "up" /\ UNCHANGED <<st, k>>
  BY <1>1, <1>2, <1>3, <1>5, GoesOnLemma
<1>6. CASE gateway /\ NetworkEnds(FALSE)
  BY <1>1, <1>2, <1>3, <1>6, EndsLemma
<1> QED
  BY <1>4, <1>5, <1>6 DEF Begin

\* up() and its job.
LEMMA UpStep ==
    ASSUME GatewayInv, UpAgain \/ Up
    PROVE  GatewayInv'
<1>1. /\ step = "up" /\ st = "configured" /\ gateway
      /\ UNCHANGED <<gateway, entries, rules, attempts, table, policy>>
  BY ActiveLemma DEF UpAgain, Up
<1>2. attempts' \in 0..MaxActivations /\ net \in [link : BOOLEAN, address : BOOLEAN, route : BOOLEAN]
      /\ init \in BOOLEAN /\ (init /\ "link" \notin lost => net.link /\ net.address)
      /\ lost \subseteq {"link", "route"} \cup Chains /\ ~Networked
  BY <1>1, ActiveLemma DEF GatewayInv, GatewayTypes, UpInv
<1>3. CASE UpAgain
  BY <1>1, <1>2, <1>3, GoesOnLemma DEF UpAgain
<1>4. CASE Up
  <2>1. PICK up \in Outcomes : \E answer \in {up, "SUCCESS"} : UpResult(up, answer)
    BY <1>4 DEF Up
  <2> PICK answer \in {up, "SUCCESS"} : UpResult(up, answer)
    BY <2>1
  <2>2. ~init
    BY <1>4 DEF Up
  <2> DEFINE l == net.link \/ up \in {"BAD_SETIP", "SUCCESS"}
             a == net.address \/ up = "SUCCESS"
  <2>3. l \in BOOLEAN /\ a \in BOOLEAN /\ (up = "SUCCESS" => l /\ a)
    OBVIOUS
  <2>4. net' = [net EXCEPT !.link = l, !.address = a]
    BY DEF UpResult
  <2> HIDE DEF l, a
  <2>5. net' \in [link : BOOLEAN, address : BOOLEAN, route : BOOLEAN] /\ net'.link = l /\ net'.address = a
    BY <1>2, <2>3, <2>4
  <2>6. CASE answer = "SUCCESS"
    <3>1. init' = TRUE /\ step' = "route" /\ UNCHANGED <<st, k>> /\ lost' = LostAfter("link", up = "SUCCESS")
      BY <2>6 DEF UpResult
    <3>2. lost' \subseteq {"link", "route"} \cup Chains /\ ("link" \notin lost' => up = "SUCCESS")
      BY <1>2, <3>1 DEF LostAfter
    <3> QED
      BY <1>1, <1>2, <2>3, <2>5, <3>1, <3>2, GoesOnLemma
  <2>7. CASE answer # "SUCCESS"
    <3>1. NetworkEnds(FALSE) /\ UNCHANGED <<init, lost>>
      BY <2>7 DEF UpResult
    <3> QED
      BY <1>1, <1>2, <2>2, <2>5, <3>1, EndsLemma
  <2> QED
    BY <2>6, <2>7
<1> QED
  BY <1>3, <1>4

\* setDefaultGateway, once the interface is up.
LEMMA RouteStep ==
    ASSUME GatewayInv, SetDefaultGateway
    PROVE  GatewayInv'
<1>1. /\ step = "route" /\ st = "configured" /\ gateway
      /\ UNCHANGED <<gateway, entries, rules, attempts, init, table, policy>>
  BY ActiveLemma DEF SetDefaultGateway
<1>2. /\ attempts' \in 0..MaxActivations /\ net \in [link : BOOLEAN, address : BOOLEAN, route : BOOLEAN]
      /\ init /\ init \in BOOLEAN /\ ("link" \notin lost => net.link /\ net.address)
      /\ lost \subseteq {"link", "route"} \cup Chains /\ ~Networked
  BY <1>1, ActiveLemma DEF GatewayInv, GatewayTypes, UpInv
<1>3. CASE \E set \in BOOLEAN :
             /\ net' = [net EXCEPT !.route = @ \/ set]
             /\ lost' = LostAfter("route", set)
             /\ step' = "entries" /\ UNCHANGED <<st, k>>
  <2>1. PICK set \in BOOLEAN :
             /\ net' = [net EXCEPT !.route = @ \/ set]
             /\ lost' = LostAfter("route", set)
             /\ step' = "entries" /\ UNCHANGED <<st, k>>
    BY <1>3
  <2> DEFINE r == net.route \/ set
  <2>2. r \in BOOLEAN /\ net' = [net EXCEPT !.route = r]
    BY <2>1
  <2> HIDE DEF r
  <2>3. net' \in [link : BOOLEAN, address : BOOLEAN, route : BOOLEAN]
        /\ net'.link = net.link /\ net'.address = net.address
    BY <1>2, <2>2
  <2>4. lost' \subseteq {"link", "route"} \cup Chains /\ ("link" \notin lost' => "link" \notin lost)
    BY <1>2, <2>1 DEF LostAfter
  <2> QED
    BY <1>1, <1>2, <2>1, <2>3, <2>4, GoesOnLemma
<1>4. CASE NetworkEnds(FALSE) /\ UNCHANGED <<net, lost>>
  BY <1>1, <1>2, <1>4, EndsLemma
<1> QED
  BY <1>3, <1>4 DEF SetDefaultGateway

\* The end of activateGateway: all entries are applied.
LEMMA FinishStep ==
    ASSUME GatewayInv, Finish
    PROVE  GatewayInv'
<1>1. /\ step = "entries" /\ k > Len(entries) /\ NetworkEnds(TRUE) /\ gateway
      /\ UNCHANGED <<gateway, entries, rules, attempts, init, net, table, policy, lost>>
  BY ActiveLemma DEF Finish
<1>2. /\ attempts' \in 0..MaxActivations /\ net \in [link : BOOLEAN, address : BOOLEAN, route : BOOLEAN]
      /\ init /\ init \in BOOLEAN /\ ("link" \notin lost => net.link /\ net.address)
      /\ lost \subseteq {"link", "route"} \cup Chains /\ ~Networked
  BY <1>1, ActiveLemma DEF GatewayInv, GatewayTypes, UpInv
<1>3. k = Len(entries) + 1 /\ Len(entries) \in Nat
  BY <1>1 DEF GatewayInv, GatewayTypes
<1>4. \A n \in 1..Len(entries) : Applied(entries[n]) \/ entries[n].chain \in lost
  <2>1. \A n \in 1..(k - 1) : Applied(entries[n]) \/ entries[n].chain \in lost
    BY DEF GatewayInv, AppliedInv
  <2> QED
    BY <1>3, <2>1
<1> QED
  BY <1>1, <1>2, <1>4, EndsLemma

\* The job of one entry: its commands and its policy, or only some of these.
LEMMA ApplyStep ==
    ASSUME GatewayInv, ApplyRules
    PROVE  GatewayInv'
<1> DEFINE e == entries[k]
           cmds == {c \in CommandsOf(e.rule) : Valid(c)}
           E == [chain : Chains, rule : {ParseRule(q) : q \in RuleConfigs}]
<1>1. /\ step = "entries" /\ k <= Len(entries) /\ gateway /\ st = "configured"
      /\ UNCHANGED <<gateway, entries, rules, attempts, init, net>>
  BY ActiveLemma DEF ApplyRules
<1>2. PICK taken \in SUBSET cmds, set \in BOOLEAN :
        /\ table' = [table EXCEPT ![e.chain] = @ \cup taken]
        /\ policy' = IF set THEN [policy EXCEPT ![e.chain] = InterpretPolicy] ELSE policy
        /\ \/ /\ k' = k + 1 /\ UNCHANGED <<st, step>>
              /\ lost' = LostAfter(e.chain, taken = cmds /\ set)
           \/ ~set /\ NetworkEnds(FALSE) /\ UNCHANGED lost
  BY DEF ApplyRules
<1>3. /\ GatewayTypes /\ entries \in Seq(E) /\ k \in Nat /\ k > 0 /\ DOMAIN table = Chains
      /\ policy \in [Chains -> {"ACCEPT", "DROP"}]
      /\ lost \subseteq {"link", "route"} \cup Chains
  BY DEF GatewayInv, GatewayTypes
<1> HIDE DEF cmds, E
<1>4. e \in E /\ k \in 1..Len(entries)
  BY <1>1, <1>3
<1>5. e.chain \in Chains
  BY <1>4 DEF E
<1>6. /\ DOMAIN table' = Chains
      /\ \A chain \in Chains : chain # e.chain => table'[chain] = table[chain]
      /\ table'[e.chain] = table[e.chain] \cup taken
  BY <1>2, <1>3, <1>5
<1>7. /\ policy' \in [Chains -> {"ACCEPT", "DROP"}]
      /\ \A chain \in Chains : policy[chain] = "DROP" => policy'[chain] = "DROP"
      /\ UNCHANGED policy \/ policy'[e.chain] = "DROP"
  <2>1. CASE UNCHANGED policy
    BY <1>3, <2>1
  <2>2. CASE policy' = [policy EXCEPT ![e.chain] = InterpretPolicy]
    BY <1>3, <1>5, <2>2 DEF InterpretPolicy
  <2> QED
    BY <1>2, <2>1, <2>2
<1>8. \A n \in 1..Len(entries) : entries[n].chain \in Chains
  <2>1. \A n \in 1..Len(entries) : entries[n] \in E
    BY <1>3
  <2> QED
    BY <2>1 DEF E
<1> HIDE DEF e
<1>9. TableInv'
  <2> SUFFICES ASSUME NEW chain \in Chains, NEW c \in table'[chain]
               PROVE  /\ Valid(c)
                      /\ \E n \in 1..Len(entries) : entries[n].chain = chain /\ c \in CommandsOf(entries[n].rule)
    BY <1>1 DEF TableInv
  <2>1. CASE c \in table[chain]
    BY <2>1 DEF GatewayInv, TableInv
  <2>2. CASE chain = e.chain /\ c \in taken
    BY <1>2, <1>4, <2>2 DEF cmds, e
  <2> QED
    BY <1>6, <2>1, <2>2
<1>10. \A n \in 1..Len(entries) : Applied(entries[n]) => AppliedIn(table', policy', entries[n])
  <2> TAKE n \in 1..Len(entries)
  <2>1. entries[n].chain \in Chains
    BY <1>8
  <2>2. \A c \in table[entries[n].chain] : c \in table'[entries[n].chain]
    BY <1>6, <2>1
  <2> QED
    BY <1>7, <2>1, <2>2 DEF Applied, AppliedIn
<1>11. EntriesInv'
  BY <1>1 DEF GatewayInv, EntriesInv
<1>12. ~Networked'
  BY <1>1, <1>2 DEF Networked, NetworkEnds
<1>13. CASE NetworkEnds(FALSE) /\ UNCHANGED lost
  <2>1. step' = "idle" /\ k' = 1 /\ st' = st
    BY <1>13 DEF NetworkEnds
  <2>2. GatewayTypes'
    <3>1. k' \in Nat /\ k' > 0 /\ k' <= Len(entries') + 1
      BY <1>1, <1>3, <2>1
    <3> QED
      BY <1>1, <1>3, <1>6, <1>7, <1>13, <2>1, <3>1 DEF GatewayTypes
  <2>3. AppliedInv'
    BY <1>12, <2>1 DEF AppliedInv
  <2>4. UpInv'
    BY <1>1, <1>12, <1>13, <2>1 DEF GatewayInv, UpInv
  <2> QED
    BY <1>9, <1>11, <2>2, <2>3, <2>4 DEF GatewayInv
<1>14. CASE k' = k + 1 /\ UNCHANGED <<st, step>> /\ lost' = LostAfter(e.chain, taken = cmds /\ set)
  <2>1. lost \subseteq lost' /\ lost' \subseteq {"link", "route"} \cup Chains
    BY <1>3, <1>5, <1>14 DEF LostAfter
  <2>2. AppliedIn(table', policy', entries[k]) \/ entries[k].chain \in lost'
    <3>1. CASE taken = cmds /\ set
      <4>1. policy'[e.chain] = "DROP"
        BY <1>2, <1>3, <1>5, <3>1 DEF InterpretPolicy
      <4>2. \A c \in CommandsOf(e.rule) : Valid(c) => c \in table'[e.chain]
        BY <1>6, <3>1 DEF cmds
      <4> QED
        BY <4>1, <4>2 DEF AppliedIn, e
    <3>2. CASE ~(taken = cmds /\ set)
      <4>1. lost' = lost \cup {e.chain}
        BY <1>14, <3>2 DEF LostAfter
      <4> QED
        BY <4>1 DEF e
    <3> QED
      BY <3>1, <3>2
  <2>3. \A n \in 1..(k' - 1) : AppliedIn(table', policy', entries[n]) \/ entries[n].chain \in lost'
    <3> TAKE n \in 1..(k' - 1)
    <3>1. n = k \/ n \in 1..(k - 1)
      BY <1>3, <1>14
    <3>2. n \in 1..(k - 1) => n \in 1..Len(entries) /\ (Applied(entries[n]) \/ entries[n].chain \in lost)
      BY <1>1, <1>3 DEF GatewayInv, AppliedInv
    <3> QED
      BY <1>10, <2>1, <2>2, <3>1, <3>2
  <2>4. AppliedInv'
    BY <1>1, <1>12, <1>14, <2>3 DEF AppliedInv, Applied
  <2>5. GatewayTypes'
    <3>1. k' \in Nat /\ k' > 0 /\ k' <= Len(entries') + 1
      BY <1>1, <1>3, <1>14
    <3> QED
      BY <1>1, <1>3, <1>6, <1>7, <1>14, <2>1, <3>1 DEF GatewayTypes
  <2>6. UpInv'
    BY <1>1, <1>12, <1>14, <2>1 DEF GatewayInv, UpInv
  <2> QED
    BY <1>9, <1>11, <2>4, <2>5, <2>6 DEF GatewayInv
<1> QED
  BY <1>2, <1>13, <1>14

\* Every step of the gateway.
LEMMA GatewayNextInv == GatewayInv /\ [NetworkNext]_networkVars => GatewayInv'
<1> SUFFICES ASSUME GatewayInv, [NetworkNext]_networkVars PROVE GatewayInv'
  OBVIOUS
<1>1. CASE UNCHANGED networkVars
  <2>1. GatewayTypes' /\ EntriesInv' /\ TableInv' /\ UpInv'
    BY <1>1 DEF networkVars, GatewayInv, GatewayTypes, EntriesInv, TableInv, UpInv, Networked
  <2>2. AppliedInv'
    BY <1>1 DEF networkVars, GatewayInv, AppliedInv, Applied, Networked
  <2> QED
    BY <2>1, <2>2 DEF GatewayInv
<1> QED
  BY <1>1, SetNetworkConfigStep, BeginStep, UpStep, RouteStep, ApplyStep, FinishStep DEF NetworkNext, NetworkRest

----------------------------------------------------------------------------
\* A well-formed rule is taken as it is.
LEMMA ParseLemma ==
    ASSUME NEW r, WellFormed(r)
    PROVE  ParseRule(r).host = r.host /\ ParseRule(r).protocols = r.protocols /\ ParseRule(r).ports = r.ports
<1>1. ParseProtocol(r.protocols) = r.protocols
  BY DEF ParseProtocol, WellFormed
<1>2. ParsePort(r.ports) = r.ports
  BY DEF ParsePort, WellFormed
<1> QED
  BY <1>1, <1>2 DEF ParseRule

\* A command of a rule matches only what the rule allows, or, if the rule is not
\* well-formed, what it names the host of.
LEMMA MatchesOnlyAllowed ==
    ASSUME NEW r, NEW c \in CommandsOf(ParseRule(r)), NEW p, Matches(c, p)
    PROVE  Allows(r, p) \/ (~WellFormed(r) /\ HostAllowed(r, p))
<1> DEFINE q == ParseRule(r)
<1>1. q.host = r.host
  BY DEF ParseRule
<1>2. \/ q.protocols = <<>> /\ c = InterpretRule(q)
      \/ q.protocols # <<>> /\ \E j \in DOMAIN q.protocols : c = InterpretRuleWithProtocol(q, q.protocols[j])
  BY DEF CommandsOf
<1> HIDE DEF q
<1>3. c.host = q.host /\ c.ports = q.ports
  BY <1>2 DEF InterpretRule, InterpretRuleWithProtocol
<1>4. HostAllowed(r, p)
  BY <1>1, <1>3 DEF HostAllowed, Matches
<1>5. ASSUME WellFormed(r) PROVE Allows(r, p)
  <2>1. q.protocols = r.protocols /\ q.ports = r.ports
    BY <1>5, ParseLemma DEF q
  <2>2. r.ports = "absent" \/ p.port = "named"
    BY <1>3, <2>1 DEF Matches
  <2>3. r.protocols = <<>> \/ \E j \in DOMAIN r.protocols : r.protocols[j] = p.proto
    <3>1. CASE q.protocols = <<>>
      BY <2>1, <3>1
    <3>2. CASE \E j \in DOMAIN q.protocols : c = InterpretRuleWithProtocol(q, q.protocols[j])
      <4>1. PICK j \in DOMAIN q.protocols : c = InterpretRuleWithProtocol(q, q.protocols[j])
        BY <3>2
      <4>2. c.proto = r.protocols[j] /\ j \in DOMAIN r.protocols
        BY <2>1, <4>1 DEF InterpretRuleWithProtocol
      <4>3. c.proto \in {"tcp", "udp", "icmp"}
        BY <1>5, <4>2 DEF WellFormed, Protocols
      <4>4. c.proto = p.proto
        BY <4>3 DEF Matches
      <4> QED
        BY <4>2, <4>4
    <3> QED
      BY <1>2, <3>1, <3>2
  <2> QED
    BY <1>4, <1>5, <2>2, <2>3 DEF Allows
<1> QED
  BY <1>4, <1>5

\* A well-formed rule with protocols, or without ports, has a command iptables takes for
\* every packet it allows.
LEMMA AllowedIsMatched ==
    ASSUME NEW r, NEW p \in Packets, Allows(r, p), r.protocols # <<>> \/ r.ports = "absent"
    PROVE  \E c \in CommandsOf(ParseRule(r)) : Valid(c) /\ Matches(c, p)
<1> DEFINE q == ParseRule(r)
<1>1. q.host = r.host /\ q.protocols = r.protocols /\ q.ports = r.ports
  BY ParseLemma DEF Allows
<1>2. r.host = "*" \/ p.host = "named"
  BY DEF Allows, HostAllowed
<1>3. r.ports = "absent" \/ p.port = "named"
  BY DEF Allows
<1>4. p.port = "named" => p.proto \in {"tcp", "udp"}
  BY DEF Packets, Protocols
<1> HIDE DEF q
<1>5. CASE r.protocols = <<>>
  <2>1. r.ports = "absent"
    BY <1>5
  <2> DEFINE c == InterpretRule(q)
  <2>2. c \in CommandsOf(q)
    BY <1>1, <1>5 DEF CommandsOf
  <2>3. c.host = q.host /\ c.ports = "absent" /\ c.proto = "any"
    BY <1>1, <2>1 DEF InterpretRule
  <2> HIDE DEF c
  <2>4. Valid(c) /\ Matches(c, p)
    BY <1>1, <1>2, <2>3 DEF Valid, Matches
  <2> QED
    BY <2>2, <2>4 DEF q
<1>6. CASE r.protocols # <<>>
  <2>1. PICK j \in DOMAIN r.protocols : r.protocols[j] = p.proto
    BY <1>6 DEF Allows
  <2> DEFINE c == InterpretRuleWithProtocol(q, q.protocols[j])
  <2>2. c \in CommandsOf(q)
    BY <1>1, <1>6, <2>1 DEF CommandsOf
  <2>3. c.host = q.host /\ c.ports = q.ports /\ c.proto = p.proto
    BY <1>1, <2>1 DEF InterpretRuleWithProtocol
  <2> HIDE DEF c
  <2>4. Valid(c) /\ Matches(c, p)
    BY <1>1, <1>2, <1>3, <1>4, <2>3 DEF Valid, Matches
  <2> QED
    BY <2>2, <2>4 DEF q
<1> QED
  BY <1>5, <1>6

\* What the run checks of the gateway follows.
LEMMA GatewaySound == GatewayInv => RulesDecide /\ NetworkTypeOK
<1> SUFFICES ASSUME GatewayInv PROVE RulesDecide /\ NetworkTypeOK
  OBVIOUS
<1>1. \A chain \in Chains : \A r \in RulesFor(chain) :
         \E n \in 1..Len(entries) : entries[n].chain = chain /\ entries[n].rule = ParseRule(r)
  BY DEF RulesFor, GatewayInv, EntriesInv, MadeFrom
<1>2. \A n \in 1..Len(entries) : \E r \in RulesFor(entries[n].chain) : entries[n].rule = ParseRule(r)
  BY DEF RulesFor, GatewayInv, EntriesInv, MadeFrom
<1>3. Networked => \A n \in 1..Len(entries) : AppliedIn(table, policy, entries[n]) \/ entries[n].chain \in lost
  BY DEF GatewayInv, AppliedInv, Applied
<1>8. ActivatedIsClosed
  BY <1>1, <1>3 DEF ActivatedIsClosed, AppliedIn
<1>4. OnlyAllowedPasses
  <2> SUFFICES ASSUME NEW chain \in Chains, NEW p \in Packets, policy[chain] = "DROP", Accepted(chain, p)
               PROVE  \E r \in RulesFor(chain) : Allows(r, p) \/ Widened(r, p)
    BY DEF OnlyAllowedPasses
  <2>2. PICK c \in table[chain] : Matches(c, p)
    BY DEF Accepted
  <2>3. PICK n \in 1..Len(entries) : entries[n].chain = chain /\ c \in CommandsOf(entries[n].rule)
    BY DEF GatewayInv, TableInv
  <2>4. PICK r \in RulesFor(chain) : entries[n].rule = ParseRule(r)
    BY <1>2, <2>3
  <2>5. c \in CommandsOf(ParseRule(r))
    BY <2>3, <2>4
  <2> QED
    BY <2>2, <2>5, MatchesOnlyAllowed DEF Widened
<1>5. AllowedPasses
  <2> SUFFICES ASSUME Networked, NEW chain \in Chains \ lost, NEW p \in Packets, NEW r \in RulesFor(chain),
                      Allows(r, p), r.protocols # <<>> \/ r.ports = "absent"
               PROVE  Accepted(chain, p)
    BY DEF AllowedPasses
  <2>1. PICK c \in CommandsOf(ParseRule(r)) : Valid(c) /\ Matches(c, p)
    BY AllowedIsMatched
  <2>2. PICK n \in 1..Len(entries) : entries[n].chain = chain /\ entries[n].rule = ParseRule(r)
    BY <1>1
  <2>3. c \in table[chain]
    BY <1>3, <2>1, <2>2 DEF AppliedIn
  <2> QED
    BY <2>1, <2>3 DEF Accepted
<1>6. ActivatedIsUp
  BY DEF ActivatedIsUp, GatewayInv, UpInv
<1>7. NetworkTypeOK
  <2>1. k \in 1..(MaxElements + 1)
    BY NetworkAssumption DEF GatewayInv, GatewayTypes
  <2>2. \A chain \in Chains : \A c \in table[chain] : Valid(c)
    BY DEF GatewayInv, TableInv
  <2> QED
    BY <2>1, <2>2 DEF NetworkTypeOK, GatewayInv, GatewayTypes
<1> QED
  BY <1>4, <1>5, <1>6, <1>7, <1>8 DEF RulesDecide

----------------------------------------------------------------------------
(***************************************************************************)
(* The powers of two and the two byte orders.  Both are recursive          *)
(* functions; that they have values at all comes first, once for every     *)
(* recursion over the natural numbers.                                     *)
(***************************************************************************)
\* A set of natural numbers that is not empty has a least element.
LEMMA LeastNumber ==
    ASSUME NEW S \in SUBSET Nat, S # {}
    PROVE  \E n \in S : \A j \in S : n <= j
<1>1. IsWellFoundedOn(OpToRel(<, Nat), Nat)
  BY NatLessThanWellFounded
<1>2. PICK n \in S : \A j \in S : <<j, n>> \notin OpToRel(<, Nat)
  BY <1>1, WFMin
<1>3. \A j \in S : ~(j < n)
  BY <1>2 DEF OpToRel
<1> QED
  BY <1>3

\* A set of numbers that has 0 and with each number the next one has all of them.
LEMMA Induction ==
    ASSUME NEW S, 0 \in S, \A m \in Nat : m \in S => m + 1 \in S
    PROVE  Nat \subseteq S
<1> DEFINE N == {m \in Nat : m \notin S}
<1>1. ASSUME N # {} PROVE FALSE
  <2>1. PICK m \in N : \A j \in N : m <= j
    BY <1>1, LeastNumber
  <2>2. m \in Nat /\ m \notin S /\ m # 0
    BY <2>1
  <2>3. m - 1 \in Nat /\ m - 1 \notin N
    BY <2>1, <2>2
  <2>4. m - 1 \in S /\ (m - 1) + 1 = m
    BY <2>2, <2>3
  <2> QED
    BY <2>2, <2>3, <2>4
<1> QED
  BY <1>1

\* g gives the values of a recursion up to m: z, and F of each number and the value before.
Recursion(g, m, z, F, V) ==
    /\ g \in [0..m -> V]
    /\ g[0] = z /\ \A n \in 0..(m - 1) : g[n + 1] = F[n][g[n]]

\* There is one for each m.
LEMMA RecursionExists ==
    ASSUME NEW V, NEW z \in V, NEW F \in [Nat -> [V -> V]]
    PROVE  \A m \in Nat : \E g : Recursion(g, m, z, F, V)
<1> DEFINE S == {m \in Nat : \E g : Recursion(g, m, z, F, V)}
<1>1. 0 \in S
  <2> DEFINE g == [n \in 0..0 |-> z]
  <2>1. g \in [0..0 -> V] /\ g[0] = z /\ 0..(0 - 1) = {}
    OBVIOUS
  <2> HIDE DEF g
  <2>2. Recursion(g, 0, z, F, V)
    BY <2>1 DEF Recursion
  <2> QED
    BY <2>2
<1>2. ASSUME NEW m \in Nat, m \in S PROVE m + 1 \in S
  <2>1. PICK f : Recursion(f, m, z, F, V)
    BY <1>2
  <2> DEFINE g == [n \in 0..(m + 1) |-> IF n = m + 1 THEN F[m][f[m]] ELSE f[n]]
  <2>2. f \in [0..m -> V] /\ f[0] = z /\ \A n \in 0..(m - 1) : f[n + 1] = F[n][f[n]]
    BY <2>1 DEF Recursion
  <2>3. F[m][f[m]] \in V
    <3>1. F[m] \in [V -> V] /\ f[m] \in V
      BY <2>2
    <3> QED
      BY <3>1
  <2>4. \A n \in 0..(m + 1) : n # m + 1 => n \in 0..m
    OBVIOUS
  <2>5. g \in [0..(m + 1) -> V]
    BY <2>2, <2>3, <2>4
  <2>6. g[0] = z
    BY <2>2
  <2>7. ASSUME NEW n \in 0..m PROVE g[n + 1] = F[n][g[n]]
    <3>1. g[n] = f[n] /\ n + 1 \in 0..(m + 1)
      OBVIOUS
    <3>2. CASE n = m
      BY <3>1, <3>2
    <3>3. CASE n # m
      <4>1. n \in 0..(m - 1) /\ n + 1 # m + 1
        BY <3>3
      <4>2. g[n + 1] = f[n + 1]
        BY <3>1, <4>1
      <4> QED
        BY <2>2, <3>1, <4>1, <4>2
    <3> QED
      BY <3>2, <3>3
  <2> HIDE DEF g
  <2>8. (m + 1) - 1 = m
    OBVIOUS
  <2>9. Recursion(g, m + 1, z, F, V)
    BY <2>5, <2>6, <2>7, <2>8 DEF Recursion
  <2> QED
    BY <2>9
<1> HIDE DEF S
<1>3. Nat \subseteq S
  BY <1>1, <1>2, Induction
<1> QED
  BY <1>3 DEF S

\* Two agree where both are defined.
LEMMA RecursionAgrees ==
    ASSUME NEW V, NEW z, NEW F, NEW m \in Nat, NEW c \in Nat, NEW f, NEW g,
           Recursion(f, m, z, F, V), Recursion(g, c, z, F, V)
    PROVE  \A n \in Nat : n <= m /\ n <= c => f[n] = g[n]
<1> DEFINE S == {n \in Nat : n <= m /\ n <= c => f[n] = g[n]}
<1>1. 0 \in S
  BY DEF Recursion
<1>2. ASSUME NEW n \in Nat, n \in S PROVE n + 1 \in S
  <2> SUFFICES ASSUME n + 1 <= m, n + 1 <= c PROVE f[n + 1] = g[n + 1]
    OBVIOUS
  <2>1. n \in 0..(m - 1) /\ n \in 0..(c - 1) /\ f[n] = g[n]
    BY <1>2
  <2> QED
    BY <2>1 DEF Recursion
<1> HIDE DEF S
<1>3. Nat \subseteq S
  BY <1>1, <1>2, Induction
<1> QED
  BY <1>3 DEF S

\* The same for all numbers.
Recursive(h, z, F, V) ==
    h \in [Nat -> V] /\ h[0] = z /\ \A n \in Nat : h[n + 1] = F[n][h[n]]

\* So there is one for all numbers.
LEMMA RecursionOfNat ==
    ASSUME NEW V, NEW z \in V, NEW F \in [Nat -> [V -> V]]
    PROVE  \E h : Recursive(h, z, F, V)
<1> DEFINE G(m) == CHOOSE g : Recursion(g, m, z, F, V)
           h == [n \in Nat |-> G(n)[n]]
<1>1. \A m \in Nat : Recursion(G(m), m, z, F, V)
  BY RecursionExists
<1> HIDE DEF G
<1>2. h \in [Nat -> V]
  BY <1>1 DEF Recursion
<1>3. h[0] = z
  BY <1>1 DEF Recursion
<1>4. ASSUME NEW n \in Nat PROVE h[n + 1] = F[n][h[n]]
  <2> DEFINE f == G(n)  g == G(n + 1)
  <2>1. Recursion(f, n, z, F, V) /\ Recursion(g, n + 1, z, F, V) /\ n + 1 \in Nat /\ n <= n + 1
    BY <1>1
  <2> HIDE DEF f, g
  <2>2. f[n] = g[n]
    BY <2>1, RecursionAgrees
  <2>3. n \in 0..((n + 1) - 1)
    OBVIOUS
  <2>4. g[n + 1] = F[n][g[n]]
    BY <2>1, <2>3 DEF Recursion
  <2> QED
    BY <2>2, <2>4 DEF f, g
<1> HIDE DEF h
<1>5. Recursive(h, z, F, V)
  BY <1>2, <1>3, <1>4 DEF Recursive
<1> QED
  BY <1>5

\* The powers of two.
LEMMA BitDef ==
    /\ Bit[0] = 1 /\ \A n \in Nat : Bit[n + 1] = 2 * Bit[n]
    /\ \A n \in Nat : Bit[n] \in Nat \ {0}
<1> DEFINE V == Nat \ {0}  F == [n \in Nat |-> [v \in V |-> 2 * v]]
<1>1. F \in [Nat -> [V -> V]]
  OBVIOUS
<1>2. \A n \in Nat : \A v \in V : F[n][v] = 2 * v
  OBVIOUS
<1> DEFINE z == 1
<1>10. z \in V
  OBVIOUS
<1> HIDE DEF F, V, z
<1>11. PICK h : Recursive(h, z, F, V)
  BY <1>1, <1>10, RecursionOfNat
<1>3. h \in [Nat -> V] /\ h[0] = 1 /\ \A n \in Nat : h[n + 1] = F[n][h[n]]
  BY <1>11 DEF z, Recursive
<1> USE DEF V
<1>4. ASSUME NEW n \in Nat PROVE h[n] = IF n = 0 THEN 1 ELSE 2 * h[n - 1]
  <2>1. CASE n = 0
    BY <1>3, <2>1
  <2>2. CASE n # 0
    <3>1. n - 1 \in Nat /\ (n - 1) + 1 = n
      BY <2>2
    <3>2. h[n] = F[n - 1][h[n - 1]] /\ h[n - 1] \in V
      BY <1>3, <3>1
    <3> QED
      BY <1>2, <2>2, <3>1, <3>2
  <2> QED
    BY <2>1, <2>2
<1>5. h = [n \in Nat |-> IF n = 0 THEN 1 ELSE 2 * h[n - 1]]
  BY <1>3, <1>4
<1> DEFINE b == Bit
<1>6. b = [n \in Nat |-> IF n = 0 THEN 1 ELSE 2 * b[n - 1]]
  BY <1>5 DEF Bit
<1> HIDE DEF b
<1>7. b[0] = 1 /\ \A n \in Nat : b[n + 1] = 2 * b[n]
  <2>1. \A n \in Nat : n + 1 \in Nat /\ n + 1 # 0 /\ (n + 1) - 1 = n
    OBVIOUS
  <2>2. \A n \in Nat : b[n] = IF n = 0 THEN 1 ELSE 2 * b[n - 1]
    BY <1>6
  <2> QED
    BY <2>1, <2>2
<1> DEFINE S == {n \in Nat : b[n] \in Nat \ {0}}
<1>8. 0 \in S /\ \A n \in Nat : n \in S => n + 1 \in S
  BY <1>7
<1> HIDE DEF S
<1>9. Nat \subseteq S
  BY <1>8, Induction
<1> QED
  BY <1>7, <1>9 DEF S, b

\* Powers multiply.
LEMMA BitAdd == \A c \in Nat : \A n \in Nat : Bit[n + c] = Bit[n] * Bit[c]
<1> DEFINE S == {c \in Nat : \A n \in Nat : Bit[n + c] = Bit[n] * Bit[c]}
<1>1. 0 \in S
  <2>1. ASSUME NEW n \in Nat PROVE Bit[n + 0] = Bit[n] * Bit[0]
    BY BitDef
  <2> QED
    BY <2>1
<1>2. ASSUME NEW c \in Nat, c \in S PROVE c + 1 \in S
  <2>1. ASSUME NEW n \in Nat PROVE Bit[n + (c + 1)] = Bit[n] * Bit[c + 1]
    <3>1. Bit[n] \in Nat /\ Bit[c] \in Nat /\ Bit[n + c] = Bit[n] * Bit[c]
      BY <1>2, BitDef
    <3>2. n + (c + 1) = (n + c) + 1 /\ n + c \in Nat
      OBVIOUS
    <3>3. Bit[n + (c + 1)] = 2 * Bit[n + c] /\ Bit[c + 1] = 2 * Bit[c]
      BY <3>2, BitDef
    <3>4. \A x, y \in Nat : 2 * (x * y) = x * (2 * y)
      OBVIOUS
    <3> QED
      BY <3>1, <3>3, <3>4
  <2> QED
    BY <2>1
<1> HIDE DEF S
<1>3. Nat \subseteq S
  BY <1>1, <1>2, Induction
<1> QED
  BY <1>3 DEF S

\* Quotients and remainders.
LEMMA DivMod ==
    ASSUME NEW d \in Nat \ {0}, NEW q \in Nat, NEW r \in Nat, r < d
    PROVE  (q * d + r) \div d = q /\ (q * d + r) % d = r
OBVIOUS

\* Every number has them.
LEMMA DivModExist ==
    ASSUME NEW d \in Nat \ {0}, NEW a \in Nat
    PROVE  /\ a \div d \in Nat /\ a % d \in Nat /\ a % d < d
           /\ a = (a \div d) * d + (a % d)
<1>1. a \div d \in Int /\ a % d \in Nat
  OBVIOUS
<1>2. a % d < d
  OBVIOUS
<1>3. a = (a \div d) * d + (a % d)
  BY SMTT(20)
<1>4. a \div d >= 0
  OBVIOUS
<1> QED
  BY <1>1, <1>2, <1>3, <1>4

\* A number below a product has a quotient below the other factor.
LEMMA DivLess ==
    ASSUME NEW d \in Nat \ {0}, NEW e \in Nat, NEW q \in Nat, NEW r \in Nat, r < d, q * d + r < e * d
    PROVE  q < e
OBVIOUS

\* The powers of the size of a byte.
Weight(c) == Bit[ByteBits * c]
Radix     == Bit[ByteBits]

\* What is known of them.
LEMMA Powers ==
    /\ Radix \in Nat \ {0} /\ Weight(0) = 1 /\ Weight(1) = Radix
    /\ \A c \in Nat : Weight(c) \in Nat \ {0} /\ Weight(c + 1) = Weight(c) * Radix
    /\ \A j, c \in Nat : Weight(j + c) = Weight(j) * Weight(c)
<1>1. ByteBits \in Nat /\ \A c \in Nat : ByteBits * c \in Nat
  BY AddressAssumption
<1>2. ByteBits * 0 = 0 /\ ByteBits * 1 = ByteBits
  BY <1>1
<1>3. \A j, c \in Nat : ByteBits * (j + c) = ByteBits * j + ByteBits * c
  BY <1>1
<1>4. \A c \in Nat : ByteBits * (c + 1) = ByteBits * c + ByteBits
  BY <1>1
<1>5. \A c \in Nat : Weight(c + 1) = Weight(c) * Radix
  BY <1>1, <1>4, BitAdd DEF Weight, Radix
<1>6. \A j, c \in Nat : Weight(j + c) = Weight(j) * Weight(c)
  BY <1>1, <1>3, BitAdd DEF Weight
<1> QED
  BY <1>1, <1>2, <1>5, <1>6, BitDef DEF Weight, Radix

\* The recursion of Swap.
LEMMA SwapDef ==
    /\ \A a \in Nat : Swap[0][a] = 0
    /\ \A m \in Nat : \A a \in Nat : Swap[m + 1][a] = (a % Radix) * Weight(m) + Swap[m][a \div Radix]
    /\ \A m \in Nat : \A a \in Nat : Swap[m][a] \in Nat
<1> DEFINE V == [Nat -> Nat]
           F == [m \in Nat |-> [v \in V |-> [a \in Nat |-> (a % Radix) * Weight(m) + v[a \div Radix]]]]
           z == [a \in Nat |-> 0]
<1>1. \A a \in Nat : a % Radix \in Nat /\ a \div Radix \in Nat
  BY Powers, DivModExist
<1>2. \A m \in Nat : Weight(m) \in Nat
  BY Powers
<1>3. F \in [Nat -> [V -> V]]
  <2>1. ASSUME NEW m \in Nat, NEW v \in V, NEW a \in Nat PROVE (a % Radix) * Weight(m) + v[a \div Radix] \in Nat
    BY <1>1, <1>2
  <2> QED
    BY <2>1
<1>4. z \in V
  OBVIOUS
<1>5. \A m \in Nat : \A v \in V : F[m][v] = [a \in Nat |-> (a % Radix) * Weight(m) + v[a \div Radix]]
  OBVIOUS
<1> HIDE DEF F, V, z
<1>6. PICK h : Recursive(h, z, F, V)
  BY <1>3, <1>4, RecursionOfNat
<1>7. h \in [Nat -> V] /\ h[0] = z /\ \A m \in Nat : h[m + 1] = F[m][h[m]]
  BY <1>6 DEF Recursive
<1>8. ASSUME NEW m \in Nat
      PROVE  h[m] = [a \in Nat |-> IF m = 0 THEN 0
                                   ELSE (a % Bit[ByteBits]) * Bit[ByteBits * (m - 1)] + h[m - 1][a \div Bit[ByteBits]]]
  <2>1. CASE m = 0
    BY <1>7, <2>1 DEF z
  <2>2. CASE m # 0
    <3>1. m - 1 \in Nat /\ (m - 1) + 1 = m
      BY <2>2
    <3>2. h[m] = F[m - 1][h[m - 1]] /\ h[m - 1] \in V
      BY <1>7, <3>1
    <3>3. h[m] = [a \in Nat |-> (a % Radix) * Weight(m - 1) + h[m - 1][a \div Radix]]
      BY <1>5, <3>1, <3>2
    <3> QED
      BY <2>2, <3>3 DEF Radix, Weight
  <2> QED
    BY <2>1, <2>2
<1>9. h = [m \in Nat |-> [a \in Nat |-> IF m = 0 THEN 0
                   ELSE (a % Bit[ByteBits]) * Bit[ByteBits * (m - 1)] + h[m - 1][a \div Bit[ByteBits]]]]
  BY <1>7, <1>8
<1> DEFINE s == Swap
<1>10. s = [m \in Nat |-> [a \in Nat |-> IF m = 0 THEN 0
                   ELSE (a % Bit[ByteBits]) * Bit[ByteBits * (m - 1)] + s[m - 1][a \div Bit[ByteBits]]]]
  BY <1>9 DEF Swap
<1> HIDE DEF s
<1>11. \A a \in Nat : s[0][a] = 0
  BY <1>10
<1>12. ASSUME NEW m \in Nat PROVE \A a \in Nat : s[m + 1][a] = (a % Radix) * Weight(m) + s[m][a \div Radix]
  <2>1. m + 1 \in Nat /\ m + 1 # 0 /\ (m + 1) - 1 = m
    OBVIOUS
  <2> DEFINE n == m + 1
  <2>2. n \in Nat /\ n # 0 /\ n - 1 = m
    BY <2>1
  <2> HIDE DEF n
  <2>3. s[n] = [a \in Nat |-> (a % Bit[ByteBits]) * Bit[ByteBits * m] + s[m][a \div Bit[ByteBits]]]
    BY <1>10, <2>2
  <2> QED
    BY <2>3 DEF n, Radix, Weight
<1> DEFINE S == {m \in Nat : \A a \in Nat : s[m][a] \in Nat}
<1>13. 0 \in S
  BY <1>11
<1>14. ASSUME NEW m \in Nat, m \in S PROVE m + 1 \in S
  <2>1. ASSUME NEW a \in Nat PROVE s[m + 1][a] \in Nat
    <3> DEFINE r == a % Radix  q == a \div Radix
    <3>1. r \in Nat /\ q \in Nat
      BY <1>1
    <3>2. s[m + 1][a] = r * Weight(m) + s[m][q]
      BY <1>12
    <3> HIDE DEF r, q
    <3>3. Weight(m) \in Nat /\ s[m][q] \in Nat
      BY <1>2, <1>14, <3>1
    <3> QED
      BY <3>1, <3>2, <3>3
  <2> QED
    BY <2>1
<1> HIDE DEF S
<1>15. Nat \subseteq S
  BY <1>13, <1>14, Induction
<1> QED
  BY <1>11, <1>12, <1>15 DEF S, s

\* The bytes of a number below Weight(c) give one below Weight(c).
LEMMA SwapLess == \A m \in Nat : \A a \in Nat : Swap[m][a] < Weight(m)
<1> DEFINE S == {m \in Nat : \A a \in Nat : Swap[m][a] < Weight(m)}
<1>1. 0 \in S
  <2>1. \A a \in Nat : Swap[0][a] = 0
    BY SwapDef
  <2>2. Weight(0) = 1
    BY Powers
  <2> QED
    BY <2>1, <2>2
<1>2. ASSUME NEW m \in Nat, m \in S PROVE m + 1 \in S
  <2>1. ASSUME NEW a \in Nat PROVE Swap[m + 1][a] < Weight(m + 1)
    <3> DEFINE r == a % Radix  q == a \div Radix  y == Swap[m][q]  p == Weight(m)
    <3>1. r \in Nat /\ r < Radix /\ q \in Nat /\ Radix \in Nat
      BY Powers, DivModExist
    <3>2. Swap[m + 1][a] = r * p + y
      BY SwapDef
    <3>3. p \in Nat /\ Weight(m + 1) = p * Radix
      BY Powers
    <3> HIDE DEF r, q, p
    <3>4. y \in Nat /\ y < p
      BY <1>2, <3>1, SwapDef DEF p
    <3> HIDE DEF y
    <3>5. r + 1 <= Radix
      BY <3>1
    <3>6. (r + 1) * p <= Radix * p
      BY <3>1, <3>3, <3>5
    <3>7. (r + 1) * p = r * p + p /\ Radix * p = p * Radix
      BY <3>1, <3>3
    <3>8. r * p \in Nat /\ p * Radix \in Nat
      BY <3>1, <3>3
    <3> DEFINE u == r * p  w == p * Radix
    <3>9. u + p <= w /\ u \in Nat /\ w \in Nat
      BY <3>6, <3>7, <3>8
    <3> HIDE DEF u, w
    <3>10. u + y < w
      BY <3>3, <3>4, <3>9
    <3> QED
      BY <3>2, <3>3, <3>10 DEF u, w
  <2> QED
    BY <2>1
<1> HIDE DEF S
<1>3. Nat \subseteq S
  BY <1>1, <1>2, Induction
<1> QED
  BY <1>3 DEF S

\* The bytes of two numbers put together change places.
LEMMA SwapSplit ==
    ASSUME NEW c \in Nat, NEW h \in Nat
    PROVE  \A m \in Nat : \A l \in Nat :
             l < Weight(m) => Swap[m + c][h * Weight(m) + l] = Swap[m][l] * Weight(c) + Swap[c][h]
<1> DEFINE S == {m \in Nat : \A l \in Nat :
                    l < Weight(m) => Swap[m + c][h * Weight(m) + l] = Swap[m][l] * Weight(c) + Swap[c][h]}
<1>1. 0 \in S
  <2>1. ASSUME NEW l \in Nat, l < Weight(0)
        PROVE  Swap[0 + c][h * Weight(0) + l] = Swap[0][l] * Weight(c) + Swap[c][h]
    <3>4. Weight(0) = 1 /\ Weight(c) \in Nat
      BY Powers
    <3>5. l = 0
      BY <2>1, <3>4
    <3>6. Swap[0][l] = 0 /\ Swap[c][h] \in Nat
      BY SwapDef
    <3>1. l = 0 /\ Weight(0) = 1 /\ Weight(c) \in Nat /\ Swap[0][l] = 0 /\ Swap[c][h] \in Nat
      BY <3>4, <3>5, <3>6
    <3>2. 0 + c = c /\ h * 1 + 0 = h
      OBVIOUS
    <3>3. 0 * Weight(c) + Swap[c][h] = Swap[c][h]
      BY <3>1
    <3> QED
      BY <3>1, <3>2, <3>3
  <2> QED
    BY <2>1
<1>2. ASSUME NEW m \in Nat, m \in S PROVE m + 1 \in S
  <2>1. ASSUME NEW l \in Nat, l < Weight(m + 1)
        PROVE  Swap[(m + 1) + c][h * Weight(m + 1) + l] = Swap[m + 1][l] * Weight(c) + Swap[c][h]
    <3> DEFINE r == l % Radix  q == l \div Radix  p == Weight(m)  pk == Weight(c)
    <3>1. r \in Nat /\ r < Radix /\ q \in Nat /\ l = q * Radix + r /\ Radix \in Nat \ {0}
      BY Powers, DivModExist
    <3>2. p \in Nat /\ pk \in Nat /\ Weight(m + 1) = p * Radix /\ Weight(m + c) = p * pk
      BY Powers
    <3>3. Swap[m + 1][l] = r * p + Swap[m][q]
      BY SwapDef
    <3> HIDE DEF r, q, p, pk
    <3>4. q < p
      BY <2>1, <3>1, <3>2, DivLess
    <3> DEFINE x == h * p + q
    <3>5. x \in Nat
      BY <3>1, <3>2
    <3>6. h * (p * Radix) + (q * Radix + r) = x * Radix + r
      <4>1. \A u \in Nat : h * (p * u) + q * u = (h * p + q) * u
        BY <3>1, <3>2
      <4> DEFINE s1 == h * (p * Radix)  s2 == q * Radix  s3 == (h * p + q) * Radix
      <4>2. s1 + s2 = s3 /\ s1 \in Nat /\ s2 \in Nat /\ s3 \in Nat
        BY <3>1, <3>2, <4>1
      <4> HIDE DEF s1, s2, s3
      <4>3. s1 + (s2 + r) = s3 + r
        BY <3>1, <4>2
      <4> QED
        BY <4>3 DEF s1, s2, s3
    <3> HIDE DEF x
    <3>7. (x * Radix + r) \div Radix = x /\ (x * Radix + r) % Radix = r
      BY <3>1, <3>5, DivMod
    <3>8. Swap[m + c][x] = Swap[m][q] * pk + Swap[c][h]
      BY <1>2, <3>1, <3>4 DEF x, p, pk
    <3>9. (m + 1) + c = (m + c) + 1 /\ m + c \in Nat
      OBVIOUS
    <3>10. x * Radix + r \in Nat
      BY <3>1, <3>5
    <3>11. Swap[(m + c) + 1][x * Radix + r] = r * Weight(m + c) + Swap[m + c][x]
      BY <3>7, <3>9, <3>10, SwapDef
    <3> DEFINE y == Swap[m][q]  z == Swap[c][h]
    <3>12. y \in Nat /\ z \in Nat
      BY <3>1, SwapDef
    <3> HIDE DEF y, z
    <3>13. r * (p * pk) + (y * pk + z) = (r * p + y) * pk + z
      BY <3>1, <3>2, <3>12
    <3> QED
      BY <3>1, <3>2, <3>3, <3>6, <3>8, <3>9, <3>11, <3>13 DEF y, z, pk
  <2> QED
    BY <2>1
<1> HIDE DEF S
<1>3. Nat \subseteq S
  BY <1>1, <1>2, Induction
<1> QED
  BY <1>3 DEF S

\* One byte is left as it is.
LEMMA SwapByte == \A r \in Nat : r < Radix => Swap[1][r] = r
<1> SUFFICES ASSUME NEW r \in Nat, r < Radix PROVE Swap[1][r] = r
  OBVIOUS
<1>1. Radix \in Nat \ {0} /\ Weight(0) = 1
  BY Powers
<1>2. 0 * Radix + r = r /\ 0 + 1 = 1
  BY <1>1
<1>3. r % Radix = r /\ r \div Radix = 0
  BY <1>1, <1>2, DivMod
<1>4. Swap[0 + 1][r] = (r % Radix) * Weight(0) + Swap[0][r \div Radix]
  BY SwapDef
<1>5. Swap[0][0] = 0
  BY SwapDef
<1>6. Swap[1][r] = r * 1 + 0
  BY <1>1, <1>2, <1>3, <1>4, <1>5
<1>7. r * 1 + 0 = r
  OBVIOUS
<1> QED
  BY <1>6, <1>7

\* Bytes that change places twice are where they were.
LEMMA SwapTwice == \A m \in Nat : \A a \in Nat : a < Weight(m) => Swap[m][Swap[m][a]] = a
<1> DEFINE S == {m \in Nat : \A a \in Nat : a < Weight(m) => Swap[m][Swap[m][a]] = a}
<1>1. 0 \in S
  <2>1. Weight(0) = 1
    BY Powers
  <2>2. Swap[0][0] = 0
    BY SwapDef
  <2>3. \A a \in Nat : a < 1 => a = 0
    OBVIOUS
  <2> QED
    BY <2>1, <2>2, <2>3
<1>2. ASSUME NEW m \in Nat, m \in S PROVE m + 1 \in S
  <2>1. ASSUME NEW a \in Nat, a < Weight(m + 1) PROVE Swap[m + 1][Swap[m + 1][a]] = a
    <3> DEFINE r == a % Radix  q == a \div Radix  p == Weight(m)  y == Swap[m][q]
    <3>1. r \in Nat /\ r < Radix /\ q \in Nat /\ a = q * Radix + r /\ Radix \in Nat \ {0}
      BY Powers, DivModExist
    <3>2. p \in Nat /\ Weight(m + 1) = p * Radix /\ Weight(1) = Radix
      BY Powers
    <3>3. Swap[m + 1][a] = r * p + y
      BY SwapDef
    <3> HIDE DEF r, q, p
    <3>4. q < p
      BY <2>1, <3>1, <3>2, DivLess
    <3>5. y \in Nat /\ y < p
      BY <3>1, SwapDef, SwapLess DEF p
    <3>6. Swap[m][y] = q
      BY <1>2, <3>1, <3>4 DEF p
    <3> HIDE DEF y
    <3>7. Swap[m + 1][r * p + y] = Swap[m][y] * Weight(1) + Swap[1][r]
      BY <3>1, <3>5, SwapSplit DEF p
    <3>8. Swap[1][r] = r
      BY <3>1, SwapByte
    <3> QED
      BY <3>1, <3>2, <3>3, <3>6, <3>7, <3>8
  <2> QED
    BY <2>1
<1> HIDE DEF S
<1>3. Nat \subseteq S
  BY <1>1, <1>2, Induction
<1> QED
  BY <1>3 DEF S

\* The number whose bits are all set is the same in both orders.
LEMMA SwapOnes == \A m \in Nat : Swap[m][Weight(m) - 1] = Weight(m) - 1
<1> DEFINE S == {m \in Nat : Swap[m][Weight(m) - 1] = Weight(m) - 1}
<1>1. 0 \in S
  <2>1. Weight(0) = 1
    BY Powers
  <2>2. Swap[0][0] = 0
    BY SwapDef
  <2> QED
    BY <2>1, <2>2
<1>2. ASSUME NEW m \in Nat, m \in S PROVE m + 1 \in S
  <2> DEFINE p == Weight(m)  b == Radix
  <2>1. p \in Nat \ {0} /\ b \in Nat \ {0} /\ Weight(m + 1) = p * b
    BY Powers
  <2>2. Swap[m][p - 1] = p - 1
    BY <1>2
  <2> HIDE DEF p, b
  <2> DEFINE q == p - 1  r == b - 1  a == q * b + r
  <2>3. q \in Nat /\ r \in Nat /\ r < b /\ a \in Nat
    BY <2>1
  <2>4. a = p * b - 1
    BY <2>1
  <2>5. r * p + q = p * b - 1
    BY <2>1
  <2> HIDE DEF q, r
  <2>6. a \div b = q /\ a % b = r
    BY <2>1, <2>3, DivMod
  <2> HIDE DEF a
  <2>7. Swap[m + 1][a] = (a % b) * p + Swap[m][a \div b]
    BY <2>3, SwapDef DEF p, b
  <2>8. Swap[m][q] = q
    BY <2>2 DEF q
  <2>9. Swap[m + 1][a] = r * p + q
    BY <2>6, <2>7, <2>8
  <2>10. Swap[m + 1][Weight(m + 1) - 1] = Weight(m + 1) - 1
    BY <2>1, <2>4, <2>5, <2>9
  <2> QED
    BY <2>10
<1> HIDE DEF S
<1>3. Nat \subseteq S
  BY <1>1, <1>2, Induction
<1> QED
  BY <1>3 DEF S

\* A mask of c of c + j whole bytes, in the other order, and an address make the last
\* address of the network.
LEMMA MaskedBytes ==
    ASSUME NEW c \in Nat, NEW j \in Nat, NEW a \in Nat, a < Weight(c + j)
    PROVE  LET h == a \div Weight(j)
           IN  Swap[c + j][(Weight(c + j) - Weight(c)) + (Swap[c + j][a] % Weight(c))] = h * Weight(j) + Weight(j) - 1
<1> DEFINE pk == Weight(c)  pj == Weight(j)  h == a \div pj  l == a % pj
<1>16. pk \in Nat \ {0} /\ pj \in Nat \ {0} /\ Weight(c + j) = pk * pj /\ Weight(j + c) = pj * pk
  BY Powers
<1>1. pk \in Nat \ {0} /\ pj \in Nat \ {0} /\ Weight(c + j) = pk * pj /\ Weight(j + c) = pj * pk /\ j + c = c + j
  BY <1>16
<1>2. h \in Nat /\ l \in Nat /\ l < pj /\ a = h * pj + l
  BY <1>1, DivModExist
<1> HIDE DEF h, l, pk, pj
<1>3. h < pk
  BY <1>1, <1>2, DivLess
<1> DEFINE x == Swap[j][l]  y == Swap[c][h]
<1>4. x \in Nat /\ y \in Nat /\ y < pk
  BY <1>2, SwapDef, SwapLess DEF pk
<1>5. Swap[j + c][h * pj + l] = x * pk + y
  BY <1>2, SwapSplit DEF pj, pk
<1>6. Swap[c][y] = h
  BY <1>2, <1>3, SwapTwice DEF pk
<1> HIDE DEF x, y
<1>7. Swap[c + j][a] = x * pk + y
  BY <1>1, <1>2, <1>5
<1>8. (x * pk + y) % pk = y
  BY <1>1, <1>4, DivMod
<1> DEFINE o == pj - 1
<1>9. o \in Nat
  BY <1>1
<1>10. pk * pj - pk = o * pk
  BY <1>1
<1> HIDE DEF o
<1>11. Swap[c + j][o * pk + y] = Swap[c][y] * pj + Swap[j][o]
  BY <1>4, <1>9, SwapSplit DEF pk, pj
<1>12. Swap[j][o] = o
  BY SwapOnes DEF o, pj
<1>13. (Weight(c + j) - pk) + (Swap[c + j][a] % pk) = o * pk + y
  BY <1>1, <1>7, <1>8, <1>10
<1>14. Swap[c + j][(Weight(c + j) - pk) + (Swap[c + j][a] % pk)] = h * pj + o
  BY <1>6, <1>11, <1>12, <1>13
<1>15. h * pj + o = h * pj + pj - 1
  BY <1>1, <1>2 DEF o
<1> QED
  BY <1>14, <1>15 DEF h, pk, pj

----------------------------------------------------------------------------
(***************************************************************************)
(* The addresses: a container has none, or the one its id stands for.      *)
(***************************************************************************)
AddressInv ==
    /\ bridge \in Bridges /\ netmask \in 0..Width
    /\ address \in [ContainerIds -> Int]
    /\ \A i \in ContainerIds : address[i] \in {NoAddress, GenerateIP(i)}
    /\ \A i \in ContainerIds : address[i] # NoAddress => InRange(i)

\* As soon as there is a bridge there are addresses.
LEMMA WidthLemma ==
    ASSUME NEW b \in Bridges
    PROVE  Bit[Width] \in Nat /\ Bit[Width] > 0 /\ b \in Nat /\ b < Bit[Width]
<1>1. Width \in Nat /\ b \in 0..(Bit[Width] - 1)
  BY AddressAssumption
<1>2. Bit[Width] \in Nat \ {0}
  BY <1>1, BitDef
<1> QED
  BY <1>1, <1>2

\* A sum that wraps around at most once.
LEMMA ModLemma ==
    ASSUME NEW P \in Nat, P > 0, NEW x \in Nat, x < 2 * P
    PROVE  /\ x < P => x % P = x
           /\ x >= P => x % P = x - P
           /\ x % P \in Nat /\ x % P < P
<1>1. CASE x < P
  BY <1>1
<1>2. CASE x >= P
  BY <1>2
<1> QED
  BY <1>1, <1>2

\* Two ids never stand for the same address, nor one for the bridge's.
LEMMA GenerateLemma ==
    ASSUME bridge \in Bridges, NEW i \in ContainerIds
    PROVE  /\ GenerateIP(i) \in Addresses /\ GenerateIP(i) # NoAddress /\ GenerateIP(i) # bridge
           /\ \A j \in ContainerIds : j # i => GenerateIP(j) # GenerateIP(i)
<1> DEFINE P == Bit[Width]
<1>1. P \in Nat /\ P > 0 /\ bridge \in Nat /\ bridge < P
  BY WidthLemma
<1>2. \A j \in ContainerIds : j \in 0..(Bit[Width - 1] - 1)
  BY AddressAssumption
<1>3. Addresses = 0..(P - 1)
  BY DEF Addresses
<1>4. \A j : GenerateIP(j) = (bridge + (j + 1)) % P
  BY DEF GenerateIP, Shifted
<1> HIDE DEF P
<1>5. Bit[Width - 1] \in Nat /\ P = 2 * Bit[Width - 1]
  <2>1. Width - 1 \in Nat /\ (Width - 1) + 1 = Width
    BY AddressAssumption
  <2>2. Bit[Width - 1] \in Nat /\ Bit[(Width - 1) + 1] = 2 * Bit[Width - 1]
    BY <2>1, BitDef
  <2> QED
    BY <2>1, <2>2 DEF P
<1>6. ASSUME NEW j \in ContainerIds
      PROVE  j \in Nat /\ j + 1 < P
  <2>1. j \in 0..(Bit[Width - 1] - 1)
    BY <1>2
  <2> QED
    BY <1>1, <1>5, <2>1
<1>7. ASSUME NEW j \in ContainerIds
      PROVE  /\ bridge + (j + 1) \in Nat /\ bridge + (j + 1) < 2 * P
             /\ bridge + (j + 1) < P => GenerateIP(j) = bridge + (j + 1)
             /\ bridge + (j + 1) >= P => GenerateIP(j) = bridge + (j + 1) - P
             /\ GenerateIP(j) \in Nat /\ GenerateIP(j) < P
  <2>1. bridge + (j + 1) \in Nat /\ bridge + (j + 1) < 2 * P
    BY <1>1, <1>6
  <2> DEFINE x == bridge + (j + 1)
  <2>2. GenerateIP(j) = x % P
    BY <1>4
  <2>3. x \in Nat /\ x < 2 * P
    BY <2>1
  <2> HIDE DEF x
  <2>4. /\ x < P => x % P = x
        /\ x >= P => x % P = x - P
        /\ x % P \in Nat /\ x % P < P
    BY <1>1, <2>3, ModLemma
  <2>5. /\ x < P => GenerateIP(j) = x
        /\ x >= P => GenerateIP(j) = x - P
        /\ GenerateIP(j) \in Nat /\ GenerateIP(j) < P
    BY <2>2, <2>4
  <2> QED
    BY <1>1, <1>6, <2>1, <2>5 DEF x
<1>8. GenerateIP(i) \in Addresses /\ GenerateIP(i) # NoAddress
  BY <1>1, <1>3, <1>7 DEF NoAddress
<1>9. GenerateIP(i) # bridge
  BY <1>1, <1>6, <1>7
<1>10. ASSUME NEW j \in ContainerIds, j # i PROVE GenerateIP(j) # GenerateIP(i)
  <2>1. i \in Nat /\ j \in Nat /\ i + 1 < P /\ j + 1 < P
    BY <1>6
  <2> QED
    BY <1>1, <1>7, <1>10, <2>1
<1> QED
  BY <1>8, <1>9, <1>10

\* Every step of the containers.
LEMMA AddressNextInv == AddressInv /\ [AddressNext]_addressVars => AddressInv'
<1> SUFFICES ASSUME AddressInv, [AddressNext]_addressVars PROVE AddressInv'
  OBVIOUS
<1>1. UNCHANGED <<bridge, netmask>>
  BY DEF AddressNext, Activate, Refuse, Release, addressVars
<1>2. \A i : GenerateIP(i)' = GenerateIP(i) /\ (InRange(i)' <=> InRange(i))
  BY <1>1 DEF GenerateIP, InRange, LastAddress, Network, Host
<1>3. CASE UNCHANGED address
  BY <1>1, <1>2, <1>3 DEF AddressInv
<1>4. ASSUME NEW i \in ContainerIds,
             \/ address' = [address EXCEPT ![i] = GenerateIP(i)] /\ InRange(i)
             \/ address' = [address EXCEPT ![i] = NoAddress]
      PROVE  AddressInv'
  <2>1. address' \in [ContainerIds -> Int] /\ \A j \in ContainerIds : address'[j] \in {NoAddress, GenerateIP(j)}
    <3>1. GenerateIP(i) \in Int /\ NoAddress \in Int
      <4>1. GenerateIP(i) \in Addresses
        BY GenerateLemma DEF AddressInv
      <4>2. \A a \in Addresses : a \in Int
        BY DEF Addresses
      <4> QED
        BY <4>1, <4>2 DEF NoAddress
    <3> QED
      BY <1>4, <3>1 DEF AddressInv
  <2>2. \A j \in ContainerIds : address'[j] # NoAddress => InRange(j)
    BY <1>4 DEF AddressInv
  <2> QED
    BY <1>1, <1>2, <2>1, <2>2 DEF AddressInv
<1> QED
  BY <1>3, <1>4 DEF AddressNext, Activate, Refuse, Release, addressVars

\* What follows of addresses.
LEMMA AddressSound == AddressInv => AddressTypeOK /\ AddressesDiffer /\ NotTheBridge
<1> SUFFICES ASSUME AddressInv PROVE AddressTypeOK /\ AddressesDiffer /\ NotTheBridge
  OBVIOUS
<1>1. bridge \in Bridges /\ \A i \in ContainerIds : address[i] \in {NoAddress, GenerateIP(i)}
  BY DEF AddressInv
<1>2. bridge \in Addresses /\ bridge # NoAddress
  BY <1>1, AddressAssumption, WidthLemma DEF Addresses, NoAddress
<1>3. AddressTypeOK
  <2>1. \A i \in ContainerIds : address[i] \in Addresses \cup {NoAddress}
    BY <1>1, GenerateLemma
  <2>2. address \in [ContainerIds -> Addresses \cup {NoAddress}]
    BY <2>1 DEF AddressInv
  <2> QED
    BY <1>2, <2>2 DEF AddressTypeOK, AddressInv
<1>4. AddressesDiffer
  BY <1>1, GenerateLemma DEF AddressesDiffer
<1>5. NotTheBridge
  BY <1>1, <1>2, GenerateLemma DEF NotTheBridge
<1> QED
  BY <1>3, <1>4, <1>5

\* A number between one and the last of its network is in the network.
LEMMA SameNetwork ==
    ASSUME NEW h \in Nat \ {0}, NEW a \in Nat, NEW x \in Nat, a <= x, x <= (a \div h) * h + h - 1
    PROVE  x \div h = a \div h
<1> DEFINE q == a \div h  r == a % h
<1>1. q \in Nat /\ r \in Nat /\ r < h /\ a = q * h + r
  BY DivModExist
<1> HIDE DEF r
<1>2. x <= q * h + h - 1
  OBVIOUS
<1> HIDE DEF q
<1> DEFINE y == q * h
<1>3. y \in Nat
  BY <1>1
<1>4. a = y + r /\ x <= y + h - 1
  BY <1>1, <1>2
<1> HIDE DEF y
<1> DEFINE d == x - y
<1>5. d \in Nat /\ d < h /\ x = y + d
  BY <1>1, <1>3, <1>4
<1> HIDE DEF d
<1>6. (q * h + d) \div h = q
  BY <1>1, <1>5, DivMod
<1> QED
  BY <1>5, <1>6 DEF y, q

\* The range check keeps an address in the network of the bridge.
LEMMA RangeLemma ==
    ASSUME bridge \in Bridges, netmask \in 0..Width, NEW i \in ContainerIds, InRange(i), ~Wraps(i)
    PROVE  Network(GenerateIP(i), netmask) = Network(bridge, netmask)
<1> DEFINE w == Bit[Width]  h == Host(netmask)  x == bridge + Shifted(i)
<1>1. w \in Nat /\ w > 0 /\ bridge \in Nat /\ bridge < w
  BY WidthLemma
<1>2. i \in Nat
  <2>1. i \in 0..(Bit[Width - 1] - 1)
    BY AddressAssumption
  <2> QED
    BY <2>1
<1>3. h \in Nat \ {0}
  <2>1. Width - netmask \in Nat
    BY AddressAssumption
  <2> QED
    BY <2>1, BitDef DEF Host
<1>4. x \in Nat /\ x >= bridge /\ x < w
  BY <1>1, <1>2 DEF Shifted, Wraps
<1>5. x % w = x
  BY <1>1, <1>4, ModLemma
<1>6. GenerateIP(i) = x
  BY <1>5 DEF GenerateIP
<1>7. (bridge \div h) * h + h - 1 >= x
  BY <1>5 DEF InRange, LastAddress, Network
<1> HIDE DEF h, x, w
<1>8. x <= (bridge \div h) * h + h - 1
  <2> DEFINE q == bridge \div h
  <2>1. q \in Nat
    BY <1>1, <1>3, DivModExist
  <2> HIDE DEF q
  <2>2. q * h + h - 1 \in Int
    BY <1>3, <2>1
  <2> QED
    BY <1>4, <1>7, <2>2 DEF q
<1>9. x \div h = bridge \div h
  BY <1>1, <1>3, <1>4, <1>8, SameNetwork
<1> QED
  BY <1>6, <1>9 DEF Network, h

\* A mask of whole bytes makes the last address of the network.
LEMMA BroadcastLemma ==
    ASSUME netmask \in 0..Width, netmask % ByteBits = 0, NEW a \in Addresses
    PROVE  Broadcast(a) = LastAddress(a, netmask)
<1> DEFINE m == Width \div ByteBits  c == netmask \div ByteBits  j == m - c
<1>1. Width \in Nat \ {0} /\ ByteBits \in Nat \ {0} /\ Width % ByteBits = 0 /\ netmask \in Nat /\ netmask <= Width
  BY AddressAssumption
<1>2. m \in Nat /\ Width = m * ByteBits + 0
  BY <1>1, DivModExist
<1>3. c \in Nat /\ netmask = c * ByteBits + 0
  BY <1>1, DivModExist
<1> HIDE DEF m, c
<1>4. c <= m
  <2> SUFFICES ASSUME c >= m + 1 PROVE FALSE
    BY <1>2, <1>3
  <2>1. c * ByteBits >= (m + 1) * ByteBits
    BY <1>1, <1>2, <1>3
  <2>2. (m + 1) * ByteBits = m * ByteBits + ByteBits
    BY <1>1, <1>2
  <2> QED
    BY <1>1, <1>2, <1>3, <2>1, <2>2
<1>5. j \in Nat /\ c + j = m
  BY <1>2, <1>3, <1>4
<1>6. Width = ByteBits * m /\ netmask = ByteBits * c
  BY <1>1, <1>2, <1>3
<1>7. Width - netmask = ByteBits * j
  BY <1>1, <1>2, <1>3, <1>6
<1> HIDE DEF j
<1>8. Bit[Width] = Weight(c + j) /\ Bit[netmask] = Weight(c) /\ Bit[Width - netmask] = Weight(j)
  BY <1>5, <1>6, <1>7 DEF Weight
<1>9. a \in Nat /\ a < Weight(c + j)
  <2>3. c + j \in Nat
    BY <1>3, <1>5
  <2>1. Weight(c + j) \in Nat
    BY <2>3, Powers
  <2>2. a \in 0..(Weight(c + j) - 1)
    BY <1>8 DEF Addresses
  <2> QED
    BY <2>1, <2>2
<1>10. Swap[c + j][(Weight(c + j) - Weight(c)) + (Swap[c + j][a] % Weight(c))]
         = (a \div Weight(j)) * Weight(j) + Weight(j) - 1
  BY <1>3, <1>5, <1>9, MaskedBytes
<1>11. \A x : Swapped(x) = Swap[c + j][x]
  BY <1>5 DEF Swapped, m
<1>12. Broadcast(a) = Swap[c + j][(Weight(c + j) - Weight(c)) + (Swap[c + j][a] % Weight(c))]
  BY <1>8, <1>11 DEF Broadcast
<1>13. LastAddress(a, netmask) = (a \div Weight(j)) * Weight(j) + Weight(j) - 1
  BY <1>8 DEF LastAddress, Network, Host
<1> QED
  BY <1>10, <1>12, <1>13

\* What follows for the networks.
LEMMA NetworkSound == AddressInv => InTheNetwork /\ BroadcastOfBytes
<1> SUFFICES ASSUME AddressInv PROVE InTheNetwork /\ BroadcastOfBytes
  OBVIOUS
<1>1. /\ bridge \in Bridges /\ netmask \in 0..Width
      /\ \A i \in ContainerIds : address[i] # NoAddress => address[i] = GenerateIP(i) /\ InRange(i)
  BY DEF AddressInv
<1>2. InTheNetwork
  BY <1>1, RangeLemma DEF InTheNetwork
<1>3. BroadcastOfBytes
  <2>1. \A i \in ContainerIds : address[i] # NoAddress => address[i] \in Addresses
    BY <1>1, GenerateLemma
  <2> QED
    BY <1>1, <2>1, BroadcastLemma DEF BroadcastOfBytes
<1> QED
  BY <1>2, <1>3

----------------------------------------------------------------------------
\* The three parts together; each is left alone by the steps of the others.
LEMMA NetInvariance == NetSpec => [](NetlinkInv /\ AddressInv)
<1> DEFINE All == NetlinkInv /\ AddressInv
<1>1. NetInit => All
  <2> SUFFICES ASSUME NetInit PROVE All
    OBVIOUS
  <2>1. NetlinkInit /\ AddressInit
    BY DEF NetInit
  <2>2. AddressInv
    BY <2>1 DEF AddressInit, AddressInv, NoAddress
  <2> QED
    BY <2>1, <2>2, NetlinkInitInv
<1>2. All /\ [NetNext]_netVars => All'
  <2> SUFFICES ASSUME All, [NetNext]_netVars PROVE All'
    OBVIOUS
  <2>1. [NetlinkNext]_netlinkVars /\ [AddressNext]_addressVars
    BY DEF NetNext, netVars
  <2> QED
    BY <2>1, NetlinkNextInv, AddressNextInv
<1> QED
  BY <1>1, <1>2, PTL DEF NetSpec

\* The gateway.
LEMMA GatewayInvariance == NetworkSpec => []GatewayInv
BY GatewayInitInv, GatewayNextInv, PTL DEF NetworkSpec

\* Types of the netlink object and of the addresses.
THEOREM NetTypeCorrect == NetSpec => []NetTypeOK
<1>1. NetlinkInv /\ AddressInv => NetTypeOK
  BY NetlinkSound, AddressSound DEF NetTypeOK
<1> QED
  BY <1>1, NetInvariance, PTL

\* Types of the network gateway: only commands iptables takes are in the table, and no
\* more entries are applied than there are.
THEOREM NetworkTypeCorrect == NetworkSpec => []NetworkTypeOK
BY GatewaySound, GatewayInvariance, PTL

\* For every number of devices, calls and failures: no message of the kernel is left in the
\* socket for a later call, a call that returns true had its request carried out, an
\* address is the one of the link it was rules for, and a Netlink object that goes
\* releases what a complete dump allocated and its socket (RepliesBelong of sendMessage,
\* readMessage, findAddresses and the destructor).
THEOREM KernelRepliesBelong == NetSpec => []RepliesBelong
BY NetlinkSound, NetInvariance, PTL

\* For every set of rules, every history of activations that failed half-way, and jobs
\* that were killed, never started or refused by iptables: once the gateway is activated, a
\* configured chain lets through what the accepted rules allow and nothing else, over an
\* interface that is up, except for the chain or the link whose own job did not do what
\* it answered (RulesDecide of activateGateway, up and IPTableEntry::applyRules).
THEOREM ActivatedRulesDecide == NetworkSpec => []RulesDecide
BY GatewaySound, GatewayInvariance, PTL

\* For every width of addresses and of bytes, every bridge and every set of ids, also if
\* the sum of the two wraps around: no two containers have the same address, and none
\* has the bridge's.  If it does not wrap around, the address is in the network of the
\* bridge; and for every netmask of whole bytes the broadcast address that setIP makes,
\* with the two byte orders mixed, is the last one of the network.
THEOREM AddressesAreRight == NetSpec => []AddressesAreGood
<1>1. AddressInv => AddressesAreGood
  BY AddressSound, NetworkSound DEF AddressesAreGood
<1> QED
  BY <1>1, NetInvariance, PTL
=============================================================================
