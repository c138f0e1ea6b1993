# A TLA+ model of SoftwareContainer

SoftwareContainer runs programs in LXC containers and gives them capabilities
through *gateways*. This directory holds TLA+ modules that model it, TLC
configurations that check them on small instances, and TLAPS proofs for every
value of the constants. `PROJECT.json` lists components, runs, mutants,
findings, hazards and theorems, and maps each definition to the lines it models.

## 1. Inventory

| Component | State it keeps | Operations | Talks to |
|---|---|---|---|
| `Container` (libsoftwarecontainer) | `m_state` (DEFAULT..FROZEN), the LXC handle, `m_writeBufferEnabled`, clean-up handlers | initialize, create, start, stop, shutdown, destroy, suspend, resume, execute, bindMountInContainer, mountDevice, setCgroupItem, destructor | liblxc, mount(2), the container's init |
| `FileToolkitWithUndo` (common) | clean-up handlers, created directories | bindMount, overlayMount, tmpfsMount, createSharedMountPoint, writeToFile, destructor | mount(2), umount2(2), `CreateDir` |
| `SoftwareContainer` | `m_containerState` (READY, SUSPENDED, TERMINATED, INVALID), `m_previouslyConfigured`, `m_gateways`, `m_container` | constructor, startGateways, suspend, resume, shutdown, bindMount, createFunctionJob, createCommandJob, destructor | `Container`, gateways |
| `Gateway` and its subclasses | `m_state` (CREATED, CONFIGURED, ACTIVATED), `m_activatedOnce`, what was configured | setConfig, activate, teardown | `Container` (mounts, environment, cgroups), for D-Bus a proxy process per bus |
| D-Bus gateway | two instances with a filter each, `m_pid`, the proxy's standard input and its socket | setConfig, activate, teardown, destructor | dbus-proxy processes |
| File gateway | settings by container path | addSetting, activate | bindMountInContainer |
| Device node gateway | devices with mode and `m_isConfigured` | merge, activate | device nodes, chmod jobs |
| Cgroups gateway | settings by key | parse, activate | set_cgroup_item |
| Environment, PulseAudio and Wayland gateways | variables, enabled flags | merge, activate | the container's variables, bind mounts of sockets |
| Network gateway | rules, address, `m_interfaceInitialized` | parse, up, setDefaultGateway, apply rules, generateIP | `Netlink`, iptables, both in the container |
| `Netlink` | socket, cache of links, addresses and routes | dump, findLink, findAddresses, linkUp, setIP, setDefaultGateway, destructor | the kernel |
| Jobs | process id, exit status | start, wait; child watches of commands | `Container::execute`, GLib |
| `SoftwareContainerAgent` | `m_containers`, `m_containerIdPool`, `m_optionParser`, capability stores | Create, Destroy, Suspend, Resume, BindMount, SetCapabilities, Execute, List, ListCapabilities, start and end of the process | `SoftwareContainer`, `ContainerUtilityInterface` |
| `ContainerUtilityInterface` | none | removeOldContainers, checkWorkspace | liblxc |
| `ContainerOptionParser` | `m_options`, the half-built result | parse | called by Create |
| D-Bus adaptor and stub | connection, registration, name | one method per agent method, the ProcessStateChanged signal | agent, bus |
| Capability stores | configurations by capability, with shared reference-counted arrays | load, parse, look up, combine | called by SetCapabilities, Execute |
| Agent configuration | values by source and type | read, look up, check mandatory values and dependencies | read once at start |
| `CreateDir`, `RecursiveDelete`, `RecursiveCopy` | directories made so far | create with parents, undo, delete, copy | file system |

The agent runs on one GLib main loop, and a D-Bus call is handled to its end
before the next one is dispatched. The hard behaviour is therefore not two
handlers interleaving; it is:

* **failure half-way.** Creating a container takes up to nine steps that change
  the host (tmpfs, bind mount, two changes of propagation, overlay, LXC create,
  start, gateways), destroying it three, setting capabilities one or two per
  gateway. Each may fail, and what came before has to be undone or remembered.
* **the world changing behind the state machines.** The container's init can die
  at any time, so `m_state` and `m_containerState` are beliefs.
* **crash and restart.** Mounts and LXC containers outlive the agent's process.
* **other actors.** GLib's worker thread, a handler that waits, and the destructor of a
  D-Bus gateway all reap children of one process; the kernel's network changes between
  two netlink messages; GDBus calls back in several orders; a proxy dies or is late.
* **long legal sequences.** Reuse of ids, a second SetCapabilities, a second
  Destroy, a Create after a Create that failed.

What makes each part correct:

* `Container`/`SoftwareContainer`: the two state machines agree with each other and,
  as far as they can, with LXC; destructors leave no mount; the object shows its
  user the life cycle of its header.
* Gateways: what is called applied is applied, or the gateway is one that does not look;
  what was started is stopped.
* Files: a rollback deletes nothing of the host and undoes no other call's work; a true
  answer means that the path is there.
* Network: what an activated gateway lets through; addresses that differ; replies that
  belong to their request.
* Jobs and bus: signals are true and sent once, calls are answered once; and only a method
  that never returns can keep the end of a process from being announced or a call from
  being answered.
* Capabilities and configuration: what is stored is not changed by use; the first source
  wins; a bad configuration leaves the host alone.
* Agent: no id is used twice or forgotten; a free id names nothing on the host.

## 2. Modules

| Module | Models |
|---|---|
| `Container` | `Container` and the mounts of `FileToolkitWithUndo`: one operator per method |
| `SoftwareContainerOps` | the life-cycle methods of `SoftwareContainer` over `Container` |
| `Gateway` | `Gateway`, `configureGateways`, `activateGateways`, `startGateways` |
| `SoftwareContainer` | one object: its variables, one action per public method, properties |
| `ContainerLifecycle` | the abstract specification, written from the comments of `softwarecontainer.h`: the states, which calls each allows, what each answer means |
| `ContainerOptionParser` | the JSON options of Create and what a failed parse leaves behind |
| `SoftwareContainerAgent` | the agent: containers by id, the pool of ids, end and start of the process |
| `AgentAdaptor` | the adaptor and the generated stub: connection, name, dispatch, answers, signal |
| `Jobs` | commands, functions and proxies as child processes, child watches, waits and signals |
| `AgentConfig` | `main` and `Config` up to the main loop: options, three sources, checks, constructor, clean-up of old containers |
| `ConfigStore` | manifests, both capability stores and `GatewayConfiguration` with its shared arrays |
| `DBusGateway` | `DBusGateway` and its two instances, proxies, sockets, teardown and destructors |
| `DeviceNodeGateway`, `CgroupsGateway` | what they merge and how they are activated, with failures and retries |
| `EnvironmentVariables` | the environment, PulseAudio and Wayland gateways, the container's variables, what a process sees |
| `BindMounts` | `bindMountInContainer` and the undo of `FileToolkitWithUndo`, over a mount table |
| `FileGateway` | the setting store and activation, on top of `BindMounts` |
| `CreateDir`, `OverlaySync` | directories made and rolled back; the write buffer copied into the root file system |
| `NetworkGateway` | rules, interface, route and iptables commands, and what passes through them |
| `NetworkAddresses` | `generateIP` and the broadcast address, on unsigned numbers of a given width |
| `Netlink` | the socket, the cache and each request with its replies |
| `MCSoftwareContainer`, `MCAgent`, `MCMessages`, `MCAllGateways`, `MCFiles` | instances for TLC |
| `MCAgentBus`, `MCNetwork`, `MCConfig`, `MCGateways` | the compositions these are made of, and that the theorems are about |
| `MCSoftwareContainerAgent`, `MCDBusGateway`, `MCNetworkGateway`, `MCConfigStore`, `MCComponent` | inputs for TLC; the variable that says whose steps are taken |
| `Container_proofs` | what each method of `Container` preserves |
| `SoftwareContainer_proofs`, `SoftwareContainerAgent_proofs` | theorems about the object with its gateways, and about the agent |
| `AgentBus_proofs`, `Config_proofs`, `Files_proofs`, `Network_proofs`, `Gateways_proofs` | theorems about the modules of the composite runs |

**How they fit together.** `SoftwareContainer` is built from `SoftwareContainerOps` and
`Gateway`, the agent from `SoftwareContainerOps` and `ContainerOptionParser`, the file
gateway from `BindMounts`. `ContainerLifecycle` is the abstract specification the object
implements, with one kind of step added that the header does not have (`LXCRefuses`): a
suspend or resume that LXC refuses throws and leaves the state. `Gateway` is the abstract specification of the concrete gateways;
`InstancesAreGateways`, a part of `BusesAreGateways`, says for the one with most state of its
own that every step of a bus instance is one that `Gateway` allows.

**How methods are modelled.** A method of `Container` is an operator `XOut(c)` from
a container record to the *set of its outcomes*, one for each way liblxc and mount(2)
may answer (`Ans(res, c)`, with `res` one of `"true"`, `"false"`, `"throw"`). A method
that calls others composes their outcome sets (`Then` is "go on if it returned
true"). An action of a specification takes one outcome of the whole handler, which is
sound because nothing else runs in the process meanwhile; what can happen between two
steps of a handler to the container's init is one of the outcomes.

**State.** A container record has the process's part (`state`, `wb`, `undo`) and the
host's (`lxc`, `mounts`). A crash (`HostOnly`) keeps the second and drops the first.
`mounts` counts the mounts stacked on each of three mount points: the tmpfs on the
container's root, the shared mount point of the gateway directory and the overlay on
the root file system. `undo` is the set of mount points that have a clean-up handler.

**liblxc and mount(2)** are external and are modelled from how the code uses them. Any
call may fail. Two facts are assumed: LXC refuses to destroy a container that runs or
whose root file system is mounted (the comment at `container.cpp:550` says so), and a
lazy unmount by a clean-up handler succeeds where something is mounted.

**Gateways.** They are numbered in the order `init()` adds them. A configuration maps
some of them to sets of elements; `stored` is what `readConfigElement` has accepted and
`live` what `activateGateway` has applied. The constants `Dynamic` and `Flagging` say
which ones are dynamic (device node, Wayland, D-Bus) and which set
`m_activatedOnce` (D-Bus). A true answer of `activateGateway` is not always the truth: the
gateways of `Unchecked` (D-Bus, device node, network) may answer true with any of their new
elements not applied, since D-Bus overwrites one bus's result with the other's, the network
gateway skips on a retry what failed before, and nobody looks whether a `FunctionJob` was
started or killed. `NetworkGateway`, `DeviceNodeGateway` and `DBusGateway` have these
errors one by one, and properties about them name what they except (`lost`, `missed`).

**Concrete gateways, files and network** have an action per call, or, where something else
runs meanwhile, per step of a call: `NetworkGateway` has one for each `FunctionJob`,
`Netlink` one for each message. `DeviceNodeGateway`, `CgroupsGateway` and
`EnvironmentVariables` take one step for each round of a loop (`setConfig`,
`activateGateway`, `activateGateways`), and so do `FileGateway` for each setting of an
activation, `BindMounts` for each clean-up handler of the destructors and `ConfigStore` for
each entry and gateway a constructor reads and each capability a call puts together; no other
call is enabled between two rounds, and the proofs have one lemma per round instead of an
induction.
A configuration element is a record of the fields the
parser tells apart, or `bad`; an array may be cut short at any element, which is how
`setConfig` fails.

**More that is external**, assumed from how the code uses it: a mount made on the host
below the shared gateway directory appears in the container, over the copy of the mount
it covers, and an unmount takes the copy along unless it was moved; `nftw` crosses mount
points; overlayfs marks a removed file by a device node; chmod looks at the low twelve bits
of a mode; the memory controller keeps `memory.limit_in_bytes` at or below
`memory.memsw.limit_in_bytes` and refuses what would break that; iptables refuses a port
match without a protocol that has ports; the kernel answers every netlink request with one
acknowledgement, one error, or a dump with its end; waiting for pid 0 or -1 takes any child.
iptables may also refuse a valid command, and a stream of `recursivecopy.cpp` that does not
open, or ends early, leaves the old file, an empty one, or a part (`Torn`).

**The agent** abstracts gateways to "startGateways returned true or did not", which is
all the agent looks at. A call it refuses without a change is a stuttering step, and so
is not listed as a disjunct. `lost` records ids taken by a Create that failed.

Definitions whose comment starts with "Mutant" are deliberately wrong variants of the
definition after them. No specification uses them: each replaces that definition in one
extra run, to show that the property of the run depends on it.

## 3. Runs

| Run | Instance | What it checks | Distinct states |
|---|---|---|---|
| `container_object` | a static gateway that looks at its failures and a dynamic one that does not; two interchangeable elements | the layers agree (`LayersAgree`); the destructor unmounts; after a success every gateway configured is activated and has applied all it accepted, if it looks at its failures (`SuccessMeansApplied`), and keeps it (`GrantedStaysApplied`); a static gateway is final; proxies are stopped; the life cycle is implemented but for a suspend or resume that LXC refuses | 72 661 |
| `agent` | ids 0 and 1, one restart, four option arrays; up to two manifests of seven kinds, two requests; every command line and file with at most one bad value, two old containers | ids are accounted for and free ones name nothing on the host; listed containers are usable; reference counts are right at every step of a call and of a constructor that is undone, a capability holds what entries of its name say and all of an only entry, requests get what they ask for (`StoreIsSound`) and change nothing (`StoreIsConstant`); the first source wins, bad configurations never run, and only an error of the clean-up of old containers leaves the host changed (`StartIsSound`) | 674 792 |
| `messages` | two containers, of one id given out twice or of two ids, two processes, three calls; a device made again with a new index, two requests, two failures; every bridge and netmask of four bits | signals are true, with the status wait reported, sent once and on a connection (`SignalsAreSound`); `executeSync` succeeds only with its own function; unless a handler waits for ever the end of each command is announced (`EndIsAnnounced`), and unless a method never returns calls are answered and a lost name ends the agent (`BusIsServed`); a reply belongs to its request, success is the kernel's, the cache is freed (`RepliesBelong`), netlink calls return; addresses differ, are not the bridge's, lie in the network unless their sum wraps around, and get the right broadcast address for masks of whole bytes (`AddressesAreGood`) | 344 938 |
| `gateways` | eight configurations of two buses and three proxies; two devices and three modes; three amounts and three endings; three configurations of two variables; two network rules and two activations | proxies are reaped, one per bus (`ProxiesAreReaped`); bus instances are gateways, and only a socket that cannot be removed makes the destructor signal twice (`BusesAreGateways`); modes are merged, and a device that counts as configured was given its mode (`DevicesAreCurrent`); limits are compared in bytes, an activation that succeeds has set all, the first one in order (`LimitsAreSet`); variables are joined, sockets mounted once, and the job's variables win (`VariablesAreSound`); an activated network gateway lets pass what well-formed rules allow and nothing else and is up, except where a job counted as successful and was not (`RulesDecide`) | 1 284 412 |
| `files` | two names in three directories, a directory and a file as sources, a gateway with two settings and two activations, one other call, three of these at most; two `CreateDir`s on every tree of depth three; four changes to two files | no data of the host is deleted (`NoHostDataDeleted`); mounts are undone and nothing is left, a true answer means visible where no other call uses the name, writes are buffered, the most permissive setting wins (`MountsAreSound`); an activated setting is visible; directories of others are kept and one's own rolled back (`DirectoriesAreRestored`); a copied file is the old or the new one unless its own copy met an error, and a file the container left alone is kept (`BufferIsMerged`) | 1 070 884 |

A property named for several statements is the conjunction of as many definitions, each
with its own comment in its module; a type invariant of a composite run is that of all its
modules.

Seven more runs each show one statement of the documentation that the code does not meet;
see below.

*Composite runs.* `MCAgent`, `MCMessages`, `MCAllGateways` and `MCFiles` put modules
that share no state into one run. The variable `component` is chosen in the initial state
and says whose steps are taken, so that the run explores the sum of the state spaces and
not their product, and each module is checked exactly as it would be alone. The two chains of
the network gateway are treated alike, so the first rule is about `INPUT` (`InputFirst`), and
each rule is read by itself, so one of two is malformed at most, the first (`OneMalformed`); the
theorems have neither restriction.

*Bounds.* Two gateways are enough for "one before and one after the one that failed" and
for every pair of static and dynamic; two elements are enough for a configuration that is
read or applied in part. Elements are only compared for equality, so the symmetry is
sound; the properties of that run are safety properties. Two ids make reuse, exhaustion and
a pool of three entries happen; one restart is enough because the state a restart leaves
behind is the state a second one starts from, apart from mounts left over, and the theorems
cover any number. Two processes are one that waits and one that steals, or one of each
container. Two old containers are one that is gone and one at which the clean-up fails. Two
failures of netlink are a socket that cannot be made at all, since the first request tries
again. Two network activations are one that fails and one that is repeated; a third adds
nothing to the state a repeated one starts from. In `files` two settings and a call are what
it takes for two mounts to share a name and a third to fail over them. Three proxies are one more than the buses need.
Integers of the cgroups gateway are of 4 and 5 bits and addresses of 4 bits in two bytes, so
that products and sums fall on both sides of their limits; the code is uniform in the width.
With all 16 bridges and ids up to 3 the unsigned sum of `networkgatewayfunctions.cpp:55` wraps
around in some states and not in others.

*Deadlock* is checked where a module says what it does when it has ended (an explicit step
that changes nothing) and not in `container_object`, where an object ends with its
destructor, and in `messages`, where the agent ends when it loses its name, clients may stop
calling, and a handler may wait for a process that runs on. In `agent` a Create that fails to
parse its options, or another start, is always possible.

*Fairness.* Clients are never obliged to call anything, no process ever has to end, and no
method of the agent has to return. What is assumed is:

* `Jobs`: a wait returns when there is a child to take, and GLib's worker thread reaps what it
  watches. The main loop is strongly fair to child watches: it dispatches all ready sources in
  each iteration, but a handler that waits disables it again and again.
* `AgentAdaptor`: the main loop enters queued calls and ends when told to, and GDBus
  reports a connection that was closed.
* `Netlink`: the thread of the call runs, and the kernel answers what it was sent.
* `SoftwareContainerAgent`, for the run `agent_starts_with_buffers` only: whoever supervises the
  agent starts it again, and an LXC call that can succeed does not fail for ever. There it makes
  the counterexample stronger: even so the agent never comes back.

A handler may therefore block the loop for ever: `waitpid` waits for a function that does not
end, or, after a start that failed, for any child while all of them run on; `recvmsg` waits for
the kernel. `EndIsAnnounced` and `BusIsServed` state that nothing else can: each is a
disjunction of what should happen in the end and `<>[]Blocked` or `<>[]Busy`, a handler that
waits and never gets what it waits for, or a method that is entered and never left.

### Where code and documentation differ

Checked by a run:

* `agent_starts_with_buffers`: after a crash with an overlay mounted LXC refuses to destroy
  the old container, and the agent's constructor throws at every start.
* `options_left_over`: options read before a bad element are used by the next Create.
* `dbus_activate_all`: the result of the system bus is assigned to the session bus's
  variable, so a session bus that failed is reported as activated.
* `bind_keeps`: the rollback of a bind mount unmounts whatever is on its temporary path, also
  an earlier call's mount with the same last component.
* `net_route`: a retry after a failed default route succeeds without one, also when every job
  does what it answers.
* `failed_suspend`: the header and the API chapter say that a suspend or resume that fails makes
  the container INVALID. `Container::suspend` and `resume` throw past the branches that would
  set it, so a container LXC refuses to freeze stays READY.
* `manifests_combined`: the integration guidelines and `baseconfigstore.h` say that entries of one
  name are combined; the second one is dropped.

Seen while modelling, and part of the models, without a run of their own:

* The object: a failed shutdown makes it INVALID and a second one is refused, although the
  API chapter excepts destroying; `previouslyConfigured` is set on success only; the device node and Wayland gateways never
  set the base class's `m_activatedOnce`; elements of a failed call are applied by the next;
  the result of `overlayMount` is ignored in `create()`.
* D-Bus gateway: an element for one bus is refused by the other's instance, so two elements
  for one bus each are refused as a whole; a second configuration of one bus makes
  `activate()` throw for the other; a teardown that cannot remove its socket is repeated by
  the destructor.
* Jobs: a job that was never started, or was killed, is a success; a wait after a failed start
  waits for any child, for ever if that one runs for ever; the signal carries the status of
  wait(2), 256 for an exit code of 1, where `api/index.rst:292` promises the exit code; it
  names a container id that may have been given out again.
* Files: a target in the gateway directory may stay empty although the answer is true; the
  file of environment variables overwrites a host file mounted under the name `env`; writes to
  a buffered bind mount are discarded; a host path at two locations with one last component
  works at one of them. `filesystem/index.rst:132-134` says that the changes in a write buffer are
  merged into the lower layers: a file removed in the container is emptied there, not removed,
  and a file that cannot be opened or written counts as copied (`hurt`).
* Network: ports or protocols that cannot be parsed widen their rule; a single port without
  protocols is for tcp only and several are refused by iptables, where
  `10-network-gateway.rst:30-31` says that the rule is applied to all protocols; a job that was
  not started or was killed counts as successful, so an activated gateway may be down or
  without its rules (`lost`); the exit status of iptables is not looked at; a direction without
  rules keeps its policy; the broadcast address is wrong for a netmask that is no whole number
  of bytes; an id whose sum with the bridge's address is beyond the largest address passes the
  range check, which compares what is left of the sum, and gets an address that may be outside
  the network (`Wraps`, the exception in `InTheNetwork`); an incomplete dump and an unbound
  socket are not released; the bridge is looked for in the cache of the time the gateway was
  made.
* Capabilities and configuration: of two manifests with one capability the second is not even
  looked at, malformed or not; unknown capabilities are only logged if another one is known,
  where `10-service-manifests.rst:21` calls a missing one fatal, and one without gateways counts as unknown; a manifest file on the command line gets a slash behind
  its name.
* Settings: the decimal integer of a device mode is passed to chmod as it is, so that 722 gives
  01322 and not 0722, and the examples of `10-device-node-gateway.rst` do not get the permissions
  they are about; raised limits
  are set in an order the kernel refuses after a half-failed activation; a number out of range
  is stored and throws when the setting comes again; values of cgroup settings are checked
  although the document says they are not; setting a variable twice makes the call fail, and
  so does a malformed PulseAudio configuration; appending to an unset variable leaves the
  separator out, which `10-environment-gateway.rst:42-43` and 74-75 answer in opposite ways (so
  `VariablesAreJoined` is about variables that were set first).

## 4. Proofs

A theorem holds for every value of the constants that satisfies the assumptions named in
the modules that declare them; TLC evaluates each of them in a run. They are: bounds are
natural numbers (all of them); `Flagging \subseteq Dynamic \subseteq Gateways`
(`GatewayAssumption`); option arrays and D-Bus arrays are sequences of elements
(`AgentAssumption`, `DBusAssumption`); exit codes are bytes (`JobsAssumption`); mandatory and
dependent keys are keys (`ConfigAssumption`); a path has a component (`CreateDirAssumption`);
a source is a directory or a file, not both, and the directories of the container are not
among the names the model keeps for the gateway directory, relative paths and "not mounted"
(`BindAssumption`);
manifests are sequences of entries and requests sequences of names (`StoreAssumption`);
device modes have three digits (`DeviceAssumption`); the unit of gigabytes fits a `long long`
(`CgroupsAssumption`); the two variables that name sockets are variables
(`EnvironmentAssumption`); addresses consist of whole bytes and ids are signed numbers that are not
negative (`AddressAssumption`).

**The container.** `Container_proofs` has one lemma for each method. They speak of three
predicates. `Sound(c)`: `m_state` and LXC agree as far as they can. `Tracked(c)`: each
mount point carries at most one mount, and none without a handler. `Healthy(s)`: the
object's state and its `Container`'s agree. Every method keeps `Sound` and `Tracked`
(`Keeps`), and the lemma of the destructor concludes from `Tracked` that nothing stays
mounted. `Tracked` is the strengthening `DestructorUnmounts` needs: that property alone
says nothing of a living object.

**One object** (`SoftwareContainer_proofs`). The inductive invariant adds to
`Healthy` and `Tracked` what the gateways keep. Its first part has, for a loop over
any number of gateways, that a success leaves all configured gateways activated and those
outside `Unchecked` with `live = stored`, that nothing that was live is taken back, and that a gateway of `Flagging`
with something live has `m_activatedOnce` set. From it follow `TypeCorrect`,
`SuccessAppliesAll`, `GrantsAreKept`, `LayersStayInAgreement`, `NothingStaysMounted`, the
action properties `OnlyShutdownInvalidates`, `StaticGatewaysAreFinal` and
`ProxiesDoNotOutliveGateways`, and the refinement `LifecycleRefinement`: each step is one of
`ContainerLifecycle`, which was written from the header, or `LXCRefuses`. The refinement needs
the invariant: that `suspend()` never takes its INVALID branch holds only because a READY
object has a STARTED container.

**The agent** (`SoftwareContainerAgent_proofs`). `PoolInv` is the bookkeeping of ids, in
which the objects play no part: `TakeLemma` says what findSuitableId returns and leaves,
`PoolTake` and `PoolGiveBack` that the accounting survives it and deleteContainer.
`ObjInv` says that listed objects are `Healthy`, that free ids name no LXC container while
the process is up, and that until the first restart listed containers are `Tracked` and
free ids bare. `AInv`, their conjunction with `TypeOK`, is inductive; it has one lemma per
action. The theorems are `AgentTypeCorrect`, `EveryIdIsAccountedFor`,
`FreeIdsNameNoContainer`, `FreeIdsHaveNoMounts` and `ListedContainersAreUsable`.

**Bus and jobs** (`AgentBus_proofs`). `Watches` says that a child watch belongs to one command
and names the container it was started in, `Sent` that what was announced is true and is
watched no longer, `Waits` that the function a handler waits for stays unreaped until the
handler has reaped it. The last is what `executeSync` depends on, and is not obvious: several
parties wait for children of one process. `Sent` compares the status with the one the child
ended with, or 0 where another handler took it. `TypeCorrect`, `SignalsAreRight`,
`SyncReportsItsOwn`.

**The start of the agent** (`Config_proofs`). What a source delivers is a function of the
command line and the file; the invariant says for each step of `main` which sources have
delivered, what the checks behind it have excluded, which source each value came from, and
that the old containers are untouched up to the clean-up, which may stop at any of them.
`StartSound`.

**The capability stores** (also `Config_proofs`). `StInv` holds at every round of every loop.
`HeapInv` says that between two rounds each array belongs to just one object, of the stores or
on the stack, and has a count of one: `append` copies, and what `operator=` shares loses its
other owner in the same round. So a call never appends to an array of a store, which is
`StoresAreConstant`, and a constructor that is undone gives back each array once. `EntryInv`
says that what a store has for a capability was collected from one entry with that name,
whole; `LoadInv` that the entry being read is collected up to the current gateway.
`DefaultsInv` and `FilteredInv` count: what a call has put together so far has each element as
often as the names it is past ask for it. `StoresAreSound`, `StoresAreConstant`, and
`ConfigurationTypeCorrect` about both modules.

**Files** (`Files_proofs`). Until the copy the lower directory is what it was at the mount
(`SyncInv`), and the copy changes a file it met an error with and no other, hence `WriteBufferIsMerged`. `DirInv` says that a directory an object remembers
did not exist at the beginning; paths are compared by their prefixes, for any depth, hence
`CreateDirIsExact`.

The bind mounts need more, because a call changes the mount table in up to five places, may
fail at each, and is then rolled back. `InCall` says what holds at each of these places: only
mounts of the call's own name are touched, at most one is made, and it is on top of the
others of that name (`Touched`, `Stacked`); the rollback deletes a directory only if this call
made it, when nothing was mounted there, and it has unmounted again what the call itself
mounted: a call that throws, and so skips the unmount, has not mounted yet. Between the calls `FsGood` holds:
every mount is seen under its own name, has an upper directory if it is buffered, and there
are at least as many handlers for a name as mounts of it on the host (`Undoable`, by
cardinalities). The last is what makes the destructor's walk end with an empty table, so
that the directories deleted after it are bare: `HostDataIsKept` and, with what a successful
call leaves visible, `BindMountsAreSound`. `Progress` is about an activation under way: the
settings it is past are visible, the paths of the others are empty, and no two settings have
one path. At the last setting this gives the action property `ActivationShowsSettings`.
`FilesTypeCorrect` is about all four modules.

**Network** (`Network_proofs`). `InboxInv` says what may lie in the netlink socket while each
request is answered; so the end of a request is the end of the socket's contents
(`KernelRepliesBelong`). `GatewayInv` ties the entries to the accepted rules and iptables to
the entries: the table holds only commands of entries, and an entry that the activation is
past has all of its commands there, whatever earlier activations left behind, unless its
chain is in `lost` (`ActivatedRulesDecide`). `NetworkTypeCorrect` is about this module,
`NetTypeCorrect` about the other two.

`AddressesAreRight` is arithmetic. The invariant says that an address given is the bridge's
plus the id plus one modulo 2^`Width`, and that it passed the range check. Ids are less than
half of that modulus, so addresses differ; a sum that does not wrap lies between the bridge and
the last address of its network. The exception `Wraps` is needed: without it TLC finds an
address outside the network. For the broadcast address it takes that the bytes of two numbers put
together change places (`SwapSplit`), that bytes swapped twice are where they were
(`SwapTwice`), and that the number with all bits set stays the same (`SwapOnes`); so setting
the high bytes of the swapped address sets the host part of the address. Powers of two and the byte order are recursive functions
over the natural numbers; the first section of the module derives from the library, without its theorems
with an operator as a parameter, that such a function exists and obeys its equation.

**Concrete gateways** (`Gateways_proofs`).

* D-Bus. `Owned` relates `m_pid`, `m_activatedOnce` and processes: an instance that says it
  was activated has a process, and it has every process of its bus that is not reaped. It
  holds between two methods of a call as well as between calls, and each method has a lemma.
  `NoStrayProxies`, `InstancesImplementGateway` (step by step onto `Gateway`),
  `DBusTypeCorrect`.
* Cgroups. `SettingsOK` says for each key that what is stored means the greatest of the
  values accepted, or is the last, whatever units they came in; `ItemsOK` that the items set
  are settings. The kernel's order is kept in the first activation because the keys are
  walked in order (`FirstTryIsOrdered` is part of the invariant). `CgroupLimitsAreSet`,
  `CgroupsTypeCorrect`.
* Device nodes. `Permissive` says that each digit of a mode is the greatest of those asked
  for; merging two modes digit by digit keeps it (`MergeLemma`, with the digits of -1), and it
  never makes the integer smaller, so `calculateDeviceMode`'s comparison is the right one.
  Names differ (`IsList`), so a node made anew is no other device's. `DeviceModesAreCurrent`.
* Environment. `VariablesAreJoined` says where each text of a variable stands by counting what
  stands before it, so that no fold over the history is needed and it is inductive: a text that
  is appended is placed last and moves nobody, one that is prepended moves all others by one
  (`JoinedAppend`, `JoinedPrepend`). Other parts of the invariant say what holds of the sockets at which
  gateway of the loop. `EnvironmentIsSound`.
* `GatewaysTypeCorrect` is about all four.

Every type invariant, safety invariant and action property of the passing runs is stated by
one of these theorems. **Only model-checked** are

* the liveness properties `EndIsAnnounced`, `BusIsServed` and `CallsReturn`,
  since liveness under fairness is out of the prover's reach;
* the violations, which are counterexamples.

## 5. Not modelled

Left out on purpose:

* the marshalling of D-Bus arguments, which is generated code, logging, and the texts of
  errors and of the help;
* the contents of files, except for the copy of a write buffer, and JSON as text: parsers
  see fields that are present, absent or of a wrong type;
* the pipes and the output file of a job, which are descriptors handed to the child;
* the layout of netlink messages and attributes;
* an empty value of a cgroup setting, whose last character the parser takes: undefined
  behaviour that nothing states a property about;
* `NetworkGateway::down`, which nothing calls;
* the container's root file system and LXC's own configuration;
* unit tests and component tests, which were read for what they promise.
