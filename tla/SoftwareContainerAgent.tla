----------------------- MODULE SoftwareContainerAgent -----------------------
(***************************************************************************)
(* The agent: the containers it keeps by id, the pool of ids it gives out, *)
(* and what becomes of both when its process ends and starts again.        *)
(*                                                                         *)
(* All of it runs on one main loop: a D-Bus call is handled to its end     *)
(* before the next source is dispatched, so one action is one call.  A     *)
(* call that is refused and changes nothing is a stuttering step.          *)
(*                                                                         *)
(* What a container's gateways do is module SoftwareContainer's subject;   *)
(* here startGateways simply may or may not return true.                   *)
(***************************************************************************)
EXTENDS SoftwareContainerOps, ContainerOptionParser

CONSTANTS
    MaxId,         \* bound: ids given out are 0..MaxId
    MaxRestarts,   \* bound: how often the agent's process ends
    OptionArrays   \* the option arrays clients pass to Create

ASSUME AgentAssumption ==
    /\ MaxId \in Nat
    /\ MaxRestarts \in Nat
    /\ OptionArrays \subseteq Seq(OptionElements)

Ids == 0..MaxId

\* What the pool holds: ids, or the bound that ends the giving out.
PoolIds == 0..(MaxId + 1)

VARIABLES
    up,                  \* the agent's process runs
    m_containers,        \* the keys of the map m_containers
    m_containerIdPool,   \* first the next new id, then the ids given back
    m_options,           \* m_optionParser's half-built options
    obj,                 \* the container of each id; of an id without one, its host state
    lost,                \* history: ids taken from the pool by a Create that failed
    restarts             \* how often the process has ended

vars == <<up, m_containers, m_containerIdPool, m_options, obj, lost, restarts>>

Pool == m_containerIdPool

TypeOK ==
    /\ up \in BOOLEAN
    /\ m_containers \in SUBSET Ids
    /\ m_containerIdPool \in Seq(PoolIds)
    /\ m_options \in BOOLEAN
    /\ obj \in [Ids -> SoftwareContainerRec]
    /\ lost \in SUBSET Ids
    /\ restarts \in 0..MaxRestarts

NoObject(c) == [state |-> "TERMINATED", prev |-> FALSE, c |-> HostOnly(c)]

Init ==
    /\ up = FALSE
    /\ m_containers = {}
    /\ m_containerIdPool = <<0>>
    /\ m_options = DefaultOptions
    /\ obj = [i \in Ids |-> NoObject(CleanHost)]
    /\ lost = {}
    /\ restarts = 0

----------------------------------------------------------------------------
\* Mutant: an id that was given back is used and stays in the pool.
PoolAfterTakeKeeps(pool) == [pool EXCEPT ![1] = @ + 1]

\* findSuitableId(): the id taken and the pool after it.
SuitableId(pool) == pool[Len(pool)]

PoolAfterTake(pool) ==
    IF Len(pool) > 1 THEN SubSeq(pool, 1, Len(pool) - 1)
    ELSE [pool EXCEPT ![1] = @ + 1]

\* createContainer(config): options that do not parse end it before an id is
\* taken; a constructor that throws ends it after.
Create(array) ==
    /\ up
    /\ LET parsed == Parse(m_options, array)
           id     == SuitableId(Pool)
       IN  /\ m_options' = parsed.m_options
           /\ \/ ~parsed.ok /\ UNCHANGED <<m_containers, m_containerIdPool, obj, lost>>
              \/ /\ parsed.ok
                 /\ id <= MaxId
                 /\ m_containerIdPool' = PoolAfterTake(Pool)
                 /\ \E r \in ConstructOut(obj[id].c, parsed.wb) :
                       IF r.res = "true"
                         THEN /\ m_containers' = m_containers \cup {id}
                              /\ obj' = [obj EXCEPT ![id] = [state |-> "READY",
                                                             prev |-> FALSE, c |-> r.c]]
                              /\ lost' = lost
                         ELSE /\ obj' = [obj EXCEPT ![id] = NoObject(r.c)]
                              /\ lost' = lost \cup {id}
                              /\ m_containers' = m_containers
    /\ UNCHANGED <<up, restarts>>

\* shutdownContainer(id): only a shutdown that did not throw reaches
\* deleteContainer, which drops the last reference to the object.
Destroy(id) ==
    /\ up
    /\ id \in m_containers
    /\ \E r \in SCShutdownOut(obj[id]) :
          \/ /\ r.res = "ok"
             /\ m_containers' = m_containers \ {id}
             /\ m_containerIdPool' = Append(Pool, id)
             /\ \E c \in SCDestructOut(r.s.c) : obj' = [obj EXCEPT ![id] = NoObject(c)]
          \/ /\ r.res # "ok"
             /\ obj' = [obj EXCEPT ![id] = r.s]
             /\ UNCHANGED <<m_containers, m_containerIdPool>>
    /\ UNCHANGED <<up, m_options, lost, restarts>>

\* What the calls below leave alone.
OnlyObjects == UNCHANGED <<up, m_containers, m_containerIdPool, m_options, lost, restarts>>

\* suspendContainer(id) and resumeContainer(id)
Suspend(id) ==
    /\ up
    /\ id \in m_containers
    /\ \E r \in SCSuspendOut(obj[id]) : obj' = [obj EXCEPT ![id] = r.s]
    /\ OnlyObjects

Resume(id) ==
    /\ up
    /\ id \in m_containers
    /\ \E r \in SCResumeOut(obj[id]) : obj' = [obj EXCEPT ![id] = r.s]
    /\ OnlyObjects

\* updateGatewayConfigs(id, configs): true from startGateways sets the flag.
UpdateGatewayConfigs(id, works) ==
    obj' = [obj EXCEPT ![id].prev = @ \/ (works /\ Refusal(obj[id], {"READY"}) = "none")]

\* setCapabilities(id, capabilities), of capabilities that exist.
SetCapabilities(id) ==
    /\ up
    /\ id \in m_containers
    /\ \E works \in BOOLEAN : UpdateGatewayConfigs(id, works)
    /\ OnlyObjects

\* execute(id, ...): a container that is not configured gets the default
\* capabilities first.
Execute(id) ==
    /\ up
    /\ id \in m_containers
    /\ IF obj[id].prev THEN UNCHANGED obj
       ELSE \E works \in BOOLEAN : UpdateGatewayConfigs(id, works)
    /\ OnlyObjects

\* External: the init process of a container ends, listed or left over.
InitDies(id) ==
    /\ InitCanDie(obj[id].c)
    /\ obj' = [obj EXCEPT ![id].c = InitDied(@)]
    /\ OnlyObjects

----------------------------------------------------------------------------
(***************************************************************************)
(* The end of the agent's process, and its start                           *)
(***************************************************************************)
\* What the end of the process takes with it.
ProcessEnds ==
    /\ up
    /\ restarts < MaxRestarts
    /\ up' = FALSE
    /\ restarts' = restarts + 1
    /\ m_containers' = {}
    /\ m_containerIdPool' = <<0>>
    /\ m_options' = DefaultOptions
    /\ lost' = {}

\* SIGINT, SIGTERM or a lost bus name: the main loop ends and the destructor of
\* the agent destroys every container.
Quit ==
    /\ ProcessEnds
    /\ \E left \in [m_containers -> UNION {SCDestructOut(obj[i].c) : i \in m_containers}] :
          /\ \A i \in m_containers : left[i] \in SCDestructOut(obj[i].c)
          /\ obj' = [i \in Ids |-> IF i \in m_containers THEN NoObject(left[i]) ELSE obj[i]]

\* The process dies without running a destructor.
Crash ==
    /\ ProcessEnds
    /\ obj' = [i \in Ids |-> NoObject(obj[i].c)]

\* Mutant: only the active containers are listed.
OldContainersActive == {i \in Ids : obj[i].c.lxc \in {"running", "frozen"}}

\* removeOldContainers(): the LXC containers named SC-*.
OldContainers == {i \in Ids : obj[i].c.lxc # "undefined"}

\* LXC's destroy of a stopped one, as in module Container.
Removable(i) == obj[i].c.mounts["rootfs"] = 0

RemovedFrom(R) ==
    [i \in Ids |-> IF i \in R THEN [obj[i] EXCEPT !.c.lxc = "undefined"] ELSE obj[i]]

\* The constructor of the agent: it removes every old container, or throws at the
\* first one it cannot stop or destroy and leaves the rest (the map's order is the
\* names'; any order is allowed here).  The process is then not up.
StartSucceeds ==
    /\ ~up
    /\ \A i \in OldContainers : Removable(i)
    /\ obj' = RemovedFrom(OldContainers)
    /\ up' = TRUE
    /\ UNCHANGED <<m_containers, m_containerIdPool, m_options, lost, restarts>>

StartFails ==
    /\ ~up
    /\ \E j \in OldContainers : \E R \in SUBSET (OldContainers \ {j}) :
          /\ \A i \in R : Removable(i)
          /\ \/ obj' = RemovedFrom(R)
             \/ obj' = [RemovedFrom(R) EXCEPT ![j].c = InitDied(@)]
    /\ OnlyObjects

\* checkWorkspace() throws once all of them are gone.
WorkspaceFails ==
    /\ ~up
    /\ \A i \in OldContainers : Removable(i)
    /\ obj' = RemovedFrom(OldContainers)
    /\ OnlyObjects

Next ==
    \/ \E array \in OptionArrays : Create(array)
    \/ \E id \in Ids : \/ Destroy(id)
                       \/ Suspend(id)
                       \/ Resume(id)
                       \/ SetCapabilities(id)
                       \/ Execute(id)
                       \/ InitDies(id)
    \/ Quit
    \/ Crash
    \/ StartSucceeds
    \/ StartFails
    \/ WorkspaceFails

Spec == Init /\ [][Next]_vars

\* For the run that refutes AgentComesBack only: whoever supervises the agent starts it
\* again, and an LXC call that can succeed does not fail for ever.
FairSpec == Spec /\ WF_vars(StartSucceeds)

----------------------------------------------------------------------------
(***************************************************************************)
(* Properties                                                              *)
(***************************************************************************)
\* The ids that were given back, and all ids that have been given out.
GivenBack == {Pool[k] : k \in 2..Len(Pool)}
GivenOut  == {i \in Ids : i < Pool[1]}

\* findSuitableId, deleteContainer and createContainer account for every id: each
\* one given out is listed, is back in the pool exactly once, or was lost by a
\* Create that failed, and never two of these.
IdsAccounted ==
    /\ Len(Pool) >= 1
    /\ \A j, k \in 1..Len(Pool) : Pool[j] = Pool[k] => j = k
    /\ m_containers \cup GivenBack \cup lost = GivenOut
    /\ m_containers \cap GivenBack = {}
    /\ m_containers \cap lost = {}
    /\ GivenBack \cap lost = {}

\* An id the pool can still give out names no LXC container, whatever failed,
\* crashed or was restarted before: Container::create cannot meet an id in use.
FreeIds == Ids \ (m_containers \cup lost)

FreeIdsUnused == up => \A i \in FreeIds : obj[i].c.lxc = "undefined"

\* Until the process ends for the first time, an id that is free has nothing
\* mounted: shutdownContainer and the destructors undo all that Create mounted.
FreeIdsUnmounted ==
    up /\ restarts = 0 => \A i \in FreeIds : \A m \in MountPoints : obj[i].c.mounts[m] = 0

\* Every listed container is READY, SUSPENDED or INVALID, and in the first two
\* its Container is STARTED or FROZEN: no call sequence lists a dead one.
ListedIsUsable ==
    \A i \in m_containers :
       /\ obj[i].state # "TERMINATED"
       /\ obj[i].state = "READY" => obj[i].c.state = STARTED
       /\ obj[i].state = "SUSPENDED" => obj[i].c.state = FROZEN

----------------------------------------------------------------------------
(***************************************************************************)
(* What the documentation says and the code does not do                    *)
(***************************************************************************)
\* containeroptionparser.h, parse(): "a DynamicContainerOptions object with the
\* given settings set".  A container has a write buffer only if some client has
\* passed an array that parses and asks for one.
AsksForWriteBuffer(array) ==
    array # <<>> /\ array[Len(array)] = "on" /\ \A k \in 1..Len(array) : array[k] # "bad"

NoUnaskedWriteBuffer ==
    (\E i \in m_containers : obj[i].c.wb) => \E array \in OptionArrays : AsksForWriteBuffer(array)

\* api/index.rst, Destroy: the agent can be restarted, "since it does a cleanup of old
\* containers on startup".  Even where it is started again and again, and LXC does what
\* it can, it comes back.
AgentComesBack == ~up ~> up
=============================================================================
