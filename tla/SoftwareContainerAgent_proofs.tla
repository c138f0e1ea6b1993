-------------------- MODULE SoftwareContainerAgent_proofs --------------------
(***************************************************************************)
(* The properties of module SoftwareContainerAgent, for every number of    *)
(* ids, of restarts and every set of option arrays.                        *)
(***************************************************************************)
EXTENDS SoftwareContainerAgent, Container_proofs, SequenceTheorems

USE DEF DEFAULT, PREPARED, DESTROYED, CREATED, STARTED, FROZEN

----------------------------------------------------------------------------
(***************************************************************************)
(* The pool of ids.                                                        *)
(***************************************************************************)
\* What the bookkeeping of ids rests on; the containers themselves play no part.
PoolInv ==
    /\ m_containers \in SUBSET Ids
    /\ m_containerIdPool \in Seq(PoolIds)
    /\ lost \in SUBSET Ids
    /\ IdsAccounted

\* The ids of a pool: the next new one and those given back.
Back(pool) == {pool[k] : k \in 2..Len(pool)}

\* A sequence of one element whose element is replaced.
LEMMA BumpLemma ==
    ASSUME NEW S, NEW q \in Seq(S), Len(q) = 1, NEW e \in S
    PROVE  /\ [q EXCEPT ![1] = e] \in Seq(S)
           /\ Len([q EXCEPT ![1] = e]) = Len(q)
           /\ [q EXCEPT ![1] = e][1] = e
<1>1. 1 \in 1..Len(q)
  OBVIOUS
<1>2. /\ [q EXCEPT ![1] = e] \in Seq(S)
      /\ Len([q EXCEPT ![1] = e]) = Len(q)
      /\ \A j \in 1..Len(q) : [q EXCEPT ![1] = e][j] = IF j = 1 THEN e ELSE q[j]
  BY <1>1, ExceptSeq
<1> QED  BY <1>1, <1>2

\* findSuitableId: the id is the next new one, or one that was given back and is
\* then no longer in the pool.
LEMMA TakeLemma ==
    ASSUME PoolInv, SuitableId(Pool) <= MaxId,
           NEW id, id = SuitableId(Pool), NEW pool, pool = PoolAfterTake(Pool)
    PROVE  /\ id \in Ids
           /\ pool \in Seq(PoolIds)
           /\ Len(pool) >= 1
           /\ \A j, k \in 1..Len(pool) : pool[j] = pool[k] => j = k
           /\ \/ Back(pool) = GivenBack \ {id} /\ id \in GivenBack /\ pool[1] = Pool[1]
              \/ Back(pool) = GivenBack /\ id = Pool[1] /\ pool[1] = Pool[1] + 1
<1>0. Pool \in Seq(PoolIds) /\ Len(Pool) \in Nat /\ Len(Pool) >= 1
  <2>1. Pool \in Seq(PoolIds)
    BY DEF PoolInv, Pool
  <2>2. Len(Pool) \in Nat
    BY <2>1, LenProperties
  <2> QED  BY <2>1, <2>2 DEF PoolInv, IdsAccounted
<1>4. \A k \in 1..Len(Pool) : Pool[k] \in 0..(MaxId + 1)
  <2>1. \A k \in 1..Len(Pool) : Pool[k] \in PoolIds
    BY <1>0, ElementOfSeq
  <2> QED  BY <2>1 DEF PoolIds
<1>5. MaxId \in Nat
  BY AgentAssumption
<1>1. CASE Len(Pool) > 1
  <2>1. pool = SubSeq(Pool, 1, Len(Pool) - 1)
    BY <1>1 DEF PoolAfterTake
  <2>2. /\ pool \in Seq(PoolIds)
        /\ Len(pool) = Len(Pool) - 1
        /\ \A k \in 1..(Len(Pool) - 1) : pool[k] = Pool[k]
    BY <1>0, <1>1, <2>1
  <2>3. id = Pool[Len(Pool)] /\ id \in Ids
    BY <1>0, <1>4, <1>5 DEF SuitableId, Ids
  <2>4. \A j, k \in 1..Len(Pool) : Pool[j] = Pool[k] => j = k
    BY DEF PoolInv, IdsAccounted
  <2>5. \A j, k \in 1..Len(pool) : pool[j] = pool[k] => j = k
    <3> SUFFICES ASSUME NEW j \in 1..Len(pool), NEW k \in 1..Len(pool), pool[j] = pool[k]
                 PROVE  j = k
      OBVIOUS
    <3>1. /\ j \in 1..Len(Pool) /\ k \in 1..Len(Pool)
          /\ j \in 1..(Len(Pool) - 1) /\ k \in 1..(Len(Pool) - 1)
      BY <1>0, <1>1, <2>2
    <3>2. Pool[j] = Pool[k]
      BY <2>2, <3>1
    <3> QED  BY <2>4, <3>1, <3>2
  <2>6. Back(pool) = GivenBack \ {id}
    <3>1. ASSUME NEW x \in Back(pool)
          PROVE  x \in GivenBack \ {id}
      <4>1. PICK k \in 2..Len(pool) : x = pool[k]
        BY DEF Back
      <4>2. /\ k \in 1..(Len(Pool) - 1) /\ k \in 2..Len(Pool) /\ k # Len(Pool)
            /\ k \in 1..Len(Pool) /\ Len(Pool) \in 1..Len(Pool)
        BY <1>0, <1>1, <2>2
      <4>3. x = Pool[k]
        BY <2>2, <4>1, <4>2
      <4> QED  BY <2>3, <2>4, <4>2, <4>3 DEF GivenBack
    <3>2. ASSUME NEW x \in GivenBack, x # id
          PROVE  x \in Back(pool)
      <4>1. PICK k \in 2..Len(Pool) : x = Pool[k]
        BY DEF GivenBack
      <4>2. k # Len(Pool)
        BY <2>3, <3>2, <4>1
      <4>3. k \in 1..(Len(Pool) - 1) /\ k \in 2..Len(pool)
        BY <1>0, <1>1, <2>2, <4>2
      <4> QED  BY <2>2, <4>1, <4>3 DEF Back
    <3> QED  BY <3>1, <3>2
  <2>7. id \in GivenBack
    BY <1>0, <1>1, <2>3 DEF GivenBack
  <2> QED  BY <1>0, <1>1, <2>2, <2>3, <2>5, <2>6, <2>7
<1>2. CASE Len(Pool) = 1
  <2>1. pool = [Pool EXCEPT ![1] = @ + 1] /\ id = Pool[1]
    BY <1>0, <1>2 DEF PoolAfterTake, SuitableId
  <2>2. id \in Ids
    BY <1>2, <1>4, <1>5, <2>1 DEF Ids, SuitableId
  <2>3. pool \in Seq(PoolIds) /\ Len(pool) = 1 /\ pool[1] = Pool[1] + 1
    <3>1. Pool[1] + 1 \in PoolIds
      BY <1>5, <2>1, <2>2 DEF Ids, PoolIds
    <3>2. /\ [Pool EXCEPT ![1] = Pool[1] + 1] \in Seq(PoolIds)
          /\ Len([Pool EXCEPT ![1] = Pool[1] + 1]) = Len(Pool)
          /\ [Pool EXCEPT ![1] = Pool[1] + 1][1] = Pool[1] + 1
      BY <1>0, <1>2, <3>1, BumpLemma
    <3> QED  BY <1>2, <2>1, <3>2
  <2>4. Back(pool) = GivenBack
    BY <1>2, <2>3 DEF Back, GivenBack
  <2>5. \A j, k \in 1..Len(pool) : j = k
    BY <2>3
  <2>6. Len(pool) >= 1
    BY <2>3
  <2> QED  BY <2>1, <2>2, <2>3, <2>4, <2>5, <2>6
<1>3. Len(Pool) > 1 \/ Len(Pool) = 1
  <2>1. ASSUME NEW n \in Nat, n >= 1
        PROVE  n > 1 \/ n = 1
    BY <2>1
  <2> QED  BY <1>0, <2>1
<1> QED  BY <1>1, <1>2, <1>3, Zenon

\* An id that was taken is listed or lost from then on.
LEMMA PoolTake ==
    ASSUME PoolInv, SuitableId(Pool) <= MaxId,
           m_containerIdPool' = PoolAfterTake(Pool),
           \/ m_containers' = m_containers \cup {SuitableId(Pool)} /\ lost' = lost
           \/ m_containers' = m_containers /\ lost' = lost \cup {SuitableId(Pool)}
    PROVE  PoolInv'
<1> DEFINE id == SuitableId(Pool)
           pool == PoolAfterTake(Pool)
<1>1. /\ id \in Ids
      /\ pool \in Seq(PoolIds)
      /\ Len(pool) >= 1
      /\ \A j, k \in 1..Len(pool) : pool[j] = pool[k] => j = k
      /\ \/ Back(pool) = GivenBack \ {id} /\ id \in GivenBack /\ pool[1] = Pool[1]
         \/ Back(pool) = GivenBack /\ id = Pool[1] /\ pool[1] = Pool[1] + 1
  BY TakeLemma
<1>2. Pool' = pool /\ GivenBack' = Back(pool) /\ GivenOut' = {i \in Ids : i < pool[1]}
  BY DEF Pool, GivenBack, Back, GivenOut
<1> HIDE DEF id, pool
<1>3. /\ \/ m_containers' = m_containers \cup {id} /\ lost' = lost
         \/ m_containers' = m_containers /\ lost' = lost \cup {id}
      /\ m_containerIdPool' = pool
  BY DEF id, pool
<1>4. /\ m_containers \in SUBSET Ids /\ lost \in SUBSET Ids
      /\ m_containers \cup GivenBack \cup lost = {i \in Ids : i < Pool[1]}
      /\ m_containers \cap GivenBack = {} /\ m_containers \cap lost = {}
      /\ GivenBack \cap lost = {}
  BY DEF PoolInv, IdsAccounted, GivenOut
<1>5. CASE Back(pool) = GivenBack \ {id} /\ id \in GivenBack /\ pool[1] = Pool[1]
  BY <1>1, <1>2, <1>3, <1>4, <1>5 DEF PoolInv, IdsAccounted
<1>6. CASE Back(pool) = GivenBack /\ id = Pool[1] /\ pool[1] = Pool[1] + 1
  <2>1. id \in Int /\ \A i \in Ids : i \in Int
    BY <1>1 DEF Ids
  <2>4. \A i \in Ids : i < id + 1 <=> i < id \/ i = id
    BY <2>1
  <2>2. {i \in Ids : i < pool[1]} = {i \in Ids : i < Pool[1]} \cup {id}
    <3>1. pool[1] = id + 1 /\ Pool[1] = id /\ id \in Ids
      BY <1>1, <1>6
    <3> QED  BY <2>4, <3>1, Zenon
  <2>3. id \notin {i \in Ids : i < Pool[1]}
    BY <1>6, <2>1
  <2> QED  BY <1>1, <1>2, <1>3, <1>4, <1>6, <2>2, <2>3 DEF PoolInv, IdsAccounted
<1> QED  BY <1>1, <1>5, <1>6

\* deleteContainer: an id that was listed is given back.
LEMMA PoolGiveBack ==
    ASSUME PoolInv, NEW id \in m_containers,
           m_containers' = m_containers \ {id}, lost' = lost,
           m_containerIdPool' = Append(Pool, id)
    PROVE  PoolInv'
<1> DEFINE pool == Append(Pool, id)
<1>0. Pool \in Seq(PoolIds) /\ Len(Pool) \in Nat
  <2>1. Pool \in Seq(PoolIds)
    BY DEF PoolInv, Pool
  <2> QED  BY <2>1, LenProperties
<1>1. id \in Ids /\ id \in PoolIds
  BY AgentAssumption DEF PoolInv, Ids, PoolIds
<1>2. /\ pool \in Seq(PoolIds) /\ Len(pool) = Len(Pool) + 1
      /\ \A i \in 1..Len(Pool) : pool[i] = Pool[i]
      /\ pool[Len(Pool) + 1] = id
  BY <1>0, <1>1, AppendProperties
<1>3. Pool' = pool /\ GivenBack' = Back(pool) /\ GivenOut' = {i \in Ids : i < pool[1]}
  BY DEF Pool, GivenBack, Back, GivenOut
<1> HIDE DEF pool
<1>4. /\ m_containers \in SUBSET Ids /\ lost \in SUBSET Ids
      /\ Len(Pool) >= 1
      /\ \A j, k \in 1..Len(Pool) : Pool[j] = Pool[k] => j = k
      /\ m_containers \cup GivenBack \cup lost = {i \in Ids : i < Pool[1]}
      /\ m_containers \cap GivenBack = {} /\ m_containers \cap lost = {}
      /\ GivenBack \cap lost = {}
  BY DEF PoolInv, IdsAccounted, GivenOut
<1>5. Back(pool) = GivenBack \cup {id}
  <2>1. ASSUME NEW x \in Back(pool)
        PROVE  x \in GivenBack \cup {id}
    <3>1. PICK k \in 2..Len(pool) : x = pool[k]
      BY DEF Back
    <3>2. k \in 2..Len(Pool) \/ k = Len(Pool) + 1
      BY <1>0, <1>2
    <3>3. CASE k \in 2..Len(Pool)
      <4>1. k \in 1..Len(Pool)
        BY <1>0, <3>3
      <4> QED  BY <1>2, <3>1, <3>3, <4>1 DEF GivenBack
    <3> QED  BY <1>2, <3>1, <3>2, <3>3
  <2>2. ASSUME NEW x \in GivenBack
        PROVE  x \in Back(pool)
    <3>1. PICK k \in 2..Len(Pool) : x = Pool[k]
      BY DEF GivenBack
    <3>2. k \in 1..Len(Pool) /\ k \in 2..Len(pool)
      BY <1>0, <1>2
    <3> QED  BY <1>2, <3>1, <3>2 DEF Back
  <2>3. id \in Back(pool)
    <3>1. Len(Pool) + 1 \in 2..Len(pool)
      BY <1>0, <1>2, <1>4
    <3> QED  BY <1>2, <3>1 DEF Back
  <2> QED  BY <2>1, <2>2, <2>3
<1>6. 1 \in 1..Len(Pool) /\ pool[1] = Pool[1] /\ Len(pool) >= 1
  BY <1>0, <1>2, <1>4
<1>7. \A k \in 1..Len(Pool) : Pool[k] # id
  <2>1. ASSUME NEW k \in 1..Len(Pool), Pool[k] = id
        PROVE  FALSE
    <3>1. id \in Int /\ id < Pool[1]
      BY <1>1, <1>4 DEF Ids
    <3>2. k # 1
      BY <2>1, <3>1
    <3>3. k \in 2..Len(Pool)
      BY <1>0, <3>2
    <3> QED  BY <1>4, <2>1, <3>3 DEF GivenBack
  <2> QED  BY <2>1
<1>8. \A j, k \in 1..Len(pool) : pool[j] = pool[k] => j = k
  <2> SUFFICES ASSUME NEW j \in 1..Len(pool), NEW k \in 1..Len(pool), pool[j] = pool[k]
               PROVE  j = k
    OBVIOUS
  <2>1. /\ j \in 1..Len(Pool) \/ j = Len(Pool) + 1
        /\ k \in 1..Len(Pool) \/ k = Len(Pool) + 1
    BY <1>0, <1>2
  <2>2. CASE j \in 1..Len(Pool) /\ k \in 1..Len(Pool)
    BY <1>2, <1>4, <2>2
  <2>3. CASE j \in 1..Len(Pool) /\ k = Len(Pool) + 1
    BY <1>2, <1>7, <2>3
  <2>4. CASE j = Len(Pool) + 1 /\ k \in 1..Len(Pool)
    BY <1>2, <1>7, <2>4
  <2> QED  BY <2>1, <2>2, <2>3, <2>4
<1>9. /\ m_containers' \in SUBSET Ids /\ lost' \in SUBSET Ids
      /\ m_containerIdPool' \in Seq(PoolIds)
  BY <1>2, <1>4 DEF pool
<1>10. /\ m_containers' \cup Back(pool) \cup lost' = {i \in Ids : i < pool[1]}
       /\ m_containers' \cap Back(pool) = {} /\ m_containers' \cap lost' = {}
       /\ Back(pool) \cap lost' = {}
  BY <1>4, <1>5, <1>6
<1> QED  BY <1>3, <1>6, <1>8, <1>9, <1>10 DEF PoolInv, IdsAccounted

----------------------------------------------------------------------------
(***************************************************************************)
(* The containers.                                                         *)
(***************************************************************************)
\* What is known of a container by its id being listed or free.  Until the process
\* ends for the first time every mount is accounted for as well.
ObjInv ==
    /\ obj \in [Ids -> SoftwareContainerRec]
    /\ \A i \in m_containers : Healthy(obj[i]) /\ obj[i].state # "TERMINATED"
    /\ up => \A i \in FreeIds : obj[i].c.lxc = "undefined"
    /\ restarts = 0 => /\ \A i \in m_containers : Tracked(obj[i].c)
                       /\ \A i \in FreeIds : Bare(obj[i].c)

\* The inductive invariant.
AInv ==
    /\ TypeOK
    /\ PoolInv
    /\ ~up => m_containers = {}
    /\ ObjInv

\* An id without an object: what the host has of it.
LEMMA NoObjectLemma ==
    ASSUME NEW c \in ContainerRec
    PROVE  /\ NoObject(c) \in SoftwareContainerRec
           /\ NoObject(c).c.lxc = c.lxc
           /\ NoObject(c).c.mounts = c.mounts
<1> DEFINE a == [c EXCEPT !.state = DEFAULT]
           b == [a EXCEPT !.wb = FALSE]
           h == HostOnly(c)
<1>1. a \in ContainerRec /\ a.lxc = c.lxc /\ a.mounts = c.mounts
  BY DEF ContainerRec
<1>2. b \in ContainerRec /\ b.lxc = c.lxc /\ b.mounts = c.mounts
  <2> HIDE DEF a
  <2> QED  BY <1>1 DEF ContainerRec
<1>3. h = [b EXCEPT !.undo = {}]
  BY DEF HostOnly, ContainerRec
<1> HIDE DEF b, h
<1>4. h \in ContainerRec /\ h.lxc = c.lxc /\ h.mounts = c.mounts
  BY <1>2, <1>3 DEF ContainerRec
<1>5. NoObject(c) = [state |-> "TERMINATED", prev |-> FALSE, c |-> h]
  BY DEF NoObject, h
<1> QED  BY <1>4, <1>5 DEF SoftwareContainerRec, SCStates

\* The options a Create ends up with.
LEMMA ParseLemma ==
    ASSUME NEW options \in BOOLEAN, NEW array
    PROVE  Parse(options, array).wb \in BOOLEAN /\ Parse(options, array).m_options \in BOOLEAN
<1> DEFINE n == GoodPrefix(array)
           read == AfterElements(options, array, n)
<1>1. read \in BOOLEAN
  BY DEF AfterElements
<1> HIDE DEF read, n
<1>2. \/ Parse(options, array) = [ok |-> FALSE, wb |-> read, m_options |-> read]
      \/ Parse(options, array) = [ok |-> TRUE, wb |-> read, m_options |-> DefaultOptions]
  BY DEF Parse, read, n
<1>3. CASE Parse(options, array) = [ok |-> FALSE, wb |-> read, m_options |-> read]
  <2>1. Parse(options, array).wb = read /\ Parse(options, array).m_options = read
    BY <1>3
  <2> QED  BY <1>1, <2>1, Zenon
<1>4. CASE Parse(options, array) = [ok |-> TRUE, wb |-> read, m_options |-> DefaultOptions]
  <2>1. /\ Parse(options, array).wb = read
        /\ Parse(options, array).m_options = DefaultOptions
    BY <1>4
  <2>2. DefaultOptions \in BOOLEAN
    BY DEF DefaultOptions
  <2> QED  BY <1>1, <2>1, <2>2, Zenon
<1> QED  BY <1>2, <1>3, <1>4

\* The id that findSuitableId returns is free.
LEMMA SuitableIsFree ==
    ASSUME PoolInv, SuitableId(Pool) <= MaxId
    PROVE  SuitableId(Pool) \in FreeIds
<1> DEFINE id == SuitableId(Pool)
           pool == PoolAfterTake(Pool)
<1>1. /\ id \in Ids
      /\ id \in GivenBack \/ id = Pool[1]
  BY TakeLemma
<1> HIDE DEF id
<1>2. CASE id \in GivenBack
  BY <1>1, <1>2 DEF PoolInv, IdsAccounted, FreeIds, id
<1>3. CASE id = Pool[1]
  <2>1. id \in Int
    BY <1>1 DEF Ids
  <2>2. id \notin GivenOut
    BY <1>3, <2>1 DEF GivenOut
  <2> QED  BY <1>1, <2>2 DEF PoolInv, IdsAccounted, FreeIds, id
<1> QED  BY <1>1, <1>2, <1>3

\* The pool, the map and the history as a new process has them.
NewProcess == m_containerIdPool = <<0>> /\ m_containers = {} /\ lost = {}

\* A new process has given out no id.
LEMMA NewPool == NewProcess => PoolInv
<1> SUFFICES ASSUME NewProcess PROVE PoolInv
  OBVIOUS
<1> USE DEF NewProcess
<1>1. m_containerIdPool \in Seq(PoolIds)
  <2>1. 0 \in PoolIds
    BY AgentAssumption DEF PoolIds
  <2> HIDE DEF PoolIds
  <2> QED  BY <2>1
<1>2. Len(Pool) = 1 /\ Pool[1] = 0
  BY DEF Pool
<1>3. GivenBack = {} /\ GivenOut = {}
  BY <1>2 DEF GivenBack, GivenOut, Ids
<1> QED  BY <1>1, <1>2, <1>3 DEF PoolInv, IdsAccounted

\* Init: a host without containers, and the process not yet started.
LEMMA AgentInit == Init => AInv
<1> SUFFICES ASSUME Init PROVE AInv
  OBVIOUS
<1>1. CleanHost \in ContainerRec /\ Bare(CleanHost)
  <2> DEFINE M == [m \in MountPoints |-> 0]
  <2>1. M \in [MountPoints -> Nat] /\ \A m \in MountPoints : M[m] = 0
    OBVIOUS
  <2> HIDE DEF M
  <2>2. CleanHost = [state |-> 0, wb |-> FALSE, lxc |-> "undefined", mounts |-> M, undo |-> {}]
    BY DEF CleanHost, M
  <2> QED  BY <2>1, <2>2 DEF Bare, ContainerRec, LxcStates
<1>2. NoObject(CleanHost) \in SoftwareContainerRec /\ Bare(NoObject(CleanHost).c)
  BY <1>1, NoObjectLemma DEF Bare
<1>3. ObjInv
  BY <1>2 DEF Init, ObjInv, FreeIds
<1>4. PoolInv
  BY NewPool DEF Init, NewProcess
<1>5. TypeOK
  <2>1. m_options \in BOOLEAN /\ up \in BOOLEAN
    BY DEF Init, DefaultOptions
  <2>2. restarts \in 0..MaxRestarts
    BY AgentAssumption DEF Init
  <2> QED  BY <1>3, <1>4, <2>1, <2>2, Zenon DEF TypeOK, ObjInv, PoolInv
<1> QED  BY <1>3, <1>4, <1>5 DEF Init, AInv

----------------------------------------------------------------------------
(***************************************************************************)
(* The steps.                                                              *)
(***************************************************************************)
\* A call that changes one listed object, which stays healthy and listed.
LEMMA ListedStep ==
    ASSUME AInv, NEW id \in m_containers, OnlyObjects,
           NEW s, obj' = [obj EXCEPT ![id] = s],
           Healthy(s), s.state # "TERMINATED", Tracked(obj[id].c) => Tracked(s.c)
    PROVE  AInv'
<1>1. /\ TypeOK /\ PoolInv /\ ObjInv /\ (~up => m_containers = {})
      /\ id \in Ids /\ obj \in [Ids -> SoftwareContainerRec]
  BY DEF AInv, TypeOK
<1>2. obj'[id] = s /\ \A i \in Ids \ {id} : obj'[i] = obj[i]
  BY <1>1
<1>3. obj' \in [Ids -> SoftwareContainerRec]
  BY <1>1 DEF Healthy
<1>4. PoolInv'
  BY <1>1 DEF OnlyObjects, PoolInv, IdsAccounted, GivenBack, GivenOut, Pool
<1>5. /\ m_containers' = m_containers /\ FreeIds' = FreeIds /\ id \notin FreeIds
      /\ FreeIds \subseteq Ids /\ m_containers \subseteq Ids
  BY <1>1 DEF OnlyObjects, FreeIds, PoolInv
<1>6. ObjInv'
  BY <1>1, <1>2, <1>3, <1>5 DEF OnlyObjects, ObjInv
<1>7. TypeOK'
  BY <1>1, <1>3 DEF OnlyObjects, TypeOK
<1> QED  BY <1>1, <1>4, <1>6, <1>7 DEF OnlyObjects, AInv

\* suspendContainer
LEMMA SuspendStep ==
    ASSUME AInv, NEW id \in Ids, Suspend(id)
    PROVE  AInv'
<1>1. id \in m_containers /\ OnlyObjects
  BY DEF Suspend
<1>2. PICK r \in SCSuspendOut(obj[id]) : obj' = [obj EXCEPT ![id] = r.s]
  BY DEF Suspend
<1>3. Healthy(obj[id]) /\ obj[id].state # "TERMINATED"
  BY <1>1 DEF AInv, ObjInv
<1>4. /\ Healthy(r.s) /\ r.s.state # "TERMINATED"
      /\ Tracked(obj[id].c) => Tracked(r.s.c)
  BY <1>3, SCSuspendLemma DEF RefusedFor
<1> QED  BY <1>1, <1>2, <1>4, ListedStep

\* resumeContainer
LEMMA ResumeStep ==
    ASSUME AInv, NEW id \in Ids, Resume(id)
    PROVE  AInv'
<1>1. id \in m_containers /\ OnlyObjects
  BY DEF Resume
<1>2. PICK r \in SCResumeOut(obj[id]) : obj' = [obj EXCEPT ![id] = r.s]
  BY DEF Resume
<1>3. Healthy(obj[id]) /\ obj[id].state # "TERMINATED"
  BY <1>1 DEF AInv, ObjInv
<1>4. /\ Healthy(r.s) /\ r.s.state # "TERMINATED"
      /\ Tracked(obj[id].c) => Tracked(r.s.c)
  BY <1>3, SCResumeLemma DEF RefusedFor
<1> QED  BY <1>1, <1>2, <1>4, ListedStep

\* updateGatewayConfigs touches the flag only.
LEMMA UpdateStep ==
    ASSUME AInv, NEW id \in m_containers, OnlyObjects, NEW works \in BOOLEAN,
           UpdateGatewayConfigs(id, works)
    PROVE  AInv'
<1> DEFINE p == obj[id].prev \/ (works /\ Refusal(obj[id], {"READY"}) = "none")
           s == [obj[id] EXCEPT !.prev = p]
<1>1. Healthy(obj[id]) /\ obj[id].state # "TERMINATED" /\ id \in Ids
  BY DEF AInv, ObjInv, PoolInv
<1>2. p \in BOOLEAN
  BY DEF p
<1>3. obj' = [obj EXCEPT ![id] = s]
  BY DEF UpdateGatewayConfigs
<1> HIDE DEF p
<1>4. s \in SoftwareContainerRec /\ s.c = obj[id].c /\ s.state = obj[id].state
  BY <1>1, <1>2 DEF Healthy, SoftwareContainerRec
<1> HIDE DEF s
<1>5. Healthy(s)
  BY <1>1, <1>4 DEF Healthy
<1> QED  BY <1>1, <1>3, <1>4, <1>5, ListedStep

\* setCapabilities and execute
LEMMA CapabilitiesStep ==
    ASSUME AInv, NEW id \in Ids, SetCapabilities(id) \/ Execute(id)
    PROVE  AInv'
<1>1. id \in m_containers /\ OnlyObjects
  BY DEF SetCapabilities, Execute
<1>2. CASE \E works \in BOOLEAN : UpdateGatewayConfigs(id, works)
  BY <1>1, <1>2, UpdateStep
<1>3. CASE obj' = obj
  <2>1. id \in Ids /\ obj' = [obj EXCEPT ![id] = obj[id]]
    BY <1>3 DEF AInv, TypeOK
  <2> QED  BY <1>1, <2>1, ListedStep DEF AInv, ObjInv
<1> QED  BY <1>2, <1>3 DEF SetCapabilities, Execute

\* Other fields of an object whose container changes.
LEMMA WithContainer ==
    ASSUME NEW s \in SoftwareContainerRec, NEW c \in ContainerRec
    PROVE  /\ [s EXCEPT !.c = c] \in SoftwareContainerRec
           /\ [s EXCEPT !.c = c].c = c
           /\ [s EXCEPT !.c = c].state = s.state
BY DEF SoftwareContainerRec

\* The death of an init, of a listed container or of one left over.
LEMMA InitDiesStep ==
    ASSUME AInv, NEW id \in Ids, InitDies(id)
    PROVE  AInv'
<1> DEFINE c == obj[id].c
           d == InitDied(c)
           s == [obj[id] EXCEPT !.c = d]
<1>1. /\ TypeOK /\ PoolInv /\ ObjInv /\ (~up => m_containers = {})
      /\ obj \in [Ids -> SoftwareContainerRec]
  BY DEF AInv, TypeOK
<1>2. OnlyObjects /\ InitCanDie(c) /\ obj' = [obj EXCEPT ![id] = s]
  BY DEF InitDies
<1>3. obj[id] \in SoftwareContainerRec /\ c \in ContainerRec
  BY <1>1 DEF SoftwareContainerRec
<1>4. d \in ContainerRec /\ d.mounts = c.mounts
  BY <1>3, RecFields, ToFields DEF InitDied
<1> HIDE DEF d
<1>5. s \in SoftwareContainerRec /\ s.c = d /\ s.state = obj[id].state
  BY <1>3, <1>4, WithContainer
<1> HIDE DEF s
<1>6. CASE id \in m_containers
  <2>1. Healthy(obj[id]) /\ obj[id].state # "TERMINATED"
    BY <1>1, <1>6 DEF ObjInv
  <2>2. Sound(d) /\ d.state = c.state /\ (Tracked(c) => Tracked(d))
    BY <1>2, <2>1, InitDiedLemma DEF Healthy, Keeps, d
  <2>3. Healthy(s)
    BY <1>5, <2>1, <2>2 DEF Healthy
  <2> QED  BY <1>2, <1>5, <1>6, <2>1, <2>2, <2>3, ListedStep
<1>7. CASE id \notin m_containers
  <2>1. obj'[id] = s /\ \A i \in Ids \ {id} : obj'[i] = obj[i]
    BY <1>1, <1>2
  <2>2. obj' \in [Ids -> SoftwareContainerRec]
    BY <1>1, <1>2, <1>5
  <2>3. PoolInv'
    BY <1>1, <1>2 DEF OnlyObjects, PoolInv, IdsAccounted, GivenBack, GivenOut, Pool
  <2>4. /\ m_containers' = m_containers /\ FreeIds' = FreeIds
        /\ FreeIds \subseteq Ids /\ m_containers \subseteq Ids
    BY <1>1, <1>2 DEF OnlyObjects, FreeIds, PoolInv
  <2>5. Bare(c) => Bare(s.c)
    BY <1>4, <1>5 DEF Bare
  <2>6. c.lxc # "undefined"
    BY <1>2 DEF InitCanDie
  <2>7. ObjInv'
    BY <1>1, <1>2, <1>7, <2>1, <2>2, <2>4, <2>5, <2>6 DEF OnlyObjects, ObjInv
  <2>8. TypeOK'
    BY <1>1, <1>2, <2>2 DEF OnlyObjects, TypeOK
  <2> QED  BY <1>1, <1>2, <2>3, <2>7, <2>8 DEF OnlyObjects, AInv
<1> QED  BY <1>6, <1>7

\* shutdownContainer: a container that is gone gives its id back, one that is not
\* stays listed.
LEMMA DestroyStep ==
    ASSUME AInv, NEW id \in Ids, Destroy(id)
    PROVE  AInv'
<1>1. /\ TypeOK /\ PoolInv /\ ObjInv /\ (~up => m_containers = {})
      /\ obj \in [Ids -> SoftwareContainerRec]
  BY DEF AInv, TypeOK
<1>2. up /\ id \in m_containers /\ UNCHANGED <<up, m_options, lost, restarts>>
  BY DEF Destroy
<1>3. PICK r \in SCShutdownOut(obj[id]) :
          \/ /\ r.res = "ok"
             /\ m_containers' = m_containers \ {id}
             /\ m_containerIdPool' = Append(Pool, id)
             /\ \E c \in SCDestructOut(r.s.c) : obj' = [obj EXCEPT ![id] = NoObject(c)]
          \/ /\ r.res # "ok"
             /\ obj' = [obj EXCEPT ![id] = r.s]
             /\ UNCHANGED <<m_containers, m_containerIdPool>>
  BY DEF Destroy
<1>4. Healthy(obj[id]) /\ obj[id].state # "TERMINATED"
  BY <1>1, <1>2 DEF ObjInv
<1>5. /\ Healthy(r.s)
      /\ Tracked(obj[id].c) => Tracked(r.s.c)
      /\ \/ RefusedFor(r, obj[id], Mortal)
         \/ r.res = "ok" /\ r.s.state = "TERMINATED"
         \/ r.res = "ContainerError" /\ r.s.state = "INVALID"
  BY <1>4, SCShutdownLemma
<1>6. CASE r.res # "ok"
  <2>1. OnlyObjects /\ obj' = [obj EXCEPT ![id] = r.s]
    BY <1>2, <1>3, <1>6 DEF OnlyObjects
  <2>2. r.s.state # "TERMINATED"
    BY <1>4, <1>5, <1>6 DEF RefusedFor
  <2> QED  BY <1>2, <1>5, <2>1, <2>2, ListedStep
<1>7. CASE r.res = "ok"
  <2>1. m_containers' = m_containers \ {id} /\ m_containerIdPool' = Append(Pool, id)
    BY <1>3, <1>7
  <2>2. PICK c \in SCDestructOut(r.s.c) : obj' = [obj EXCEPT ![id] = NoObject(c)]
    BY <1>3, <1>7
  <2>3. r.s.c.state = DESTROYED /\ Sound(r.s.c)
    BY <1>5, <1>7 DEF RefusedFor, Healthy
  <2>4. c \in ContainerRec /\ c.lxc = "undefined" /\ (Tracked(r.s.c) => Bare(c))
    BY <2>3, DestructLemma DEF Bare
  <2>5. /\ NoObject(c) \in SoftwareContainerRec
        /\ NoObject(c).c.lxc = "undefined"
        /\ Tracked(obj[id].c) => Bare(NoObject(c).c)
    BY <1>5, <2>4, NoObjectLemma DEF Bare
  <2>6. PoolInv'
    BY <1>1, <1>2, <2>1, PoolGiveBack
  <2>7. obj' \in [Ids -> SoftwareContainerRec]
    BY <1>1, <2>2, <2>5
  <2>8. obj'[id] = NoObject(c) /\ \A i \in Ids \ {id} : obj'[i] = obj[i]
    BY <1>1, <2>2
  <2>9. FreeIds' \subseteq FreeIds \cup {id} /\ m_containers \subseteq Ids /\ FreeIds \subseteq Ids
    BY <1>1, <1>2, <2>1 DEF FreeIds, PoolInv
  <2>10. ObjInv'
    BY <1>1, <1>2, <2>1, <2>5, <2>7, <2>8, <2>9 DEF ObjInv
  <2>11. TypeOK'
    BY <1>1, <1>2, <2>6, <2>7 DEF TypeOK, PoolInv
  <2> QED  BY <1>1, <1>2, <2>6, <2>10, <2>11 DEF AInv
<1> QED  BY <1>6, <1>7

\* createContainer: an object that was built is listed under an id that was free,
\* and the id of one that was not is lost.
LEMMA CreateStep ==
    ASSUME AInv, NEW array \in OptionArrays, Create(array)
    PROVE  AInv'
<1> DEFINE parsed == Parse(m_options, array)
           id     == SuitableId(Pool)
<1>1. /\ TypeOK /\ PoolInv /\ ObjInv /\ (~up => m_containers = {})
      /\ obj \in [Ids -> SoftwareContainerRec] /\ m_options \in BOOLEAN
  BY DEF AInv, TypeOK
<1>2. /\ up /\ UNCHANGED <<up, restarts>> /\ m_options' = parsed.m_options
  BY DEF Create
<1>3. parsed.wb \in BOOLEAN /\ m_options' \in BOOLEAN
  BY <1>1, <1>2, ParseLemma
<1>4. CASE UNCHANGED <<m_containers, m_containerIdPool, obj, lost>>
  <2>1. PoolInv'
    BY <1>1, <1>4 DEF PoolInv, IdsAccounted, GivenBack, GivenOut, Pool
  <2>2. ObjInv'
    BY <1>1, <1>2, <1>4 DEF ObjInv, FreeIds
  <2>3. TypeOK'
    BY <1>1, <1>2, <1>3, <1>4 DEF TypeOK
  <2> QED  BY <1>1, <1>2, <1>4, <2>1, <2>2, <2>3 DEF AInv
<1>5. CASE ~UNCHANGED <<m_containers, m_containerIdPool, obj, lost>>
  <2>1. id <= MaxId /\ m_containerIdPool' = PoolAfterTake(Pool)
    BY <1>5 DEF Create
  <2>2. PICK r \in ConstructOut(obj[id].c, parsed.wb) :
                       IF r.res = "true"
                         THEN /\ m_containers' = m_containers \cup {id}
                              /\ obj' = [obj EXCEPT ![id] = [state |-> "READY",
                                                             prev |-> FALSE, c |-> r.c]]
                              /\ lost' = lost
                         ELSE /\ obj' = [obj EXCEPT ![id] = NoObject(r.c)]
                              /\ lost' = lost \cup {id}
                              /\ m_containers' = m_containers
    BY <1>5 DEF Create
  <2>3. PoolInv'
    BY <1>1, <2>1, <2>2, PoolTake
  <2>4. id \in FreeIds /\ id \in Ids /\ m_containers \subseteq Ids
    BY <1>1, <2>1, SuitableIsFree DEF FreeIds, PoolInv
  <2> HIDE DEF id, parsed
  <2>5. obj[id].c \in ContainerRec /\ (restarts = 0 => Bare(obj[id].c))
    BY <1>1, <2>4 DEF SoftwareContainerRec, ObjInv
  <2>6. \/ /\ r.res = "true" /\ r.c.state = STARTED
           /\ Sound(r.c) /\ (Bare(obj[id].c) => Tracked(r.c))
        \/ r.res = "false" /\ r.c \in ContainerRec
    BY <1>3, <2>5, ConstructLemma
  <2>7. FreeIds' = FreeIds \ {id}
    BY <2>2, <2>4 DEF FreeIds
  <2>8. CASE r.res = "true"
    <3> DEFINE s == [state |-> "READY", prev |-> FALSE, c |-> r.c]
    <3>1. /\ Sound(r.c) /\ r.c.state = STARTED /\ r.c \in ContainerRec
          /\ restarts = 0 => Tracked(r.c)
      BY <2>5, <2>6, <2>8 DEF Sound
    <3>2. s \in SoftwareContainerRec /\ s.c = r.c /\ s.state = "READY"
      BY <3>1 DEF SoftwareContainerRec, SCStates
    <3>3. m_containers' = m_containers \cup {id} /\ obj' = [obj EXCEPT ![id] = s] /\ lost' = lost
      BY <2>2, <2>8
    <3> HIDE DEF s
    <3>4. Healthy(s) /\ s.state # "TERMINATED"
      BY <3>1, <3>2 DEF Healthy
    <3>5. /\ obj'[id] = s /\ obj' \in [Ids -> SoftwareContainerRec]
          /\ \A i \in Ids \ {id} : obj'[i] = obj[i]
      BY <1>1, <2>4, <3>2, <3>3
    <3>6. ObjInv'
      BY <1>1, <1>2, <2>4, <2>7, <3>1, <3>2, <3>3, <3>4, <3>5 DEF ObjInv, FreeIds
    <3>7. TypeOK'
      BY <1>1, <1>2, <1>3, <2>3, <3>5 DEF TypeOK, PoolInv
    <3> QED  BY <1>2, <2>3, <3>6, <3>7 DEF AInv
  <2>9. CASE r.res = "false"
    <3>1. /\ obj' = [obj EXCEPT ![id] = NoObject(r.c)]
          /\ m_containers' = m_containers /\ lost' = lost \cup {id}
      BY <2>2, <2>9
    <3>2. NoObject(r.c) \in SoftwareContainerRec
      BY <2>6, <2>9, NoObjectLemma
    <3>3. /\ obj' \in [Ids -> SoftwareContainerRec]
          /\ \A i \in Ids \ {id} : obj'[i] = obj[i]
      BY <1>1, <2>4, <3>1, <3>2
    <3>4. id \notin m_containers
      BY <2>4 DEF FreeIds
    <3>5. ObjInv'
      BY <1>1, <1>2, <2>4, <2>7, <3>1, <3>3, <3>4 DEF ObjInv, FreeIds
    <3>6. TypeOK'
      BY <1>1, <1>2, <1>3, <2>3, <3>3 DEF TypeOK, PoolInv
    <3> QED  BY <1>2, <2>3, <3>5, <3>6 DEF AInv
  <2> QED  BY <2>6, <2>8, <2>9
<1> QED  BY <1>4, <1>5

\* The end of the process, with or without its destructors.
LEMMA EndStep ==
    ASSUME AInv, Quit \/ Crash
    PROVE  AInv'
<1>1. TypeOK /\ ObjInv /\ obj \in [Ids -> SoftwareContainerRec] /\ m_containers \subseteq Ids
  BY DEF AInv, TypeOK
<1>2. ProcessEnds
  BY DEF Quit, Crash
<1>3. \A i \in Ids : obj[i].c \in ContainerRec
  BY <1>1 DEF SoftwareContainerRec
<1>4. obj' \in [Ids -> SoftwareContainerRec]
  <2>1. CASE Crash
    <3>1. \A i \in Ids : NoObject(obj[i].c) \in SoftwareContainerRec
      BY <1>3, NoObjectLemma
    <3> QED  BY <2>1, <3>1 DEF Crash
  <2>2. CASE Quit
    <3>1. PICK left \in [m_containers -> UNION {SCDestructOut(obj[i].c) : i \in m_containers}] :
              /\ \A i \in m_containers : left[i] \in SCDestructOut(obj[i].c)
              /\ obj' = [i \in Ids |-> IF i \in m_containers THEN NoObject(left[i]) ELSE obj[i]]
      BY <2>2 DEF Quit
    <3>2. ASSUME NEW i \in m_containers
          PROVE  NoObject(left[i]) \in SoftwareContainerRec
      <4>1. Sound(obj[i].c)
        BY <1>1 DEF ObjInv, Healthy
      <4>2. left[i] \in ContainerRec
        BY <3>1, <4>1, DestructLemma
      <4> QED  BY <4>2, NoObjectLemma
    <3> QED  BY <1>1, <3>1, <3>2
  <2> QED  BY <2>1, <2>2
<1>5. PoolInv'
  <2>1. NewProcess'
    BY <1>2 DEF ProcessEnds, NewProcess
  <2> QED  BY <2>1, NewPool, PTL
<1>6. restarts' # 0 /\ restarts' \in 0..MaxRestarts
  BY <1>1, <1>2, AgentAssumption DEF ProcessEnds, TypeOK
<1>7. ObjInv'
  BY <1>2, <1>4, <1>6 DEF ProcessEnds, ObjInv
<1>8. TypeOK'
  <2>1. m_options' \in BOOLEAN /\ up' \in BOOLEAN
    BY <1>2 DEF ProcessEnds, DefaultOptions
  <2> QED  BY <1>4, <1>5, <1>6, <2>1, Zenon DEF TypeOK, PoolInv
<1> QED  BY <1>2, <1>5, <1>7, <1>8 DEF ProcessEnds, AInv

\* LXC forgets a container and touches none of its mounts.
LEMMA RemovedLemma ==
    ASSUME NEW s \in SoftwareContainerRec
    PROVE  /\ [s EXCEPT !.c.lxc = "undefined"] \in SoftwareContainerRec
           /\ [s EXCEPT !.c.lxc = "undefined"].c.lxc = "undefined"
           /\ [s EXCEPT !.c.lxc = "undefined"].c.mounts = s.c.mounts
<1> DEFINE d == [s.c EXCEPT !.lxc = "undefined"]
<1>1. s.c \in ContainerRec
  BY DEF SoftwareContainerRec
<1>2. d \in ContainerRec /\ d.lxc = "undefined" /\ d.mounts = s.c.mounts
  BY <1>1 DEF ContainerRec, LxcStates
<1>3. [s EXCEPT !.c.lxc = "undefined"] = [s EXCEPT !.c = d]
  BY DEF SoftwareContainerRec
<1> HIDE DEF d
<1> QED  BY <1>2, <1>3, WithContainer

\* removeOldContainers, for the ones it has removed.
LEMMA RemovedFromLemma ==
    ASSUME obj \in [Ids -> SoftwareContainerRec], NEW R
    PROVE  /\ RemovedFrom(R) \in [Ids -> SoftwareContainerRec]
           /\ \A i \in Ids : RemovedFrom(R)[i].c.mounts = obj[i].c.mounts
           /\ \A i \in Ids : RemovedFrom(R)[i].c.lxc =
                                IF i \in R THEN "undefined" ELSE obj[i].c.lxc
<1> DEFINE E(i) == [obj[i] EXCEPT !.c.lxc = "undefined"]
<1>1. ASSUME NEW i \in Ids
      PROVE  /\ E(i) \in SoftwareContainerRec /\ E(i).c.lxc = "undefined"
             /\ E(i).c.mounts = obj[i].c.mounts
  BY RemovedLemma
<1>2. RemovedFrom(R) = [i \in Ids |-> IF i \in R THEN E(i) ELSE obj[i]]
  BY DEF RemovedFrom
<1> HIDE DEF E
<1> QED  BY <1>1, <1>2

\* What both ends of a start have in common: no container is listed, and the mounts
\* of none have changed.
LEMMA StartStep ==
    ASSUME AInv, ~up, UNCHANGED <<m_containers, m_containerIdPool, m_options, lost, restarts>>,
           obj' \in [Ids -> SoftwareContainerRec], up' \in BOOLEAN,
           \A i \in Ids : obj'[i].c.mounts = obj[i].c.mounts,
           up' => \A i \in Ids : obj'[i].c.lxc = "undefined"
    PROVE  AInv'
<1>1. TypeOK /\ PoolInv /\ ObjInv /\ m_containers = {}
  BY DEF AInv
<1>2. PoolInv'
  BY <1>1 DEF PoolInv, IdsAccounted, GivenBack, GivenOut, Pool
<1>3. FreeIds' = FreeIds /\ FreeIds \subseteq Ids
  BY DEF FreeIds
<1>4. ObjInv'
  BY <1>1, <1>3 DEF ObjInv, Bare
<1>5. TypeOK'
  BY <1>1 DEF TypeOK
<1> QED  BY <1>1, <1>2, <1>4, <1>5 DEF AInv

\* A start that works: removeOldContainers has removed every old container.
LEMMA StartSucceedsStep ==
    ASSUME AInv, StartSucceeds
    PROVE  AInv'
<1>1. obj \in [Ids -> SoftwareContainerRec]
  BY DEF AInv, TypeOK
<1>2. obj' = RemovedFrom(OldContainers) /\ ~up /\ up' = TRUE
  BY DEF StartSucceeds
<1>3. /\ obj' \in [Ids -> SoftwareContainerRec]
      /\ \A i \in Ids : obj'[i].c.mounts = obj[i].c.mounts
      /\ \A i \in Ids : obj'[i].c.lxc = "undefined"
  BY <1>1, <1>2, RemovedFromLemma DEF OldContainers
<1>4. up' \in BOOLEAN /\ UNCHANGED <<m_containers, m_containerIdPool, m_options, lost, restarts>>
  BY DEF StartSucceeds
<1> QED  BY <1>2, <1>3, <1>4, StartStep

\* A start that fails: some are removed, one may have been stopped.
LEMMA StartFailsStep ==
    ASSUME AInv, StartFails
    PROVE  AInv'
<1>1. obj \in [Ids -> SoftwareContainerRec] /\ up \in BOOLEAN
  BY DEF AInv, TypeOK
<1>2. ~up /\ OnlyObjects
  BY DEF StartFails
<1>3. PICK j \in OldContainers : \E R \in SUBSET (OldContainers \ {j}) :
          \/ obj' = RemovedFrom(R)
          \/ obj' = [RemovedFrom(R) EXCEPT ![j].c = InitDied(@)]
  BY DEF StartFails
<1>4. PICK R \in SUBSET (OldContainers \ {j}) :
          \/ obj' = RemovedFrom(R)
          \/ obj' = [RemovedFrom(R) EXCEPT ![j].c = InitDied(@)]
  BY <1>3
<1> DEFINE o == RemovedFrom(R)
<1>5. /\ o \in [Ids -> SoftwareContainerRec]
      /\ \A i \in Ids : o[i].c.mounts = obj[i].c.mounts
  BY <1>1, RemovedFromLemma
<1>6. j \in Ids
  BY DEF OldContainers
<1> HIDE DEF o
<1>7. /\ obj' \in [Ids -> SoftwareContainerRec]
      /\ \A i \in Ids : obj'[i].c.mounts = obj[i].c.mounts
  <2> DEFINE d == InitDied(o[j].c)
             s == [o[j] EXCEPT !.c = d]
  <2>1. obj' = o \/ obj' = [o EXCEPT ![j] = s]
    BY <1>4 DEF o
  <2>2. o[j] \in SoftwareContainerRec /\ o[j].c \in ContainerRec
    BY <1>5, <1>6 DEF SoftwareContainerRec
  <2>3. d \in ContainerRec /\ d.mounts = o[j].c.mounts
    BY <2>2, RecFields, ToFields DEF InitDied
  <2> HIDE DEF d
  <2>4. s \in SoftwareContainerRec /\ s.c = d
    BY <2>2, <2>3, WithContainer
  <2> HIDE DEF s
  <2> QED  BY <1>5, <1>6, <2>1, <2>3, <2>4
<1>8. /\ up' \in BOOLEAN /\ ~up'
      /\ UNCHANGED <<m_containers, m_containerIdPool, m_options, lost, restarts>>
  BY <1>1, <1>2 DEF OnlyObjects
<1> QED  BY <1>2, <1>7, <1>8, StartStep

\* A start that fails after all of them have been removed.
LEMMA WorkspaceFailsStep ==
    ASSUME AInv, WorkspaceFails
    PROVE  AInv'
<1>1. obj \in [Ids -> SoftwareContainerRec] /\ up \in BOOLEAN
  BY DEF AInv, TypeOK
<1>2. ~up /\ OnlyObjects /\ obj' = RemovedFrom(OldContainers)
  BY DEF WorkspaceFails
<1>3. /\ obj' \in [Ids -> SoftwareContainerRec]
      /\ \A i \in Ids : obj'[i].c.mounts = obj[i].c.mounts
  <2>1. OldContainers \subseteq Ids
    BY DEF OldContainers
  <2> QED  BY <1>1, <1>2, <2>1, RemovedFromLemma
<1>4. /\ up' \in BOOLEAN /\ ~up'
      /\ UNCHANGED <<m_containers, m_containerIdPool, m_options, lost, restarts>>
  BY <1>1, <1>2 DEF OnlyObjects
<1> QED  BY <1>2, <1>3, <1>4, StartStep

\* Every step keeps the inductive invariant.
LEMMA AgentNext == AInv /\ [Next]_vars => AInv'
<1> SUFFICES ASSUME AInv, [Next]_vars PROVE AInv'
  OBVIOUS
<1>1. CASE \E array \in OptionArrays : Create(array)
  BY <1>1, CreateStep
<1>2. CASE \E id \in Ids : Destroy(id)
  BY <1>2, DestroyStep
<1>3. CASE \E id \in Ids : Suspend(id)
  BY <1>3, SuspendStep
<1>4. CASE \E id \in Ids : Resume(id)
  BY <1>4, ResumeStep
<1>5. CASE \E id \in Ids : SetCapabilities(id) \/ Execute(id)
  BY <1>5, CapabilitiesStep
<1>6. CASE \E id \in Ids : InitDies(id)
  BY <1>6, InitDiesStep
<1>7. CASE Quit \/ Crash
  BY <1>7, EndStep
<1>8. CASE StartSucceeds
  BY <1>8, StartSucceedsStep
<1>9. CASE StartFails
  BY <1>9, StartFailsStep
<1>10. CASE WorkspaceFails
  BY <1>10, WorkspaceFailsStep
<1>11. CASE UNCHANGED vars
  BY <1>11 DEF vars, AInv, TypeOK, PoolInv, IdsAccounted, GivenBack, GivenOut, Pool,
               ObjInv, FreeIds
<1> QED  BY <1>1, <1>2, <1>3, <1>4, <1>5, <1>6, <1>7, <1>8, <1>9, <1>10, <1>11 DEF Next

----------------------------------------------------------------------------
(***************************************************************************)
(* The theorems.                                                           *)
(***************************************************************************)
\* The inductive invariant holds of every behaviour of the agent.
THEOREM AgentInvariance == Spec => []AInv
BY AgentInit, AgentNext, PTL DEF Spec

\* Every variable keeps its type: no id beyond the bound is listed, and the object
\* and the host state of every id stay well-formed.
THEOREM AgentTypeCorrect == Spec => []TypeOK
<1>1. AInv => TypeOK
  BY DEF AInv
<1> QED  BY <1>1, AgentInvariance, PTL

\* findSuitableId, deleteContainer and createContainer never give one id to two
\* containers and never lose track of one, for any number of ids.
THEOREM EveryIdIsAccountedFor == Spec => []IdsAccounted
<1>1. AInv => IdsAccounted
  BY DEF AInv, PoolInv
<1> QED  BY <1>1, AgentInvariance, PTL

\* An id that can be given out names no LXC container, across crashes and restarts.
THEOREM FreeIdsNameNoContainer == Spec => []FreeIdsUnused
<1>1. AInv => FreeIdsUnused
  BY DEF AInv, ObjInv, FreeIdsUnused
<1> QED  BY <1>1, AgentInvariance, PTL

\* Until the first restart nothing is mounted for an id that is free.
THEOREM FreeIdsHaveNoMounts == Spec => []FreeIdsUnmounted
<1>1. AInv => FreeIdsUnmounted
  BY DEF AInv, ObjInv, FreeIdsUnmounted, Bare
<1> QED  BY <1>1, AgentInvariance, PTL

\* No call sequence leaves a container listed that is terminated, or one whose
\* object and Container disagree on whether it runs or is frozen.
THEOREM ListedContainersAreUsable == Spec => []ListedIsUsable
<1>1. AInv => ListedIsUsable
  BY DEF AInv, ObjInv, ListedIsUsable, Healthy
<1> QED  BY <1>1, AgentInvariance, PTL
=============================================================================
