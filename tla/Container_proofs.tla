-------------------------- MODULE Container_proofs --------------------------
(***************************************************************************)
(* What the methods of Container preserve, whatever LXC and mount(2)       *)
(* answer.  The two specifications above rest on these lemmas.             *)
(***************************************************************************)
EXTENDS SoftwareContainerOps, TLAPS

\* m_state and LXC agree as far as they can, given that init may die at any time.
Sound(c) ==
    /\ c \in ContainerRec
    /\ c.state = CREATED => c.lxc = "stopped"
    /\ c.state = STARTED => c.lxc \in {"running", "stopped"}
    /\ c.state = FROZEN => c.lxc \in {"frozen", "stopped"}
    /\ c.state = DESTROYED => c.lxc = "undefined" /\ c.mounts["rootfs"] = 0

\* Every mount has its clean-up handler.
Tracked(c) == \A m \in MountPoints : c.mounts[m] <= (IF m \in c.undo THEN 1 ELSE 0)

USE DEF DEFAULT, PREPARED, DESTROYED, CREATED, STARTED, FROZEN

----------------------------------------------------------------------------
(***************************************************************************)
(* The fields of the records the methods build.                            *)
(***************************************************************************)
\* The fields of an outcome.
LEMMA AnsFields ==
    ASSUME NEW res, NEW c
    PROVE  Ans(res, c).res = res /\ Ans(res, c).c = c
BY DEF Ans

\* The fields of a container.
LEMMA RecFields ==
    ASSUME NEW c \in ContainerRec
    PROVE  /\ c.state \in 0..5
           /\ c.wb \in BOOLEAN
           /\ c.lxc \in {"undefined", "stopped", "running", "frozen"}
           /\ c.mounts \in [MountPoints -> Nat]
           /\ c.undo \subseteq MountPoints
BY DEF ContainerRec, LxcStates

\* A change of m_state and of LXC's state touches nothing else.
LEMMA ToFields ==
    ASSUME NEW c \in ContainerRec, NEW s \in 0..5,
           NEW l \in {"undefined", "stopped", "running", "frozen"}
    PROVE  /\ To(c, s, l) \in ContainerRec
           /\ To(c, s, l).state = s
           /\ To(c, s, l).lxc = l
           /\ To(c, s, l).wb = c.wb
           /\ To(c, s, l).mounts = c.mounts
           /\ To(c, s, l).undo = c.undo
<1> DEFINE d == [c EXCEPT !.state = s]
<1>1. d \in ContainerRec
  BY DEF ContainerRec
<1>2. [d EXCEPT !.lxc = l] \in ContainerRec
  <2> HIDE DEF d
  <2> QED  BY <1>1 DEF ContainerRec, LxcStates
<1>3. To(c, s, l) = [d EXCEPT !.lxc = l]
  BY DEF To, ContainerRec
<1> QED  BY <1>2, <1>3 DEF To, ContainerRec

\* A mount adds one to its mount point.
LEMMA MountedFields ==
    ASSUME NEW c \in ContainerRec, NEW m \in MountPoints
    PROVE  /\ Mounted(c, m) \in ContainerRec
           /\ Mounted(c, m).mounts[m] = c.mounts[m] + 1
           /\ \A n \in MountPoints \ {m} : Mounted(c, m).mounts[n] = c.mounts[n]
           /\ Mounted(c, m).state = c.state
           /\ Mounted(c, m).lxc = c.lxc
           /\ Mounted(c, m).wb = c.wb
           /\ Mounted(c, m).undo = c.undo
<1>1. Mounted(c, m) \in ContainerRec
  BY DEF Mounted, ContainerRec
<1> QED  BY <1>1 DEF Mounted, ContainerRec

\* An unmount takes one away.
LEMMA UnmountedFields ==
    ASSUME NEW c \in ContainerRec, NEW m \in MountPoints, c.mounts[m] # 0
    PROVE  /\ Unmounted(c, m) \in ContainerRec
           /\ Unmounted(c, m).mounts[m] = c.mounts[m] - 1
           /\ \A n \in MountPoints \ {m} : Unmounted(c, m).mounts[n] = c.mounts[n]
           /\ Unmounted(c, m).state = c.state
           /\ Unmounted(c, m).lxc = c.lxc
           /\ Unmounted(c, m).wb = c.wb
           /\ Unmounted(c, m).undo = c.undo
<1>1. Unmounted(c, m) \in ContainerRec
  BY DEF Unmounted, ContainerRec
<1> QED  BY <1>1 DEF Unmounted, ContainerRec

\* A registered handler.
LEMMA WithUndoFields ==
    ASSUME NEW c \in ContainerRec, NEW m \in MountPoints
    PROVE  /\ WithUndo(c, m) \in ContainerRec
           /\ WithUndo(c, m).undo = c.undo \cup {m}
           /\ WithUndo(c, m).mounts = c.mounts
           /\ WithUndo(c, m).state = c.state
           /\ WithUndo(c, m).lxc = c.lxc
           /\ WithUndo(c, m).wb = c.wb
<1>1. WithUndo(c, m) \in ContainerRec
  BY DEF WithUndo, ContainerRec
<1> QED  BY <1>1 DEF WithUndo, ContainerRec

\* The handlers of own run: each takes one mount off its mount point.
LEMMA UndoneFields ==
    ASSUME NEW c \in ContainerRec, NEW own
    PROVE  /\ Undone(c, own) \in ContainerRec
           /\ Undone(c, own).undo = c.undo \ own
           /\ \A m \in MountPoints : Undone(c, own).mounts[m] =
                 IF m \in c.undo \cap own /\ c.mounts[m] > 0
                   THEN c.mounts[m] - 1 ELSE c.mounts[m]
           /\ Undone(c, own).state = c.state
           /\ Undone(c, own).lxc = c.lxc
           /\ Undone(c, own).wb = c.wb
<1> DEFINE M == [m \in MountPoints |->
                    IF m \in c.undo \cap own /\ c.mounts[m] > 0
                      THEN c.mounts[m] - 1 ELSE c.mounts[m]]
           d == [c EXCEPT !.undo = @ \ own]
<1>1. M \in [MountPoints -> Nat]
  BY RecFields
<1>2. d \in ContainerRec
  BY DEF ContainerRec
<1>3. [d EXCEPT !.mounts = M] \in ContainerRec
  <2> HIDE DEF d, M
  <2> QED  BY <1>1, <1>2 DEF ContainerRec
<1>4. Undone(c, own) = [d EXCEPT !.mounts = M]
  BY DEF Undone, ContainerRec
<1>5. /\ Undone(c, own).undo = c.undo \ own
      /\ Undone(c, own).mounts = M
      /\ Undone(c, own).state = c.state
      /\ Undone(c, own).lxc = c.lxc
      /\ Undone(c, own).wb = c.wb
  <2> HIDE DEF M
  <2> QED  BY <1>4 DEF ContainerRec
<1> QED  BY <1>3, <1>4, <1>5

----------------------------------------------------------------------------
(***************************************************************************)
(* The methods, one lemma each.  A container that is Sound is so again     *)
(* after every call, and so is one that is Tracked.                        *)
(***************************************************************************)
Keeps(c, d) == Sound(d) /\ (Tracked(c) => Tracked(d))

\* shutdown(): on success the container is CREATED and stopped, otherwise it is
\* as it was.
LEMMA ShutdownLemma ==
    ASSUME NEW c, Sound(c), NEW r \in ShutdownOut(c)
    PROVE  /\ Keeps(c, r.c)
           /\ \/ r.res = "true" /\ r.c.state = CREATED
              \/ r.res = "false" /\ r.c = c
<1>1. CASE r = Ans("false", c)
  BY <1>1, AnsFields DEF Keeps
<1>2. CASE r = Ans("true", To(c, CREATED, "stopped"))
  BY <1>2, AnsFields, ToFields DEF Keeps, Sound, Tracked
<1> QED  BY <1>1, <1>2 DEF ShutdownOut

\* umount of the overlay by destroy().
LEMMA UmountLemma ==
    ASSUME NEW c, Sound(c), c.state = CREATED, NEW r \in UmountRootfsOut(c)
    PROVE  /\ Keeps(c, r.c)
           /\ r.c.state = CREATED
           /\ r.res \in {"true", "false"}
<1>1. CASE r = Ans("false", c)
  BY <1>1, AnsFields DEF Keeps
<1>2. CASE r = Ans("true", c)
  BY <1>2, AnsFields DEF Keeps
<1>3. CASE r = Ans("true", Unmounted(c, "rootfs")) /\ c.mounts["rootfs"] # 0
  <2>1. "rootfs" \in MountPoints /\ c \in ContainerRec
    BY DEF MountPoints, Sound
  <2> QED  BY <1>3, <2>1, AnsFields, UnmountedFields, RecFields DEF Keeps, Sound, Tracked
<1> QED  BY <1>1, <1>2, <1>3 DEF UmountRootfsOut

\* LXC's destroy: the container is DESTROYED and LXC has forgotten it, or
\* nothing has changed.
LEMMA LxcDestroyLemma ==
    ASSUME NEW c, Sound(c), c.state = CREATED, NEW r \in LxcDestroyOut(c)
    PROVE  /\ Keeps(c, r.c)
           /\ \/ r.res = "true" /\ r.c.state = DESTROYED
              \/ r.res = "false" /\ r.c.state = CREATED
<1>1. CASE r = Ans("false", c)
  BY <1>1, AnsFields DEF Keeps
<1>2. CASE r = Ans("true", To(c, DESTROYED, "undefined")) /\ c.mounts["rootfs"] = 0
  BY <1>2, AnsFields, ToFields DEF Keeps, Sound, Tracked
<1> QED  BY <1>1, <1>2 DEF LxcDestroyOut

\* destroy(): it answers true exactly if the container is then DESTROYED, and a
\* failure of any of its three steps leaves a container it can be called on again.
LEMMA DestroyLemma ==
    ASSUME NEW c, Sound(c), c.state >= CREATED, NEW r \in DestroyOut(c)
    PROVE  /\ Keeps(c, r.c)
           /\ \/ r.res = "true" /\ r.c.state = DESTROYED
              \/ r.res = "false" /\ r.c.state >= CREATED
<1> DEFINE Down == IF c.state >= STARTED THEN ShutdownOut(c) ELSE {Ans("true", c)}
           Mid  == Then(Down, UmountRootfsOut)
<1>0. c.state \in 3..5
  BY RecFields DEF Sound
<1>1. ASSUME NEW q \in Down
      PROVE  /\ Keeps(c, q.c)
             /\ \/ q.res = "true" /\ q.c.state = CREATED
                \/ q.res = "false" /\ q.c.state >= CREATED
  BY <1>0, <1>1, ShutdownLemma, AnsFields DEF Keeps
<1>2. ASSUME NEW q \in Mid
      PROVE  /\ Keeps(c, q.c)
             /\ \/ q.res = "true" /\ q.c.state = CREATED
                \/ q.res = "false" /\ q.c.state >= CREATED
  <2> HIDE DEF Down
  <2>1. PICK p \in Down : q \in IF p.res = "true" THEN UmountRootfsOut(p.c) ELSE {p}
    BY <1>2 DEF Then
  <2> QED  BY <1>1, <2>1, UmountLemma DEF Keeps
<1>3. r \in Then(Mid, LxcDestroyOut)
  BY <1>0 DEF DestroyOut
<1> HIDE DEF Mid
<1>4. PICK q \in Mid : r \in IF q.res = "true" THEN LxcDestroyOut(q.c) ELSE {q}
  BY <1>3 DEF Then
<1> QED  BY <1>2, <1>4, LxcDestroyLemma DEF Keeps

\* The destructors of Container and SoftwareContainer: if every mount has its
\* handler nothing stays mounted, and a destroyed container stays unknown to LXC.
LEMMA DestructLemma ==
    ASSUME NEW c, Sound(c), NEW e \in SCDestructOut(c)
    PROVE  /\ e \in ContainerRec
           /\ c.state = DESTROYED => e.lxc = "undefined"
           /\ Tracked(c) => \A m \in MountPoints : e.mounts[m] = 0
<1> DEFINE Down == IF c.state >= STARTED THEN {r.c : r \in ShutdownOut(c)} ELSE {c}
           Gone == UNION {IF d.state >= CREATED THEN {r.c : r \in DestroyOut(d)} ELSE {d} :
                          d \in Down}
<1>1. ASSUME NEW d \in Down
      PROVE  Keeps(c, d)
  BY <1>1, ShutdownLemma DEF Keeps
<1>2. ASSUME NEW d \in Gone
      PROVE  Keeps(c, d)
  <2> HIDE DEF Down
  <2>1. PICK b \in Down : d \in IF b.state >= CREATED THEN {r.c : r \in DestroyOut(b)} ELSE {b}
    BY <1>2
  <2>2. Keeps(c, b)
    BY <1>1
  <2> QED  BY <2>1, <2>2, DestroyLemma DEF Keeps
<1>3. PICK f \in DestructOut(c) : e = Undone(f, {"root"})
  BY DEF SCDestructOut
<1>4. PICK g \in Gone : f = Undone(g, {"gateways", "rootfs"})
  BY DEF DestructOut
<1> HIDE DEF Gone
<1>5. g \in ContainerRec /\ (Tracked(c) => Tracked(g))
  BY <1>2 DEF Keeps, Sound
<1>6. f \in ContainerRec
  BY <1>4, <1>5, UndoneFields
<1>7. ASSUME Tracked(c), NEW m \in MountPoints
      PROVE  e.mounts[m] = 0
  <2>1. g.mounts[m] \in Nat /\ g.mounts[m] <= (IF m \in g.undo THEN 1 ELSE 0)
    BY <1>5, <1>7, RecFields DEF Tracked
  <2>2. /\ f.undo = g.undo \ {"gateways", "rootfs"}
        /\ f.mounts[m] = IF m \in g.undo \cap {"gateways", "rootfs"} /\ g.mounts[m] > 0
                           THEN g.mounts[m] - 1 ELSE g.mounts[m]
    BY <1>4, <1>5, UndoneFields
  <2>3. e.mounts[m] = IF m \in f.undo \cap {"root"} /\ f.mounts[m] > 0
                        THEN f.mounts[m] - 1 ELSE f.mounts[m]
    BY <1>3, <1>6, UndoneFields
  <2> QED  BY <2>1, <2>2, <2>3 DEF MountPoints
<1>8. ASSUME c.state = DESTROYED
      PROVE  e.lxc = "undefined"
  <2>1. g = c
    BY <1>8 DEF Gone
  <2>2. c.lxc = "undefined"
    BY <1>8 DEF Sound
  <2>3. f.lxc = g.lxc
    BY <1>4, <1>5, UndoneFields
  <2>4. e.lxc = f.lxc
    BY <1>3, <1>6, UndoneFields
  <2> QED  BY <2>1, <2>2, <2>3, <2>4
<1> QED  BY <1>3, <1>6, <1>7, <1>8, UndoneFields

\* suspend(): true only from STARTED to FROZEN, with LXC frozen; otherwise the
\* container is as it was, and false is answered in no STARTED state.
LEMMA SuspendLemma ==
    ASSUME NEW c, Sound(c), c.state = STARTED, NEW r \in SuspendOut(c)
    PROVE  /\ Keeps(c, r.c)
           /\ \/ r.res = "true" /\ r.c.state = FROZEN
              \/ r.res = "throw" /\ r.c = c
<1>1. CASE r = Ans("throw", c)
  BY <1>1, AnsFields DEF Keeps
<1>2. CASE r = Ans("true", To(c, FROZEN, "frozen"))
  BY <1>2, AnsFields, ToFields DEF Keeps, Sound, Tracked
<1> QED  BY <1>1, <1>2 DEF SuspendOut

\* resume(): the same from FROZEN to STARTED.
LEMMA ResumeLemma ==
    ASSUME NEW c, Sound(c), c.state = FROZEN, NEW r \in ResumeOut(c)
    PROVE  /\ Keeps(c, r.c)
           /\ \/ r.res = "true" /\ r.c.state = STARTED
              \/ r.res = "throw" /\ r.c = c
<1>1. CASE r = Ans("throw", c)
  BY <1>1, AnsFields DEF Keeps
<1>2. CASE r = Ans("true", To(c, STARTED, "running"))
  BY <1>2, AnsFields, ToFields DEF Keeps, Sound, Tracked
<1> QED  BY <1>1, <1>2 DEF ResumeOut

\* The death of init.
LEMMA InitDiedLemma ==
    ASSUME NEW c, Sound(c), InitCanDie(c)
    PROVE  /\ Keeps(c, InitDied(c))
           /\ InitDied(c).state = c.state
           /\ InitDied(c).mounts = c.mounts
<1>1. c.state \in 0..5 /\ c.state # DESTROYED
  BY RecFields DEF Sound, InitCanDie
<1> QED  BY <1>1, ToFields DEF Keeps, Sound, Tracked, InitDied

----------------------------------------------------------------------------
(***************************************************************************)
(* The constructor of SoftwareContainer.                                   *)
(***************************************************************************)
\* A host on which nothing of this name is mounted.
Bare(c) == \A m \in MountPoints : c.mounts[m] = 0

\* What the methods that start() calls make of a container that is not yet created;
\* one on a bare host stays Tracked as long as they answer true.
Fresh(c, bare) ==
    /\ Sound(c)
    /\ c.state \in {DEFAULT, PREPARED}
    /\ bare => Tracked(c) /\ c.mounts["rootfs"] = 0

\* The Container as its constructor leaves it.
LEMMA NewLemma ==
    ASSUME NEW host \in ContainerRec, NEW wb \in BOOLEAN
    PROVE  /\ NewContainer(host, wb) \in ContainerRec
           /\ NewContainer(host, wb).lxc = host.lxc
           /\ NewContainer(host, wb).mounts = host.mounts
           /\ NewContainer(host, wb).undo = {}
           /\ NewContainer(host, wb).state = DEFAULT
<1> DEFINE a == [host EXCEPT !.state = DEFAULT]
           b == [a EXCEPT !.wb = wb]
           n == NewContainer(host, wb)
<1>1. a \in ContainerRec /\ a.lxc = host.lxc /\ a.mounts = host.mounts /\ a.state = 0
  BY DEF ContainerRec
<1>2. b \in ContainerRec /\ b.lxc = host.lxc /\ b.mounts = host.mounts /\ b.state = 0
  <2> HIDE DEF a
  <2> QED  BY <1>1 DEF ContainerRec
<1>3. n = [b EXCEPT !.undo = {}]
  BY DEF NewContainer, ContainerRec
<1> HIDE DEF b, n
<1>4. n \in ContainerRec /\ n.lxc = host.lxc /\ n.mounts = host.mounts /\ n.state = 0 /\ n.undo = {}
  BY <1>2, <1>3 DEF ContainerRec
<1> QED  BY <1>4 DEF n

\* A mount with its handler keeps a container Tracked if nothing was mounted there.
LEMMA MountLemma ==
    ASSUME NEW c \in ContainerRec, NEW m \in MountPoints, NEW d,
           d = WithUndo(Mounted(c, m), m)
    PROVE  /\ d \in ContainerRec
           /\ d.state = c.state /\ d.lxc = c.lxc
           /\ \A n \in MountPoints \ {m} : d.mounts[n] = c.mounts[n]
           /\ Tracked(c) /\ c.mounts[m] = 0 => Tracked(d)
<1> DEFINE p == Mounted(c, m)
<1>1. /\ p \in ContainerRec /\ p.undo = c.undo /\ p.mounts[m] = c.mounts[m] + 1
      /\ \A n \in MountPoints \ {m} : p.mounts[n] = c.mounts[n]
      /\ p.state = c.state /\ p.lxc = c.lxc
  BY MountedFields
<1> HIDE DEF p
<1>2. /\ d \in ContainerRec /\ d.undo = c.undo \cup {m} /\ d.mounts = p.mounts
      /\ d.state = c.state /\ d.lxc = c.lxc
  BY <1>1, WithUndoFields DEF p
<1>3. ASSUME Tracked(c), c.mounts[m] = 0, NEW n \in MountPoints
      PROVE  d.mounts[n] <= (IF n \in d.undo THEN 1 ELSE 0)
  <2>1. CASE n = m
    BY <1>1, <1>2, <1>3, <2>1
  <2>2. CASE n # m
    <3>1. d.mounts[n] = c.mounts[n] /\ (n \in d.undo <=> n \in c.undo)
      BY <1>1, <1>2, <2>2
    <3>2. c.mounts[n] <= (IF n \in c.undo THEN 1 ELSE 0)
      BY <1>3 DEF Tracked
    <3> QED  BY <3>1, <3>2
  <2> QED  BY <2>1, <2>2
<1> QED  BY <1>1, <1>2, <1>3 DEF Tracked

\* The first part of the constructor, up to the Container.
LEMMA RootedLemma ==
    ASSUME NEW host \in ContainerRec, NEW wb \in BOOLEAN,
           NEW c \in (IF wb THEN TmpfsMountOut(NewContainer(host, wb))
                            ELSE {NewContainer(host, wb)})
    PROVE  /\ c.state = DEFAULT
           /\ Fresh(c, Bare(host))
           /\ Bare(host) => c.mounts["gateways"] = 0
<1> DEFINE n == NewContainer(host, wb)
<1>1. /\ n \in ContainerRec /\ n.lxc = host.lxc /\ n.mounts = host.mounts
      /\ n.undo = {} /\ n.state = DEFAULT
  BY NewLemma
<1> HIDE DEF n
<1>2. {"root", "gateways", "rootfs"} = MountPoints
  BY DEF MountPoints
<1>3. CASE c = n
  BY <1>1, <1>2, <1>3 DEF Fresh, Bare, Sound, Tracked
<1>4. CASE c = WithUndo(Mounted(n, "root"), "root")
  <2>1. Bare(host) => Tracked(n) /\ n.mounts["root"] = 0
    BY <1>1, <1>2 DEF Bare, Tracked
  <2>2. /\ c \in ContainerRec /\ c.state = DEFAULT
        /\ \A m \in MountPoints \ {"root"} : c.mounts[m] = n.mounts[m]
        /\ Bare(host) => Tracked(c)
    <3> "root" \in MountPoints
      BY <1>2
    <3> QED  BY <1>1, <1>4, <2>1, MountLemma
  <2>3. Bare(host) => c.mounts["gateways"] = 0 /\ c.mounts["rootfs"] = 0
    BY <1>1, <1>2, <2>2 DEF Bare
  <2> QED  BY <2>2, <2>3 DEF Fresh, Sound
<1> QED  BY <1>3, <1>4 DEF TmpfsMountOut, n

\* initialize()
LEMMA InitializeLemma ==
    ASSUME NEW c, NEW bare, Fresh(c, bare), c.state = DEFAULT,
           bare => c.mounts["gateways"] = 0,
           NEW r \in InitializeOut(c)
    PROVE  \/ r.res = "true" /\ r.c.state = PREPARED /\ Fresh(r.c, bare)
           \/ r.res = "false" /\ Sound(r.c)
<1> DEFINE q == WithUndo(Mounted(c, "gateways"), "gateways")
<1>0. {"root", "gateways", "rootfs"} = MountPoints /\ c \in ContainerRec
  BY DEF MountPoints, Fresh, Sound
<1>1. CASE r = Ans("false", c)
  BY <1>1, AnsFields DEF Fresh
<1>2. CASE r = Ans("false", Mounted(c, "gateways"))
  BY <1>0, <1>2, AnsFields, MountedFields DEF Sound
<1>3. CASE r = Ans("true", To(q, PREPARED, c.lxc))
  <2>1. /\ q \in ContainerRec
        /\ bare => Tracked(q) /\ q.mounts["rootfs"] = 0
    BY <1>0, MountLemma DEF Fresh
  <2> HIDE DEF q
  <2>2. /\ r.res = "true" /\ r.c \in ContainerRec /\ r.c.state = PREPARED
        /\ r.c.mounts = q.mounts /\ r.c.undo = q.undo
    BY <1>0, <1>3, <2>1, AnsFields, ToFields, RecFields
  <2> QED  BY <2>1, <2>2 DEF Fresh, Sound, Tracked
<1> QED  BY <1>1, <1>2, <1>3 DEF InitializeOut

\* create()
LEMMA CreateLemma ==
    ASSUME NEW c, NEW bare, Fresh(c, bare), c.state = PREPARED, NEW r \in CreateOut(c)
    PROVE  \/ r.res = "true" /\ r.c.state = CREATED /\ Sound(r.c) /\ (bare => Tracked(r.c))
           \/ r.res = "false" /\ Sound(r.c)
<1>0. "rootfs" \in MountPoints /\ c \in ContainerRec
  BY DEF MountPoints, Fresh, Sound
<1>1. CASE r = Ans("false", c)
  BY <1>1, AnsFields DEF Fresh
<1>2. ASSUME NEW d \in (IF c.wb THEN OverlayMountOut(c) ELSE {c}), r \in LxcCreateOut(d)
      PROVE  \/ r.res = "true" /\ r.c.state = CREATED /\ Sound(r.c) /\ (bare => Tracked(r.c))
             \/ r.res = "false" /\ Sound(r.c)
  <2>1. d \in ContainerRec /\ d.state = PREPARED /\ (bare => Tracked(d))
    <3>1. CASE d = c
      BY <1>0, <3>1 DEF Fresh
    <3>2. CASE d = WithUndo(Mounted(c, "rootfs"), "rootfs")
      BY <1>0, <3>2, MountLemma DEF Fresh
    <3> QED  BY <1>2, <3>1, <3>2 DEF OverlayMountOut
  <2>2. CASE r = Ans("true", To(d, CREATED, "stopped"))
    <3>1. /\ r.res = "true" /\ r.c \in ContainerRec /\ r.c.state = CREATED /\ r.c.lxc = "stopped"
          /\ r.c.mounts = d.mounts /\ r.c.undo = d.undo
      BY <2>1, <2>2, AnsFields, ToFields
    <3> QED  BY <2>1, <3>1 DEF Sound, Tracked
  <2>3. CASE r = Ans("false", d)
    BY <2>1, <2>3, AnsFields DEF Sound
  <2>4. CASE r = Ans("false", To(d, d.state, "stopped"))
    BY <2>1, <2>4, AnsFields, ToFields DEF Sound
  <2> QED  BY <1>2, <2>2, <2>3, <2>4 DEF LxcCreateOut, LeftByFailedLxcCreate
<1> QED  BY <1>1, <1>2 DEF CreateOut

\* start()
LEMMA StartLemma ==
    ASSUME NEW c, Sound(c), c.state = CREATED, NEW r \in StartOut(c)
    PROVE  /\ Keeps(c, r.c)
           /\ \/ r.res = "true" /\ r.c.state = STARTED
              \/ r.res = "false"
<1>1. CASE r = Ans("false", c)
  BY <1>1, AnsFields DEF Keeps
<1>2. ASSUME NEW res \in {"true", "false"}, NEW l \in {"running", "stopped"},
             r = Ans(res, To(c, STARTED, l))
      PROVE  Keeps(c, r.c) /\ r.c.state = STARTED /\ r.res \in {"true", "false"}
  <2>1. /\ r.res = res /\ r.c \in ContainerRec /\ r.c.state = STARTED /\ r.c.lxc = l
        /\ r.c.mounts = c.mounts /\ r.c.undo = c.undo
    BY <1>2, AnsFields, ToFields DEF Sound
  <2> QED  BY <2>1 DEF Keeps, Sound, Tracked
<1> QED  BY <1>1, <1>2 DEF StartOut

\* start() of SoftwareContainer: the three of them in turn.
LEMMA StartedLemma ==
    ASSUME NEW c, NEW bare, Fresh(c, bare), c.state = DEFAULT,
           bare => c.mounts["gateways"] = 0,
           NEW r \in StartedOut(c)
    PROVE  \/ r.res = "true" /\ r.c.state = STARTED /\ Sound(r.c) /\ (bare => Tracked(r.c))
           \/ r.res = "false" /\ Sound(r.c)
<1> DEFINE Mid == Then(InitializeOut(c), CreateOut)
<1>1. ASSUME NEW q \in Mid
      PROVE  \/ q.res = "true" /\ q.c.state = CREATED /\ Sound(q.c) /\ (bare => Tracked(q.c))
             \/ q.res = "false" /\ Sound(q.c)
  <2>1. PICK p \in InitializeOut(c) : q \in IF p.res = "true" THEN CreateOut(p.c) ELSE {p}
    BY <1>1 DEF Then
  <2> QED  BY <2>1, InitializeLemma, CreateLemma
<1>2. r \in Then(Mid, StartOut)
  BY DEF StartedOut
<1> HIDE DEF Mid
<1>3. PICK q \in Mid : r \in IF q.res = "true" THEN StartOut(q.c) ELSE {q}
  BY <1>2 DEF Then
<1> QED  BY <1>1, <1>3, StartLemma DEF Keeps

\* The constructor.  If it does not throw, it leaves a STARTED container, all of
\* whose mounts have their handlers if the host was bare, though it ignores whether
\* two of the mounts worked.
LEMMA ConstructLemma ==
    ASSUME NEW host \in ContainerRec, NEW wb \in BOOLEAN, NEW r \in ConstructOut(host, wb)
    PROVE  \/ /\ r.res = "true" /\ r.c.state = STARTED
              /\ Sound(r.c) /\ (Bare(host) => Tracked(r.c))
           \/ r.res = "false" /\ r.c \in ContainerRec
<1> DEFINE fresh  == NewContainer(host, wb)
           Rooted == IF wb THEN TmpfsMountOut(fresh) ELSE {fresh}
           Inited == UNION {InitOut(c) : c \in Rooted}
<1>1. ASSUME NEW c \in Rooted
      PROVE  /\ c.state = DEFAULT /\ Fresh(c, Bare(host)) /\ c \in ContainerRec
             /\ Bare(host) => c.mounts["gateways"] = 0
  BY <1>1, RootedLemma DEF Fresh, Sound
<1>2. fresh \in ContainerRec
  BY NewLemma
<1>3. ASSUME NEW q \in Inited
      PROVE  \/ /\ q.res = "true" /\ q.c.state = STARTED
                /\ Sound(q.c) /\ (Bare(host) => Tracked(q.c))
             \/ q.res = "false" /\ Sound(q.c)
  <2> HIDE DEF Rooted
  <2>1. PICK c \in Rooted : q \in InitOut(c)
    BY <1>3
  <2>2. PICK p \in StartedOut(c) : q = p \/ q = Ans("false", p.c)
    BY <2>1 DEF InitOut
  <2> QED  BY <1>1, <2>2, StartedLemma, AnsFields
<1>4. \/ r \in Inited
      \/ \E c \in {fresh} \cup Rooted : r = Ans("false", Undone(c, {"root"}))
      \/ \E q \in Inited : q.res = "false" /\ \E d \in SCDestructOut(q.c) : r = Ans("false", d)
  BY DEF ConstructOut
<1> HIDE DEF fresh, Rooted, Inited
<1>5. CASE r \in Inited
  BY <1>3, <1>5 DEF Sound
<1>6. CASE \E c \in {fresh} \cup Rooted : r = Ans("false", Undone(c, {"root"}))
  BY <1>1, <1>2, <1>6, AnsFields, UndoneFields
<1>7. CASE \E q \in Inited : q.res = "false" /\ \E d \in SCDestructOut(q.c) : r = Ans("false", d)
  BY <1>3, <1>7, AnsFields, DestructLemma
<1> QED  BY <1>4, <1>5, <1>6, <1>7

----------------------------------------------------------------------------
(***************************************************************************)
(* The methods of SoftwareContainer.                                       *)
(***************************************************************************)
\* The object and its container agree on what state they are in.
Healthy(s) ==
    /\ s \in SoftwareContainerRec
    /\ Sound(s.c)
    /\ s.state = "READY" => s.c.state = STARTED
    /\ s.state = "SUSPENDED" => s.c.state = FROZEN
    /\ s.state = "TERMINATED" <=> s.c.state = DESTROYED
    /\ s.c.state >= DESTROYED

\* The fields of a reply.
LEMMA ReplyFields ==
    ASSUME NEW res, NEW s
    PROVE  Reply(res, s).res = res /\ Reply(res, s).s = s
BY DEF Reply

\* A change of m_containerState and of the container touches nothing else.
LEMMA NowFields ==
    ASSUME NEW s \in SoftwareContainerRec, NEW state \in SCStates, NEW c \in ContainerRec
    PROVE  /\ Now(s, state, c) \in SoftwareContainerRec
           /\ Now(s, state, c).state = state
           /\ Now(s, state, c).c = c
           /\ Now(s, state, c).prev = s.prev
<1> DEFINE d == [s EXCEPT !.state = state]
<1>1. d \in SoftwareContainerRec
  BY DEF SoftwareContainerRec
<1>2. [d EXCEPT !.c = c] \in SoftwareContainerRec
  <2> HIDE DEF d
  <2> QED  BY <1>1 DEF SoftwareContainerRec
<1>3. Now(s, state, c) = [d EXCEPT !.c = c]
  BY DEF Now, SoftwareContainerRec
<1> QED  BY <1>2, <1>3 DEF SoftwareContainerRec

\* The answers of a method that is refused in state for what it allows.
RefusedFor(r, s, allowed) ==
    /\ r.s = s
    /\ \/ s.state = "INVALID" /\ r.res = "InvalidContainerError"
       \/ s.state \notin allowed \cup {"INVALID"} /\ r.res = "InvalidOperationError"

\* assertValidState and the state check.
LEMMA RefusalLemma ==
    ASSUME NEW s, NEW allowed, "INVALID" \notin allowed
    PROVE  /\ Refusal(s, allowed) = "none" <=> s.state \in allowed
           /\ Refusal(s, allowed) # "none" =>
                RefusedFor(Reply(Refusal(s, allowed), s), s, allowed)
BY ReplyFields DEF Refusal, RefusedFor

\* suspend(): refused, done, or failed with the object as it was; the branch that
\* makes the object INVALID is never taken.
LEMMA SCSuspendLemma ==
    ASSUME NEW s, Healthy(s), NEW r \in SCSuspendOut(s)
    PROVE  /\ Healthy(r.s)
           /\ Tracked(s.c) => Tracked(r.s.c)
           /\ \/ RefusedFor(r, s, {"READY"})
              \/ s.state = "READY" /\ r.res = "ok" /\ r.s.state = "SUSPENDED"
              \/ s.state = "READY" /\ r.res = "SoftwareContainerError" /\ r.s = s
<1>1. CASE Refusal(s, {"READY"}) # "none"
  BY <1>1, RefusalLemma DEF SCSuspendOut, RefusedFor
<1>2. CASE Refusal(s, {"READY"}) = "none"
  <2>1. s.state = "READY" /\ s.c.state = STARTED /\ Sound(s.c)
    BY <1>2, RefusalLemma DEF Healthy
  <2>2. PICK a \in SuspendOut(s.c) :
           r = IF a.res = "true" THEN Reply("ok", Now(s, "SUSPENDED", a.c))
               ELSE IF a.res = "false" THEN Reply("ContainerError", Now(s, "INVALID", a.c))
               ELSE Reply("SoftwareContainerError", s)
    BY <1>2 DEF SCSuspendOut
  <2>3. /\ Keeps(s.c, a.c) /\ a.c \in ContainerRec
        /\ \/ a.res = "true" /\ a.c.state = FROZEN
           \/ a.res = "throw" /\ a.c = s.c
    BY <2>1, SuspendLemma DEF Keeps, Sound
  <2>4. CASE a.res = "true"
    <3>1. r.res = "ok" /\ r.s = Now(s, "SUSPENDED", a.c)
      BY <2>2, <2>4, ReplyFields
    <3>2. r.s \in SoftwareContainerRec /\ r.s.state = "SUSPENDED" /\ r.s.c = a.c
      <4>1. s \in SoftwareContainerRec /\ {"SUSPENDED", "READY"} \subseteq SCStates
        BY DEF Healthy, SCStates
      <4> QED  BY <2>3, <3>1, <4>1, NowFields
    <3> QED  BY <2>1, <2>3, <2>4, <3>1, <3>2 DEF Healthy, Keeps
  <2>5. CASE a.res = "throw"
    BY <2>1, <2>2, <2>5, ReplyFields
  <2> QED  BY <2>3, <2>4, <2>5
<1> QED  BY <1>1, <1>2

\* resume(): the same.
LEMMA SCResumeLemma ==
    ASSUME NEW s, Healthy(s), NEW r \in SCResumeOut(s)
    PROVE  /\ Healthy(r.s)
           /\ Tracked(s.c) => Tracked(r.s.c)
           /\ \/ RefusedFor(r, s, {"SUSPENDED"})
              \/ s.state = "SUSPENDED" /\ r.res = "ok" /\ r.s.state = "READY"
              \/ s.state = "SUSPENDED" /\ r.res = "SoftwareContainerError" /\ r.s = s
<1>1. CASE Refusal(s, {"SUSPENDED"}) # "none"
  BY <1>1, RefusalLemma DEF SCResumeOut, RefusedFor
<1>2. CASE Refusal(s, {"SUSPENDED"}) = "none"
  <2>1. s.state = "SUSPENDED" /\ s.c.state = FROZEN /\ Sound(s.c)
    BY <1>2, RefusalLemma DEF Healthy
  <2>2. PICK a \in ResumeOut(s.c) :
           r = IF a.res = "true" THEN Reply("ok", Now(s, "READY", a.c))
               ELSE IF a.res = "false" THEN Reply("ContainerError", Now(s, "INVALID", a.c))
               ELSE Reply("SoftwareContainerError", s)
    BY <1>2 DEF SCResumeOut
  <2>3. /\ Keeps(s.c, a.c) /\ a.c \in ContainerRec
        /\ \/ a.res = "true" /\ a.c.state = STARTED
           \/ a.res = "throw" /\ a.c = s.c
    BY <2>1, ResumeLemma DEF Keeps, Sound
  <2>4. CASE a.res = "true"
    <3>1. r.res = "ok" /\ r.s = Now(s, "READY", a.c)
      BY <2>2, <2>4, ReplyFields
    <3>2. r.s \in SoftwareContainerRec /\ r.s.state = "READY" /\ r.s.c = a.c
      <4>1. s \in SoftwareContainerRec /\ {"SUSPENDED", "READY"} \subseteq SCStates
        BY DEF Healthy, SCStates
      <4> QED  BY <2>3, <3>1, <4>1, NowFields
    <3> QED  BY <2>1, <2>3, <2>4, <3>1, <3>2 DEF Healthy, Keeps
  <2>5. CASE a.res = "throw"
    BY <2>1, <2>2, <2>5, ReplyFields
  <2> QED  BY <2>3, <2>4, <2>5
<1> QED  BY <1>1, <1>2

\* shutdown(): refused, TERMINATED with the container destroyed, or INVALID.
LEMMA SCShutdownLemma ==
    ASSUME NEW s, Healthy(s), NEW r \in SCShutdownOut(s)
    PROVE  /\ Healthy(r.s)
           /\ Tracked(s.c) => Tracked(r.s.c)
           /\ \/ RefusedFor(r, s, Mortal)
              \/ s.state \in Mortal /\ r.res = "ok" /\ r.s.state = "TERMINATED"
              \/ s.state \in Mortal /\ r.res = "ContainerError" /\ r.s.state = "INVALID"
<1>0. "INVALID" \notin Mortal
  BY DEF Mortal
<1>1. CASE Refusal(s, Mortal) # "none"
  BY <1>0, <1>1, RefusalLemma DEF SCShutdownOut, RefusedFor
<1>2. CASE Refusal(s, Mortal) = "none"
  <2>0. s.state \in Mortal
    BY <1>0, <1>2, RefusalLemma
  <2>1. s.c.state >= CREATED /\ Sound(s.c) /\ s \in SoftwareContainerRec
    BY <2>0 DEF Healthy, Mortal
  <2>2. PICK a \in DestroyOut(s.c) :
           r = IF a.res = "true" THEN Reply("ok", Now(s, "TERMINATED", a.c))
               ELSE Reply("ContainerError", Now(s, "INVALID", a.c))
    BY <1>2 DEF SCShutdownOut
  <2>3. /\ Keeps(s.c, a.c) /\ a.c \in ContainerRec
        /\ \/ a.res = "true" /\ a.c.state = DESTROYED
           \/ a.res = "false" /\ a.c.state >= CREATED
    BY <2>1, DestroyLemma DEF Keeps, Sound
  <2>4. CASE a.res = "true"
    <3>1. r.res = "ok" /\ r.s = Now(s, "TERMINATED", a.c)
      BY <2>2, <2>4, ReplyFields
    <3>2. r.s \in SoftwareContainerRec /\ r.s.state = "TERMINATED" /\ r.s.c = a.c
      <4>1. "TERMINATED" \in SCStates
        BY DEF SCStates
      <4> QED  BY <2>1, <2>3, <3>1, <4>1, NowFields
    <3> QED  BY <2>0, <2>3, <2>4, <3>1, <3>2 DEF Healthy, Keeps
  <2>5. CASE a.res = "false" /\ a.c.state >= CREATED
    <3>1. a.c.state \in 3..5
      BY <2>3, <2>5, RecFields
    <3>2. r.res = "ContainerError" /\ r.s = Now(s, "INVALID", a.c)
      BY <2>2, <2>5, ReplyFields
    <3>3. r.s \in SoftwareContainerRec /\ r.s.state = "INVALID" /\ r.s.c = a.c
      <4>1. "INVALID" \in SCStates
        BY DEF SCStates
      <4> QED  BY <2>1, <2>3, <3>2, <4>1, NowFields
    <3> QED  BY <2>0, <2>3, <3>1, <3>2, <3>3 DEF Healthy, Keeps
  <2> QED  BY <2>3, <2>4, <2>5
<1> QED  BY <1>1, <1>2
=============================================================================
