------------------------------ MODULE Container ------------------------------
(***************************************************************************)
(* The class Container of libsoftwarecontainer: one LXC container with the *)
(* mounts it needs on the host.                                            *)
(*                                                                         *)
(* Every method is an operator that maps the container to the set of its   *)
(* possible outcomes, one for each way LXC and mount(2) may answer.  A     *)
(* handler of a class above runs its methods to completion, so the         *)
(* specifications that use these operators take one outcome in one step.   *)
(*                                                                         *)
(* A container is a record.  Three fields live in the agent's process:      *)
(*   state   m_state                                                       *)
(*   wb      m_writeBufferEnabled                                          *)
(*   undo    the mount points m_cleanupHandlers will unmount               *)
(* and two on the host, where they outlive that process:                   *)
(*   lxc     what LXC says of the container of this name                   *)
(*   mounts  how many mounts are stacked on each mount point               *)
(***************************************************************************)
EXTENDS Naturals

\* ContainerState, in the order the methods compare it with < and >=.
DEFAULT   == 0
PREPARED  == 1
DESTROYED == 2
CREATED   == 3
STARTED   == 4
FROZEN    == 5

\* "root" is the tmpfs on the container root, "gateways" the shared mount
\* point of the gateway directory, "rootfs" the overlay of the write buffer.
MountPoints == {"root", "gateways", "rootfs"}

LxcStates == {"undefined", "stopped", "running", "frozen"}

ContainerRec ==
    [state : DEFAULT..FROZEN, wb : BOOLEAN,
     lxc : LxcStates, mounts : [MountPoints -> Nat], undo : SUBSET MountPoints]

\* The constructor: nothing is done to the host before initialize().
NewContainer(host, writeBufferEnabled) ==
    [host EXCEPT !.state = DEFAULT, !.wb = writeBufferEnabled, !.undo = {}]

\* A host on which no container of this name has ever existed.
CleanHost ==
    [state |-> DEFAULT, wb |-> FALSE, lxc |-> "undefined",
     mounts |-> [m \in MountPoints |-> 0], undo |-> {}]

\* What a method that changes m_state leaves: m_state and LXC's answer.
To(c, state, lxc) == [c EXCEPT !.state = state, !.lxc = lxc]

\* The outcome of a method: "true", "false" or "throw", and the container.
Ans(res, c) == [res |-> res, c |-> c]

----------------------------------------------------------------------------
(***************************************************************************)
(* FileToolkitWithUndo: a mount, with or without its clean-up handler, and *)
(* the destructor, which runs the handlers.  A lazy unmount is taken to    *)
(* succeed wherever something is mounted; where nothing is, its failure is *)
(* only logged.                                                            *)
(***************************************************************************)
Mounted(c, m)   == [c EXCEPT !.mounts[m] = @ + 1]
Unmounted(c, m) == [c EXCEPT !.mounts[m] = @ - 1]
WithUndo(c, m)  == [c EXCEPT !.undo = @ \cup {m}]

Undone(c, own) ==
    [c EXCEPT !.undo = @ \ own,
              !.mounts = [m \in MountPoints |->
                            IF m \in c.undo \cap own /\ c.mounts[m] > 0
                              THEN c.mounts[m] - 1 ELSE c.mounts[m]]]

\* Mutants: a mount forgets its clean-up handler.
TmpfsMountOutNoUndo(c)   == {c, Mounted(c, "root")}
OverlayMountOutNoUndo(c) == {c, Mounted(c, "rootfs")}

\* tmpfsMount and overlayMount register their handlers only if mount(2)
\* worked; both callers ignore which of the two it was.
TmpfsMountOut(c)   == {c, WithUndo(Mounted(c, "root"), "root")}
OverlayMountOut(c) == {c, WithUndo(Mounted(c, "rootfs"), "rootfs")}

----------------------------------------------------------------------------
\* initialize(): nothing was done, or the bind mount of createSharedMountPoint
\* worked and one of the two changes of its propagation did not, or all did; the
\* clean-up handler is registered after the last one.
InitializeOut(c) ==
    IF c.state >= PREPARED THEN {Ans("true", c)}
    ELSE {Ans("false", c), Ans("false", Mounted(c, "gateways")),
          Ans("true", To(WithUndo(Mounted(c, "gateways"), "gateways"), PREPARED, c.lxc))}

\* LXC removes what a failed create left behind, except a root file system
\* on which something is mounted.
LeftByFailedLxcCreate(c) ==
    IF c.mounts["rootfs"] > 0 THEN {c, To(c, c.state, "stopped")} ELSE {c}

LxcCreateOut(c) ==
    {Ans("true", To(c, CREATED, "stopped"))}
    \cup {Ans("false", d) : d \in LeftByFailedLxcCreate(c)}

\* create(): lxc_container_new or load_config may fail and the name may be in
\* use; the overlay is mounted and its outcome ignored; LXC may fail to create.
\* rollbackCreate() drops the LXC handle and nothing else.
CreateOut(c) ==
    {Ans("false", c)} \cup
    (IF c.state >= CREATED \/ c.lxc # "undefined" THEN {}
     ELSE UNION {LxcCreateOut(d) : d \in IF c.wb THEN OverlayMountOut(c) ELSE {c}})

\* start(): m_state becomes STARTED before ensureContainerRunning() asks whether
\* init runs.  That question, and the wait that follows it, race with init, which
\* may still be coming up or may already be gone; so either answer is possible.
StartOut(c) ==
    {Ans("false", c)} \cup
    (IF c.state < CREATED THEN {}
     ELSE {Ans(res, To(c, STARTED, l)) :
             res \in {"true", "false"}, l \in {"running", "stopped"}})

\* shutdown(timeout): a clean shutdown or else a forced stop() brings LXC to a
\* stop; if stop() fails too nothing has changed.
ShutdownOut(c) ==
    IF c.state < STARTED THEN {Ans("false", c)}
    ELSE {Ans("false", c), Ans("true", To(c, CREATED, "stopped"))}

\* Mutant: destroy() takes the mount to be gone without looking at umount's answer.
UmountRootfsOutUnchecked(c) ==
    {Ans("true", IF c.wb THEN Unmounted(c, "rootfs") ELSE c)}

\* umount(m_rootFSPath) of destroy(): EBUSY may fail it, and EINVAL does when
\* nothing is mounted there.
UmountRootfsOut(c) ==
    IF ~c.wb THEN {Ans("true", c)}
    ELSE IF c.mounts["rootfs"] = 0 THEN {Ans("false", c)}
    ELSE {Ans("false", c), Ans("true", Unmounted(c, "rootfs"))}

\* LXC's destroy: refused while the container runs or its root file system is
\* mounted; may fail on its own.
LxcDestroyOut(c) ==
    IF c.lxc = "stopped" /\ c.mounts["rootfs"] = 0
      THEN {Ans("false", c), Ans("true", To(c, DESTROYED, "undefined"))}
      ELSE {Ans("false", c)}

\* Run the next step of a method if the one before answered true.
Then(outs, Step(_)) == UNION {IF r.res = "true" THEN Step(r.c) ELSE {r} : r \in outs}

\* destroy(timeout): shutdown if started, unmount, destroy.
DestroyOut(c) ==
    IF c.state < CREATED THEN {Ans("false", c)}
    ELSE Then(Then(IF c.state >= STARTED THEN ShutdownOut(c) ELSE {Ans("true", c)},
                   UmountRootfsOut),
              LxcDestroyOut)

\* ~Container(), then the destructor of its FileToolkitWithUndo.  m_container is
\* nullptr only in states below CREATED, in which nothing is done anyway.
DestructOut(c) ==
    LET Down == IF c.state >= STARTED THEN {r.c : r \in ShutdownOut(c)} ELSE {c}
        Gone == UNION {IF d.state >= CREATED THEN {r.c : r \in DestroyOut(d)} ELSE {d} :
                       d \in Down}
    IN  {Undone(d, {"gateways", "rootfs"}) : d \in Gone}

\* Mutant: suspend() leaves m_state as it was.
SuspendOutKeepsState(c) ==
    IF c.state < STARTED \/ c.state = FROZEN THEN {Ans("false", c)}
    ELSE IF c.lxc # "running" THEN {Ans("throw", c)}
    ELSE {Ans("throw", c), Ans("true", To(c, STARTED, "frozen"))}

\* suspend() and resume(): false for a wrong m_state, an exception if LXC fails.
SuspendOut(c) ==
    IF c.state < STARTED \/ c.state = FROZEN THEN {Ans("false", c)}
    ELSE IF c.lxc # "running" THEN {Ans("throw", c)}
    ELSE {Ans("throw", c), Ans("true", To(c, FROZEN, "frozen"))}

ResumeOut(c) ==
    IF c.state < FROZEN THEN {Ans("false", c)}
    ELSE IF c.lxc # "frozen" THEN {Ans("throw", c)}
    ELSE {Ans("throw", c), Ans("true", To(c, STARTED, "running"))}

\* External: the container's init may end at any time (killed, out of memory,
\* lxc-stop from a shell), and the container is then stopped.
InitCanDie(c) == c.lxc \in {"running", "frozen"}
InitDied(c)   == To(c, c.state, "stopped")

\* What a crash of the agent's process leaves: the host's part only.
HostOnly(c) == [c EXCEPT !.state = DEFAULT, !.wb = FALSE, !.undo = {}]
=============================================================================
