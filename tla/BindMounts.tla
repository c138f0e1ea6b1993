------------------------------ MODULE BindMounts ------------------------------
(***************************************************************************)
(* Container::bindMountInContainer, with the FileToolkitWithUndo, CreateDir*)
(* and clean-up handlers below it: host paths made visible in a running    *)
(* container, by way of the gateway directory that host and container      *)
(* share, and everything undone when a call fails and when the container is*)
(* destroyed.  A call is one step; the destructor takes one for each       *)
(* handler, and nothing comes between.                                     *)
(*                                                                         *)
(* A target [dir, name] is a path in the container; the directory          *)
(* "gateways" is the shared one, "relative" stands for paths that do not   *)
(* start with a slash.  Whatever the directory, the mount is first made at *)
(* <gateway directory>/name on the host, the temporary path of name, so    *)
(* two targets of one name meet there.  The environment file "env" is in   *)
(* the same directory.  The state of the file systems is one record:       *)
(*   mounts    every bind mount made: its source, whether it is still on   *)
(*             the host, where it is in the container, whether it was moved*)
(*             there, whether it is read-only on either side, and whether  *)
(*             writes to it are buffered in an upper directory             *)
(*   node      what the gateway directory holds of each name               *)
(*   handlers  m_cleanupHandlers, oldest first                             *)
(*   dirs, uppers   what m_createDirList will delete: directories of the   *)
(*             gateway directory and the upper directories of mounts       *)
(*   deleted, written   history: sources that a recursive delete or the    *)
(*             environment file went through to                            *)
(***************************************************************************)
EXTENDS Integers, Sequences, FiniteSets, FiniteSetsExt, SequencesExt

CONSTANTS
    Names,        \* last components of the targets; "env" may be one
    Dirs,         \* directories of the container
    DirSources,   \* paths of the host that are directories
    FileSources,  \* and that are files, sockets or pipes
    MaxCalls      \* bound on the calls of bindMountInContainer

ASSUME BindAssumption ==
    /\ DirSources \cap FileSources = {}
    /\ Dirs \cap {"gateways", "relative", "nowhere"} = {}
    /\ MaxCalls \in Nat

Sources == DirSources \cup FileSources
Targets == [dir : Dirs \cup {"gateways", "relative"}, name : Names]
Nowhere == [dir |-> "nowhere", name |-> "nowhere"]

KindOf(src) == IF src \in DirSources THEN "dir" ELSE "file"

\* Where the container sees the temporary path of a name.
InGateways(n) == [dir |-> "gateways", name |-> n]

MountRec == [name : Names, src : Sources, host : BOOLEAN, at : Targets \cup {Nowhere},
             moved : BOOLEAN, ro : BOOLEAN, hostRo : BOOLEAN, buffered : BOOLEAN]

HandlerRec == [kind : {"mount", "file"}, name : Names]

VARIABLES
    phase,    \* "up"; "down" when init has died; "undo" and "gone" in and after the destructors
    wb,       \* m_writeBufferEnabled
    fs,       \* the file systems and what will be undone, see above
    calls,    \* calls made so far
    last      \* the last call and its result

bindVars == <<phase, wb, fs, calls, last>>

Out(res, w) == [res |-> res, fs |-> w]

----------------------------------------------------------------------------
(***************************************************************************)
(* Mounts.  External: the gateway directory is a shared mount and the      *)
(* container's copy of it a slave, so a mount made on the host appears in  *)
(* the container at the same place, or, if it is made over another mount,  *)
(* over the copy of that one, wherever the container has moved it.  An     *)
(* unmount takes the copy along, unless it was moved.                      *)
(***************************************************************************)
OnHost(w, n)   == {i \in DOMAIN w.mounts : w.mounts[i].host /\ w.mounts[i].name = n}
Inside(w, p)   == {i \in DOMAIN w.mounts : w.mounts[i].at = p}

\* The mount on top.
Upper(w, S) == w.mounts[Max(S)]

MountedOver(w, n) == IF OnHost(w, n) = {} THEN InGateways(n) ELSE Upper(w, OnHost(w, n)).at

\* w with m for the mount on top of S.
SetUpper(w, S, m) == [w EXCEPT !.mounts = [w.mounts EXCEPT ![Max(S)] = m]]

NewMount(w, n, src, ro) ==
    [name |-> n, src |-> src, host |-> TRUE, at |-> MountedOver(w, n), moved |-> FALSE,
     ro |-> FALSE, hostRo |-> ro /\ ~wb, buffered |-> wb /\ src \in DirSources]

\* Mutant: the directories of the overlay are made before the source is looked at.
MountedUppers(w, n, src, ro) ==
    [w EXCEPT !.mounts = Append(@, NewMount(w, n, src, ro)),
              !.uppers = @ \cup {Len(w.mounts) + 1}]

\* mount(2) with the overlay or MS_BIND, and the upper directory kept.
Mounted(w, n, src, ro) ==
    LET u == [w EXCEPT !.mounts = Append(w.mounts, NewMount(w, n, src, ro))]
    IN  IF wb /\ src \in DirSources
          THEN [u EXCEPT !.uppers = w.uppers \cup {Len(w.mounts) + 1}] ELSE u

\* MountCleanUpHandler::clean: the topmost mount of the path goes, if there is one.
Lifted(m) == [[m EXCEPT !.host = FALSE] EXCEPT !.at = IF m.moved THEN m.at ELSE Nowhere]

MountClean(w, n) ==
    LET S == OnHost(w, n)
    IN  IF S = {} THEN w ELSE SetUpper(w, S, Lifted(Upper(w, S)))

\* The container's mounts go with its name space.
ContainerGone(w) ==
    [w EXCEPT !.mounts = [i \in DOMAIN w.mounts |-> [w.mounts[i] EXCEPT !.at = Nowhere]]]

\* What isDirectory says of a temporary path.
KindAt(w, n) ==
    IF OnHost(w, n) = {} THEN w.node[n] ELSE KindOf(Upper(w, OnHost(w, n)).src)

----------------------------------------------------------------------------
(***************************************************************************)
(* Deletion.  nftw crosses mount points: deleting a directory on which a   *)
(* source is mounted deletes what is in the source, unless that mount is   *)
(* read-only or buffered.                                                  *)
(***************************************************************************)
RecursiveDelete(w, names) ==
    LET bare  == {n \in names : OnHost(w, n) = {}}
        lost  == {Upper(w, OnHost(w, n)) : n \in names \ bare}
        u     == [w EXCEPT !.node = [n \in Names |-> IF n \in bare THEN "none" ELSE w.node[n]]]
    IN  [u EXCEPT !.deleted = w.deleted \cup {m.src : m \in {x \in lost : ~x.hostRo /\ ~x.buffered}}]

\* FileCleanUpHandler::clean: unlink fails on a mount point.
FileClean(w, n) ==
    IF OnHost(w, n) = {} /\ w.node[n] = "file"
      THEN [w EXCEPT !.node = [w.node EXCEPT ![n] = "none"]] ELSE w

Clean(h, w) == IF h.kind = "mount" THEN MountClean(w, h.name) ELSE FileClean(w, h.name)

\* FileToolkitWithUndo::pathInList: mounts have no name there.
PathInList(w, n) ==
    \E k \in DOMAIN w.handlers : w.handlers[k].kind = "file" /\ w.handlers[k].name = n

\* The lazy unmount of the gateway directory, whose handler is the oldest,
\* detaches every mount beneath it.
GatewaysDetached(w) ==
    [w EXCEPT !.mounts = [i \in DOMAIN w.mounts |-> [w.mounts[i] EXCEPT !.host = FALSE]]]

\* One round of ~FileToolkitWithUndo: the newest handler.
Undone(w) ==
    LET u == Clean(Last(w.handlers), w) IN [u EXCEPT !.handlers = Front(w.handlers)]

\* Then the CreateDirs; the first of them deletes the gateway directory.
Destructed(w) ==
    LET u == RecursiveDelete(GatewaysDetached(w), Names)
    IN  [[u EXCEPT !.dirs = {}] EXCEPT !.uppers = {}]

----------------------------------------------------------------------------
(***************************************************************************)
(* bindMountCore: the mount on the host, the move in the container, and    *)
(* the read-only remount there.  Every step may fail and leaves what the   *)
(* ones before it did.                                                     *)
(***************************************************************************)
\* FileToolkitWithUndo::bindMount: an upper directory that cannot be made throws,
\* before anything is mounted; the read-only remount on the host may fail after.
FileToolkitBindMountOut(w, n, src, ro) ==
    {Out("false", w)}
    \cup (IF wb /\ src \in DirSources THEN {Out("throw", w)} ELSE {})
    \cup (IF KindAt(w, n) # KindOf(src) THEN {}
          ELSE {Out("true", Mounted(w, n, src, ro))}
               \cup (IF ro /\ ~wb THEN {Out("false", Mounted(w, n, src, FALSE))} ELSE {}))

\* Parent directories, target and MS_MOVE, all in the container.
MovedTo(m, t) == [[m EXCEPT !.at = t] EXCEPT !.moved = TRUE]

MoveOut(w, t) ==
    LET g == Inside(w, InGateways(t.name))
    IN  IF t.dir = "gateways" THEN {Out("true", w)}
        ELSE {Out("false", w)}
             \cup (IF g = {} THEN {} ELSE {Out("true", SetUpper(w, g, MovedTo(Upper(w, g), t)))})

RemountReadOnlyInContainerOut(w, t, ro) ==
    LET m == Inside(w, t)
    IN  IF ~ro THEN {Out("true", w)}
        ELSE {Out("false", w)}
             \cup (IF m = {} THEN {}
                   ELSE {Out("true", SetUpper(w, m, [Upper(w, m) EXCEPT !.ro = TRUE]))})

\* Each step is run if the one before it answered true.
InContainerOut(w, t, ro) ==
    UNION {IF r.res = "true" THEN RemountReadOnlyInContainerOut(r.fs, t, ro) ELSE {r} :
             r \in MoveOut(w, t)}

BindMountCoreOut(w, src, t, ro) ==
    IF t.dir = "relative" THEN {Out("false", w)}
    ELSE UNION {IF r.res = "true" THEN InContainerOut(r.fs, t, ro) ELSE {r} :
                  r \in FileToolkitBindMountOut(w, t.name, src, ro)}

----------------------------------------------------------------------------
\* The temporary path: CreateDir makes a directory unless there is one; a file is
\* touched unless a handler knows it, which fails on a directory.
SetNode(w, n, kind) == [w EXCEPT !.node = [w.node EXCEPT ![n] = kind]]

TempPathOut(w, n, src) ==
    {Out("false", w)} \cup
    (IF KindAt(w, n) = "none" /\ (src \in DirSources \/ ~PathInList(w, n))
       THEN {Out("true", SetNode(w, n, KindOf(src)))}
     ELSE IF KindAt(w, n) = KindOf(src) \/ (src \notin DirSources /\ PathInList(w, n))
       THEN {Out("true", w)}
     ELSE {})

\* Mutant: a failed call does not unmount its temporary path.
RollbackNone(w, n, res, made) == IF made THEN RecursiveDelete(w, {n}) ELSE w

\* A call that failed unmounts the temporary path; then, as when it threw, its
\* CreateDir deletes the directory if the call made it.
Rollback(w, n, res, made) ==
    LET unmounted == IF res = "false" THEN MountClean(w, n) ELSE w
    IN  IF made THEN RecursiveDelete(unmounted, {n}) ELSE unmounted

\* The handlers of a path, and of the file if it is one.
FileHandler(n)  == [kind |-> "file", name |-> n]
MountHandler(n) == [kind |-> "mount", name |-> n]

WithFile(w, n, src) == IF src \in DirSources THEN w.handlers ELSE Append(w.handlers, FileHandler(n))

\* Mutant: the handler of the mount is forgotten.
KeepNoMountHandler(w, n, src, made) ==
    [w EXCEPT !.dirs = IF made THEN @ \cup {n} ELSE @, !.handlers = WithFile(w, n, src)]

\* A call that succeeded hands its CreateDir and its handlers to the toolkit.
Keep(w, n, src, made) ==
    LET u == [w EXCEPT !.handlers = Append(WithFile(w, n, src), MountHandler(n))]
    IN  IF made THEN [u EXCEPT !.dirs = w.dirs \cup {n}] ELSE u

\* The end of a call whose bindMountCore had outcome r.
EndOut(r, n, src, made) ==
    IF r.res = "true" THEN Out("true", Keep(r.fs, n, src, made))
    ELSE Out(r.res, Rollback(r.fs, n, r.res, made))

\* bindMountInContainer: a source that does not exist, a container that does not
\* run and a target that is mounted to are refused first.
BindMountInContainerOut(w, up, src, t, ro) ==
    LET n    == t.name
        made == src \in DirSources /\ KindAt(w, n) = "none"
    IN  {Out("false", w)}
        \cup (IF ~up \/ Inside(w, t) # {} THEN {}
              ELSE UNION {IF p.res # "true" THEN {p}
                          ELSE {EndOut(r, n, src, made) :
                                  r \in BindMountCoreOut(p.fs, src, t, ro) \cup {Out("false", p.fs)}} :
                            p \in TempPathOut(w, n, src)})

\* setEnvironmentVariable writes the environment file, whatever is mounted there.
EnvFileWritten(w) ==
    LET S == OnHost(w, "env")
        u == IF PathInList(w, "env") THEN w
             ELSE [w EXCEPT !.handlers = Append(w.handlers, FileHandler("env"))]
    IN  IF KindAt(w, "env") = "dir" \/ (S # {} /\ Upper(w, S).hostRo) THEN w
        ELSE IF S = {} THEN SetNode(u, "env", "file")
        ELSE [u EXCEPT !.written = w.written \cup {Upper(w, S).src}]

----------------------------------------------------------------------------
NoCall == [res |-> "none"]

BindInit ==
    /\ phase = "up" /\ wb \in BOOLEAN
    /\ fs = [mounts |-> <<>>, node |-> [n \in Names |-> "none"], handlers |-> <<>>,
             dirs |-> {}, uppers |-> {}, deleted |-> {}, written |-> {}]
    /\ calls = 0 /\ last = NoCall

BindMountInContainer(src, t, ro) ==
    /\ phase \in {"up", "down"} /\ calls < MaxCalls
    /\ \E r \in BindMountInContainerOut(fs, phase = "up", src, t, ro) :
         /\ fs' = r.fs
         /\ last' = [res |-> r.res, src |-> src, target |-> t, ro |-> ro, before |-> fs.mounts]
    /\ calls' = calls + 1
    /\ UNCHANGED <<phase, wb>>

SetEnvironmentVariable ==
    /\ phase \in {"up", "down"} /\ "env" \in Names
    /\ fs' = EnvFileWritten(fs)
    /\ last' = NoCall
    /\ UNCHANGED <<phase, wb, calls>>

\* External: the container's init dies, and with it the mount name space.
InitDies ==
    /\ phase = "up"
    /\ phase' = "down" /\ fs' = ContainerGone(fs) /\ last' = NoCall
    /\ UNCHANGED <<wb, calls>>

\* ~Container stops the container before the base class undoes the mounts.
Destroy ==
    /\ phase \in {"up", "down"}
    /\ phase' = "undo" /\ fs' = ContainerGone(fs) /\ last' = NoCall
    /\ UNCHANGED <<wb, calls>>

\* ~FileToolkitWithUndo
Undo ==
    /\ phase = "undo" /\ fs.handlers # <<>>
    /\ fs' = Undone(fs)
    /\ UNCHANGED <<phase, wb, calls, last>>

UndoEnds ==
    /\ phase = "undo" /\ fs.handlers = <<>>
    /\ phase' = "gone" /\ fs' = Destructed(fs)
    /\ UNCHANGED <<wb, calls, last>>

Gone == phase = "gone" /\ UNCHANGED bindVars

BindNext ==
    \/ \E src \in Sources, t \in Targets, ro \in BOOLEAN : BindMountInContainer(src, t, ro)
    \/ SetEnvironmentVariable
    \/ InitDies
    \/ Destroy \/ Undo \/ UndoEnds
    \/ Gone

BindSpec == BindInit /\ [][BindNext]_bindVars

----------------------------------------------------------------------------
\* The file systems and the books about them are what their declarations say.
BindTypeOK ==
    /\ phase \in {"up", "down", "undo", "gone"} /\ wb \in BOOLEAN /\ calls \in 0..MaxCalls
    /\ fs.mounts \in Seq(MountRec)
    /\ fs.node \in [Names -> {"none", "dir", "file"}]
    /\ fs.handlers \in Seq(HandlerRec) /\ fs.dirs \subseteq Names
    /\ fs.uppers \subseteq {i \in DOMAIN fs.mounts : fs.mounts[i].buffered}
    /\ {fs.deleted, fs.written} \subseteq SUBSET Sources

\* No recursive delete ever runs while a source is mounted beneath it: neither the
\* CreateDir of a failed bindMountInContainer nor the destructors delete what the
\* host has at a mounted path.
NoHostDataDeleted == fs.deleted = {}

\* Between calls every mount on a temporary path has a MountCleanUpHandler that will
\* undo it, although a failed call unmounts what it finds on top.
MountsAreUndone ==
    \A n \in Names :
        Cardinality(OnHost(fs, n))
          <= Cardinality({k \in DOMAIN fs.handlers :
                            fs.handlers[k] = MountHandler(n)})

\* After the destructors no mount, no node of the gateway directory and no upper
\* directory is left.
NothingIsLeft ==
    phase = "gone" =>
        /\ \A n \in Names : OnHost(fs, n) = {} /\ fs.node[n] = "none"
        /\ fs.uppers = {} /\ fs.handlers = <<>>

\* The source the call asked for is what the container sees at the target.
Visible(w, l) ==
    /\ Inside(w, l.target) # {}
    /\ LET m == w.mounts[Max(Inside(w, l.target))] IN m.src = l.src /\ (l.ro => m.ro)

\* A bindMountInContainer that answers true, with no other mount on its temporary
\* path, has made the source visible at the target, read-only if that was asked, and
\* has taken no other target away.
AloneMeansVisible ==
    last.res = "true" /\ (\A i \in DOMAIN last.before :
                             last.before[i].host => last.before[i].name # last.target.name) =>
        /\ Visible(fs, last)
        /\ \A i \in DOMAIN last.before : fs.mounts[i].at = last.before[i].at

\* With the write buffer, no write of the container reaches a directory it is given
\* while it runs: what it sees of such a directory is an overlay or read-only.
WritesAreBuffered ==
    wb => \A t \in Targets : Inside(fs, t) # {} =>
        LET m == fs.mounts[Max(Inside(fs, t))] IN m.src \in DirSources => m.buffered \/ m.ro

\* A mount whose writes are buffered has its upper directory as long as it is on
\* the host: no CreateDir that made one is destroyed before the mount is undone.
BuffersLast ==
    \A i \in DOMAIN fs.mounts :
        fs.mounts[i].host /\ fs.mounts[i].buffered => i \in fs.uppers

\* "bindMountInContainer operation is not successful. Clean mounted tempPath.": a
\* failed call undoes its own mount and takes away none that was there before.
FailedCallKeepsMounts ==
    last.res = "false" =>
        \A i \in DOMAIN last.before : fs.mounts[i].at = last.before[i].at
=============================================================================
