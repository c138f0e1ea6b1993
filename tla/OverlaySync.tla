----------------------------- MODULE OverlaySync -----------------------------
(***************************************************************************)
(* The write buffer of the root file system: overlayMount, the changes that*)
(* gather in the upper directory, and OverlaySyncCleanupHandler, whose     *)
(* RecursiveCopy copies the upper directory over the lower one before the  *)
(* MountCleanUpHandler unmounts.  External: the overlay file system, which *)
(* marks a removed file of the lower directory by a device node (whiteout) *)
(* of its name in the upper one.                                           *)
(***************************************************************************)
EXTENDS Naturals

CONSTANTS
    Files,      \* the files of the root file system
    Contents,   \* what a file may hold
    MaxChanges  \* bound on the changes made in the container

ASSUME SyncAssumption == MaxChanges \in Nat

Absent == "absent"
Empty  == "empty"
Torn   == "torn"    \* less than what the source holds

VARIABLES
    lower, upper,   \* the two directories
    syncPhase,          \* "new", "mounted", "synced" or "failed", then "unmounted"
    changes,        \* changes made so far
    start, final,   \* history: what the container saw at first and at last
    hurt            \* history: the files whose copy met an error that nobody looked at

syncVars == <<lower, upper, syncPhase, changes, start, final, hurt>>

\* What the container sees: the upper directory on top of the lower one.
View == [f \in Files |-> CASE upper[f] = "whiteout" -> Absent
                           [] upper[f] = Absent     -> lower[f]
                           [] OTHER                 -> upper[f]]

SyncInit ==
    /\ lower \in [Files -> Contents \cup {Absent}]
    /\ upper = [f \in Files |-> Absent]
    /\ syncPhase = "new" /\ changes = 0 /\ start = lower /\ final = lower
    /\ hurt = {}

\* overlayMount: the MountCleanUpHandler, then the OverlaySyncCleanupHandler, which
\* is therefore the first to run.
OverlayMount ==
    /\ syncPhase = "new"
    /\ syncPhase' = "mounted"
    /\ UNCHANGED <<lower, upper, changes, start, final, hurt>>

\* External: the container writes or removes a file.
Change(f, u) ==
    /\ syncPhase = "mounted" /\ changes < MaxChanges
    /\ upper' = [upper EXCEPT ![f] = u]
    /\ changes' = changes + 1
    /\ UNCHANGED <<lower, syncPhase, start, final, hurt>>

WriteFile(f, v) == View[f] # v /\ Change(f, v)
RemoveFile(f) ==
    View[f] # Absent /\ Change(f, IF lower[f] = Absent THEN Absent ELSE "whiteout")

----------------------------------------------------------------------------
\* Mutant: a file the lower directory has is not opened again.
CopiedNewOnly(l, u) == IF u = Absent \/ l # Absent THEN l ELSE u

\* copyFile: the destination is opened, and so made or emptied, before what the
\* source holds is written; a device node cannot be opened and gives nothing.
Copied(l, u) ==
    CASE u = Absent     -> l
      [] u = "whiteout" -> Empty
      [] OTHER          -> u

\* It looks at neither stream: a destination that cannot be opened stays as it is (its
\* directory was perhaps not made either), a source that cannot be opened gives nothing,
\* and a read or write that fails ends the copy where it is.
CopiedBadly(l, u) ==
    CASE u = Absent     -> {}
      [] u = "whiteout" -> {l}
      [] OTHER          -> {l, Empty, Torn}

\* OverlaySyncCleanupHandler::clean, RecursiveCopy::copy: ftw may fail before it has
\* seen every file, which is logged.  An error with one file is not: copyFile returns 0.
SyncClean ==
    /\ syncPhase = "mounted"
    /\ \E done \in SUBSET Files : \E bad \in SUBSET done :
         /\ lower' \in {l \in [Files -> Contents \cup {Absent, Empty, Torn}] :
                         \A f \in Files :
                             IF f \in bad THEN l[f] \in CopiedBadly(lower[f], upper[f])
                             ELSE l[f] = IF f \in done THEN Copied(lower[f], upper[f]) ELSE lower[f]}
         /\ syncPhase' = IF done = Files THEN "synced" ELSE "failed"
         /\ hurt' = bad
    /\ final' = View
    /\ UNCHANGED <<upper, changes, start>>

\* MountCleanUpHandler::clean
UnmountClean ==
    /\ syncPhase \in {"synced", "failed"}
    /\ syncPhase' = "unmounted"
    /\ UNCHANGED <<lower, upper, changes, start, final, hurt>>

SyncDone == syncPhase = "unmounted" /\ UNCHANGED syncVars

SyncNext ==
    \/ OverlayMount
    \/ \E f \in Files : RemoveFile(f) \/ \E v \in Contents : WriteFile(f, v)
    \/ SyncClean
    \/ UnmountClean
    \/ SyncDone

SyncSpec == SyncInit /\ [][SyncNext]_syncVars

----------------------------------------------------------------------------
\* The upper directory holds files and whiteouts, the lower one files only.
SyncTypeOK ==
    /\ lower \in [Files -> Contents \cup {Absent, Empty, Torn}]
    /\ hurt \subseteq Files
    /\ upper \in [Files -> Contents \cup {Absent, "whiteout"}]
    /\ changes \in 0..MaxChanges

\* After a copy that answered true, every file the container saw at last has in the lower
\* directory what the container saw in it, except those whose own copy met an error: of
\* these, and whether there are any, copy() says nothing.  A file the container removed is
\* not gone; it is there, and empty.
WritesAreMerged ==
    syncPhase = "synced" =>
        \A f \in Files \ hurt : final[f] # Absent => lower[f] = final[f]

\* A copy that ends half-way leaves each file it met no error with as it was or as it
\* became, never as something the container did not see, unless the container removed it.
NoMixture ==
    \A f \in Files \ hurt : final[f] # Absent => lower[f] \in {start[f], final[f]}

\* Whatever fails, a file that the container did not change keeps what it held.
OtherFilesAreKept == \A f \in Files : upper[f] = Absent => lower[f] = start[f]

\* What OverlaySyncCleanupHandler leaves in the lower directory is what the container
\* wrote, and where ftw did not come by what was there before; a file is damaged only by
\* an error in copying that file, and a file the container left alone never.
BufferIsMerged == WritesAreMerged /\ NoMixture /\ OtherFilesAreKept
=============================================================================
