------------------------------- MODULE MCFiles -------------------------------
(***************************************************************************)
(* The mounts of a container, by the file gateway and by other calls, and  *)
(* the two helpers that FileToolkitWithUndo relies on for directories and  *)
(* write buffers.                                                          *)
(***************************************************************************)
EXTENDS FileGateway, CreateDir, OverlaySync, MCComponent

CONSTANT MaxWork      \* bound on elements, calls and activations together

mountVars == <<bindVars, fileGatewayVars>>
filesVars == <<component, mountVars, createDirVars, syncVars>>

\* A host without directories, a root file system without files, no write buffer.
BareHost   == node = [p \in Paths |-> "none"]
BareRoot   == lower = [f \in Files |-> Absent]
Unbuffered == wb = FALSE

FilesInit ==
    \/ component = "mounts" /\ FileGatewayInit /\ BareHost /\ CreateDirInit /\ BareRoot /\ SyncInit
    \/ component = "dirs" /\ Unbuffered /\ FileGatewayInit /\ CreateDirInit /\ BareRoot /\ SyncInit
    \/ component = "sync" /\ Unbuffered /\ FileGatewayInit /\ BareHost /\ CreateDirInit /\ SyncInit

FilesNext ==
    /\ UNCHANGED component
    /\ \/ /\ component = "mounts" /\ FileGatewayNext
          /\ Cardinality(asked') + calls' + tries' <= MaxWork
          /\ UNCHANGED <<createDirVars, syncVars>>
       \/ component = "dirs" /\ CreateDirNext /\ UNCHANGED <<mountVars, syncVars>>
       \/ component = "sync" /\ SyncNext /\ UNCHANGED <<mountVars, createDirVars>>

FilesSpec == FilesInit /\ [][FilesNext]_filesVars

----------------------------------------------------------------------------
\* Types of the mounts, the settings, the directories and the write buffer.
FilesTypeOK == BindTypeOK /\ FileGatewayTypeOK /\ CreateDirTypeOK /\ SyncTypeOK

\* Through every order of calls and failures of bindMountInContainer and of the file
\* gateway's elements: each mount on the host will be undone and is gone in the end, one
\* alone on its path is visible and takes nothing away, and the container may write where
\* an element allows it and, with a write buffer, only to that.
MountsAreSound ==
    /\ MountsAreUndone /\ NothingIsLeft
    /\ AloneMeansVisible /\ MostPermissive
    /\ WritesAreBuffered /\ BuffersLast
=============================================================================
