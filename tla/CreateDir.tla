------------------------------ MODULE CreateDir ------------------------------
(***************************************************************************)
(* CreateDir: directories made with their missing parents, and deleted with*)
(* everything in them when the CreateDir that made them is destroyed.      *)
(* Paths are sequences of components; the root <<>> always exists.         *)
(***************************************************************************)
EXTENDS Naturals, Sequences, FiniteSets, SequencesExt

CONSTANTS
    Components,   \* names of directory entries
    Depth,        \* bound on the length of paths
    Creators      \* the CreateDir objects

ASSUME CreateDirAssumption == Depth \in Nat \ {0}

Paths == UNION {[1..d -> Components] : d \in 1..Depth}

VARIABLES
    node,       \* what the file system has at each path
    cleaners,   \* the paths in m_rollbackCleaners of each object
    alive,      \* objects not yet destroyed
    before      \* history: what there was before the first of them

createDirVars == <<node, cleaners, alive, before>>

IsDirectory(w, p) == p # <<>> => w[p] = "dir"

\* A file system in which every entry is in a directory.
WellFormed(w) == \A p \in Paths : w[p] # "none" => IsDirectory(w, Front(p))

CreateDirInit ==
    /\ node \in {w \in [Paths -> {"none", "dir", "file"}] : WellFormed(w)}
    /\ cleaners = [c \in Creators |-> {}]
    /\ alive = Creators
    /\ before = node

----------------------------------------------------------------------------
\* p and the parents of p that are no directories, the outermost first.
Missing(p) ==
    LET first == CHOOSE k \in 0..Len(p) :
                     /\ IsDirectory(node, SubSeq(p, 1, k))
                     /\ \A j \in (k + 1)..Len(p) : ~IsDirectory(node, SubSeq(p, 1, j))
    IN  [k \in 1..(Len(p) - first) |-> SubSeq(p, 1, first + k)]

Made(w, s) == [p \in Paths |-> IF p \in Range(s) THEN "dir" ELSE w[p]]

\* Mutant: only a directory asked for that could be made is registered.
RegisteredLast(S, made, p) == IF p \in Range(made) THEN S \cup {p} ELSE S

\* Every directory made is registered, once (pathInList).
Registered(S, made, p) == S \cup Range(made)

\* createDirectory and createParentDirectory: what is missing is made from the
\* outside in, up to the first mkdir that fails, as it does on a file.
CreateDirectory(c, p) ==
    /\ c \in alive
    /\ \E k \in 0..Len(Missing(p)) :
         LET made == SubSeq(Missing(p), 1, k)
         IN  /\ \A q \in Range(made) : node[q] = "none"
             /\ node' = Made(node, made)
             /\ cleaners' = [cleaners EXCEPT ![c] = Registered(@, made, p)]
    /\ UNCHANGED <<alive, before>>

\* createTempDirectoryFromTemplate: mkdtemp finds a free name or throws.
CreateTempDirectoryFromTemplate(c, p) ==
    /\ c \in alive
    /\ node[p] = "none" /\ IsDirectory(node, Front(p))
    /\ node' = Made(node, <<p>>)
    /\ cleaners' = [cleaners EXCEPT ![c] = @ \cup {p}]
    /\ UNCHANGED <<alive, before>>

\* RecursiveDelete, from DirectoryCleanUpHandler::clean: what it takes away.
Del(q) == {p \in Paths : IsPrefix(q, p)}

\* The handlers run from the newest to the oldest.  Each takes what is at its path and
\* below, if anything is, so that what is left does not depend on their order.
Cleaned(S, w) == [p \in Paths |-> IF p \in UNION {Del(q) : q \in S} THEN "none" ELSE w[p]]

DestroyCreateDir(c) ==
    /\ c \in alive
    /\ node' = Cleaned(cleaners[c], node)
    /\ cleaners' = [cleaners EXCEPT ![c] = {}]
    /\ alive' = alive \ {c}
    /\ UNCHANGED before

\* External: files appear in directories, those the objects made among them.
FileAppears(p) ==
    /\ node[p] = "none" /\ IsDirectory(node, Front(p))
    /\ \E c \in alive : \E q \in cleaners[c] : IsPrefix(q, p)
    /\ node' = [node EXCEPT ![p] = "file"]
    /\ UNCHANGED <<cleaners, alive, before>>

CreateDirDone == alive = {} /\ UNCHANGED createDirVars

CreateDirNext ==
    \/ \E c \in Creators, p \in Paths :
         CreateDirectory(c, p) \/ CreateTempDirectoryFromTemplate(c, p)
    \/ \E c \in Creators : DestroyCreateDir(c)
    \/ \E p \in Paths : FileAppears(p)
    \/ CreateDirDone

CreateDirSpec == CreateDirInit /\ [][CreateDirNext]_createDirVars

----------------------------------------------------------------------------
\* The file system stays a tree, whatever is made and deleted in which order.
CreateDirTypeOK ==
    /\ node \in [Paths -> {"none", "dir", "file"}] /\ WellFormed(node)
    /\ cleaners \in [Creators -> SUBSET Paths]
    /\ alive \subseteq Creators

\* What was there before is never deleted, although RecursiveDelete takes everything
\* below a directory: an object only registers directories it made.
OthersAreKept == \A p \in Paths : before[p] # "none" => node[p] = before[p]

\* Every directory an object made is registered with one that is still alive, the
\* parents made by a createDirectory that then failed included: when all objects are
\* destroyed, in whatever order, nothing they made is left.
NothingIsForgotten ==
    \A p \in Paths : node[p] # "none" /\ before[p] = "none" =>
        \E c \in alive : \E q \in cleaners[c] : IsPrefix(q, p)

\* The clean-up of the CreateDir objects is exact: it takes what they made and no more.
DirectoriesAreRestored == OthersAreKept /\ NothingIsForgotten
=============================================================================
