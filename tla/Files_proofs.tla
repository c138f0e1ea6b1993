----------------------------- MODULE Files_proofs -----------------------------
(***************************************************************************)
(* The write buffer of the root file system, the directories of the        *)
(* CreateDir objects, and the bind mounts with the file gateway above      *)
(* them: for every set of files, tree of paths and number of objects, every*)
(* set of targets and sources, and any number of changes, settings and     *)
(* calls.                                                                  *)
(***************************************************************************)
EXTENDS MCFiles, NaturalsInduction, WellFoundedInduction, FiniteSetTheorems, TLAPS

----------------------------------------------------------------------------
(***************************************************************************)
(* The write buffer.  Until the copy the lower directory is what it was at *)
(* the mount, so that what a file becomes in the copy is what the container*)
(* saw in it.                                                              *)
(***************************************************************************)
SyncInv ==
    /\ SyncTypeOK
    /\ syncPhase \in {"new", "mounted", "synced", "failed", "unmounted"}
    /\ syncPhase \in {"new", "mounted"} => lower = start
    /\ BufferIsMerged

\* Before the mount the container has seen only the lower directory.
LEMMA SyncInitInv == SyncInit => SyncInv
  BY SyncAssumption
     DEF SyncInit, SyncInv, SyncTypeOK, BufferIsMerged, WritesAreMerged, NoMixture, OtherFilesAreKept,
         Absent, Empty

\* A change in the container goes to the upper directory, also if it is a removal.
LEMMA ChangeStep ==
    ASSUME SyncInv, NEW f \in Files, NEW u \in Contents \cup {Absent, "whiteout"}, Change(f, u)
    PROVE  SyncInv'
<1>1. SyncTypeOK'
  BY SyncAssumption DEF SyncInv, SyncTypeOK, Change
<1>2. OtherFilesAreKept'
  BY DEF SyncInv, Change, OtherFilesAreKept
<1> QED
  BY <1>1, <1>2 DEF SyncInv, Change, BufferIsMerged, WritesAreMerged, NoMixture

\* copyFile gives each file it copies what the container saw, a removed file excepted.
LEMMA CopiedLemma ==
    ASSUME NEW f \in Files
    PROVE  View[f] # Absent => Copied(lower[f], upper[f]) = View[f]
  BY DEF View, Copied, Absent

\* The copy, complete or not.
LEMMA SyncCleanStep ==
    ASSUME SyncInv, SyncClean
    PROVE  SyncInv'
<1>1. PICK done \in SUBSET Files : \E bad \in SUBSET done :
        /\ lower' \in [Files -> Contents \cup {Absent, Empty, Torn}]
        /\ \A f \in Files :
              IF f \in bad THEN lower'[f] \in CopiedBadly(lower[f], upper[f])
              ELSE lower'[f] = IF f \in done THEN Copied(lower[f], upper[f]) ELSE lower[f]
        /\ syncPhase' = IF done = Files THEN "synced" ELSE "failed"
        /\ hurt' = bad
  BY DEF SyncClean
<1>2. syncPhase = "mounted" /\ final' = View /\ UNCHANGED <<upper, changes, start>>
  BY DEF SyncClean
<1>3. lower = start
  BY <1>2 DEF SyncInv
<1>4. SyncTypeOK'
  BY <1>1, <1>2 DEF SyncInv, SyncTypeOK
<1>5. WritesAreMerged'
  <2>1. ASSUME syncPhase' = "synced", NEW f \in Files \ hurt', View[f] # Absent
        PROVE  lower'[f] = View[f]
    BY <1>1, <2>1, CopiedLemma
  <2> QED
    BY <1>2, <2>1 DEF WritesAreMerged
<1>6. NoMixture'
  <2>1. ASSUME NEW f \in Files \ hurt', View[f] # Absent
        PROVE  lower'[f] \in {start[f], View[f]}
    BY <1>1, <1>3, <2>1, CopiedLemma
  <2> QED
    BY <1>2, <2>1 DEF NoMixture
<1>7. OtherFilesAreKept'
  <2>1. ASSUME NEW f \in Files, upper[f] = Absent
        PROVE  lower'[f] = start[f]
    <3>1. Copied(lower[f], upper[f]) = lower[f] /\ CopiedBadly(lower[f], upper[f]) = {}
      BY <2>1 DEF Copied, CopiedBadly, Absent
    <3> QED
      BY <1>1, <1>3, <3>1
  <2> QED
    BY <1>2, <2>1 DEF OtherFilesAreKept
<1> QED
  BY <1>1, <1>2, <1>4, <1>5, <1>6, <1>7 DEF SyncInv, BufferIsMerged

\* Every step of the write buffer keeps the invariant.
LEMMA SyncStep ==
    ASSUME SyncInv, SyncNext
    PROVE  SyncInv'
<1>1. CASE OverlayMount
  BY <1>1 DEF OverlayMount, SyncInv, SyncTypeOK, BufferIsMerged, WritesAreMerged, NoMixture, OtherFilesAreKept
<1>2. ASSUME NEW f \in Files, RemoveFile(f)
      PROVE  SyncInv'
  BY <1>2, ChangeStep DEF RemoveFile
<1>3. ASSUME NEW f \in Files, NEW v \in Contents, WriteFile(f, v)
      PROVE  SyncInv'
  BY <1>3, ChangeStep DEF WriteFile
<1>4. CASE SyncClean
  BY <1>4, SyncCleanStep
<1>5. CASE UnmountClean
  BY <1>5 DEF UnmountClean, SyncInv, SyncTypeOK, BufferIsMerged, WritesAreMerged, NoMixture, OtherFilesAreKept
<1>6. CASE SyncDone
  BY <1>6 DEF SyncDone, syncVars, SyncInv, SyncTypeOK, BufferIsMerged, WritesAreMerged, NoMixture, OtherFilesAreKept
<1> QED
  BY <1>1, <1>2, <1>3, <1>4, <1>5, <1>6 DEF SyncNext

\* The inductive invariant of the write buffer.
LEMMA SyncInvariance == FilesSpec => []SyncInv
<1>1. FilesInit => SyncInv
  BY SyncInitInv DEF FilesInit
<1>2. SyncInv /\ [FilesNext]_filesVars => SyncInv'
  <2> SUFFICES ASSUME SyncInv, [FilesNext]_filesVars PROVE SyncInv'
    OBVIOUS
  <2>1. CASE SyncNext
    BY <2>1, SyncStep
  <2>2. CASE UNCHANGED syncVars
    BY <2>2 DEF syncVars, SyncInv, SyncTypeOK, BufferIsMerged, WritesAreMerged, NoMixture, OtherFilesAreKept
  <2> QED
    BY <2>1, <2>2 DEF FilesNext, filesVars
<1> QED
  BY <1>1, <1>2, PTL DEF FilesSpec

\* What OverlaySyncCleanupHandler leaves in the lower directory is, of every file whose own
\* copy met no error, what the container saw, or where ftw did not come what was there
\* before; a file the container did not change is kept whatever fails (BufferIsMerged of
\* OverlaySyncCleanupHandler and RecursiveCopy, for any files, contents and changes).
THEOREM WriteBufferIsMerged == FilesSpec => []BufferIsMerged
<1>1. SyncInv => BufferIsMerged
  BY DEF SyncInv
<1> QED
  BY <1>1, SyncInvariance, PTL

----------------------------------------------------------------------------
(***************************************************************************)
(* Paths.                                                                  *)
(***************************************************************************)
\* A path is a sequence of components, of bounded length and not empty.
LEMMA PathLemma ==
    ASSUME NEW p
    PROVE  p \in Paths <=> p \in Seq(Components) /\ Len(p) \in 1..Depth
<1>1. ASSUME p \in Paths PROVE p \in Seq(Components) /\ Len(p) \in 1..Depth
  <2>1. PICK d \in 1..Depth : p \in [1..d -> Components]
    BY <1>1 DEF Paths
  <2>2. d \in Nat
    BY <2>1, CreateDirAssumption
  <2> QED
    BY <2>1, <2>2
<1>2. ASSUME p \in Seq(Components), Len(p) \in 1..Depth PROVE p \in Paths
  <2>1. p \in [1..Len(p) -> Components]
    BY <1>2
  <2> QED
    BY <1>2, <2>1 DEF Paths
<1> QED
  BY <1>1, <1>2

\* The beginnings of a path are paths.
LEMMA BeginningLemma ==
    ASSUME NEW p \in Paths, NEW k \in 0..Len(p)
    PROVE  /\ Len(SubSeq(p, 1, k)) = k
           /\ \A i \in 1..k : SubSeq(p, 1, k)[i] = p[i]
           /\ k # 0 => SubSeq(p, 1, k) \in Paths /\ SubSeq(p, 1, k) # <<>>
           /\ k = 0 => SubSeq(p, 1, k) = <<>>
           /\ k # 0 => Front(SubSeq(p, 1, k)) = SubSeq(p, 1, k - 1)
<1> DEFINE n == Len(p)  s == SubSeq(p, 1, k)
<1>1. p \in Seq(Components) /\ n \in Nat /\ n <= Depth /\ Depth \in Nat
  BY PathLemma, CreateDirAssumption
<1>2. s \in Seq(Components) /\ Len(s) = k /\ \A i \in 1..k : s[i] = p[i]
  BY <1>1
<1>3. k # 0 => s \in Paths /\ s # <<>>
  <2>1. k # 0 => k \in 1..Depth
    BY <1>1
  <2> QED
    BY <1>2, <2>1, PathLemma
<1>4. k = 0 => s = <<>>
  BY <1>2
<1>5. ASSUME k # 0 PROVE Front(s) = SubSeq(p, 1, k - 1)
  <2>1. k - 1 \in 0..k /\ k - 1 \in 0..n
    BY <1>1, <1>5
  <2>2. Front(s) = SubSeq(s, 1, k - 1)
    BY <1>2 DEF Front
  <2>3. /\ SubSeq(s, 1, k - 1) \in Seq(Components) /\ Len(SubSeq(s, 1, k - 1)) = k - 1
        /\ \A i \in 1..(k - 1) : SubSeq(s, 1, k - 1)[i] = s[i]
    BY <1>2, <2>1
  <2>4. /\ SubSeq(p, 1, k - 1) \in Seq(Components) /\ Len(SubSeq(p, 1, k - 1)) = k - 1
        /\ \A i \in 1..(k - 1) : SubSeq(p, 1, k - 1)[i] = p[i]
    BY <1>1, <2>1
  <2>5. \A i \in 1..(k - 1) : SubSeq(s, 1, k - 1)[i] = SubSeq(p, 1, k - 1)[i]
    BY <1>2, <2>3, <2>4
  <2> QED
    BY <2>2, <2>3, <2>4, <2>5
<1> QED
  BY <1>2, <1>3, <1>4, <1>5

\* One path begins with another: element by element.
LEMMA PrefixLemma ==
    ASSUME NEW q \in Seq(Components), NEW p \in Seq(Components)
    PROVE  IsPrefix(q, p) <=> Len(q) <= Len(p) /\ \A i \in 1..Len(q) : q[i] = p[i]
<1> DEFINE m == Len(q)
<1>1. m \in Nat /\ Len(p) \in Nat
  OBVIOUS
<1>2. SubSeq(q, 1, m) = q
  OBVIOUS
<1>3. ASSUME m <= Len(p)
      PROVE  SubSeq(p, 1, m) \in Seq(Components) /\ Len(SubSeq(p, 1, m)) = m
             /\ \A i \in 1..m : SubSeq(p, 1, m)[i] = p[i]
  BY <1>1, <1>3
<1>4. ASSUME m <= Len(p), \A i \in 1..m : q[i] = p[i]
      PROVE  q = SubSeq(p, 1, m)
  BY <1>3, <1>4
<1>5. ASSUME m <= Len(p), q = SubSeq(p, 1, m)
      PROVE  \A i \in 1..m : q[i] = p[i]
  BY <1>3, <1>5
<1> QED
  BY <1>2, <1>4, <1>5 DEF IsPrefix

\* A path begins with itself and with its beginnings; the relation is transitive.
LEMMA PrefixOrder ==
    ASSUME NEW p \in Paths
    PROVE  /\ IsPrefix(p, p)
           /\ \A q, r \in Paths : IsPrefix(r, q) /\ IsPrefix(q, p) => IsPrefix(r, p)
           /\ Front(p) # <<>> => Front(p) \in Paths /\ IsPrefix(Front(p), p)
<1>1. p \in Seq(Components) /\ Len(p) \in Nat /\ Len(p) # 0
  BY PathLemma
<1>2. IsPrefix(p, p)
  BY <1>1, PrefixLemma
<1>3. ASSUME NEW q \in Paths, NEW r \in Paths, IsPrefix(r, q), IsPrefix(q, p)
      PROVE  IsPrefix(r, p)
  <2>1. q \in Seq(Components) /\ r \in Seq(Components)
    BY PathLemma
  <2>2. Len(r) <= Len(q) /\ \A i \in 1..Len(r) : r[i] = q[i]
    BY <1>3, <2>1, PrefixLemma
  <2>3. Len(q) <= Len(p) /\ \A i \in 1..Len(q) : q[i] = p[i]
    BY <1>1, <1>3, <2>1, PrefixLemma
  <2>4. Len(r) <= Len(p) /\ \A i \in 1..Len(r) : r[i] = p[i]
    BY <1>1, <2>1, <2>2, <2>3
  <2> QED
    BY <1>1, <2>1, <2>4, PrefixLemma
<1>4. ASSUME Front(p) # <<>> PROVE Front(p) \in Paths /\ IsPrefix(Front(p), p)
  <2> DEFINE k == Len(p) - 1
  <2>1. Front(p) = SubSeq(p, 1, k) /\ k \in 0..Len(p)
    BY <1>1 DEF Front
  <2>2. k # 0
    BY <1>4, <2>1, BeginningLemma
  <2>3. Front(p) \in Paths /\ Len(Front(p)) = k /\ \A i \in 1..k : Front(p)[i] = p[i]
    <3> HIDE DEF k
    <3> QED
      BY <2>1, <2>2, BeginningLemma
  <2>4. Front(p) \in Seq(Components)
    BY <2>3, PathLemma
  <2>5. k <= Len(p)
    BY <1>1
  <2> HIDE DEF k
  <2> QED
    BY <1>1, <2>3, <2>4, <2>5, PrefixLemma
<1> QED
  BY <1>2, <1>3, <1>4

\* A set of natural numbers that is not empty has a least element.
LEMMA LeastNumber ==
    ASSUME NEW S \in SUBSET Nat, S # {}
    PROVE  \E n \in S : \A j \in S : n <= j
<1>1. IsWellFoundedOn(OpToRel(<, Nat), Nat)
  BY NatLessThanWellFounded
<1>2. PICK n \in S : \A j \in S : <<j, n>> \notin OpToRel(<, Nat)
  BY <1>1, WFMin
<1>3. \A j \in S : ~(j < n)
  BY <1>2 DEF OpToRel
<1> QED
  BY <1>3

\* In a file system that is a tree, what leads to an entry exists.
LEMMA TreeLemma ==
    ASSUME NEW w, WellFormed(w), NEW p \in Paths, w[p] # "none",
           NEW q \in Paths, IsPrefix(q, p)
    PROVE  w[q] # "none"
<1> SUFFICES ASSUME w[q] = "none" PROVE FALSE
  OBVIOUS
<1> DEFINE n == Len(p)  m == Len(q)  At(j) == SubSeq(p, 1, n - j)
<1>1. /\ p \in Seq(Components) /\ q \in Seq(Components)
      /\ n \in Nat /\ m \in Nat /\ m # 0 /\ m <= n
      /\ \A i \in 1..m : q[i] = p[i]
  BY PathLemma, PrefixLemma
<1>2. At(0) = p
  BY <1>1
<1>3. At(n - m) = q
  <2>1. n - (n - m) = m
    BY <1>1
  <2>2. /\ SubSeq(p, 1, m) \in Seq(Components) /\ Len(SubSeq(p, 1, m)) = m
        /\ \A i \in 1..m : SubSeq(p, 1, m)[i] = p[i]
    BY <1>1
  <2>3. SubSeq(p, 1, m) = q
    BY <1>1, <2>2
  <2> QED
    BY <2>1, <2>3
<1>4. ASSUME NEW j \in 0..(n - m), j # 0
      PROVE  At(j - 1) \in Paths /\ Front(At(j - 1)) = At(j) /\ At(j) # <<>>
  <2>1. n - (j - 1) \in 0..Len(p) /\ n - (j - 1) # 0 /\ n - (j - 1) - 1 = n - j
    BY <1>1, <1>4
  <2>2. n - j \in 0..Len(p) /\ n - j # 0
    BY <1>1, <1>4
  <2> DEFINE a == n - (j - 1)  b == n - j
  <2>3. a \in 0..Len(p) /\ a # 0 /\ b \in 0..Len(p) /\ b # 0 /\ a - 1 = b
    BY <2>1, <2>2
  <2> HIDE DEF a, b, n
  <2>4. SubSeq(p, 1, a) \in Paths /\ Front(SubSeq(p, 1, a)) = SubSeq(p, 1, a - 1)
    BY <2>3, BeginningLemma
  <2>5. SubSeq(p, 1, b) # <<>>
    BY <2>3, BeginningLemma
  <2> QED
    BY <2>3, <2>4, <2>5 DEF a, b
<1> HIDE DEF At
<1> DEFINE S == {j \in 0..(n - m) : w[At(j)] = "none"}
<1>5. n - m \in S /\ S \in SUBSET Nat
  BY <1>1, <1>3
<1>6. PICK j \in S : \A i \in S : j <= i
  BY <1>5, LeastNumber
<1>7. j # 0 /\ j \in 0..(n - m) /\ w[At(j)] = "none"
  BY <1>2, <1>6
<1>8. j - 1 \in 0..(n - m) /\ j - 1 \notin S
  BY <1>1, <1>6, <1>7
<1>9. w[At(j - 1)] # "none"
  BY <1>8
<1>10. w[At(j)] = "dir"
  BY <1>4, <1>7, <1>9 DEF WellFormed, IsDirectory
<1> QED
  BY <1>7, <1>10

----------------------------------------------------------------------------
(***************************************************************************)
(* CreateDir.  To be exact when the objects are destroyed in any order, one*)
(* below the other, it takes that nothing registered was there before, and *)
(* that what was there before is a tree: then RecursiveDelete of something *)
(* registered reaches nothing that was there.                              *)
(***************************************************************************)
Entries == {"none", "dir", "file"}

DirInv ==
    /\ CreateDirTypeOK
    /\ before \in [Paths -> Entries] /\ WellFormed(before)
    /\ \A c \in Creators : \A q \in cleaners[c] : before[q] = "none"
    /\ DirectoriesAreRestored

\* Nothing is made or registered at first.
LEMMA DirInitInv == CreateDirInit => DirInv
  BY DEF CreateDirInit, DirInv, CreateDirTypeOK, Entries, DirectoriesAreRestored,
         OthersAreKept, NothingIsForgotten

\* Directories made in existing ones or in one another, where there was nothing, and
\* registered with an object.
LEMMA MadeLemma ==
    ASSUME DirInv, NEW c \in alive, NEW S \in SUBSET Paths,
           \A q \in S : node[q] = "none" /\ (Front(q) \in S \/ IsDirectory(node, Front(q))),
           node' = [p \in Paths |-> IF p \in S THEN "dir" ELSE node[p]],
           cleaners' = [cleaners EXCEPT ![c] = @ \cup S],
           UNCHANGED <<alive, before>>
    PROVE  DirInv'
<1>1. /\ node \in [Paths -> Entries] /\ WellFormed(node)
      /\ cleaners \in [Creators -> SUBSET Paths] /\ alive \subseteq Creators
      /\ before \in [Paths -> Entries] /\ WellFormed(before)
      /\ \A d \in Creators : \A q \in cleaners[d] : before[q] = "none"
  BY DEF DirInv, CreateDirTypeOK, Entries
<1>2. OthersAreKept /\ NothingIsForgotten
  BY DEF DirInv, DirectoriesAreRestored
<1>3. /\ node' \in [Paths -> Entries]
      /\ \A p \in S : node'[p] = "dir"
      /\ \A p \in Paths : p \notin S => node'[p] = node[p]
  BY <1>1 DEF Entries
<1>4. /\ cleaners' \in [Creators -> SUBSET Paths] /\ c \in Creators
      /\ cleaners'[c] = cleaners[c] \cup S
      /\ \A d \in Creators : d # c => cleaners'[d] = cleaners[d]
  BY <1>1
<1>5. WellFormed(node)'
  <2> SUFFICES ASSUME NEW p \in Paths, node'[p] # "none", Front(p) # <<>>
               PROVE  node'[Front(p)] = "dir"
    BY DEF WellFormed, IsDirectory
  <2>1. Front(p) \in Paths
    BY PrefixOrder
  <2>2. Front(p) \in S \/ node[Front(p)] = "dir"
    BY <1>1, <1>3 DEF WellFormed, IsDirectory
  <2> QED
    BY <1>3, <2>1, <2>2
<1>6. \A p \in S : before[p] = "none"
  BY <1>2 DEF OthersAreKept
<1>7. OthersAreKept'
  BY <1>2, <1>3, <1>6 DEF OthersAreKept
<1>8. NothingIsForgotten'
  <2> SUFFICES ASSUME NEW p \in Paths, node'[p] # "none", before[p] = "none"
               PROVE  \E d \in alive : \E q \in cleaners'[d] : IsPrefix(q, p)
    BY DEF NothingIsForgotten
  <2>1. CASE p \in S
    BY <1>4, <2>1, PrefixOrder
  <2>2. CASE p \notin S
    <3>1. PICK d \in alive : \E q \in cleaners[d] : IsPrefix(q, p)
      BY <1>2, <1>3, <2>2 DEF NothingIsForgotten
    <3>2. cleaners[d] \subseteq cleaners'[d]
      BY <1>1, <1>4
    <3> QED
      BY <3>1, <3>2
  <2> QED
    BY <2>1, <2>2
<1>9. \A d \in Creators : \A q \in cleaners'[d] : before[q] = "none"
  BY <1>1, <1>4, <1>6
<1>10. WellFormed(before)' /\ before' \in [Paths -> Entries]
  BY <1>1 DEF WellFormed, IsDirectory
<1> QED
  BY <1>1, <1>3, <1>4, <1>5, <1>7, <1>8, <1>9, <1>10
     DEF DirInv, CreateDirTypeOK, DirectoriesAreRestored, Entries

\* Of the beginnings of a path, the root among them, there is a last one that is a
\* directory; Missing are those after it.
LEMMA MissingLemma ==
    ASSUME NEW p \in Paths
    PROVE  \E first \in 0..Len(p) :
             /\ IsDirectory(node, SubSeq(p, 1, first))
             /\ Missing(p) = [k \in 1..(Len(p) - first) |-> SubSeq(p, 1, first + k)]
<1> DEFINE n == Len(p)
           Is(k) == IsDirectory(node, SubSeq(p, 1, k))
           LastIs(k) == Is(k) /\ \A j \in (k + 1)..n : ~Is(j)
           S == {j \in 0..n : Is(n - j)}
<1>1. n \in Nat
  BY PathLemma
<1>2. Is(0)
  BY <1>1, BeginningLemma DEF IsDirectory
<1> HIDE DEF n, Is
<1>3. n \in S /\ S \in SUBSET Nat
  <2>1. n - n = 0
    BY <1>1
  <2> QED
    BY <1>1, <1>2, <2>1
<1>4. PICK m \in S : \A j \in S : m <= j
  BY <1>3, LeastNumber
<1>5. n - m \in 0..n /\ Is(n - m)
  BY <1>1, <1>4
<1>6. ASSUME NEW j \in (n - m + 1)..n PROVE ~Is(j)
  <2>1. n - j \in 0..n /\ ~(m <= n - j) /\ n - (n - j) = j
    BY <1>1, <1>4
  <2> QED
    BY <1>4, <2>1
<1>7. \E k \in 0..n : LastIs(k)
  BY <1>5, <1>6
<1> DEFINE first == CHOOSE k \in 0..n : LastIs(k)
<1>8. first \in 0..n /\ LastIs(first)
  BY <1>7
<1>9. Missing(p) = [k \in 1..(Len(p) - first) |-> SubSeq(p, 1, first + k)]
  BY DEF Missing, n, Is
<1> HIDE DEF first
<1> QED
  BY <1>8, <1>9 DEF n, Is

\* createDirectory, which may stop half-way.
LEMMA CreateDirectoryStep ==
    ASSUME DirInv, NEW c \in Creators, NEW p \in Paths, CreateDirectory(c, p)
    PROVE  DirInv'
<1>1. PICK first \in 0..Len(p) :
        /\ IsDirectory(node, SubSeq(p, 1, first))
        /\ Missing(p) = [k \in 1..(Len(p) - first) |-> SubSeq(p, 1, first + k)]
  BY MissingLemma
<1> DEFINE n == Len(p) - first
<1>2. Len(p) \in Nat /\ n \in Nat
  BY <1>1, PathLemma
<1>3. \A k \in 1..n : /\ SubSeq(p, 1, first + k) \in Paths
                      /\ Front(SubSeq(p, 1, first + k)) = SubSeq(p, 1, first + (k - 1))
  <2> SUFFICES ASSUME NEW k \in 1..n
               PROVE  /\ SubSeq(p, 1, first + k) \in Paths
                      /\ Front(SubSeq(p, 1, first + k)) = SubSeq(p, 1, first + (k - 1))
    OBVIOUS
  <2>1. first + k \in 0..Len(p) /\ first + k # 0 /\ (first + k) - 1 = first + (k - 1)
    BY <1>2
  <2> QED
    BY <2>1, BeginningLemma
<1> HIDE DEF n
<1>4. Missing(p) \in Seq(Paths) /\ Len(Missing(p)) = n
  <2>1. Missing(p) = [k \in 1..n |-> SubSeq(p, 1, first + k)]
    BY <1>1 DEF n
  <2>2. Missing(p) \in [1..n -> Paths]
    BY <1>3, <2>1
  <2> QED
    BY <1>2, <2>2
<1>5. \A k \in 1..n : Missing(p)[k] = SubSeq(p, 1, first + k)
  BY <1>1 DEF n
<1> DEFINE Some(l) == SubSeq(Missing(p), 1, l)
<1>6. PICK l \in 0..Len(Missing(p)) :
        /\ \A q \in Range(Some(l)) : node[q] = "none"
        /\ node' = Made(node, Some(l))
        /\ cleaners' = [cleaners EXCEPT ![c] = Registered(@, Some(l), p)]
  BY DEF CreateDirectory
<1>7. /\ Some(l) \in Seq(Paths) /\ Len(Some(l)) = l /\ l \in 0..n
      /\ \A k \in 1..l : Some(l)[k] = Missing(p)[k]
  BY <1>2, <1>4, <1>6
<1> DEFINE S == Range(Some(l))
<1>8. S = {SubSeq(p, 1, first + k) : k \in 1..l}
  <2>1. S = {Some(l)[k] : k \in 1..l}
    <3>1. DOMAIN Some(l) = 1..l
      BY <1>7
    <3> HIDE DEF Some
    <3> QED
      BY <3>1 DEF Range
  <2>2. \A k \in 1..l : Some(l)[k] = SubSeq(p, 1, first + k)
    BY <1>2, <1>5, <1>7
  <2> HIDE DEF Some, S
  <2> QED
    BY <2>1, <2>2
<1>9. S \in SUBSET Paths
  <2>1. \A k \in 1..l : k \in 1..n
    BY <1>2, <1>7
  <2> HIDE DEF S
  <2> QED
    BY <1>3, <1>8, <2>1
<1>10. ASSUME NEW q \in S PROVE Front(q) \in S \/ IsDirectory(node, Front(q))
  <2>1. PICK k \in 1..l : q = SubSeq(p, 1, first + k)
    BY <1>8, <1>10
  <2>2. Front(q) = SubSeq(p, 1, first + (k - 1))
    <3>1. k \in 1..n
      BY <1>2, <1>7, <2>1
    <3> QED
      BY <1>3, <2>1, <3>1
  <2>3. CASE k = 1
    <3>1. first + (k - 1) = first
      BY <1>1, <1>2, <2>3
    <3> QED
      BY <1>1, <2>2, <3>1
  <2>4. CASE k # 1
    <3>1. k - 1 \in 1..l
      BY <1>7, <2>1, <2>4
    <3> QED
      BY <1>8, <2>2, <3>1
  <2> QED
    BY <2>3, <2>4
<1>11. /\ c \in alive /\ UNCHANGED <<alive, before>>
       /\ node' = [r \in Paths |-> IF r \in S THEN "dir" ELSE node[r]]
       /\ cleaners' = [cleaners EXCEPT ![c] = @ \cup S]
       /\ \A q \in S : node[q] = "none"
  BY <1>6 DEF CreateDirectory, Made, Registered
<1> HIDE DEF S
<1> QED
  BY <1>9, <1>10, <1>11, MadeLemma

\* createTempDirectoryFromTemplate
LEMMA CreateTempStep ==
    ASSUME DirInv, NEW c \in Creators, NEW p \in Paths, CreateTempDirectoryFromTemplate(c, p)
    PROVE  DirInv'
<1> DEFINE S == {p}
<1>1. Range(<<p>>) = S
  BY DEF Range
<1>2. /\ c \in alive /\ UNCHANGED <<alive, before>>
      /\ node[p] = "none" /\ IsDirectory(node, Front(p))
      /\ node' = [r \in Paths |-> IF r \in S THEN "dir" ELSE node[r]]
      /\ cleaners' = [cleaners EXCEPT ![c] = @ \cup S]
  BY <1>1 DEF CreateTempDirectoryFromTemplate, Made
<1>3. S \in SUBSET Paths
  OBVIOUS
<1>4. \A q \in S : node[q] = "none" /\ (Front(q) \in S \/ IsDirectory(node, Front(q)))
  BY <1>2
<1> HIDE DEF S
<1> QED
  BY <1>2, <1>3, <1>4, MadeLemma

\* ~CreateDir: the tree below everything registered is taken away.
LEMMA DestroyStep ==
    ASSUME DirInv, NEW c \in Creators, DestroyCreateDir(c)
    PROVE  DirInv'
<1> DEFINE Removed(p) == \E q \in cleaners[c] : IsPrefix(q, p)
<1>1. /\ node \in [Paths -> Entries] /\ WellFormed(node)
      /\ cleaners \in [Creators -> SUBSET Paths] /\ alive \subseteq Creators
      /\ before \in [Paths -> Entries] /\ WellFormed(before)
      /\ \A d \in Creators : \A q \in cleaners[d] : before[q] = "none"
  BY DEF DirInv, CreateDirTypeOK, Entries
<1>2. OthersAreKept /\ NothingIsForgotten
  BY DEF DirInv, DirectoriesAreRestored
<1>3. alive' = alive \ {c} /\ UNCHANGED before /\ cleaners' = [cleaners EXCEPT ![c] = {}]
  BY DEF DestroyCreateDir
<1>4. node' = [p \in Paths |-> IF Removed(p) THEN "none" ELSE node[p]]
  <2>1. \A p \in Paths : p \in UNION {Del(q) : q \in cleaners[c]} <=> Removed(p)
    BY DEF Del
  <2> QED
    BY <2>1 DEF DestroyCreateDir, Cleaned
<1>5. /\ node' \in [Paths -> Entries]
      /\ \A p \in Paths : Removed(p) => node'[p] = "none"
      /\ \A p \in Paths : ~Removed(p) => node'[p] = node[p]
  <2> HIDE DEF Removed
  <2> QED
    BY <1>1, <1>4 DEF Entries
<1>6. /\ cleaners' \in [Creators -> SUBSET Paths]
      /\ \A d \in Creators : d # c => cleaners'[d] = cleaners[d]
      /\ cleaners'[c] = {}
  BY <1>1, <1>3
<1>7. WellFormed(node)'
  <2> SUFFICES ASSUME NEW p \in Paths, node'[p] # "none", Front(p) # <<>>
               PROVE  node'[Front(p)] = "dir"
    BY DEF WellFormed, IsDirectory
  <2>1. Front(p) \in Paths /\ IsPrefix(Front(p), p)
    BY PrefixOrder
  <2>2. ~Removed(p) /\ node[p] # "none"
    BY <1>5
  <2>3. ~Removed(Front(p))
    BY <1>1, <2>1, <2>2, PrefixOrder
  <2>4. node[Front(p)] = "dir"
    BY <1>1, <2>2 DEF WellFormed, IsDirectory
  <2> QED
    BY <1>5, <2>1, <2>3, <2>4
<1>8. OthersAreKept'
  <2> SUFFICES ASSUME NEW p \in Paths, before[p] # "none" PROVE node'[p] = before[p]
    BY <1>3 DEF OthersAreKept
  <2>1. ~Removed(p)
    <3> SUFFICES ASSUME NEW q \in cleaners[c], IsPrefix(q, p) PROVE FALSE
      OBVIOUS
    <3>1. q \in Paths /\ before[q] = "none"
      BY <1>1
    <3> QED
      BY <1>1, <3>1, TreeLemma
  <2> QED
    BY <1>2, <1>5, <2>1 DEF OthersAreKept
<1>9. NothingIsForgotten'
  <2> SUFFICES ASSUME NEW p \in Paths, node'[p] # "none", before[p] = "none"
               PROVE  \E d \in alive' : \E q \in cleaners'[d] : IsPrefix(q, p)
    BY <1>3 DEF NothingIsForgotten
  <2>1. ~Removed(p) /\ node[p] # "none"
    BY <1>5
  <2>2. PICK d \in alive : \E q \in cleaners[d] : IsPrefix(q, p)
    BY <1>2, <2>1 DEF NothingIsForgotten
  <2>3. d # c
    BY <2>1, <2>2
  <2> QED
    BY <1>1, <1>3, <1>6, <2>2, <2>3
<1>10. \A d \in Creators : \A q \in cleaners'[d] : before[q] = "none"
  BY <1>1, <1>6
<1>11. WellFormed(before)' /\ before' \in [Paths -> Entries]
  BY <1>1, <1>3 DEF WellFormed, IsDirectory
<1>12. alive' \subseteq Creators
  BY <1>1, <1>3
<1> QED
  BY <1>3, <1>5, <1>6, <1>7, <1>8, <1>9, <1>10, <1>11, <1>12
     DEF DirInv, CreateDirTypeOK, DirectoriesAreRestored, Entries

\* Files appear below what is registered only: they go with it.
LEMMA FileAppearsStep ==
    ASSUME DirInv, NEW p \in Paths, FileAppears(p)
    PROVE  DirInv'
<1>1. /\ node \in [Paths -> Entries] /\ WellFormed(node)
      /\ OthersAreKept /\ NothingIsForgotten
  BY DEF DirInv, CreateDirTypeOK, DirectoriesAreRestored, Entries
<1>2. /\ node[p] = "none" /\ IsDirectory(node, Front(p))
      /\ \E c \in alive : \E q \in cleaners[c] : IsPrefix(q, p)
      /\ node' = [node EXCEPT ![p] = "file"] /\ UNCHANGED <<cleaners, alive, before>>
  BY DEF FileAppears
<1>3. /\ node' \in [Paths -> Entries] /\ node'[p] = "file"
      /\ \A r \in Paths : r # p => node'[r] = node[r]
  BY <1>1, <1>2 DEF Entries
<1>4. WellFormed(node)'
  <2> SUFFICES ASSUME NEW r \in Paths, node'[r] # "none", Front(r) # <<>>
               PROVE  node'[Front(r)] = "dir"
    BY DEF WellFormed, IsDirectory
  <2>1. Front(r) \in Paths
    BY PrefixOrder
  <2>2. node[Front(r)] = "dir"
    BY <1>1, <1>2, <1>3 DEF WellFormed, IsDirectory
  <2> QED
    BY <1>2, <1>3, <2>1, <2>2
<1>5. OthersAreKept'
  BY <1>1, <1>2, <1>3 DEF OthersAreKept
<1>6. NothingIsForgotten'
  BY <1>1, <1>2, <1>3 DEF NothingIsForgotten
<1>7. WellFormed(before)'
  BY <1>2 DEF DirInv, WellFormed, IsDirectory
<1> QED
  BY <1>2, <1>3, <1>4, <1>5, <1>6, <1>7
     DEF DirInv, CreateDirTypeOK, DirectoriesAreRestored, Entries

\* The inductive invariant of the directories.
LEMMA DirInvariance == FilesSpec => []DirInv
<1>1. FilesInit => DirInv
  BY DirInitInv DEF FilesInit
<1>2. DirInv /\ [FilesNext]_filesVars => DirInv'
  <2> SUFFICES ASSUME DirInv, [FilesNext]_filesVars PROVE DirInv'
    OBVIOUS
  <2>1. ASSUME NEW c \in Creators, NEW p \in Paths,
               CreateDirectory(c, p) \/ CreateTempDirectoryFromTemplate(c, p)
        PROVE  DirInv'
    BY <2>1, CreateDirectoryStep, CreateTempStep
  <2>2. ASSUME NEW c \in Creators, DestroyCreateDir(c) PROVE DirInv'
    BY <2>2, DestroyStep
  <2>3. ASSUME NEW p \in Paths, FileAppears(p) PROVE DirInv'
    BY <2>3, FileAppearsStep
  <2>4. CASE UNCHANGED createDirVars
    <3>1. WellFormed(node)' /\ WellFormed(before)'
      BY <2>4 DEF createDirVars, DirInv, CreateDirTypeOK, WellFormed, IsDirectory
    <3> QED
      BY <2>4, <3>1 DEF createDirVars, DirInv, CreateDirTypeOK, DirectoriesAreRestored,
                        OthersAreKept, NothingIsForgotten
  <2>5. CASE CreateDirNext
    BY <2>1, <2>2, <2>3, <2>4, <2>5 DEF CreateDirNext, CreateDirDone
  <2> QED
    BY <2>4, <2>5 DEF FilesNext, filesVars
<1> QED
  BY <1>1, <1>2, PTL DEF FilesSpec

\* The clean-up of the CreateDir objects is exact, in whatever order they are used and
\* destroyed: what was there before is kept, and what they made is registered with one
\* that still lives, in trees of any depth and with any number of objects.
THEOREM CreateDirIsExact == FilesSpec => []DirectoriesAreRestored
<1>1. DirInv => DirectoriesAreRestored
  BY DEF DirInv
<1> QED
  BY <1>1, DirInvariance, PTL

----------------------------------------------------------------------------
(***************************************************************************)
(* The bind mounts.  A call touches the mounts of one name only, makes one *)
(* at most, and keeps the books of all of them in order.                   *)
(***************************************************************************)
FsRec == [mounts : Seq(MountRec), node : [Names -> {"none", "dir", "file"}],
          handlers : Seq(HandlerRec), dirs : SUBSET Names, uppers : SUBSET Nat,
          deleted : SUBSET Sources, written : SUBSET Sources]

Typed(w) == w \in FsRec /\ w.uppers \subseteq {i \in DOMAIN w.mounts : w.mounts[i].buffered}

\* A mount is seen under its own name only, is buffered if it has to be, and then has
\* its upper directory.
InOrder(w) ==
    \A i \in DOMAIN w.mounts :
        /\ w.mounts[i].at # Nowhere => w.mounts[i].at.name = w.mounts[i].name
        /\ w.mounts[i].host /\ w.mounts[i].buffered => i \in w.uppers
        /\ wb /\ w.mounts[i].src \in DirSources => w.mounts[i].buffered

\* From w to u, only mounts of the name n were changed or made.
Touched(w, u, n) ==
    /\ Len(u.mounts) >= Len(w.mounts)
    /\ \A i \in DOMAIN w.mounts :
         /\ u.mounts[i].name = w.mounts[i].name
         /\ w.mounts[i].name # n => u.mounts[i] = w.mounts[i]
    /\ \A i \in DOMAIN u.mounts : i > Len(w.mounts) => u.mounts[i].name = n

\* u is w after a part of a call for the name n.
InCall(w, u, n) ==
    /\ Typed(u) /\ InOrder(u) /\ Touched(w, u, n)
    /\ u.handlers = w.handlers /\ u.deleted = w.deleted

\* What the call has mounted, at most one, is on top of what was there.
Stacked(w, u, n) ==
    /\ Len(u.mounts) <= Len(w.mounts) + 1
    /\ OnHost(u, n) = OnHost(w, n) \cup ((Len(w.mounts) + 1)..Len(u.mounts))

\* The greatest number of a set.
LEMMA GreatestLemma ==
    ASSUME NEW k \in Nat, NEW S \in SUBSET (1..k), S # {}
    PROVE  Max(S) \in S /\ \A x \in S : x <= Max(S)
<1> DEFINE T == {k - x : x \in S}
<1>1. T \in SUBSET Nat /\ T # {}
  <2>1. ASSUME NEW x \in S PROVE k - x \in Nat
    <3>1. x \in 1..k
      OBVIOUS
    <3> QED
      BY <3>1
  <2>2. PICK x \in S : TRUE
    OBVIOUS
  <2>3. k - x \in T
    OBVIOUS
  <2> QED
    BY <2>1, <2>3
<1>2. PICK l \in T : \A j \in T : l <= j
  BY <1>1, LeastNumber
<1>3. PICK m \in S : l = k - m
  BY <1>2
<1>4. \A x \in S : m >= x
  <2> SUFFICES ASSUME NEW x \in S PROVE m >= x
    OBVIOUS
  <2>1. k - x \in T
    OBVIOUS
  <2>2. k - m <= k - x
    BY <1>2, <1>3, <2>1
  <2>3. x \in 1..k /\ m \in 1..k
    OBVIOUS
  <2> QED
    BY <2>2, <2>3
<1>5. \E x \in S : \A y \in S : x >= y
  BY <1>4
<1> DEFINE M == CHOOSE x \in S : \A y \in S : x >= y
<1>6. M \in S /\ \A y \in S : M >= y
  BY <1>5
<1> HIDE DEF M
<1>7. \A x \in S : x <= M
  BY <1>6
<1> QED
  BY <1>6, <1>7 DEF Max, M

\* The greatest number of a set that holds the bound of its numbers.
LEMMA TopLemma ==
    ASSUME NEW k \in Nat, NEW S \in SUBSET (1..k), k \in S
    PROVE  Max(S) = k
<1>1. Max(S) \in S /\ \A x \in S : x <= Max(S)
  BY GreatestLemma
<1> DEFINE m == Max(S)
<1> HIDE DEF m
<1>2. m \in 1..k /\ k <= m
  BY <1>1 DEF m
<1> QED
  BY <1>2 DEF m

\* The books of Typed, one by one.
LEMMA TypedLemma ==
    ASSUME NEW w, Typed(w)
    PROVE  /\ w.mounts \in Seq(MountRec) /\ Len(w.mounts) \in Nat
           /\ DOMAIN w.mounts = 1..Len(w.mounts)
           /\ \A i \in DOMAIN w.mounts : w.mounts[i] \in MountRec
  BY DEF Typed, FsRec

\* Changing mounts of one name is transitive.
LEMMA TouchedTrans ==
    ASSUME NEW w, NEW u, NEW v, NEW n, Typed(w), Typed(u), Typed(v),
           Touched(w, u, n), Touched(u, v, n)
    PROVE  Touched(w, v, n)
<1>1. /\ DOMAIN w.mounts = 1..Len(w.mounts) /\ DOMAIN u.mounts = 1..Len(u.mounts)
      /\ DOMAIN v.mounts = 1..Len(v.mounts)
      /\ Len(w.mounts) \in Nat /\ Len(u.mounts) \in Nat /\ Len(v.mounts) \in Nat
  BY TypedLemma
<1> DEFINE a == Len(w.mounts)
           b == Len(u.mounts)
           c == Len(v.mounts)
<1>2. a \in Nat /\ b \in Nat /\ c \in Nat /\ b >= a /\ c >= b
  BY <1>1 DEF Touched
<1> HIDE DEF a, b, c
<1>3. c >= a /\ 1..a \subseteq 1..b /\ 1..b \subseteq 1..c
  BY <1>2
<1>4. DOMAIN w.mounts = 1..a /\ DOMAIN u.mounts = 1..b /\ DOMAIN v.mounts = 1..c
  BY <1>1 DEF a, b, c
<1>5. ASSUME NEW i \in 1..a
      PROVE  /\ v.mounts[i].name = w.mounts[i].name
             /\ w.mounts[i].name # n => v.mounts[i] = w.mounts[i]
  <2>1. i \in 1..b
    BY <1>3
  <2> QED
    BY <1>4, <2>1 DEF Touched
<1>6. ASSUME NEW i \in 1..c, i > a PROVE v.mounts[i].name = n
  <2>1. CASE i > b
    BY <1>4, <1>6, <2>1 DEF Touched, b
  <2>2. CASE ~(i > b)
    <3>1. i \in 1..b
      BY <1>2, <2>2
    <3> QED
      BY <1>4, <1>6, <3>1 DEF Touched, a
  <2> QED
    BY <2>1, <2>2
<1> QED
  BY <1>3, <1>4, <1>5, <1>6 DEF Touched, a, b, c

\* u is w with m in the place of the mount k.
Replaced(w, u, k, m) ==
    k \in DOMAIN w.mounts /\ u = [w EXCEPT !.mounts = [w.mounts EXCEPT ![k] = m]]

\* What replacing a mount changes.
LEMMA ReplacedMounts ==
    ASSUME NEW w, NEW u, NEW k, NEW m \in MountRec, w \in FsRec, Replaced(w, u, k, m)
    PROVE  /\ u \in FsRec /\ u.mounts \in Seq(MountRec)
           /\ u.mounts[k] = m /\ Len(u.mounts) = Len(w.mounts)
           /\ DOMAIN u.mounts = DOMAIN w.mounts
           /\ \A i \in DOMAIN w.mounts : i # k => u.mounts[i] = w.mounts[i]
           /\ u.handlers = w.handlers /\ u.deleted = w.deleted /\ u.uppers = w.uppers
           /\ u.node = w.node /\ u.written = w.written /\ u.dirs = w.dirs
<1> DEFINE s == [w.mounts EXCEPT ![k] = m]
<1>1. w.mounts \in Seq(MountRec) /\ k \in 1..Len(w.mounts)
  BY DEF FsRec, Replaced
<1>2. /\ s \in Seq(MountRec) /\ s[k] = m /\ Len(s) = Len(w.mounts)
      /\ DOMAIN s = DOMAIN w.mounts
      /\ \A i \in DOMAIN w.mounts : i # k => s[i] = w.mounts[i]
  BY <1>1
<1> HIDE DEF s
<1>3. u = [w EXCEPT !.mounts = s]
  BY DEF Replaced, s
<1>4. u.mounts = s
  BY <1>3 DEF FsRec
<1>5. u \in FsRec
  BY <1>2, <1>3 DEF FsRec
<1>6. /\ u.handlers = w.handlers /\ u.deleted = w.deleted /\ u.uppers = w.uppers
      /\ u.node = w.node /\ u.written = w.written /\ u.dirs = w.dirs
  BY <1>3 DEF FsRec
<1> QED
  BY <1>2, <1>4, <1>5, <1>6

\* A mount may be moved, made read-only or unmounted in its place.
Changes(m, x, n) ==
    /\ x \in MountRec /\ m.name = n /\ x.name = n /\ x.src = m.src /\ x.buffered = m.buffered
    /\ x.host => m.host
    /\ x.at # Nowhere => x.at.name = n

\* Such a change keeps the rest of the call's state.
LEMMA ChangeInCall ==
    ASSUME NEW w, NEW u, NEW k, NEW m, NEW n, Typed(w), InOrder(w), Replaced(w, u, k, m),
           Changes(w.mounts[k], m, n)
    PROVE  InCall(w, u, n)
<1>1. k \in DOMAIN w.mounts /\ m \in MountRec /\ w \in FsRec
  BY DEF Replaced, Changes, Typed
<1>2. /\ u \in FsRec
      /\ u.mounts[k] = m /\ Len(u.mounts) = Len(w.mounts)
      /\ DOMAIN u.mounts = DOMAIN w.mounts
      /\ \A i \in DOMAIN w.mounts : i # k => u.mounts[i] = w.mounts[i]
      /\ u.handlers = w.handlers /\ u.deleted = w.deleted /\ u.uppers = w.uppers
  BY <1>1, ReplacedMounts
<1>3. Typed(u)
  BY <1>1, <1>2 DEF Typed, Changes
<1>4. InOrder(u)
  <2> SUFFICES ASSUME NEW i \in DOMAIN u.mounts
               PROVE  /\ u.mounts[i].at # Nowhere => u.mounts[i].at.name = u.mounts[i].name
                      /\ u.mounts[i].host /\ u.mounts[i].buffered => i \in u.uppers
                      /\ wb /\ u.mounts[i].src \in DirSources => u.mounts[i].buffered
    BY DEF InOrder
  <2>1. CASE i = k
    BY <1>1, <1>2, <2>1 DEF InOrder, Changes
  <2>2. CASE i # k
    BY <1>1, <1>2, <2>2 DEF InOrder
  <2> QED
    BY <2>1, <2>2
<1>5. Touched(w, u, n)
  <2>1. Len(w.mounts) \in Nat /\ DOMAIN w.mounts = 1..Len(w.mounts)
    BY TypedLemma
  <2>2. Len(u.mounts) >= Len(w.mounts)
    BY <1>2, <2>1
  <2>3. ASSUME NEW i \in DOMAIN w.mounts
        PROVE  /\ u.mounts[i].name = w.mounts[i].name
               /\ w.mounts[i].name # n => u.mounts[i] = w.mounts[i]
    BY <1>1, <1>2 DEF Changes
  <2>4. ASSUME NEW i \in DOMAIN u.mounts, i > Len(w.mounts) PROVE u.mounts[i].name = n
    BY <1>2, <2>1, <2>4
  <2> QED
    BY <2>2, <2>3, <2>4 DEF Touched
<1> QED
  BY <1>2, <1>3, <1>4, <1>5 DEF InCall

\* What is on the host after a change: the same, or all but that mount.
LEMMA ChangeOnHost ==
    ASSUME NEW w, NEW u, NEW k, NEW m, NEW n, Typed(w), Replaced(w, u, k, m),
           Changes(w.mounts[k], m, n)
    PROVE  \A i : i # k => (i \in OnHost(u, n) <=> i \in OnHost(w, n))
<1>1. k \in DOMAIN w.mounts /\ m \in MountRec /\ w \in FsRec
  BY DEF Replaced, Changes, Typed
<1>2. /\ DOMAIN u.mounts = DOMAIN w.mounts
      /\ \A i \in DOMAIN w.mounts : i # k => u.mounts[i] = w.mounts[i]
  BY <1>1, ReplacedMounts
<1> QED
  BY <1>2 DEF OnHost

\* A mount that stays on the host.
LEMMA ChangeStays ==
    ASSUME NEW w, NEW u, NEW k, NEW m, NEW n, Typed(w), Replaced(w, u, k, m),
           Changes(w.mounts[k], m, n), m.host <=> w.mounts[k].host
    PROVE  OnHost(u, n) = OnHost(w, n)
<1>1. k \in DOMAIN w.mounts /\ m \in MountRec /\ w \in FsRec
  BY DEF Replaced, Changes, Typed
<1>2. u.mounts[k] = m /\ DOMAIN u.mounts = DOMAIN w.mounts
  BY <1>1, ReplacedMounts
<1>3. k \in OnHost(u, n) <=> k \in OnHost(w, n)
  BY <1>1, <1>2 DEF OnHost, Changes
<1>4. \A i : i # k => (i \in OnHost(u, n) <=> i \in OnHost(w, n))
  BY ChangeOnHost
<1> QED
  BY <1>3, <1>4

\* A mount that goes.
LEMMA ChangeLifts ==
    ASSUME NEW w, NEW u, NEW k, NEW m, NEW n, Typed(w), Replaced(w, u, k, m),
           Changes(w.mounts[k], m, n), ~m.host
    PROVE  OnHost(u, n) = OnHost(w, n) \ {k}
<1>1. k \in DOMAIN w.mounts /\ m \in MountRec /\ w \in FsRec
  BY DEF Replaced, Changes, Typed
<1>2. u.mounts[k] = m
  BY <1>1, ReplacedMounts
<1>3. k \notin OnHost(u, n)
  BY <1>2 DEF OnHost
<1>4. \A i : i # k => (i \in OnHost(u, n) <=> i \in OnHost(w, n))
  BY ChangeOnHost
<1> QED
  BY <1>3, <1>4

\* Nothing done.
LEMMA InCallRefl ==
    ASSUME NEW w, NEW n, Typed(w), InOrder(w)
    PROVE  InCall(w, w, n) /\ Stacked(w, w, n)
<1>1. Len(w.mounts) \in Nat /\ DOMAIN w.mounts = 1..Len(w.mounts)
  BY TypedLemma
<1>2. Touched(w, w, n)
  BY <1>1 DEF Touched
<1>3. (Len(w.mounts) + 1)..Len(w.mounts) = {}
  BY <1>1
<1>4. Stacked(w, w, n)
  BY <1>1, <1>3 DEF Stacked
<1> QED
  BY <1>2, <1>4 DEF InCall

\* Parts of a call follow each other.
LEMMA InCallTrans ==
    ASSUME NEW w, NEW u, NEW v, NEW n, Typed(w), InCall(w, u, n), InCall(u, v, n)
    PROVE  InCall(w, v, n)
<1>1. Typed(u) /\ Typed(v) /\ Touched(w, u, n) /\ Touched(u, v, n)
  BY DEF InCall
<1>2. Touched(w, v, n)
  BY <1>1, TouchedTrans
<1> QED
  BY <1>2 DEF InCall

\* The mounts on a temporary path, and the one on top.
LEMMA OnHostTop ==
    ASSUME NEW w, NEW n, Typed(w), OnHost(w, n) # {}
    PROVE  /\ Max(OnHost(w, n)) \in DOMAIN w.mounts
           /\ Max(OnHost(w, n)) \in OnHost(w, n)
           /\ w.mounts[Max(OnHost(w, n))] \in MountRec
           /\ w.mounts[Max(OnHost(w, n))].name = n
<1>1. Len(w.mounts) \in Nat /\ OnHost(w, n) \in SUBSET (1..Len(w.mounts))
  BY TypedLemma DEF OnHost
<1>2. Max(OnHost(w, n)) \in OnHost(w, n)
  BY <1>1, GreatestLemma
<1> QED
  BY <1>2, TypedLemma DEF OnHost

\* MountCleanUpHandler::clean takes the mount on top, if there is one.
LEMMA MountCleanLemma ==
    ASSUME NEW w, NEW n, NEW v, Typed(w), InOrder(w), v = MountClean(w, n)
    PROVE  /\ InCall(w, v, n) /\ Len(v.mounts) = Len(w.mounts)
           /\ OnHost(w, n) = {} => v = w
           /\ OnHost(w, n) # {} => OnHost(v, n) = OnHost(w, n) \ {Max(OnHost(w, n))}
<1>1. CASE OnHost(w, n) = {}
  <2>1. v = w
    BY <1>1 DEF MountClean
  <2> QED
    BY <1>1, <2>1, InCallRefl
<1>2. CASE OnHost(w, n) # {}
  <2> DEFINE k == Max(OnHost(w, n))
             m == Lifted(w.mounts[k])
  <2>1. k \in DOMAIN w.mounts /\ w.mounts[k] \in MountRec /\ w.mounts[k].name = n
    BY <1>2, OnHostTop
  <2>2. v = [w EXCEPT !.mounts = [w.mounts EXCEPT ![k] = m]]
    BY <1>2 DEF MountClean, SetUpper, Upper
  <2>3. w.mounts[k].at # Nowhere => w.mounts[k].at.name = n
    BY <2>1 DEF InOrder
  <2> HIDE DEF k
  <2>4. /\ m \in MountRec /\ m.name = n /\ m.src = w.mounts[k].src
        /\ m.buffered = w.mounts[k].buffered /\ m.host = FALSE
    BY <2>1 DEF MountRec, Lifted
  <2>5. m.at # Nowhere => m.at.name = n
    BY <2>1, <2>3 DEF MountRec, Lifted
  <2> HIDE DEF m
  <2>6. Replaced(w, v, k, m)
    BY <2>1, <2>2 DEF Replaced
  <2>7. Changes(w.mounts[k], m, n)
    BY <2>1, <2>4, <2>5 DEF Changes
  <2>8. InCall(w, v, n)
    BY <2>6, <2>7, ChangeInCall
  <2>9. OnHost(v, n) = OnHost(w, n) \ {k}
    BY <2>4, <2>6, <2>7, ChangeLifts
  <2>10. Len(v.mounts) = Len(w.mounts)
    BY <2>4, <2>6, ReplacedMounts DEF Typed
  <2> QED
    BY <1>2, <2>8, <2>9, <2>10 DEF k
<1> QED
  BY <1>1, <1>2

\* A mount of src just made at the temporary path of n.
IsNew(m, w, n, src) ==
    /\ m \in MountRec /\ m.name = n /\ m.src = src /\ m.host = TRUE
    /\ m.at # Nowhere => m.at.name = n
    /\ m.buffered <=> (wb /\ src \in DirSources)
    /\ OnHost(w, n) = {} => m.at = InGateways(n)

\* What a mount is made as.
LEMMA NewMountLemma ==
    ASSUME NEW w, NEW n \in Names, NEW src \in Sources, NEW ro \in BOOLEAN, NEW m, wb \in BOOLEAN,
           Typed(w), InOrder(w), m = NewMount(w, n, src, ro)
    PROVE  IsNew(m, w, n, src)
<1> DEFINE a == MountedOver(w, n)
           b == ro /\ ~wb
           c == wb /\ src \in DirSources
<1>1. a \in Targets \cup {Nowhere} /\ (a # Nowhere => a.name = n)
  <2>1. CASE OnHost(w, n) = {}
    BY <2>1 DEF MountedOver, InGateways, Targets
  <2>2. CASE OnHost(w, n) # {}
    <3>1. a = w.mounts[Max(OnHost(w, n))].at
      BY <2>2 DEF MountedOver, Upper
    <3> DEFINE k == Max(OnHost(w, n))
    <3>2. k \in DOMAIN w.mounts /\ w.mounts[k] \in MountRec /\ w.mounts[k].name = n
      BY <2>2, OnHostTop
    <3> HIDE DEF k
    <3>3. a = w.mounts[k].at
      BY <3>1 DEF k
    <3> HIDE DEF a
    <3> QED
      BY <3>2, <3>3 DEF MountRec, InOrder
  <2> QED
    BY <2>1, <2>2
<1>2. OnHost(w, n) = {} => a = InGateways(n)
  BY DEF MountedOver
<1>3. b \in BOOLEAN /\ c \in BOOLEAN
  OBVIOUS
<1>4. m = [name |-> n, src |-> src, host |-> TRUE, at |-> a, moved |-> FALSE,
           ro |-> FALSE, hostRo |-> b, buffered |-> c]
  BY DEF NewMount
<1> HIDE DEF a, b
<1>5. c <=> (wb /\ src \in DirSources)
  OBVIOUS
<1> HIDE DEF c
<1>6. m \in MountRec
  BY <1>1, <1>3, <1>4 DEF MountRec
<1>7. m.buffered = c /\ m.name = n /\ m.src = src /\ m.host = TRUE /\ m.at = a
  BY <1>4
<1> QED
  BY <1>1, <1>2, <1>5, <1>6, <1>7 DEF IsNew

\* mount(2): one more mount, on top.
LEMMA MountedLemma ==
    ASSUME NEW w, NEW n \in Names, NEW src \in Sources, NEW ro \in BOOLEAN, NEW u, wb \in BOOLEAN,
           Typed(w), InOrder(w), u = Mounted(w, n, src, ro)
    PROVE  /\ InCall(w, u, n) /\ Stacked(w, u, n) /\ Len(u.mounts) = Len(w.mounts) + 1
           /\ u.mounts = Append(w.mounts, NewMount(w, n, src, ro))
<1> DEFINE m == NewMount(w, n, src, ro)
           l == Len(w.mounts)
           s == Append(w.mounts, m)
           x == [w EXCEPT !.mounts = s]
<1>0. m = NewMount(w, n, src, ro)
  OBVIOUS
<1> HIDE DEF m
<1>1. /\ m \in MountRec /\ m.name = n /\ m.src = src /\ m.host = TRUE
      /\ m.at # Nowhere => m.at.name = n
      /\ m.buffered <=> (wb /\ src \in DirSources)
  <2>1. IsNew(m, w, n, src)
    BY <1>0, NewMountLemma
  <2> QED
    BY <2>1 DEF IsNew
<1>2. w.mounts \in Seq(MountRec) /\ l \in Nat /\ DOMAIN w.mounts = 1..l
  BY TypedLemma
<1>3. /\ s \in Seq(MountRec) /\ Len(s) = l + 1 /\ DOMAIN s = 1..(l + 1) /\ s[l + 1] = m
      /\ \A i \in 1..l : s[i] = w.mounts[i]
  BY <1>1, <1>2
<1>4. w \in FsRec /\ w.uppers \in SUBSET Nat
  BY DEF Typed, FsRec
<1> HIDE DEF s, l
<1>5. /\ x \in FsRec /\ x.mounts = s /\ x.uppers = w.uppers
      /\ x.handlers = w.handlers /\ x.deleted = w.deleted
  BY <1>3, <1>4 DEF FsRec
<1>6. u = IF wb /\ src \in DirSources THEN [x EXCEPT !.uppers = w.uppers \cup {l + 1}] ELSE x
  BY DEF Mounted, m, s, l
<1> HIDE DEF x
<1>7. /\ u \in FsRec /\ u.mounts = s
      /\ u.handlers = w.handlers /\ u.deleted = w.deleted
      /\ u.uppers = IF wb /\ src \in DirSources THEN w.uppers \cup {l + 1} ELSE w.uppers
  <2>1. CASE wb /\ src \in DirSources
    <3>1. u = [x EXCEPT !.uppers = w.uppers \cup {l + 1}]
      BY <1>6, <2>1
    <3>2. w.uppers \cup {l + 1} \in SUBSET Nat
      BY <1>2, <1>4
    <3>3. u \in FsRec
      BY <1>5, <3>1, <3>2 DEF FsRec
    <3>4. /\ u.mounts = s /\ u.handlers = w.handlers /\ u.deleted = w.deleted
          /\ u.uppers = w.uppers \cup {l + 1}
      BY <1>5, <3>1 DEF FsRec
    <3> QED
      BY <2>1, <3>3, <3>4
  <2>2. CASE ~(wb /\ src \in DirSources)
    BY <1>5, <1>6, <2>2
  <2> QED
    BY <2>1, <2>2
<1>8. 1..l \subseteq 1..(l + 1) /\ l + 1 \in 1..(l + 1) /\ l + 1 \notin 1..l
      /\ \A i \in 1..(l + 1) : i \in 1..l \/ i = l + 1
  BY <1>2
<1>9. Typed(u)
  <2>1. ASSUME NEW i \in u.uppers PROVE i \in 1..(l + 1) /\ s[i].buffered
    <3>1. CASE i \in w.uppers
      <4>1. i \in 1..l /\ w.mounts[i].buffered
        BY <1>2, <3>1 DEF Typed
      <4> QED
        BY <1>3, <1>8, <4>1
    <3>2. CASE i \notin w.uppers
      <4>1. wb /\ src \in DirSources /\ i = l + 1
        BY <1>7, <2>1, <3>2
      <4> QED
        BY <1>1, <1>3, <1>8, <4>1
    <3> QED
      BY <3>1, <3>2
  <2> QED
    BY <1>3, <1>7, <2>1 DEF Typed
<1>10. InOrder(u)
  <2> SUFFICES ASSUME NEW i \in 1..(l + 1)
               PROVE  /\ s[i].at # Nowhere => s[i].at.name = s[i].name
                      /\ s[i].host /\ s[i].buffered => i \in u.uppers
                      /\ wb /\ s[i].src \in DirSources => s[i].buffered
    BY <1>3, <1>7 DEF InOrder
  <2>1. CASE i \in 1..l
    <3>1. i \in w.uppers => i \in u.uppers
      BY <1>7
    <3> QED
      BY <1>2, <1>3, <2>1, <3>1 DEF InOrder
  <2>2. CASE i = l + 1
    <3>1. m.buffered => i \in u.uppers
      BY <1>1, <1>7, <2>2
    <3> QED
      BY <1>1, <1>3, <2>2, <3>1
  <2> QED
    BY <1>8, <2>1, <2>2
<1>11. Touched(w, u, n)
  <2>1. Len(u.mounts) >= Len(w.mounts)
    BY <1>2, <1>3, <1>7 DEF l
  <2>2. \A i \in DOMAIN u.mounts : i > Len(w.mounts) => u.mounts[i].name = n
    <3> SUFFICES ASSUME NEW i \in 1..(l + 1), i > l PROVE s[i].name = n
      BY <1>3, <1>7 DEF l
    <3>1. i = l + 1
      BY <1>2
    <3> QED
      BY <1>1, <1>3, <3>1
  <2> QED
    BY <1>2, <1>3, <1>7, <2>1, <2>2 DEF Touched
<1>12. Stacked(w, u, n)
  <2>1. (Len(w.mounts) + 1)..Len(u.mounts) = {l + 1}
    BY <1>2, <1>3, <1>7 DEF l
  <2>2. OnHost(u, n) = OnHost(w, n) \cup {l + 1}
    <3>1. \A i \in 1..l : i \in OnHost(u, n) <=> i \in OnHost(w, n)
      BY <1>2, <1>3, <1>7, <1>8 DEF OnHost
    <3>2. l + 1 \in OnHost(u, n)
      BY <1>1, <1>3, <1>7, <1>8 DEF OnHost
    <3>3. OnHost(u, n) \subseteq 1..(l + 1) /\ OnHost(w, n) \subseteq 1..l
      BY <1>2, <1>3, <1>7 DEF OnHost
    <3> QED
      BY <1>8, <3>1, <3>2, <3>3
  <2>3. Len(u.mounts) <= Len(w.mounts) + 1
    BY <1>2, <1>3, <1>7 DEF l
  <2> QED
    BY <2>1, <2>2, <2>3 DEF Stacked
<1> QED
  BY <1>3, <1>7, <1>9, <1>10, <1>11, <1>12 DEF InCall, s, l, m

\* FileToolkitWithUndo::bindMount mounts, or fails before or after.
LEMMA FileToolkitLemma ==
    ASSUME NEW w, NEW n \in Names, NEW src \in Sources, NEW ro \in BOOLEAN, wb \in BOOLEAN,
           Typed(w), InOrder(w), NEW r \in FileToolkitBindMountOut(w, n, src, ro)
    PROVE  /\ InCall(w, r.fs, n) /\ Stacked(w, r.fs, n) /\ r.res \in {"true", "false", "throw"}
           /\ r.res = "throw" => r.fs = w
           /\ r.res = "true" => r.fs = Mounted(w, n, src, ro)
<1>1. InCall(w, w, n) /\ Stacked(w, w, n)
  BY InCallRefl
<1>2. \/ r = Out("false", w) \/ r = Out("throw", w) \/ r = Out("true", Mounted(w, n, src, ro))
      \/ r = Out("false", Mounted(w, n, src, FALSE))
  BY DEF FileToolkitBindMountOut
<1>3. CASE r = Out("false", w) \/ r = Out("throw", w)
  <2>1. r.fs = w /\ r.res \in {"false", "throw"}
    BY <1>3 DEF Out
  <2> QED
    BY <1>1, <2>1
<1>4. CASE r = Out("true", Mounted(w, n, src, ro))
  <2>1. r.fs = Mounted(w, n, src, ro) /\ r.res = "true"
    BY <1>4 DEF Out
  <2>2. InCall(w, r.fs, n) /\ Stacked(w, r.fs, n)
    BY <2>1, MountedLemma
  <2> QED
    BY <2>1, <2>2
<1>5. CASE r = Out("false", Mounted(w, n, src, FALSE))
  <2>1. r.fs = Mounted(w, n, src, FALSE) /\ r.res = "false"
    BY <1>5 DEF Out
  <2> DEFINE no == FALSE
  <2>2. no \in BOOLEAN /\ r.fs = Mounted(w, n, src, no)
    BY <2>1
  <2> HIDE DEF no
  <2>3. InCall(w, r.fs, n) /\ Stacked(w, r.fs, n)
    BY <2>2, MountedLemma
  <2> QED
    BY <2>1, <2>3
<1> QED
  BY <1>2, <1>3, <1>4, <1>5

\* In the container a call changes mounts in their place.
InPlace(u, v, n) ==
    InCall(u, v, n) /\ OnHost(v, n) = OnHost(u, n) /\ Len(v.mounts) = Len(u.mounts)

\* The mount that the container sees at a path.
LEMMA InsideTop ==
    ASSUME NEW w, NEW t \in Targets, Typed(w), InOrder(w), Inside(w, t) # {}
    PROVE  /\ Max(Inside(w, t)) \in DOMAIN w.mounts
           /\ w.mounts[Max(Inside(w, t))] \in MountRec
           /\ w.mounts[Max(Inside(w, t))].at = t
           /\ w.mounts[Max(Inside(w, t))].name = t.name
<1>1. Len(w.mounts) \in Nat /\ Inside(w, t) \in SUBSET (1..Len(w.mounts))
  BY TypedLemma DEF Inside
<1>2. Max(Inside(w, t)) \in Inside(w, t)
  BY <1>1, GreatestLemma
<1>3. t # Nowhere
  BY BindAssumption DEF Targets, Nowhere
<1> QED
  BY <1>2, <1>3, TypedLemma DEF Inside, InOrder

\* A mount that is replaced by a copy elsewhere in the container, or read-only.
LEMMA ReplacedInPlace ==
    ASSUME NEW w, NEW u, NEW k, NEW m, NEW n, Typed(w), InOrder(w), Replaced(w, u, k, m),
           Changes(w.mounts[k], m, n), m.host <=> w.mounts[k].host
    PROVE  InPlace(w, u, n)
<1>1. InCall(w, u, n)
  BY ChangeInCall
<1>2. OnHost(u, n) = OnHost(w, n)
  BY ChangeStays
<1>3. Len(u.mounts) = Len(w.mounts)
  BY ReplacedMounts DEF Typed, Changes
<1> QED
  BY <1>1, <1>2, <1>3 DEF InPlace

\* The gateway directory in the container is one of its paths.
LEMMA GatewaysPath ==
    ASSUME NEW t \in Targets
    PROVE  /\ t.name \in Names /\ InGateways(t.name) \in Targets
           /\ InGateways(t.name).name = t.name /\ InGateways(t.name).dir = "gateways"
           /\ t.dir = "gateways" => t = InGateways(t.name)
  BY DEF Targets, InGateways

\* The move to the target.
LEMMA MoveLemma ==
    ASSUME NEW w, NEW t \in Targets, Typed(w), InOrder(w), NEW r \in MoveOut(w, t)
    PROVE  InPlace(w, r.fs, t.name) /\ r.res \in {"true", "false"}
<1> DEFINE n == t.name
           g == Inside(w, InGateways(n))
           k == Max(g)
           m == MovedTo(w.mounts[k], t)
<1>1. InPlace(w, w, n)
  BY InCallRefl DEF InPlace
<1>2. CASE r.fs = w /\ r.res \in {"true", "false"}
  BY <1>1, <1>2
<1>3. CASE g # {} /\ r = Out("true", SetUpper(w, g, MovedTo(Upper(w, g), t)))
  <2>1. r.res = "true" /\ r.fs = [w EXCEPT !.mounts = [w.mounts EXCEPT ![k] = m]]
    BY <1>3 DEF Out, SetUpper, Upper
  <2>2. k \in DOMAIN w.mounts /\ w.mounts[k] \in MountRec /\ w.mounts[k].name = n
    BY <1>3, InsideTop, GatewaysPath
  <2> HIDE DEF k
  <2>3. /\ m \in MountRec /\ m.name = n /\ m.src = w.mounts[k].src
        /\ m.buffered = w.mounts[k].buffered /\ m.host = w.mounts[k].host /\ m.at = t
    BY <2>2 DEF MountRec, MovedTo
  <2> HIDE DEF m
  <2>4. Replaced(w, r.fs, k, m)
    BY <2>1, <2>2 DEF Replaced
  <2>5. Changes(w.mounts[k], m, n)
    BY <2>2, <2>3 DEF Changes
  <2>6. m.host <=> w.mounts[k].host
    BY <2>3
  <2>7. InPlace(w, r.fs, n)
    BY <2>4, <2>5, <2>6, ReplacedInPlace
  <2> QED
    BY <2>1, <2>7
<1> QED
  <2>1. \/ r = Out("true", w) \/ r = Out("false", w)
        \/ g # {} /\ r = Out("true", SetUpper(w, g, MovedTo(Upper(w, g), t)))
    BY DEF MoveOut
  <2> HIDE DEF g
  <2>2. r = Out("true", w) \/ r = Out("false", w) => r.fs = w /\ r.res \in {"true", "false"}
    BY DEF Out
  <2> QED
    BY <1>2, <1>3, <2>1, <2>2

\* The read-only remount.
LEMMA RemountLemma ==
    ASSUME NEW w, NEW t \in Targets, NEW ro \in BOOLEAN, Typed(w), InOrder(w),
           NEW r \in RemountReadOnlyInContainerOut(w, t, ro)
    PROVE  InPlace(w, r.fs, t.name) /\ r.res \in {"true", "false"}
<1> DEFINE n == t.name
           g == Inside(w, t)
           k == Max(g)
           m == [w.mounts[k] EXCEPT !.ro = TRUE]
<1>1. InPlace(w, w, n)
  BY InCallRefl DEF InPlace
<1>2. CASE r.fs = w /\ r.res \in {"true", "false"}
  BY <1>1, <1>2
<1>3. CASE g # {} /\ r = Out("true", SetUpper(w, g, [Upper(w, g) EXCEPT !.ro = TRUE]))
  <2>1. r.res = "true" /\ r.fs = [w EXCEPT !.mounts = [w.mounts EXCEPT ![k] = m]]
    BY <1>3 DEF Out, SetUpper, Upper
  <2>2. /\ k \in DOMAIN w.mounts /\ w.mounts[k] \in MountRec /\ w.mounts[k].name = n
        /\ w.mounts[k].at = t
    BY <1>3, InsideTop
  <2> HIDE DEF k
  <2>3. /\ m \in MountRec /\ m.name = n /\ m.src = w.mounts[k].src
        /\ m.buffered = w.mounts[k].buffered /\ m.host = w.mounts[k].host /\ m.at = t
    BY <2>2 DEF MountRec
  <2> HIDE DEF m
  <2>4. Replaced(w, r.fs, k, m)
    BY <2>1, <2>2 DEF Replaced
  <2>5. Changes(w.mounts[k], m, n)
    BY <2>2, <2>3 DEF Changes
  <2>6. m.host <=> w.mounts[k].host
    BY <2>3
  <2>7. InPlace(w, r.fs, n)
    BY <2>4, <2>5, <2>6, ReplacedInPlace
  <2> QED
    BY <2>1, <2>7
<1> QED
  <2>1. \/ r = Out("true", w) \/ r = Out("false", w)
        \/ g # {} /\ r = Out("true", SetUpper(w, g, [Upper(w, g) EXCEPT !.ro = TRUE]))
    BY DEF RemountReadOnlyInContainerOut
  <2> HIDE DEF g
  <2>2. r = Out("true", w) \/ r = Out("false", w) => r.fs = w /\ r.res \in {"true", "false"}
    BY DEF Out
  <2> QED
    BY <1>2, <1>3, <2>1, <2>2

\* Both, if the first succeeds.
LEMMA InContainerLemma ==
    ASSUME NEW w, NEW t \in Targets, NEW ro \in BOOLEAN, Typed(w), InOrder(w),
           NEW r \in InContainerOut(w, t, ro)
    PROVE  InPlace(w, r.fs, t.name) /\ r.res \in {"true", "false"}
<1>1. PICK q \in MoveOut(w, t) :
        r \in IF q.res = "true" THEN RemountReadOnlyInContainerOut(q.fs, t, ro) ELSE {q}
  BY DEF InContainerOut
<1>2. InPlace(w, q.fs, t.name) /\ q.res \in {"true", "false"}
  BY MoveLemma
<1>3. CASE q.res # "true"
  BY <1>1, <1>2, <1>3
<1>4. CASE q.res = "true"
  <2>1. r \in RemountReadOnlyInContainerOut(q.fs, t, ro)
    BY <1>1, <1>4
  <2>2. Typed(q.fs) /\ InOrder(q.fs)
    BY <1>2 DEF InPlace, InCall
  <2>3. InPlace(q.fs, r.fs, t.name) /\ r.res \in {"true", "false"}
    BY <2>1, <2>2, RemountLemma
  <2>4. InCall(w, r.fs, t.name)
    BY <1>2, <2>3, InCallTrans DEF InPlace
  <2> QED
    BY <1>2, <2>3, <2>4 DEF InPlace
<1> QED
  BY <1>3, <1>4

\* bindMountCore: it answers true only if a mount is there.
LEMMA CoreLemma ==
    ASSUME NEW w, NEW t \in Targets, NEW src \in Sources, NEW ro \in BOOLEAN, wb \in BOOLEAN,
           Typed(w), InOrder(w), NEW r \in BindMountCoreOut(w, src, t, ro)
    PROVE  /\ InCall(w, r.fs, t.name) /\ Stacked(w, r.fs, t.name)
           /\ r.res \in {"true", "false", "throw"}
           /\ r.res = "throw" => r.fs = w
           /\ r.res = "true" => Len(r.fs.mounts) = Len(w.mounts) + 1
<1> DEFINE n == t.name
<1>0. n \in Names
  BY GatewaysPath
<1>1. CASE r = Out("false", w)
  <2>1. r.fs = w /\ r.res = "false"
    BY <1>1 DEF Out
  <2> QED
    BY <2>1, InCallRefl
<1>2. CASE r # Out("false", w)
  <2>1. PICK q \in FileToolkitBindMountOut(w, n, src, ro) :
          r \in IF q.res = "true" THEN InContainerOut(q.fs, t, ro) ELSE {q}
    BY <1>2 DEF BindMountCoreOut
  <2> HIDE DEF n
  <2>2. /\ InCall(w, q.fs, n) /\ Stacked(w, q.fs, n) /\ q.res \in {"true", "false", "throw"}
        /\ q.res = "throw" => q.fs = w
        /\ q.res = "true" => q.fs = Mounted(w, n, src, ro)
    BY <1>0, FileToolkitLemma
  <2>3. CASE q.res # "true"
    BY <2>1, <2>2, <2>3 DEF n
  <2>4. CASE q.res = "true"
    <3>1. Typed(q.fs) /\ InOrder(q.fs) /\ r \in InContainerOut(q.fs, t, ro)
      BY <2>1, <2>2, <2>4 DEF InCall
    <3>2. InPlace(q.fs, r.fs, n) /\ r.res \in {"true", "false"}
      BY <3>1, InContainerLemma DEF n
    <3>3. InCall(w, r.fs, n)
      BY <2>2, <3>2, InCallTrans DEF InPlace
    <3>4. Stacked(w, r.fs, n)
      BY <2>2, <3>2 DEF Stacked, InPlace
    <3>5. q.fs = Mounted(w, n, src, ro)
      BY <2>2, <2>4
    <3>6. Len(q.fs.mounts) = Len(w.mounts) + 1
      BY <1>0, <3>5, MountedLemma
    <3> QED
      BY <3>2, <3>3, <3>4, <3>6 DEF n, InPlace
  <2> QED
    BY <2>3, <2>4
<1> QED
  BY <1>1, <1>2

\* The source is what the container sees at the target, and it saw nothing there before.
Shown(w, u, src, t) ==
    /\ Len(u.mounts) = Len(w.mounts) + 1
    /\ Inside(u, t) = {Len(w.mounts) + 1} /\ u.mounts[Len(w.mounts) + 1].src = src
    /\ \A i \in DOMAIN w.mounts : u.mounts[i].at = w.mounts[i].at

\* What a move to a target shows there, if nothing else is mounted on the temporary path.
LEMMA MoveShows ==
    ASSUME NEW w, NEW u, NEW t \in Targets, NEW src \in Sources, NEW ro \in BOOLEAN, wb \in BOOLEAN,
           Typed(w), InOrder(w), OnHost(w, t.name) = {}, Inside(w, t) = {},
           u = Mounted(w, t.name, src, ro), NEW r \in MoveOut(u, t), r.res = "true"
    PROVE  Shown(w, r.fs, src, t)
<1> DEFINE n == t.name
           l == Len(w.mounts)
           m == NewMount(w, n, src, ro)
           k == l + 1
<1>0. n \in Names /\ m = NewMount(w, n, src, ro)
  BY GatewaysPath
<1> HIDE DEF m
<1>1. IsNew(m, w, n, src)
  BY <1>0, NewMountLemma
<1>2. m.at = InGateways(n) /\ m.src = src /\ m \in MountRec
  BY <1>1 DEF IsNew
<1>3. InCall(w, u, n) /\ u.mounts = Append(w.mounts, m)
  BY <1>0, MountedLemma DEF m
<1>4. w.mounts \in Seq(MountRec) /\ l \in Nat /\ DOMAIN w.mounts = 1..l
  BY TypedLemma
<1>5. /\ Len(u.mounts) = k /\ DOMAIN u.mounts = 1..k /\ u.mounts[k] = m /\ k \in Nat
      /\ \A i \in 1..l : u.mounts[i] = w.mounts[i]
  BY <1>2, <1>3, <1>4
<1>6. k \in 1..k /\ k \notin 1..l /\ \A i \in 1..k : i \in 1..l \/ i = k
  BY <1>4
<1>7. \A i \in 1..l : w.mounts[i].at # t
  BY <1>4 DEF Inside
<1> HIDE DEF l, k
<1>8. CASE t.dir = "gateways"
  <2>1. r.fs = u
    BY <1>8 DEF MoveOut, Out
  <2>2. m.at = t
    BY <1>2, <1>8, GatewaysPath
  <2>3. Inside(u, t) = {k}
    BY <1>5, <1>6, <1>7, <2>2 DEF Inside
  <2> QED
    BY <1>2, <1>4, <1>5, <2>1, <2>3 DEF Shown, k, l
<1>9. CASE t.dir # "gateways"
  <2> DEFINE g == Inside(u, InGateways(n))
             x == MovedTo(m, t)
  <2>1. g \in SUBSET (1..k) /\ k \in g
    BY <1>2, <1>5, <1>6 DEF Inside
  <2>2. Max(g) = k
    BY <1>5, <2>1, TopLemma
  <2>3. r = Out("true", SetUpper(u, g, MovedTo(Upper(u, g), t)))
    BY <1>9 DEF MoveOut, Out
  <2>4. r.fs = [u EXCEPT !.mounts = [u.mounts EXCEPT ![k] = x]]
    BY <1>5, <2>2, <2>3 DEF Out, SetUpper, Upper
  <2>5. x \in MountRec /\ x.at = t /\ x.src = src
    BY <1>2 DEF MovedTo, MountRec
  <2> HIDE DEF x, g
  <2>6. Replaced(u, r.fs, k, x) /\ u \in FsRec
    BY <1>3, <1>5, <1>6, <2>4 DEF Replaced, InCall, Typed
  <2>7. /\ r.fs.mounts[k] = x /\ Len(r.fs.mounts) = k /\ DOMAIN r.fs.mounts = 1..k
        /\ \A i \in 1..k : i # k => r.fs.mounts[i] = u.mounts[i]
    BY <1>5, <2>5, <2>6, ReplacedMounts
  <2>8. \A i \in 1..l : r.fs.mounts[i] = w.mounts[i]
    <3> SUFFICES ASSUME NEW i \in 1..l PROVE r.fs.mounts[i] = w.mounts[i]
      OBVIOUS
    <3>1. i \in 1..k /\ i # k
      BY <1>4, <1>6 DEF k
    <3> QED
      BY <1>5, <2>7, <3>1
  <2>9. Inside(r.fs, t) = {k}
    <3>1. \A i \in 1..l : i \notin Inside(r.fs, t)
      BY <1>7, <2>8 DEF Inside
    <3>2. k \in Inside(r.fs, t)
      BY <1>6, <2>5, <2>7 DEF Inside
    <3>3. Inside(r.fs, t) \subseteq 1..k
      BY <2>7 DEF Inside
    <3> QED
      BY <1>6, <3>1, <3>2, <3>3
  <2> QED
    BY <1>4, <2>5, <2>7, <2>8, <2>9 DEF Shown, k, l
<1> QED
  BY <1>8, <1>9

\* The remount leaves it there.
LEMMA RemountShows ==
    ASSUME NEW w, NEW u, NEW t \in Targets, NEW src \in Sources, NEW ro \in BOOLEAN,
           Typed(w), Typed(u), InOrder(u), Shown(w, u, src, t),
           NEW r \in RemountReadOnlyInContainerOut(u, t, ro), r.res = "true"
    PROVE  Shown(w, r.fs, src, t) /\ (ro => r.fs.mounts[Len(w.mounts) + 1].ro)
<1> DEFINE k == Len(w.mounts) + 1
           x == [u.mounts[k] EXCEPT !.ro = TRUE]
<1>1. CASE ~ro
  <2>1. r.fs = u
    BY <1>1 DEF RemountReadOnlyInContainerOut, Out
  <2> QED
    BY <1>1, <2>1
<1>2. CASE ro
  <2>1. /\ Len(w.mounts) \in Nat /\ DOMAIN w.mounts = 1..Len(w.mounts)
        /\ DOMAIN u.mounts = 1..Len(u.mounts)
        /\ \A i \in DOMAIN u.mounts : u.mounts[i] \in MountRec
    BY TypedLemma
  <2>2. k \in Nat /\ k \in 1..k /\ 1..Len(w.mounts) \subseteq 1..k /\ k \notin 1..Len(w.mounts)
    BY <2>1
  <2>3. Len(u.mounts) = k /\ Inside(u, t) = {k} /\ u.mounts[k].src = src
    BY DEF Shown
  <2>4. u.mounts[k] \in MountRec
    BY <2>1, <2>2, <2>3
  <2> HIDE DEF k
  <2>5. Max(Inside(u, t)) = k
    <3>1. {k} \in SUBSET (1..k) /\ k \in {k}
      BY <2>2
    <3>2. Max({k}) = k
      BY <2>2, <3>1, TopLemma
    <3> QED
      BY <2>3, <3>2
  <2>6. r = Out("true", SetUpper(u, Inside(u, t), [Upper(u, Inside(u, t)) EXCEPT !.ro = TRUE]))
    BY <1>2 DEF RemountReadOnlyInContainerOut, Out
  <2>7. r.fs = [u EXCEPT !.mounts = [u.mounts EXCEPT ![k] = x]]
    BY <2>5, <2>6 DEF Out, SetUpper, Upper
  <2>8. x \in MountRec /\ x.at = u.mounts[k].at /\ x.src = src /\ x.ro = TRUE
    BY <2>3, <2>4 DEF MountRec
  <2> HIDE DEF x
  <2>9. Replaced(u, r.fs, k, x) /\ u \in FsRec
    BY <2>1, <2>2, <2>3, <2>7 DEF Replaced, Typed
  <2>10. /\ r.fs.mounts[k] = x /\ Len(r.fs.mounts) = k /\ DOMAIN r.fs.mounts = DOMAIN u.mounts
         /\ \A i \in DOMAIN u.mounts : i # k => r.fs.mounts[i] = u.mounts[i]
    BY <2>3, <2>8, <2>9, ReplacedMounts
  <2>11. \A i \in DOMAIN u.mounts : r.fs.mounts[i].at = u.mounts[i].at
    BY <2>8, <2>10
  <2>12. Inside(r.fs, t) = Inside(u, t)
    BY <2>10, <2>11 DEF Inside
  <2>13. \A i \in DOMAIN w.mounts : r.fs.mounts[i].at = w.mounts[i].at
    <3> SUFFICES ASSUME NEW i \in DOMAIN w.mounts PROVE r.fs.mounts[i].at = w.mounts[i].at
      OBVIOUS
    <3>1. i \in DOMAIN u.mounts
      BY <2>1, <2>2, <2>3
    <3> QED
      BY <2>11, <3>1 DEF Shown
  <2> QED
    BY <2>3, <2>8, <2>10, <2>12, <2>13 DEF Shown, k
<1> QED
  BY <1>1, <1>2

\* A bindMountCore that answers true shows the source, if nothing else is mounted on the
\* temporary path.
LEMMA CoreShows ==
    ASSUME NEW w, NEW t \in Targets, NEW src \in Sources, NEW ro \in BOOLEAN, wb \in BOOLEAN,
           Typed(w), InOrder(w), OnHost(w, t.name) = {}, Inside(w, t) = {},
           NEW r \in BindMountCoreOut(w, src, t, ro), r.res = "true"
    PROVE  Shown(w, r.fs, src, t) /\ (ro => r.fs.mounts[Len(w.mounts) + 1].ro)
<1> DEFINE n == t.name
<1>0. n \in Names
  BY GatewaysPath
<1>1. PICK q \in FileToolkitBindMountOut(w, n, src, ro) :
        r \in IF q.res = "true" THEN InContainerOut(q.fs, t, ro) ELSE {q}
  BY DEF BindMountCoreOut, Out
<1>2. q.res = "true"
  BY <1>1
<1>3. q.fs = Mounted(w, t.name, src, ro) /\ InCall(w, q.fs, n)
  BY <1>0, <1>2, FileToolkitLemma
<1>4. r \in InContainerOut(q.fs, t, ro)
  BY <1>1, <1>2
<1>5. PICK p \in MoveOut(q.fs, t) :
        r \in IF p.res = "true" THEN RemountReadOnlyInContainerOut(p.fs, t, ro) ELSE {p}
  BY <1>4 DEF InContainerOut
<1>6. p.res = "true" /\ r \in RemountReadOnlyInContainerOut(p.fs, t, ro)
  BY <1>5
<1>7. Shown(w, p.fs, src, t)
  BY <1>3, <1>6, MoveShows
<1>8. Typed(q.fs) /\ InOrder(q.fs)
  BY <1>3 DEF InCall
<1>9. Typed(p.fs) /\ InOrder(p.fs)
  BY <1>8, MoveLemma DEF InPlace, InCall
<1> QED
  BY <1>6, <1>7, <1>9, RemountShows

\* Steps that leave the mounts alone.
LEMMA SameMounts ==
    ASSUME NEW w, NEW v, NEW n, Typed(w), InOrder(w), v \in FsRec,
           v.mounts = w.mounts, v.uppers = w.uppers,
           v.handlers = w.handlers, v.deleted = w.deleted
    PROVE  InCall(w, v, n)
<1>1. Typed(v)
  BY DEF Typed
<1>2. InOrder(v)
  BY DEF InOrder
<1>3. Len(w.mounts) \in Nat /\ DOMAIN w.mounts = 1..Len(w.mounts)
  BY TypedLemma
<1>4. Touched(w, v, n)
  BY <1>3 DEF Touched
<1> QED
  BY <1>1, <1>2, <1>4 DEF InCall

\* A node made or removed.
LEMMA SetNodeLemma ==
    ASSUME NEW w, NEW v, NEW n \in Names, NEW kind \in {"none", "dir", "file"}, w \in FsRec,
           v = SetNode(w, n, kind)
    PROVE  /\ v \in FsRec /\ v.mounts = w.mounts /\ v.uppers = w.uppers
           /\ v.handlers = w.handlers /\ v.deleted = w.deleted
<1> DEFINE d == [w.node EXCEPT ![n] = kind]
<1>1. d \in [Names -> {"none", "dir", "file"}]
  BY DEF FsRec
<1> HIDE DEF d
<1>2. v = [w EXCEPT !.node = d]
  BY DEF SetNode, d
<1>3. v \in FsRec
  BY <1>1, <1>2 DEF FsRec
<1>4. /\ v.mounts = w.mounts /\ v.uppers = w.uppers
      /\ v.handlers = w.handlers /\ v.deleted = w.deleted
  BY <1>2 DEF FsRec
<1> QED
  BY <1>3, <1>4

\* The temporary path.
LEMMA TempPathLemma ==
    ASSUME NEW w, NEW n \in Names, NEW src, Typed(w), InOrder(w), NEW p \in TempPathOut(w, n, src)
    PROVE  InCall(w, p.fs, n) /\ p.fs.mounts = w.mounts /\ p.res \in {"true", "false"}
<1>1. p = Out("false", w) \/ p = Out("true", w) \/ p = Out("true", SetNode(w, n, KindOf(src)))
  BY DEF TempPathOut
<1>2. CASE p = Out("false", w) \/ p = Out("true", w)
  <2>1. p.fs = w /\ p.res \in {"true", "false"}
    BY <1>2 DEF Out
  <2> QED
    BY <2>1, InCallRefl
<1>3. CASE p = Out("true", SetNode(w, n, KindOf(src)))
  <2>1. p.res = "true" /\ p.fs = SetNode(w, n, KindOf(src))
    BY <1>3 DEF Out
  <2>2. KindOf(src) \in {"none", "dir", "file"}
    BY DEF KindOf
  <2>3. w \in FsRec
    BY DEF Typed
  <2>4. /\ p.fs \in FsRec /\ p.fs.mounts = w.mounts /\ p.fs.uppers = w.uppers
        /\ p.fs.handlers = w.handlers /\ p.fs.deleted = w.deleted
    BY <2>1, <2>2, <2>3, SetNodeLemma
  <2>5. InCall(w, p.fs, n)
    BY <2>4, SameMounts
  <2> QED
    BY <2>1, <2>4, <2>5
<1> QED
  BY <1>1, <1>2, <1>3

\* A recursive delete of directories on which nothing is mounted goes through to no source.
LEMMA DeleteLemma ==
    ASSUME NEW w, NEW v, NEW names \in SUBSET Names, w \in FsRec,
           \A n \in names : OnHost(w, n) = {}, v = RecursiveDelete(w, names)
    PROVE  /\ v \in FsRec /\ v.mounts = w.mounts /\ v.uppers = w.uppers
           /\ v.handlers = w.handlers /\ v.deleted = w.deleted
           /\ \A n \in names : v.node[n] = "none"
<1> DEFINE bare == {n \in names : OnHost(w, n) = {}}
           lost == {Upper(w, OnHost(w, n)) : n \in names \ bare}
           nd   == [n \in Names |-> IF n \in bare THEN "none" ELSE w.node[n]]
           u    == [w EXCEPT !.node = nd]
           del  == w.deleted \cup {m.src : m \in {x \in lost : ~x.hostRo /\ ~x.buffered}}
<1>1. bare = names
  OBVIOUS
<1>2. lost = {}
  BY <1>1
<1>3. del = w.deleted
  BY <1>2
<1>4. nd \in [Names -> {"none", "dir", "file"}] /\ \A n \in names : nd[n] = "none"
  BY <1>1 DEF FsRec
<1>5. v = [u EXCEPT !.deleted = del]
  BY DEF RecursiveDelete
<1> HIDE DEF bare, lost, nd, del
<1>6. /\ u \in FsRec /\ u.mounts = w.mounts /\ u.uppers = w.uppers
      /\ u.handlers = w.handlers /\ u.deleted = w.deleted /\ u.node = nd
  BY <1>4 DEF FsRec
<1> HIDE DEF u
<1>7. del \in SUBSET Sources
  BY <1>3 DEF FsRec
<1>8. v \in FsRec
  BY <1>5, <1>6, <1>7 DEF FsRec
<1>9. /\ v.mounts = w.mounts /\ v.uppers = w.uppers
      /\ v.handlers = w.handlers /\ v.deleted = w.deleted /\ v.node = nd
  BY <1>3, <1>5, <1>6 DEF FsRec
<1> QED
  BY <1>4, <1>8, <1>9

\* What is on the host is there in the same mounts.
LEMMA OnHostSame ==
    ASSUME NEW w, NEW v, NEW n, v.mounts = w.mounts
    PROVE  OnHost(v, n) = OnHost(w, n)
  BY DEF OnHost

\* A failed call leaves nothing of its own on the host, and deletes its directory when
\* nothing is mounted there.
LEMMA RollbackLemma ==
    ASSUME NEW w, NEW u, NEW v, NEW n \in Names, NEW res \in {"false", "throw"},
           NEW made \in BOOLEAN, Typed(w), InOrder(w), InCall(w, u, n), Stacked(w, u, n),
           made => OnHost(w, n) = {}, res = "throw" => u.mounts = w.mounts,
           v = Rollback(u, n, res, made)
    PROVE  /\ InCall(w, v, n) /\ OnHost(v, n) \subseteq OnHost(w, n)
           /\ Len(v.mounts) <= Len(w.mounts) + 1
<1> DEFINE x == IF res = "false" THEN MountClean(u, n) ELSE u
<1>1. Typed(u) /\ InOrder(u)
  BY DEF InCall
<1>2. Len(w.mounts) \in Nat /\ Len(u.mounts) \in Nat /\ DOMAIN u.mounts = 1..Len(u.mounts)
  BY <1>1, TypedLemma
<1>3. InCall(u, x, n) /\ OnHost(x, n) \subseteq OnHost(w, n) /\ Len(x.mounts) = Len(u.mounts)
  <2>1. CASE res = "throw"
    <3>1. x = u
      BY <2>1
    <3>2. OnHost(u, n) = OnHost(w, n)
      BY <2>1, OnHostSame
    <3> QED
      BY <1>1, <3>1, <3>2, InCallRefl
  <2>2. CASE res = "false"
    <3>1. x = MountClean(u, n)
      BY <2>2
    <3> HIDE DEF x
    <3>2. /\ InCall(u, x, n) /\ Len(x.mounts) = Len(u.mounts)
          /\ OnHost(u, n) = {} => x = u
          /\ OnHost(u, n) # {} => OnHost(x, n) = OnHost(u, n) \ {Max(OnHost(u, n))}
      BY <1>1, <3>1, MountCleanLemma
    <3>3. CASE Len(u.mounts) = Len(w.mounts) + 1
      <4> DEFINE k == Len(u.mounts)
      <4>1. (Len(w.mounts) + 1)..Len(u.mounts) = {k}
        BY <1>2, <3>3
      <4>2. OnHost(u, n) = OnHost(w, n) \cup {k}
        BY <4>1 DEF Stacked
      <4>3. OnHost(u, n) \in SUBSET (1..k) /\ k \in OnHost(u, n)
        BY <1>2, <4>2 DEF OnHost
      <4>4. k \in Nat
        BY <1>2
      <4>5. Max(OnHost(u, n)) = k
        BY <4>3, <4>4, TopLemma
      <4> QED
        BY <3>2, <4>2, <4>3, <4>5
    <3>4. CASE Len(u.mounts) # Len(w.mounts) + 1
      <4>1. Len(u.mounts) = Len(w.mounts)
        BY <1>2, <3>4 DEF Stacked, InCall, Touched
      <4>2. (Len(w.mounts) + 1)..Len(u.mounts) = {}
        BY <1>2, <4>1
      <4>3. OnHost(u, n) = OnHost(w, n)
        BY <4>2 DEF Stacked
      <4> QED
        BY <3>2, <4>3
    <3> QED
      BY <3>3, <3>4
  <2> QED
    BY <2>1, <2>2
<1>4. v = IF made THEN RecursiveDelete(x, {n}) ELSE x
  BY DEF Rollback
<1> HIDE DEF x
<1>5. InCall(w, x, n) /\ Len(x.mounts) <= Len(w.mounts) + 1
  BY <1>3, InCallTrans DEF Stacked
<1>6. CASE ~made
  BY <1>3, <1>4, <1>5, <1>6
<1>7. CASE made
  <2>1. v = RecursiveDelete(x, {n}) /\ {n} \in SUBSET Names /\ \A m \in {n} : OnHost(x, m) = {}
    BY <1>3, <1>4, <1>7
  <2>2. Typed(x) /\ InOrder(x) /\ x \in FsRec
    BY <1>5 DEF InCall, Typed
  <2>3. /\ v \in FsRec /\ v.mounts = x.mounts /\ v.uppers = x.uppers
        /\ v.handlers = x.handlers /\ v.deleted = x.deleted
    BY <2>1, <2>2, DeleteLemma
  <2>4. InCall(x, v, n)
    BY <2>2, <2>3, SameMounts
  <2>5. InCall(w, v, n)
    BY <1>5, <2>4, InCallTrans
  <2>6. OnHost(v, n) = OnHost(x, n)
    BY <2>3, OnHostSame
  <2> QED
    BY <1>3, <1>5, <2>3, <2>5, <2>6
<1> QED
  BY <1>6, <1>7

\* The handlers for the mounts of a name, and what MountsAreUndone says of w.
HandlersOf(w, n) == {k \in DOMAIN w.handlers : w.handlers[k] = MountHandler(n)}

Undoable(w, n) == Cardinality(OnHost(w, n)) <= Cardinality(HandlersOf(w, n))

\* Both sets are finite.
LEMMA BooksFinite ==
    ASSUME NEW w, NEW n, Typed(w)
    PROVE  /\ IsFiniteSet(OnHost(w, n)) /\ Cardinality(OnHost(w, n)) \in Nat
           /\ IsFiniteSet(HandlersOf(w, n)) /\ Cardinality(HandlersOf(w, n)) \in Nat
<1>1. Len(w.mounts) \in Nat /\ OnHost(w, n) \in SUBSET (1..Len(w.mounts))
  BY TypedLemma DEF OnHost
<1>2. w.handlers \in Seq(HandlerRec)
  BY DEF Typed, FsRec
<1>3. Len(w.handlers) \in Nat /\ HandlersOf(w, n) \in SUBSET (1..Len(w.handlers))
  BY <1>2 DEF HandlersOf
<1>4. IsFiniteSet(1..Len(w.mounts)) /\ IsFiniteSet(1..Len(w.handlers))
  <2>1. 1 \in Int /\ Len(w.mounts) \in Int /\ Len(w.handlers) \in Int
    BY <1>1, <1>3
  <2>2. \A x, y \in Int : IsFiniteSet(x..y)
    BY FS_Interval
  <2> QED
    BY <2>1, <2>2
<1>5. IsFiniteSet(OnHost(w, n)) /\ IsFiniteSet(HandlersOf(w, n))
  BY <1>1, <1>3, <1>4, FS_Subset
<1> QED
  BY <1>5, FS_CardinalityType

\* Fewer mounts and no fewer handlers.
LEMMA FewerMounts ==
    ASSUME NEW w, NEW v, NEW n, Typed(w), Typed(v), Undoable(w, n),
           OnHost(v, n) \subseteq OnHost(w, n), HandlersOf(w, n) \subseteq HandlersOf(v, n)
    PROVE  Undoable(v, n)
<1> DEFINE a == Cardinality(OnHost(v, n))
           b == Cardinality(OnHost(w, n))
           c == Cardinality(HandlersOf(w, n))
           d == Cardinality(HandlersOf(v, n))
<1>1. /\ IsFiniteSet(OnHost(w, n)) /\ b \in Nat /\ c \in Nat
      /\ IsFiniteSet(HandlersOf(v, n)) /\ a \in Nat /\ d \in Nat
  BY BooksFinite
<1>2. a <= b
  BY <1>1, FS_Subset
<1>3. c <= d
  BY <1>1, FS_Subset
<1>4. b <= c
  BY DEF Undoable
<1> HIDE DEF a, b, c, d
<1>5. a <= d
  BY <1>1, <1>2, <1>3, <1>4
<1> QED
  BY <1>5 DEF Undoable, a, d

\* One mount more, and a handler for it.
LEMMA OneMoreMount ==
    ASSUME NEW w, NEW v, NEW n, NEW k, NEW h, Typed(w), Typed(v), Undoable(w, n),
           OnHost(v, n) \subseteq OnHost(w, n) \cup {k},
           h \notin HandlersOf(w, n), HandlersOf(w, n) \cup {h} \subseteq HandlersOf(v, n)
    PROVE  Undoable(v, n)
<1> DEFINE A == OnHost(w, n) \cup {k}
           B == HandlersOf(w, n) \cup {h}
           a == Cardinality(OnHost(w, n))
           b == Cardinality(HandlersOf(w, n))
           c == Cardinality(OnHost(v, n))
           d == Cardinality(HandlersOf(v, n))
           x == Cardinality(A)
           y == Cardinality(B)
<1>1. /\ IsFiniteSet(OnHost(w, n)) /\ a \in Nat /\ IsFiniteSet(HandlersOf(w, n)) /\ b \in Nat
      /\ c \in Nat /\ IsFiniteSet(HandlersOf(v, n)) /\ d \in Nat
  BY BooksFinite
<1>2. IsFiniteSet(A) /\ x = IF k \in OnHost(w, n) THEN a ELSE a + 1
  BY <1>1, FS_AddElement
<1>3. y = IF h \in HandlersOf(w, n) THEN b ELSE b + 1
  BY <1>1, FS_AddElement
<1>4. c <= x
  BY <1>2, FS_Subset
<1>5. y <= d
  BY <1>1, FS_Subset
<1>6. a <= b
  BY DEF Undoable
<1> HIDE DEF a, b, c, d, x, y
<1>7. x <= a + 1 /\ x \in Nat
  BY <1>1, <1>2
<1>8. y = b + 1
  BY <1>3
<1>9. c <= d
  BY <1>1, <1>4, <1>5, <1>6, <1>7, <1>8
<1> QED
  BY <1>9 DEF Undoable, c, d

\* Mounts of other names stay where they are.
LEMMA OthersOnHost ==
    ASSUME NEW w, NEW v, NEW n, NEW m, m # n, Typed(w), Typed(v), Touched(w, v, n)
    PROVE  OnHost(v, m) = OnHost(w, m)
<1>1. /\ Len(w.mounts) \in Nat /\ DOMAIN w.mounts = 1..Len(w.mounts)
      /\ Len(v.mounts) \in Nat /\ DOMAIN v.mounts = 1..Len(v.mounts)
  BY TypedLemma
<1>2. Len(v.mounts) >= Len(w.mounts)
  BY DEF Touched
<1>3. DOMAIN w.mounts \subseteq DOMAIN v.mounts
  BY <1>1, <1>2
<1>4. ASSUME NEW i \in DOMAIN v.mounts, i \notin DOMAIN w.mounts PROVE v.mounts[i].name = n
  <2>1. i > Len(w.mounts)
    BY <1>1, <1>4
  <2> QED
    BY <2>1 DEF Touched
<1>5. ASSUME NEW i \in DOMAIN w.mounts PROVE i \in OnHost(v, m) <=> i \in OnHost(w, m)
  BY <1>3 DEF Touched, OnHost
<1>6. OnHost(v, m) \subseteq DOMAIN w.mounts
  BY <1>4 DEF OnHost
<1>7. OnHost(w, m) \subseteq DOMAIN w.mounts
  BY DEF OnHost
<1> QED
  BY <1>5, <1>6, <1>7

\* v is u with handlers added, one of them for a mount of n.
HandedOver(u, v, n) ==
    /\ v \in FsRec /\ v.mounts = u.mounts /\ v.uppers = u.uppers /\ v.deleted = u.deleted
    /\ Len(u.handlers) \in Nat /\ DOMAIN u.handlers = 1..Len(u.handlers)
    /\ \E h \in DOMAIN v.handlers : h > Len(u.handlers) /\ v.handlers[h] = MountHandler(n)
    /\ \A k \in DOMAIN u.handlers : k \in DOMAIN v.handlers /\ v.handlers[k] = u.handlers[k]

\* A call that succeeded keeps the file systems, and hands over a handler of its mount.
LEMMA KeepLemma ==
    ASSUME NEW u, NEW v, NEW n \in Names, NEW src, NEW made \in BOOLEAN, u \in FsRec,
           v = Keep(u, n, src, made)
    PROVE  HandedOver(u, v, n)
<1> DEFINE a == WithFile(u, n, src)
           b == Append(a, MountHandler(n))
           x == [u EXCEPT !.handlers = b]
<1>1. /\ u.handlers \in Seq(HandlerRec) /\ Len(u.handlers) \in Nat
      /\ DOMAIN u.handlers = 1..Len(u.handlers)
  BY DEF FsRec
<1>2. FileHandler(n) \in HandlerRec /\ MountHandler(n) \in HandlerRec
  BY DEF FileHandler, MountHandler, HandlerRec
<1>3. /\ a \in Seq(HandlerRec) /\ Len(a) \in Nat /\ Len(a) >= Len(u.handlers)
      /\ \A k \in 1..Len(u.handlers) : a[k] = u.handlers[k]
  <2>1. CASE src \in DirSources
    BY <1>1, <2>1 DEF WithFile
  <2>2. CASE src \notin DirSources
    <3>1. a = Append(u.handlers, FileHandler(n))
      BY <2>2 DEF WithFile
    <3> HIDE DEF a
    <3> QED
      BY <1>1, <1>2, <3>1
  <2> QED
    BY <2>1, <2>2
<1> HIDE DEF a
<1>4. /\ b \in Seq(HandlerRec) /\ DOMAIN b = 1..(Len(a) + 1) /\ b[Len(a) + 1] = MountHandler(n)
      /\ \A k \in 1..Len(a) : b[k] = a[k]
  BY <1>2, <1>3
<1>5. 1..Len(u.handlers) \subseteq 1..Len(a) /\ 1..Len(a) \subseteq 1..(Len(a) + 1)
  BY <1>1, <1>3
<1>6. \A k \in DOMAIN u.handlers : k \in DOMAIN b /\ b[k] = u.handlers[k]
  BY <1>1, <1>3, <1>4, <1>5
<1>7. \E h \in DOMAIN b : h > Len(u.handlers) /\ b[h] = MountHandler(n)
  <2>1. Len(a) + 1 \in DOMAIN b /\ Len(a) + 1 > Len(u.handlers)
    BY <1>1, <1>3, <1>4
  <2> QED
    BY <1>4, <2>1
<1> HIDE DEF b
<1>8. /\ x \in FsRec /\ x.mounts = u.mounts /\ x.uppers = u.uppers /\ x.deleted = u.deleted
      /\ x.handlers = b
  BY <1>4 DEF FsRec
<1>9. v = IF made THEN [x EXCEPT !.dirs = u.dirs \cup {n}] ELSE x
  BY DEF Keep, a, b
<1> HIDE DEF x
<1>10. /\ v \in FsRec /\ v.mounts = u.mounts /\ v.uppers = u.uppers /\ v.deleted = u.deleted
       /\ v.handlers = b
  <2>1. CASE made
    <3>1. v = [x EXCEPT !.dirs = u.dirs \cup {n}]
      BY <1>9, <2>1
    <3>2. u.dirs \cup {n} \in SUBSET Names
      BY DEF FsRec
    <3>3. v \in FsRec
      BY <1>8, <3>1, <3>2 DEF FsRec
    <3> QED
      BY <1>8, <3>1, <3>3 DEF FsRec
  <2>2. CASE ~made
    BY <1>8, <1>9, <2>2
  <2> QED
    BY <2>1, <2>2
<1> QED
  BY <1>1, <1>6, <1>7, <1>10 DEF HandedOver

\* What a call leaves.
CallDone(w, v, n) ==
    /\ Typed(v) /\ InOrder(v) /\ Touched(w, v, n) /\ v.deleted = w.deleted
    /\ Len(v.mounts) <= Len(w.mounts) + 1
    /\ \A m \in Names : Undoable(v, m)

\* A call that failed.
LEMMA FailedCall ==
    ASSUME NEW w, NEW v, NEW n \in Names, Typed(w), \A m \in Names : Undoable(w, m),
           InCall(w, v, n), OnHost(v, n) \subseteq OnHost(w, n), Len(v.mounts) <= Len(w.mounts) + 1
    PROVE  CallDone(w, v, n)
<1>1. Typed(v) /\ Touched(w, v, n) /\ v.handlers = w.handlers
  BY DEF InCall
<1>2. ASSUME NEW m \in Names PROVE Undoable(v, m)
  <2>1. HandlersOf(w, m) \subseteq HandlersOf(v, m)
    BY <1>1 DEF HandlersOf
  <2>2. OnHost(v, m) \subseteq OnHost(w, m)
    BY <1>1, OthersOnHost
  <2> QED
    BY <1>1, <2>1, <2>2, FewerMounts
<1> QED
  BY <1>2 DEF CallDone, InCall

\* A call that succeeded.
LEMMA SuccessfulCall ==
    ASSUME NEW w, NEW u, NEW v, NEW n \in Names, NEW src, NEW made \in BOOLEAN,
           Typed(w), \A m \in Names : Undoable(w, m),
           InCall(w, u, n), Stacked(w, u, n), Len(u.mounts) = Len(w.mounts) + 1,
           v = Keep(u, n, src, made)
    PROVE  CallDone(w, v, n)
<1>1. Typed(u) /\ InOrder(u) /\ Touched(w, u, n) /\ u.handlers = w.handlers /\ u.deleted = w.deleted
      /\ u \in FsRec
  BY DEF InCall, Typed
<1>2. /\ v \in FsRec /\ v.mounts = u.mounts /\ v.uppers = u.uppers /\ v.deleted = u.deleted
      /\ Len(u.handlers) \in Nat /\ DOMAIN u.handlers = 1..Len(u.handlers)
      /\ \E h \in DOMAIN v.handlers :
            h > Len(u.handlers) /\ v.handlers[h] = MountHandler(n)
      /\ \A k \in DOMAIN u.handlers : k \in DOMAIN v.handlers /\ v.handlers[k] = u.handlers[k]
  <2>1. HandedOver(u, v, n)
    BY <1>1, KeepLemma
  <2> QED
    BY <2>1 DEF HandedOver
<1>3. Typed(v)
  BY <1>1, <1>2 DEF Typed
<1>4. InOrder(v)
  BY <1>1, <1>2 DEF InOrder
<1>5. Touched(w, v, n)
  BY <1>1, <1>2 DEF Touched
<1>6. \A m : HandlersOf(w, m) \subseteq HandlersOf(v, m)
  BY <1>1, <1>2 DEF HandlersOf
<1>7. ASSUME NEW m \in Names, m # n PROVE Undoable(v, m)
  <2>1. OnHost(v, m) = OnHost(w, m)
    BY <1>3, <1>5, <1>7, OthersOnHost
  <2> QED
    BY <1>3, <1>6, <2>1, FewerMounts
<1>8. Undoable(v, n)
  <2>1. PICK h \in DOMAIN v.handlers : h > Len(u.handlers) /\ v.handlers[h] = MountHandler(n)
    BY <1>2
  <2>2. h \notin HandlersOf(w, n)
    BY <1>1, <1>2, <2>1 DEF HandlersOf
  <2>3. HandlersOf(w, n) \cup {h} \subseteq HandlersOf(v, n)
    BY <1>6, <2>1 DEF HandlersOf
  <2> DEFINE k == Len(w.mounts) + 1
  <2>4. Len(w.mounts) \in Nat
    BY TypedLemma
  <2>5. (Len(w.mounts) + 1)..Len(u.mounts) = {k}
    BY <2>4
  <2>6. OnHost(v, n) \subseteq OnHost(w, n) \cup {k}
    BY <1>2, <2>5, OnHostSame DEF Stacked
  <2> HIDE DEF k
  <2> QED
    BY <1>3, <2>2, <2>3, <2>6, OneMoreMount
<1> QED
  <2>1. Len(w.mounts) \in Nat
    BY TypedLemma
  <2>2. Len(v.mounts) <= Len(w.mounts) + 1
    BY <1>2, <2>1
  <2> QED
    BY <1>1, <1>2, <1>3, <1>4, <1>5, <1>7, <1>8, <2>2 DEF CallDone

\* bindMountInContainer, whatever fails in it.
LEMMA CallLemma ==
    ASSUME NEW w, NEW t \in Targets, NEW src \in Sources, NEW ro \in BOOLEAN, NEW up, wb \in BOOLEAN,
           Typed(w), InOrder(w), \A m \in Names : Undoable(w, m),
           NEW r \in BindMountInContainerOut(w, up, src, t, ro)
    PROVE  CallDone(w, r.fs, t.name)
<1> DEFINE n == t.name
           made == src \in DirSources /\ KindAt(w, n) = "none"
<1>1. n \in Names
  BY GatewaysPath
<1>2. Len(w.mounts) \in Nat
  BY TypedLemma
<1>3. made \in BOOLEAN
  OBVIOUS
<1>4. made => OnHost(w, n) = {}
  BY DEF KindAt, KindOf
<1>5. CASE r = Out("false", w)
  <2>1. r.fs = w
    BY <1>5 DEF Out
  <2>2. InCall(w, r.fs, n)
    BY <2>1, InCallRefl
  <2> QED
    BY <1>1, <1>2, <2>1, <2>2, FailedCall
<1>6. CASE r # Out("false", w)
  <2>1. PICK p \in TempPathOut(w, n, src) :
          r \in IF p.res # "true" THEN {p}
                ELSE {EndOut(q, n, src, made) :
                        q \in BindMountCoreOut(p.fs, src, t, ro) \cup {Out("false", p.fs)}}
    BY <1>6 DEF BindMountInContainerOut
  <2> HIDE DEF n, made
  <2>2. InCall(w, p.fs, n) /\ p.fs.mounts = w.mounts
    BY <1>1, TempPathLemma
  <2>3. Typed(p.fs) /\ InOrder(p.fs) /\ OnHost(p.fs, n) = OnHost(w, n)
    BY <2>2, OnHostSame DEF InCall
  <2>4. CASE p.res # "true"
    <3>1. r = p
      BY <2>1, <2>4
    <3>2. OnHost(r.fs, n) \subseteq OnHost(w, n) /\ Len(r.fs.mounts) <= Len(w.mounts) + 1
      BY <1>2, <2>2, <2>3, <3>1
    <3> QED
      BY <1>1, <2>2, <3>1, <3>2, FailedCall DEF n
  <2>5. CASE p.res = "true"
    <3>1. PICK q \in BindMountCoreOut(p.fs, src, t, ro) \cup {Out("false", p.fs)} :
            r = EndOut(q, n, src, made)
      BY <2>1, <2>5
    <3>2. /\ InCall(p.fs, q.fs, n) /\ Stacked(p.fs, q.fs, n)
          /\ q.res \in {"true", "false", "throw"}
          /\ q.res = "throw" => q.fs = p.fs
          /\ q.res = "true" => Len(q.fs.mounts) = Len(p.fs.mounts) + 1
      <4>1. CASE q \in BindMountCoreOut(p.fs, src, t, ro)
        BY <2>3, <4>1, CoreLemma DEF n
      <4>2. CASE q = Out("false", p.fs)
        <5>1. q.fs = p.fs /\ q.res = "false"
          BY <4>2 DEF Out
        <5> QED
          BY <2>3, <5>1, InCallRefl
      <4> QED
        BY <3>1, <4>1, <4>2
    <3>3. InCall(w, q.fs, n)
      BY <2>2, <3>2, InCallTrans
    <3>4. Stacked(w, q.fs, n)
      BY <2>2, <2>3, <3>2 DEF Stacked
    <3>5. CASE q.res = "true"
      <4>1. r.fs = Keep(q.fs, n, src, made)
        BY <3>1, <3>5 DEF EndOut, Out
      <4>2. Len(q.fs.mounts) = Len(w.mounts) + 1
        BY <2>2, <3>2, <3>5
      <4>3. CallDone(w, r.fs, n)
        BY <1>1, <1>3, <3>3, <3>4, <4>1, <4>2, SuccessfulCall
      <4> QED
        BY <4>3 DEF n
    <3>6. CASE q.res # "true"
      <4>1. q.res \in {"false", "throw"} /\ r.fs = Rollback(q.fs, n, q.res, made)
        BY <3>1, <3>2, <3>6 DEF EndOut, Out
      <4>2. q.res = "throw" => q.fs.mounts = w.mounts
        BY <2>2, <3>2
      <4>3. /\ InCall(w, r.fs, n) /\ OnHost(r.fs, n) \subseteq OnHost(w, n)
            /\ Len(r.fs.mounts) <= Len(w.mounts) + 1
        BY <1>1, <1>3, <1>4, <3>3, <3>4, <4>1, <4>2, RollbackLemma
      <4>4. CallDone(w, r.fs, n)
        BY <1>1, <4>3, FailedCall
      <4> QED
        BY <4>4 DEF n
    <3> QED
      BY <3>5, <3>6
  <2> QED
    BY <2>4, <2>5
<1> QED
  BY <1>5, <1>6

\* A call that answers true, with nothing on its temporary path before it, shows its source.
LEMMA CallShows ==
    ASSUME NEW w, NEW t \in Targets, NEW src \in Sources, NEW ro \in BOOLEAN, NEW up, wb \in BOOLEAN,
           Typed(w), InOrder(w), OnHost(w, t.name) = {},
           NEW r \in BindMountInContainerOut(w, up, src, t, ro), r.res = "true"
    PROVE  Shown(w, r.fs, src, t) /\ (ro => r.fs.mounts[Len(w.mounts) + 1].ro)
<1> DEFINE n == t.name
           made == src \in DirSources /\ KindAt(w, n) = "none"
<1>1. n \in Names /\ made \in BOOLEAN
  BY GatewaysPath
<1>2. r # Out("false", w)
  BY DEF Out
<1>3. Inside(w, t) = {}
  BY <1>2 DEF BindMountInContainerOut
<1>4. PICK p \in TempPathOut(w, n, src) :
        r \in IF p.res # "true" THEN {p}
              ELSE {EndOut(q, n, src, made) :
                      q \in BindMountCoreOut(p.fs, src, t, ro) \cup {Out("false", p.fs)}}
  BY <1>2 DEF BindMountInContainerOut
<1> HIDE DEF made
<1>5. InCall(w, p.fs, n) /\ p.fs.mounts = w.mounts
  BY <1>1, TempPathLemma
<1>6. PICK q \in BindMountCoreOut(p.fs, src, t, ro) \cup {Out("false", p.fs)} :
        r = EndOut(q, n, src, made)
  BY <1>4
<1>7. q.res = "true" /\ r.fs = Keep(q.fs, n, src, made)
  <2>1. q.res # "true" => r.res = q.res
    BY <1>6 DEF EndOut, Out
  <2>2. q.res = "true"
    BY <2>1
  <2> QED
    BY <1>6, <2>2 DEF EndOut, Out
<1>8. q \in BindMountCoreOut(p.fs, src, t, ro)
  BY <1>6, <1>7 DEF Out
<1>9. Typed(p.fs) /\ InOrder(p.fs)
  BY <1>5 DEF InCall
<1>10. OnHost(p.fs, t.name) = {} /\ Inside(p.fs, t) = {}
  BY <1>3, <1>5 DEF OnHost, Inside
<1>11. Shown(p.fs, q.fs, src, t) /\ (ro => q.fs.mounts[Len(p.fs.mounts) + 1].ro)
  BY <1>7, <1>8, <1>9, <1>10, CoreShows
<1>12. q.fs \in FsRec
  BY <1>8, <1>9, CoreLemma DEF InCall, Typed
<1>13. r.fs.mounts = q.fs.mounts
  <2>1. HandedOver(q.fs, r.fs, n)
    BY <1>1, <1>7, <1>12, KeepLemma
  <2> QED
    BY <2>1 DEF HandedOver
<1>14. Inside(r.fs, t) = Inside(q.fs, t)
  BY <1>13 DEF Inside
<1> QED
  BY <1>5, <1>11, <1>13, <1>14 DEF Shown

\* What is shown is visible.
LEMMA ShownIsVisible ==
    ASSUME NEW w, NEW v, NEW l, Typed(w), Shown(w, v, l.src, l.target),
           l.ro => v.mounts[Len(w.mounts) + 1].ro
    PROVE  Visible(v, l)
<1> DEFINE k == Len(w.mounts) + 1
<1>1. k \in Nat /\ {k} \in SUBSET (1..k) /\ k \in {k}
  BY TypedLemma
<1>2. Inside(v, l.target) = {k} /\ v.mounts[k].src = l.src /\ (l.ro => v.mounts[k].ro)
  BY DEF Shown
<1> HIDE DEF k
<1>3. Max({k}) = k
  BY <1>1, TopLemma
<1> QED
  BY <1>2, <1>3 DEF Visible

\* It stays visible through calls for other names.
LEMMA VisibleStays ==
    ASSUME NEW w, NEW v, NEW l, NEW n, l.target \in Targets, l.target.name # n,
           Typed(w), InOrder(w), CallDone(w, v, n), Visible(w, l)
    PROVE  Visible(v, l)
<1> DEFINE t == l.target
           g == Inside(w, t)
<1>1. Typed(v) /\ InOrder(v) /\ Touched(w, v, n)
  BY DEF CallDone
<1>2. /\ Len(w.mounts) \in Nat /\ DOMAIN w.mounts = 1..Len(w.mounts)
      /\ Len(v.mounts) \in Nat /\ DOMAIN v.mounts = 1..Len(v.mounts)
  BY <1>1, TypedLemma
<1>3. t # Nowhere
  BY BindAssumption DEF Targets, Nowhere
<1>4. Len(v.mounts) >= Len(w.mounts)
  BY <1>1 DEF Touched
<1>5. DOMAIN w.mounts \subseteq DOMAIN v.mounts
  BY <1>2, <1>4
<1>6. ASSUME NEW i \in g PROVE i \in Inside(v, t) /\ v.mounts[i] = w.mounts[i]
  <2>1. i \in DOMAIN w.mounts /\ w.mounts[i].at = t
    BY <1>6 DEF Inside
  <2>2. w.mounts[i].name # n
    BY <1>3, <2>1 DEF InOrder
  <2>3. v.mounts[i] = w.mounts[i]
    BY <1>1, <2>1, <2>2 DEF Touched
  <2> QED
    BY <1>5, <2>1, <2>3 DEF Inside
<1>7. ASSUME NEW i \in Inside(v, t) PROVE i \in g
  <2>1. i \in DOMAIN v.mounts /\ v.mounts[i].at = t
    BY <1>7 DEF Inside
  <2>2. v.mounts[i].name # n
    BY <1>1, <1>3, <2>1 DEF InOrder
  <2>3. ~(i > Len(w.mounts))
    BY <1>1, <2>1, <2>2 DEF Touched
  <2>4. i \in DOMAIN w.mounts
    BY <1>2, <2>1, <2>3
  <2>5. w.mounts[i].name # n
    BY <1>1, <2>2, <2>4 DEF Touched
  <2>6. v.mounts[i] = w.mounts[i]
    BY <1>1, <2>4, <2>5 DEF Touched
  <2> QED
    BY <2>1, <2>4, <2>6 DEF Inside
<1>8. Inside(v, t) = g
  BY <1>6, <1>7
<1>9. g # {}
  BY DEF Visible
<1>10. Max(g) \in g
  <2>1. g \in SUBSET (1..Len(w.mounts))
    BY <1>2 DEF Inside
  <2> HIDE DEF g
  <2> QED
    BY <1>2, <1>9, <2>1, GreatestLemma
<1>11. v.mounts[Max(g)] = w.mounts[Max(g)]
  BY <1>6, <1>10
<1> QED
  BY <1>8, <1>9, <1>11 DEF Visible

----------------------------------------------------------------------------
(***************************************************************************)
(* The other operations on the file systems.                               *)
(***************************************************************************)
FsGood(w) ==
    Typed(w) /\ InOrder(w) /\ w.deleted = {} /\ \A m \in Names : Undoable(w, m)

\* With the same mounts, and handlers that are at least those of before.
LEMMA MoreHandlers ==
    ASSUME NEW w, NEW v, FsGood(w), v \in FsRec, v.mounts = w.mounts, v.uppers = w.uppers,
           v.deleted = w.deleted, \A m : HandlersOf(w, m) \subseteq HandlersOf(v, m)
    PROVE  FsGood(v)
<1>1. Typed(v)
  BY DEF FsGood, Typed
<1>2. InOrder(v)
  BY DEF FsGood, InOrder
<1>3. ASSUME NEW m \in Names PROVE Undoable(v, m)
  <2>1. OnHost(v, m) = OnHost(w, m)
    BY OnHostSame
  <2> QED
    BY <1>1, <2>1, FewerMounts DEF FsGood
<1> QED
  BY <1>1, <1>2, <1>3 DEF FsGood

\* The environment file.
LEMMA EnvFileLemma ==
    ASSUME NEW w, NEW v, FsGood(w), "env" \in Names, v = EnvFileWritten(w)
    PROVE  FsGood(v) /\ v.mounts = w.mounts
<1> DEFINE S == OnHost(w, "env")
           hs == Append(w.handlers, FileHandler("env"))
           x == [w EXCEPT !.handlers = hs]
           u == IF PathInList(w, "env") THEN w ELSE x
<1>1. w \in FsRec /\ w.handlers \in Seq(HandlerRec)
  BY DEF FsGood, Typed, FsRec
<1>2. FileHandler("env") \in HandlerRec
  BY DEF FileHandler, HandlerRec
<1>3. /\ hs \in Seq(HandlerRec)
      /\ \A k \in DOMAIN w.handlers : k \in DOMAIN hs /\ hs[k] = w.handlers[k]
  BY <1>1, <1>2
<1> HIDE DEF hs
<1>4. /\ x \in FsRec /\ x.mounts = w.mounts /\ x.uppers = w.uppers /\ x.deleted = w.deleted
      /\ x.handlers = hs /\ x.node = w.node /\ x.written = w.written
  BY <1>1, <1>3 DEF FsRec
<1> HIDE DEF x
<1>5. \A m : HandlersOf(w, m) \subseteq HandlersOf(x, m)
  BY <1>3, <1>4 DEF HandlersOf
<1>6. /\ u \in FsRec /\ u.mounts = w.mounts /\ u.uppers = w.uppers /\ u.deleted = w.deleted
      /\ \A m : HandlersOf(w, m) \subseteq HandlersOf(u, m)
  BY <1>1, <1>4, <1>5
<1>7. v = w \/ v = SetNode(u, "env", "file")
      \/ (S # {} /\ v = [u EXCEPT !.written = w.written \cup {Upper(w, S).src}])
  BY DEF EnvFileWritten, x, hs
<1> HIDE DEF u
<1>8. CASE v = w
  BY <1>8
<1>9. CASE v = SetNode(u, "env", "file")
  <2>1. /\ v \in FsRec /\ v.mounts = u.mounts /\ v.uppers = u.uppers
        /\ v.handlers = u.handlers /\ v.deleted = u.deleted
    BY <1>6, <1>9, SetNodeLemma
  <2>2. \A m : HandlersOf(w, m) \subseteq HandlersOf(v, m)
    BY <1>6, <2>1 DEF HandlersOf
  <2> QED
    BY <1>6, <2>1, <2>2, MoreHandlers
<1>10. CASE S # {} /\ v = [u EXCEPT !.written = w.written \cup {Upper(w, S).src}]
  <2>1. Upper(w, S) \in MountRec
    BY <1>10, OnHostTop DEF Upper, FsGood
  <2>2. w.written \cup {Upper(w, S).src} \in SUBSET Sources
    BY <1>1, <2>1 DEF FsRec, MountRec
  <2>3. v \in FsRec
    BY <1>6, <1>10, <2>2 DEF FsRec
  <2>4. /\ v.mounts = u.mounts /\ v.uppers = u.uppers
        /\ v.handlers = u.handlers /\ v.deleted = u.deleted
    BY <1>6, <1>10 DEF FsRec
  <2>5. \A m : HandlersOf(w, m) \subseteq HandlersOf(v, m)
    BY <1>6, <2>4 DEF HandlersOf
  <2> QED
    BY <1>6, <2>3, <2>4, <2>5, MoreHandlers
<1> QED
  BY <1>7, <1>8, <1>9, <1>10

\* v is w with the mounts s, in which every mount may have gone on one side.
Rewritten(w, v, s) ==
    /\ Typed(v) /\ v.mounts = s /\ v.handlers = w.handlers
    /\ v.uppers = w.uppers /\ v.deleted = w.deleted /\ Len(s) = Len(w.mounts)

\* A sequence with every mount changed.
LEMMA MountsChanged ==
    ASSUME NEW w, NEW v, NEW s, Typed(w), DOMAIN s = DOMAIN w.mounts,
           \A i \in DOMAIN w.mounts :
              /\ s[i] \in MountRec /\ s[i].name = w.mounts[i].name
              /\ s[i].src = w.mounts[i].src /\ s[i].buffered = w.mounts[i].buffered,
           s = [i \in DOMAIN w.mounts |-> s[i]], v = [w EXCEPT !.mounts = s]
    PROVE  Rewritten(w, v, s)
<1> DEFINE l == Len(w.mounts)
<1>1. l \in Nat /\ DOMAIN w.mounts = 1..l /\ w \in FsRec
  BY TypedLemma DEF Typed
<1> HIDE DEF l
<1>2. s \in [1..l -> MountRec]
  BY <1>1
<1>3. s \in Seq(MountRec) /\ Len(s) = l
  BY <1>1, <1>2
<1>4. v \in FsRec
  BY <1>1, <1>3 DEF FsRec
<1>5. /\ v.mounts = s /\ v.handlers = w.handlers
      /\ v.uppers = w.uppers /\ v.deleted = w.deleted
  BY <1>1 DEF FsRec
<1>6. Typed(v)
  BY <1>4, <1>5 DEF Typed
<1> QED
  BY <1>3, <1>5, <1>6 DEF l, Rewritten

\* The container's end takes its mounts along, and leaves those on the host.
LEMMA ContainerGoneLemma ==
    ASSUME NEW w, NEW v, FsGood(w), v = ContainerGone(w)
    PROVE  FsGood(v) /\ Len(v.mounts) = Len(w.mounts)
<1> DEFINE s == [i \in DOMAIN w.mounts |-> [w.mounts[i] EXCEPT !.at = Nowhere]]
<1>1. Typed(w) /\ InOrder(w)
  BY DEF FsGood
<1>2. ASSUME NEW i \in DOMAIN w.mounts
      PROVE  /\ s[i] \in MountRec /\ s[i].name = w.mounts[i].name
             /\ s[i].src = w.mounts[i].src /\ s[i].buffered = w.mounts[i].buffered
             /\ s[i].host = w.mounts[i].host /\ s[i].at = Nowhere
  <2>1. w.mounts[i] \in MountRec
    BY <1>1, TypedLemma
  <2> QED
    BY <2>1 DEF MountRec
<1>3. v = [w EXCEPT !.mounts = s]
  BY DEF ContainerGone
<1>4. DOMAIN s = DOMAIN w.mounts /\ s = [i \in DOMAIN w.mounts |-> s[i]]
  OBVIOUS
<1> HIDE DEF s
<1>5. /\ Typed(v) /\ v.mounts = s /\ v.handlers = w.handlers
      /\ v.uppers = w.uppers /\ v.deleted = w.deleted /\ Len(s) = Len(w.mounts)
  <2>1. Rewritten(w, v, s)
    BY <1>1, <1>2, <1>3, <1>4, MountsChanged
  <2> QED
    BY <2>1 DEF Rewritten
<1>6. InOrder(v)
  BY <1>1, <1>2, <1>4, <1>5 DEF InOrder
<1>7. ASSUME NEW m \in Names PROVE Undoable(v, m)
  <2>1. OnHost(v, m) \subseteq OnHost(w, m)
    BY <1>2, <1>4, <1>5 DEF OnHost
  <2>2. HandlersOf(w, m) \subseteq HandlersOf(v, m)
    BY <1>5 DEF HandlersOf
  <2> QED
    BY <1>1, <1>5, <2>1, <2>2, FewerMounts DEF FsGood
<1> QED
  BY <1>5, <1>6, <1>7 DEF FsGood

\* The handlers but the newest.
LEMMA FrontLemma ==
    ASSUME NEW w, NEW u, NEW v, w \in FsRec, u \in FsRec, u.handlers = w.handlers,
           w.handlers # <<>>, v = [u EXCEPT !.handlers = Front(w.handlers)]
    PROVE  /\ v \in FsRec /\ v.mounts = u.mounts /\ v.uppers = u.uppers /\ v.deleted = u.deleted
           /\ Len(w.handlers) \in DOMAIN w.handlers
           /\ \A m : HandlersOf(v, m) = HandlersOf(w, m) \ {Len(w.handlers)}
<1> DEFINE h == Front(w.handlers)
           l == Len(w.handlers)
<1>1. w.handlers \in Seq(HandlerRec) /\ l \in Nat /\ l > 0 /\ DOMAIN w.handlers = 1..l
  BY DEF FsRec
<1>2. /\ h \in Seq(HandlerRec) /\ DOMAIN h = 1..(l - 1)
      /\ \A k \in 1..(l - 1) : h[k] = w.handlers[k]
  BY <1>1 DEF Front
<1> HIDE DEF h, l
<1>3. v = [u EXCEPT !.handlers = h]
  BY DEF h
<1>4. v \in FsRec
  BY <1>2, <1>3 DEF FsRec
<1>5. v.mounts = u.mounts /\ v.uppers = u.uppers /\ v.deleted = u.deleted /\ v.handlers = h
  BY <1>3 DEF FsRec
<1>6. 1..(l - 1) = (1..l) \ {l} /\ l \in 1..l
  BY <1>1
<1>7. ASSUME NEW m PROVE HandlersOf(v, m) = HandlersOf(w, m) \ {l}
  BY <1>1, <1>2, <1>5, <1>6 DEF HandlersOf
<1> QED
  BY <1>1, <1>4, <1>5, <1>6, <1>7 DEF l

\* Each round of the destructor undoes as much as its handler stood for.
LEMMA UndoneLemma ==
    ASSUME NEW w, NEW v, FsGood(w), w.handlers # <<>>, v = Undone(w)
    PROVE  FsGood(v) /\ Len(v.mounts) = Len(w.mounts)
<1> DEFINE h == Last(w.handlers)
           l == Len(w.handlers)
           u == Clean(h, w)
<1>1. Typed(w) /\ InOrder(w) /\ w \in FsRec /\ w.handlers \in Seq(HandlerRec)
  BY DEF FsGood, Typed, FsRec
<1>2. h \in HandlerRec /\ h = w.handlers[l] /\ l \in DOMAIN w.handlers
  BY <1>1 DEF Last
<1>3. h.name \in Names /\ h.kind \in {"mount", "file"}
  BY <1>2 DEF HandlerRec
<1>4. v = [u EXCEPT !.handlers = Front(w.handlers)]
  BY DEF Undone
<1> HIDE DEF h, u, l
<1>5. CASE h.kind = "mount"
  <2> DEFINE n == h.name
  <2>1. u = MountClean(w, n)
    BY <1>5 DEF u, Clean
  <2>2. h = MountHandler(n)
    BY <1>2, <1>5 DEF HandlerRec, MountHandler
  <2> HIDE DEF n
  <2>3. /\ InCall(w, u, n) /\ Len(u.mounts) = Len(w.mounts)
        /\ OnHost(w, n) = {} => u = w
        /\ OnHost(w, n) # {} => OnHost(u, n) = OnHost(w, n) \ {Max(OnHost(w, n))}
    BY <1>1, <2>1, MountCleanLemma
  <2>4. Typed(u) /\ InOrder(u) /\ Touched(w, u, n) /\ u \in FsRec
        /\ u.handlers = w.handlers /\ u.deleted = w.deleted
    BY <2>3 DEF InCall, Typed
  <2>5. /\ v \in FsRec /\ v.mounts = u.mounts /\ v.uppers = u.uppers /\ v.deleted = u.deleted
        /\ \A m : HandlersOf(v, m) = HandlersOf(w, m) \ {l}
    BY <1>1, <1>4, <2>4, FrontLemma DEF l
  <2>6. Typed(v)
    BY <2>4, <2>5 DEF Typed
  <2>7. InOrder(v)
    BY <2>4, <2>5 DEF InOrder
  <2>8. ASSUME NEW m \in Names, m # n PROVE Undoable(v, m)
    <3>1. OnHost(v, m) \subseteq OnHost(w, m)
      BY <1>1, <2>4, <2>5, <2>8, OthersOnHost, OnHostSame
    <3>2. w.handlers[l] # MountHandler(m)
      BY <1>2, <2>2, <2>8 DEF MountHandler
    <3>3. HandlersOf(w, m) \subseteq HandlersOf(v, m)
      BY <2>5, <3>2 DEF HandlersOf
    <3> QED
      BY <1>1, <2>6, <3>1, <3>3, FewerMounts DEF FsGood
  <2>9. Undoable(v, n)
    <3> DEFINE a == Cardinality(OnHost(w, n))
               b == Cardinality(HandlersOf(w, n))
               c == Cardinality(OnHost(v, n))
               d == Cardinality(HandlersOf(v, n))
    <3>1. /\ IsFiniteSet(OnHost(w, n)) /\ a \in Nat /\ IsFiniteSet(HandlersOf(w, n)) /\ b \in Nat
          /\ d \in Nat
      BY <1>1, <2>6, BooksFinite
    <3>2. a <= b
      BY <1>3 DEF FsGood, Undoable, n
    <3>3. l \in HandlersOf(w, n) /\ HandlersOf(v, n) = HandlersOf(w, n) \ {l}
      BY <1>2, <2>2, <2>5 DEF HandlersOf
    <3>4. d = b - 1
      BY <3>1, <3>3, FS_RemoveElement
    <3>5. CASE OnHost(w, n) = {}
      <4>1. OnHost(v, n) = {}
        BY <2>3, <2>5, <3>5, OnHostSame
      <4>2. c = 0
        BY <4>1, FS_EmptySet
      <4> HIDE DEF c, d
      <4>3. c <= d
        BY <3>1, <4>2
      <4> QED
        BY <4>3 DEF Undoable, c, d
    <3>6. CASE OnHost(w, n) # {}
      <4> DEFINE k == Max(OnHost(w, n))
      <4>1. k \in OnHost(w, n)
        BY <1>1, <3>6, OnHostTop
      <4>2. OnHost(v, n) = OnHost(w, n) \ {k}
        BY <2>3, <2>5, <3>6, OnHostSame
      <4> HIDE DEF k
      <4>3. c = a - 1
        BY <3>1, <4>1, <4>2, FS_RemoveElement
      <4> HIDE DEF a, b, c, d
      <4>4. c <= d
        BY <3>1, <3>2, <3>4, <4>3
      <4> QED
        BY <4>4 DEF Undoable, c, d
    <3> QED
      BY <3>5, <3>6
  <2> QED
    BY <2>3, <2>4, <2>5, <2>6, <2>7, <2>8, <2>9 DEF FsGood
<1>6. CASE h.kind = "file"
  <2>1. u = w \/ u = SetNode(w, h.name, "none")
    BY <1>6 DEF u, Clean, FileClean, SetNode
  <2>2. /\ u \in FsRec /\ u.mounts = w.mounts /\ u.uppers = w.uppers
        /\ u.handlers = w.handlers /\ u.deleted = w.deleted
    BY <1>1, <1>3, <2>1, SetNodeLemma
  <2>3. /\ v \in FsRec /\ v.mounts = u.mounts /\ v.uppers = u.uppers /\ v.deleted = u.deleted
        /\ \A m : HandlersOf(v, m) = HandlersOf(w, m) \ {l}
    BY <1>1, <1>4, <2>2, FrontLemma DEF l
  <2>4. \A m : w.handlers[l] # MountHandler(m)
    BY <1>2, <1>6 DEF MountHandler
  <2>5. \A m : HandlersOf(w, m) \subseteq HandlersOf(v, m)
    BY <2>3, <2>4 DEF HandlersOf
  <2>6. FsGood(v)
    BY <2>2, <2>3, <2>5, MoreHandlers
  <2> QED
    BY <2>2, <2>3, <2>6
<1> QED
  BY <1>3, <1>5, <1>6

\* Nothing is left.
Cleared(w) ==
    /\ \A n \in Names : OnHost(w, n) = {} /\ w.node[n] = "none"
    /\ w.uppers = {} /\ w.handlers = <<>>

\* The end of the destructor.
LEMMA DestructedLemma ==
    ASSUME NEW w, NEW v, FsGood(w), w.handlers = <<>>, v = Destructed(w)
    PROVE  FsGood(v) /\ Cleared(v) /\ Len(v.mounts) = Len(w.mounts)
<1> DEFINE s == [i \in DOMAIN w.mounts |-> [w.mounts[i] EXCEPT !.host = FALSE]]
           x == GatewaysDetached(w)
           u == RecursiveDelete(x, Names)
           y == [u EXCEPT !.dirs = {}]
<1>1. Typed(w) /\ InOrder(w)
  BY DEF FsGood
<1>2. ASSUME NEW i \in DOMAIN w.mounts
      PROVE  /\ s[i] \in MountRec /\ s[i].name = w.mounts[i].name
             /\ s[i].src = w.mounts[i].src /\ s[i].buffered = w.mounts[i].buffered
             /\ ~s[i].host /\ s[i].at = w.mounts[i].at
  <2>1. w.mounts[i] \in MountRec
    BY <1>1, TypedLemma
  <2> QED
    BY <2>1 DEF MountRec
<1>3. x = [w EXCEPT !.mounts = s]
  BY DEF GatewaysDetached
<1>4. DOMAIN s = DOMAIN w.mounts /\ s = [i \in DOMAIN w.mounts |-> s[i]]
  OBVIOUS
<1>5. v = [y EXCEPT !.uppers = {}]
  BY DEF Destructed
<1> HIDE DEF s, x
<1>0. \A i \in DOMAIN w.mounts :
         /\ s[i] \in MountRec /\ s[i].name = w.mounts[i].name
         /\ s[i].src = w.mounts[i].src /\ s[i].buffered = w.mounts[i].buffered
  BY <1>2
<1>6. /\ Typed(x) /\ x.mounts = s /\ x.handlers = w.handlers
      /\ x.uppers = w.uppers /\ x.deleted = w.deleted /\ Len(s) = Len(w.mounts)
  <2>1. Rewritten(w, x, s)
    BY <1>0, <1>1, <1>3, <1>4, MountsChanged
  <2> QED
    BY <2>1 DEF Rewritten
<1>7. \A n \in Names : OnHost(x, n) = {}
  BY <1>2, <1>4, <1>6 DEF OnHost
<1>8. u = RecursiveDelete(x, Names) /\ Names \in SUBSET Names /\ x \in FsRec
  BY <1>6 DEF Typed
<1> HIDE DEF u
<1>9. /\ u \in FsRec /\ u.mounts = x.mounts /\ u.uppers = x.uppers
      /\ u.handlers = x.handlers /\ u.deleted = x.deleted
      /\ \A n \in Names : u.node[n] = "none"
  BY <1>7, <1>8, DeleteLemma
<1>10. /\ y \in FsRec /\ y.mounts = s /\ y.handlers = w.handlers /\ y.deleted = w.deleted
       /\ y.node = u.node
  BY <1>6, <1>9 DEF FsRec
<1> HIDE DEF y
<1>11. v \in FsRec
  BY <1>5, <1>10 DEF FsRec
<1>12. /\ v.mounts = s /\ v.handlers = w.handlers /\ v.deleted = w.deleted
       /\ v.node = u.node /\ v.uppers = {}
  BY <1>5, <1>10 DEF FsRec
<1>13. Typed(v)
  BY <1>11, <1>12 DEF Typed
<1>14. InOrder(v)
  <2> SUFFICES ASSUME NEW i \in DOMAIN w.mounts
               PROVE  /\ s[i].at # Nowhere => s[i].at.name = s[i].name
                      /\ s[i].host /\ s[i].buffered => i \in v.uppers
                      /\ wb /\ s[i].src \in DirSources => s[i].buffered
    BY <1>4, <1>12 DEF InOrder
  <2> QED
    BY <1>1, <1>2 DEF InOrder
<1>15. \A n : OnHost(v, n) = {}
  BY <1>2, <1>4, <1>12 DEF OnHost
<1>16. ASSUME NEW m \in Names PROVE Undoable(v, m)
  <2>1. Cardinality(HandlersOf(v, m)) \in Nat
    BY <1>13, BooksFinite
  <2>2. Cardinality(OnHost(v, m)) = 0
    BY <1>15, FS_EmptySet
  <2> QED
    BY <2>1, <2>2 DEF Undoable
<1>17. FsGood(v)
  BY <1>12, <1>13, <1>14, <1>16 DEF FsGood
<1>18. Cleared(v)
  BY <1>9, <1>12, <1>15 DEF Cleared
<1> QED
  BY <1>6, <1>12, <1>17, <1>18

----------------------------------------------------------------------------
(***************************************************************************)
(* The invariant of the bind mounts.                                       *)
(***************************************************************************)
BindInv ==
    /\ phase \in {"up", "down", "undo", "gone"} /\ wb \in BOOLEAN /\ calls \in 0..MaxCalls
    /\ FsGood(fs)
    /\ phase = "gone" => Cleared(fs)
    /\ phase \in {"undo", "gone"} => last.res # "true"
    /\ AloneMeansVisible

\* A container without mounts.
LEMMA BindInitInv == BindInit => BindInv
<1> SUFFICES ASSUME BindInit PROVE BindInv
  OBVIOUS
<1>1. /\ fs.mounts = <<>> /\ fs.uppers = {} /\ fs.deleted = {} /\ fs.handlers = <<>>
      /\ phase = "up" /\ wb \in BOOLEAN /\ calls = 0 /\ last.res = "none"
  BY DEF BindInit, NoCall
<1>2. fs \in FsRec
  BY DEF BindInit, FsRec
<1>3. Typed(fs) /\ InOrder(fs)
  BY <1>1, <1>2 DEF Typed, InOrder
<1>4. ASSUME NEW n \in Names PROVE Undoable(fs, n)
  <2>1. OnHost(fs, n) = {}
    BY <1>1 DEF OnHost
  <2>2. Cardinality(HandlersOf(fs, n)) \in Nat
    BY <1>3, BooksFinite
  <2>3. Cardinality(OnHost(fs, n)) = 0
    BY <2>1, FS_EmptySet
  <2> QED
    BY <2>2, <2>3 DEF Undoable
<1>5. calls \in 0..MaxCalls
  BY <1>1, BindAssumption
<1> QED
  BY <1>1, <1>3, <1>4, <1>5 DEF BindInv, FsGood, AloneMeansVisible

\* A call, and what it shows.
LEMMA BindMountStep ==
    ASSUME BindInv, NEW src \in Sources, NEW t \in Targets, NEW ro \in BOOLEAN,
           BindMountInContainer(src, t, ro)
    PROVE  BindInv' /\ Len(fs'.mounts) <= Len(fs.mounts) + 1
<1>1. PICK r \in BindMountInContainerOut(fs, phase = "up", src, t, ro) :
        /\ fs' = r.fs
        /\ last' = [res |-> r.res, src |-> src, target |-> t, ro |-> ro, before |-> fs.mounts]
  BY DEF BindMountInContainer
<1>2. /\ phase \in {"up", "down"} /\ calls < MaxCalls /\ calls' = calls + 1
      /\ phase' = phase /\ wb' = wb
  BY DEF BindMountInContainer
<1>3. wb \in BOOLEAN /\ FsGood(fs) /\ Typed(fs) /\ InOrder(fs) /\ \A m \in Names : Undoable(fs, m)
  BY DEF BindInv, FsGood
<1> DEFINE up == phase = "up"
<1>4. r \in BindMountInContainerOut(fs, up, src, t, ro)
  BY <1>1
<1> HIDE DEF up
<1>5. CallDone(fs, r.fs, t.name)
  BY <1>3, <1>4, CallLemma
<1>6. FsGood(fs)' /\ Len(fs'.mounts) <= Len(fs.mounts) + 1
  <2>1. /\ Typed(r.fs) /\ InOrder(r.fs) /\ r.fs.deleted = fs.deleted
        /\ Len(r.fs.mounts) <= Len(fs.mounts) + 1
        /\ \A m \in Names : Undoable(r.fs, m)
    BY <1>5 DEF CallDone
  <2>2. Typed(fs)'
    BY <1>1, <2>1 DEF Typed
  <2>3. InOrder(fs)'
    BY <1>1, <1>2, <2>1 DEF InOrder
  <2>4. \A m \in Names : Undoable(fs, m)'
    BY <1>1, <2>1 DEF Undoable, OnHost, HandlersOf
  <2> QED
    BY <1>1, <1>3, <2>1, <2>2, <2>3, <2>4 DEF FsGood
<1>7. calls' \in 0..MaxCalls
  BY <1>2, BindAssumption DEF BindInv
<1>8. AloneMeansVisible'
  <2> SUFFICES ASSUME last'.res = "true",
                      \A i \in DOMAIN last'.before :
                         last'.before[i].host => last'.before[i].name # last'.target.name
               PROVE  /\ Visible(fs', last')
                      /\ \A i \in DOMAIN last'.before : fs'.mounts[i].at = last'.before[i].at
    BY DEF AloneMeansVisible, Visible, Inside
  <2>1. /\ last'.res = r.res /\ last'.src = src /\ last'.target = t /\ last'.ro = ro
        /\ last'.before = fs.mounts
    BY <1>1
  <2>2. OnHost(fs, t.name) = {} /\ r.res = "true"
    BY <2>1 DEF OnHost
  <2>3. Shown(fs, r.fs, src, t) /\ (ro => r.fs.mounts[Len(fs.mounts) + 1].ro)
    BY <1>3, <1>4, <2>2, CallShows
  <2> DEFINE lst == last'
             v == r.fs
  <2>4. Shown(fs, v, lst.src, lst.target) /\ (lst.ro => v.mounts[Len(fs.mounts) + 1].ro)
    BY <2>1, <2>3
  <2>5. fs' = v
    BY <1>1
  <2> HIDE DEF lst, v
  <2>6. Visible(v, lst)
    BY <1>3, <2>4, ShownIsVisible
  <2>7. \A i \in DOMAIN fs.mounts : v.mounts[i].at = fs.mounts[i].at
    BY <2>4 DEF Shown
  <2> QED
    BY <2>1, <2>5, <2>6, <2>7 DEF lst
<1> QED
  BY <1>2, <1>3, <1>6, <1>7, <1>8 DEF BindInv

\* The other steps of the container and its destructor.
LEMMA BindOtherSteps ==
    ASSUME BindInv, SetEnvironmentVariable \/ InitDies \/ Destroy \/ Undo \/ UndoEnds
    PROVE  BindInv' /\ Len(fs'.mounts) = Len(fs.mounts)
<1>1. /\ phase \in {"up", "down", "undo", "gone"} /\ wb \in BOOLEAN /\ calls \in 0..MaxCalls
      /\ FsGood(fs) /\ (phase \in {"undo", "gone"} => last.res # "true")
  BY DEF BindInv
<1>2. wb' = wb /\ calls' = calls
  BY DEF SetEnvironmentVariable, InitDies, Destroy, Undo, UndoEnds
<1>3. /\ phase' \in {"up", "down", "undo", "gone"} /\ last'.res # "true"
  BY <1>1 DEF SetEnvironmentVariable, InitDies, Destroy, Undo, UndoEnds, NoCall
<1> DEFINE v == fs'
<1> HIDE DEF v
<1>4. FsGood(v) /\ Len(v.mounts) = Len(fs.mounts) /\ (phase' = "gone" => Cleared(v))
  <2>1. CASE SetEnvironmentVariable
    <3>1. v = EnvFileWritten(fs) /\ "env" \in Names /\ phase' # "gone"
      BY <2>1 DEF SetEnvironmentVariable, v
    <3> QED
      BY <1>1, <3>1, EnvFileLemma
  <2>2. CASE InitDies \/ Destroy
    <3>1. v = ContainerGone(fs) /\ phase' # "gone"
      BY <2>2 DEF InitDies, Destroy, v
    <3> QED
      BY <1>1, <3>1, ContainerGoneLemma
  <2>3. CASE Undo
    <3>1. v = Undone(fs) /\ fs.handlers # <<>> /\ phase' # "gone"
      BY <2>3 DEF Undo, v
    <3> QED
      BY <1>1, <3>1, UndoneLemma
  <2>4. CASE UndoEnds
    <3>1. v = Destructed(fs) /\ fs.handlers = <<>>
      BY <2>4 DEF UndoEnds, v
    <3> QED
      BY <1>1, <3>1, DestructedLemma
  <2> QED
    BY <2>1, <2>2, <2>3, <2>4
<1>5. FsGood(fs)'
  <2>1. Typed(v) /\ InOrder(v) /\ v.deleted = {} /\ \A m \in Names : Undoable(v, m)
    BY <1>4 DEF FsGood
  <2>2. Typed(fs)' /\ fs'.deleted = {}
    BY <2>1 DEF Typed, v
  <2>3. InOrder(fs)'
    BY <1>2, <2>1 DEF InOrder, v
  <2>4. \A m \in Names : Undoable(fs, m)'
    BY <2>1 DEF Undoable, OnHost, HandlersOf, v
  <2> QED
    BY <2>2, <2>3, <2>4 DEF FsGood
<1>6. phase' = "gone" => Cleared(fs)'
  BY <1>4 DEF Cleared, OnHost, v
<1>7. AloneMeansVisible'
  BY <1>3 DEF AloneMeansVisible
<1>8. Len(fs'.mounts) = Len(fs.mounts)
  BY <1>4 DEF v
<1> QED
  BY <1>1, <1>2, <1>3, <1>5, <1>6, <1>7, <1>8 DEF BindInv

\* Steps that only take note of something leave the invariant.
LEMMA BindStutter ==
    ASSUME BindInv, UNCHANGED <<phase, wb, fs, calls>>, last' = last \/ last'.res # "true"
    PROVE  BindInv'
<1>1. Typed(fs)' /\ InOrder(fs)'
  BY DEF BindInv, FsGood, Typed, InOrder
<1>2. \A m \in Names : Undoable(fs, m)'
  BY DEF BindInv, FsGood, Undoable, OnHost, HandlersOf
<1>3. FsGood(fs)'
  BY <1>1, <1>2 DEF BindInv, FsGood
<1>4. phase' = "gone" => Cleared(fs)'
  BY DEF BindInv, Cleared, OnHost
<1>5. AloneMeansVisible'
  <2>1. CASE last' = last
    BY <2>1 DEF BindInv, AloneMeansVisible, Visible, Inside
  <2>2. CASE last'.res # "true"
    BY <2>2 DEF AloneMeansVisible
  <2> QED
    BY <2>1, <2>2
<1> QED
  BY <1>3, <1>4, <1>5 DEF BindInv

----------------------------------------------------------------------------
(***************************************************************************)
(* The file gateway.  While it is being activated, the settings before the *)
(* one it is at are visible, and nothing is mounted on the paths of the    *)
(* others, as far as they are alone there.                                 *)
(***************************************************************************)
Distinct == \A j, k \in DOMAIN settings : settings[j].target = settings[k].target => j = k

Mountable ==
    Len(fs.mounts) <= IF turn = 0 THEN calls + tries * Len(settings)
                      ELSE calls + (tries - 1) * Len(settings) + (turn - 1)

Progress ==
    turn # 0 /\ phase = "up" =>
        \A k \in DOMAIN settings : AloneOnPath(k) =>
            IF k < turn THEN Visible(fs, settings[k])
            ELSE OnHost(fs, settings[k].target.name) = {}

GatewayTypes ==
    /\ settings \in Seq(SettingRec) /\ asked \subseteq SettingRec
    /\ fileState \in {"created", "configured", "activated"} /\ tries \in 0..MaxTries
    /\ turn \in 0..(Len(settings) + 1)
    /\ turn # 0 => phase \in {"up", "down"} /\ last.res # "true" /\ tries > 0

FileInv ==
    /\ BindInv /\ GatewayTypes /\ Distinct /\ Mountable /\ MostPermissive /\ Progress

\* The fields of a setting.
LEMMA SettingFields ==
    ASSUME NEW s \in SettingRec
    PROVE  s.src \in Sources /\ s.target \in Targets /\ s.ro \in BOOLEAN
  BY DEF SettingRec

\* One element more: its own setting, or one that is no longer read-only.
LEMMA AddSettingLemma ==
    ASSUME settings \in Seq(SettingRec), Distinct, MostPermissive, NEW s \in SettingRec,
           AddSetting(s), asked' = asked \cup {s}
    PROVE  /\ settings' \in Seq(SettingRec) /\ Distinct' /\ MostPermissive'
           /\ Len(settings') >= Len(settings) /\ Len(settings') \in Nat
<1> DEFINE l == Len(settings)
<1>1. l \in Nat /\ DOMAIN settings = 1..l /\ \A k \in 1..l : settings[k] \in SettingRec
  OBVIOUS
<1>2. CASE Conflicting(s) = {}
  <2>1. settings' = Append(settings, s)
    BY <1>2 DEF AddSetting
  <2>2. \A k \in 1..l : settings[k].target # s.target
    BY <1>1, <1>2 DEF Conflicting
  <2>3. /\ settings' \in Seq(SettingRec) /\ Len(settings') = l + 1 /\ DOMAIN settings' = 1..(l + 1)
        /\ settings'[l + 1] = s /\ \A k \in 1..l : settings'[k] = settings[k]
    BY <1>1, <2>1
  <2>4. \A k \in 1..(l + 1) : k \in 1..l \/ k = l + 1
    BY <1>1
  <2>5. 1..l \subseteq 1..(l + 1) /\ l + 1 \in 1..(l + 1)
    BY <1>1
  <2> HIDE DEF l
  <2>6. Distinct'
    BY <1>1, <2>2, <2>3, <2>4 DEF Distinct
  <2>7. \A x \in asked : x.target # s.target
    BY <1>1, <2>2 DEF MostPermissive
  <2>8. \A x \in asked' : \E k \in DOMAIN settings' :
          settings'[k].target = x.target /\ settings'[k].src = x.src
    <3> SUFFICES ASSUME NEW x \in asked \cup {s}
                 PROVE  \E k \in 1..(l + 1) : settings'[k].target = x.target /\ settings'[k].src = x.src
      BY <2>3
    <3>1. CASE x = s
      BY <2>3, <2>5, <3>1
    <3>2. CASE x \in asked
      <4>1. PICK k \in 1..l : settings[k].target = x.target /\ settings[k].src = x.src
        BY <1>1, <3>2 DEF MostPermissive
      <4> QED
        BY <2>3, <2>5, <4>1
    <3> QED
      BY <3>1, <3>2
  <2>9. \A k \in DOMAIN settings' :
          settings'[k].ro <=> \A x \in asked' : x.target = settings'[k].target => x.ro
    <3> SUFFICES ASSUME NEW k \in 1..(l + 1)
                 PROVE  settings'[k].ro <=>
                          \A x \in asked \cup {s} : x.target = settings'[k].target => x.ro
      BY <2>3
    <3>1. CASE k = l + 1
      BY <2>3, <2>7, <3>1
    <3>2. CASE k \in 1..l
      <4>1. settings[k].ro <=> \A x \in asked : x.target = settings[k].target => x.ro
        BY <1>1, <3>2 DEF MostPermissive
      <4> QED
        BY <2>2, <2>3, <3>2, <4>1
    <3> QED
      BY <2>4, <3>1, <3>2
  <2>10. Len(settings') >= Len(settings) /\ Len(settings') \in Nat
    BY <1>1, <2>3 DEF l
  <2> QED
    BY <2>3, <2>6, <2>8, <2>9, <2>10 DEF MostPermissive
<1>3. CASE Conflicting(s) # {}
  <2>1. PICK j \in 1..l : settings[j].target = s.target
    BY <1>1, <1>3 DEF Conflicting
  <2>2. Conflicting(s) = {j}
    BY <1>1, <2>1 DEF Conflicting, Distinct
  <2>3. Min({j}) = j
    BY <1>1 DEF Min
  <2>4. settings[j].src = s.src /\ settings' = [settings EXCEPT ![j] = Merged(settings[j], s)]
    BY <1>3, <2>2, <2>3 DEF AddSetting
  <2> DEFINE m == Merged(settings[j], s)
  <2>5. settings[j] \in SettingRec
    BY <1>1
  <2>6. /\ m \in SettingRec /\ m.target = s.target /\ m.src = s.src
        /\ m.ro <=> (settings[j].ro /\ s.ro)
    <3>1. m = [settings[j] EXCEPT !.ro = settings[j].ro /\ s.ro]
      BY DEF Merged
    <3>2. (settings[j].ro /\ s.ro) \in BOOLEAN
      OBVIOUS
    <3> QED
      BY <2>1, <2>4, <2>5, <3>1, <3>2 DEF SettingRec
  <2> HIDE DEF m
  <2>7. /\ settings' \in Seq(SettingRec) /\ Len(settings') = l /\ DOMAIN settings' = 1..l
        /\ settings'[j] = m /\ \A k \in 1..l : k # j => settings'[k] = settings[k]
    BY <1>1, <2>4, <2>6 DEF m
  <2> HIDE DEF l
  <2>8. \A k \in 1..l : settings'[k].target = settings[k].target /\ settings'[k].src = settings[k].src
    BY <2>1, <2>4, <2>6, <2>7
  <2>9. Distinct'
    BY <1>1, <2>7, <2>8 DEF Distinct
  <2>10. \A x \in asked' : \E k \in DOMAIN settings' :
           settings'[k].target = x.target /\ settings'[k].src = x.src
    <3> SUFFICES ASSUME NEW x \in asked \cup {s}
                 PROVE  \E k \in 1..l : settings'[k].target = x.target /\ settings'[k].src = x.src
      BY <2>7
    <3>1. CASE x = s
      BY <2>6, <2>7, <3>1
    <3>2. CASE x \in asked
      <4>1. PICK k \in 1..l : settings[k].target = x.target /\ settings[k].src = x.src
        BY <1>1, <3>2 DEF MostPermissive
      <4> QED
        BY <2>8, <4>1
    <3> QED
      BY <3>1, <3>2
  <2>11. \A k \in DOMAIN settings' :
           settings'[k].ro <=> \A x \in asked' : x.target = settings'[k].target => x.ro
    <3> SUFFICES ASSUME NEW k \in 1..l
                 PROVE  settings'[k].ro <=>
                          \A x \in asked \cup {s} : x.target = settings'[k].target => x.ro
      BY <2>7
    <3>1. settings[k].ro <=> \A x \in asked : x.target = settings[k].target => x.ro
      BY <1>1 DEF MostPermissive
    <3>2. CASE k = j
      BY <2>1, <2>6, <2>7, <3>1, <3>2
    <3>3. CASE k # j
      <4>1. settings[k].target # s.target
        BY <1>1, <2>1, <3>3 DEF Distinct
      <4> QED
        BY <2>7, <3>1, <3>3, <4>1
    <3> QED
      BY <3>2, <3>3
  <2>12. Len(settings') >= Len(settings) /\ Len(settings') \in Nat
    BY <1>1, <2>7 DEF l
  <2> QED
    BY <2>7, <2>9, <2>10, <2>11, <2>12 DEF MostPermissive
<1> QED
  BY <1>2, <1>3

\* A gateway without settings.
LEMMA FileInitInv == FileGatewayInit => FileInv
<1> SUFFICES ASSUME FileGatewayInit PROVE FileInv
  OBVIOUS
<1>1. BindInv
  BY BindInitInv DEF FileGatewayInit
<1>2. /\ settings = <<>> /\ asked = {} /\ fileState = "created" /\ tries = 0 /\ turn = 0
      /\ calls = 0 /\ fs.mounts = <<>>
  BY DEF FileGatewayInit, BindInit
<1>3. GatewayTypes
  BY <1>2, FileGatewayAssumption DEF GatewayTypes
<1>4. Mountable
  BY <1>2 DEF Mountable
<1>5. MostPermissive /\ Distinct /\ Progress
  BY <1>2 DEF MostPermissive, Distinct, Progress
<1> QED
  BY <1>1, <1>3, <1>4, <1>5 DEF FileInv

\* Numbers that Mountable speaks of.
LEMMA MountableNumbers ==
    ASSUME FileInv
    PROVE  /\ Len(fs.mounts) \in Nat /\ calls \in Nat /\ tries \in Nat /\ Len(settings) \in Nat
           /\ turn \in Nat /\ turn <= Len(settings) + 1 /\ (turn # 0 => tries > 0)
           /\ DOMAIN settings = 1..Len(settings)
<1>1. Typed(fs) /\ calls \in 0..MaxCalls /\ tries \in 0..MaxTries /\ settings \in Seq(SettingRec)
      /\ turn \in 0..(Len(settings) + 1) /\ (turn # 0 => tries > 0)
  BY DEF FileInv, BindInv, FsGood, GatewayTypes
<1>2. Len(fs.mounts) \in Nat
  BY <1>1, TypedLemma
<1> QED
  BY <1>1, <1>2

\* An element of the configuration.
LEMMA ReadStep ==
    ASSUME FileInv, NEW s \in SettingRec, NEW cut \in BOOLEAN, ReadConfigElement(s, cut)
    PROVE  FileInv'
<1>1. /\ turn = 0 /\ AddSetting(s) /\ asked' = asked \cup {s}
      /\ fileState' = (IF cut THEN fileState ELSE "configured")
      /\ UNCHANGED <<bindVars, tries, turn>>
  BY DEF ReadConfigElement
<1>2. settings \in Seq(SettingRec) /\ Distinct /\ MostPermissive
  BY DEF FileInv, GatewayTypes
<1>3. /\ settings' \in Seq(SettingRec) /\ Distinct' /\ MostPermissive'
      /\ Len(settings') >= Len(settings) /\ Len(settings') \in Nat
  BY <1>1, <1>2, AddSettingLemma
<1>4. BindInv'
  BY <1>1, BindStutter DEF FileInv, bindVars
<1>5. GatewayTypes'
  BY <1>1, <1>3 DEF FileInv, GatewayTypes, bindVars
<1>6. Mountable'
  <2> DEFINE a == Len(settings)
             b == Len(settings')
             c == tries
             x == Len(fs.mounts)
             y == calls
  <2>1. x \in Nat /\ y \in Nat /\ c \in Nat /\ a \in Nat /\ b \in Nat /\ b >= a
    BY <1>3, MountableNumbers
  <2>2. x <= y + c * a
    BY <1>1 DEF FileInv, Mountable
  <2>3. Mountable' <=> x <= y + c * b
    BY <1>1 DEF Mountable, bindVars
  <2> HIDE DEF a, b, c, x, y
  <2>4. c * b = c * a + c * (b - a) /\ c * (b - a) >= 0 /\ c * a \in Nat
    BY <2>1
  <2>5. x <= y + c * b
    BY <2>1, <2>2, <2>4
  <2> QED
    BY <2>3, <2>5
<1>7. Progress'
  BY <1>1 DEF Progress
<1> QED
  BY <1>3, <1>4, <1>5, <1>6, <1>7 DEF FileInv

\* The beginning of an activation.
LEMMA ActivateStep ==
    ASSUME FileInv, ActivateGateway
    PROVE  FileInv'
<1>1. /\ turn = 0 /\ tries < MaxTries /\ phase \in {"up", "down"}
      /\ tries' = tries + 1 /\ turn' = 1
      /\ last' = [res |-> "activating", before |-> fs.mounts]
      /\ UNCHANGED <<phase, wb, fs, calls, settings, asked, fileState>>
  BY DEF ActivateGateway
<1>2. last'.res # "true" /\ last'.before = fs.mounts
  BY <1>1
<1>3. BindInv'
  BY <1>1, <1>2, BindStutter DEF FileInv
<1>4. GatewayTypes'
  <2>1. Len(settings) \in Nat /\ tries \in 0..MaxTries
    BY MountableNumbers DEF FileInv, GatewayTypes
  <2>2. turn' \in 0..(Len(settings') + 1) /\ tries' \in 0..MaxTries /\ tries' > 0
    BY <1>1, <2>1, FileGatewayAssumption
  <2> QED
    BY <1>1, <1>2, <2>2 DEF FileInv, GatewayTypes
<1>5. Mountable'
  <2>1. Len(fs.mounts) <= calls + tries * Len(settings)
    BY <1>1 DEF FileInv, Mountable
  <2>2. tries' - 1 = tries /\ turn' - 1 = 0 /\ turn' # 0 /\ tries * Len(settings) \in Nat /\ calls \in Nat
    BY <1>1, MountableNumbers
  <2>3. Len(fs.mounts) <= calls + (tries' - 1) * Len(settings) + (turn' - 1)
    BY <2>1, <2>2
  <2> QED
    BY <1>1, <2>2, <2>3 DEF Mountable
<1>6. Progress'
  <2> SUFFICES ASSUME NEW k \in DOMAIN settings, AloneOnPath(k)'
               PROVE  ~(k < turn') /\ OnHost(fs, settings[k].target.name)' = {}
    BY <1>1 DEF Progress
  <2>1. ~(k < turn')
    BY <1>1, MountableNumbers
  <2>2. \A i \in DOMAIN fs.mounts : fs.mounts[i].host => fs.mounts[i].name # settings[k].target.name
    BY <1>1, <1>2 DEF AloneOnPath
  <2> QED
    BY <1>1, <2>1, <2>2 DEF OnHost
<1>7. Distinct' /\ MostPermissive'
  BY <1>1 DEF FileInv, Distinct, MostPermissive
<1> QED
  BY <1>3, <1>4, <1>5, <1>6, <1>7 DEF FileInv

\* One setting of an activation.
LEMMA SettingStep ==
    ASSUME FileInv, ActivateSetting
    PROVE  FileInv'
<1> DEFINE s == settings[turn]
           n == s.target.name
           up == phase = "up"
<1>1. turn \in DOMAIN settings
  BY DEF ActivateSetting
<1>2. PICK r \in BindMountInContainerOut(fs, phase = "up", s.src, s.target, s.ro) :
        fs' = r.fs /\ turn' = AfterMount(r.res)
  BY DEF ActivateSetting
<1>3. UNCHANGED <<phase, wb, calls, last, settings, asked, fileState, tries>>
  BY DEF ActivateSetting
<1>4. /\ Len(fs.mounts) \in Nat /\ calls \in Nat /\ tries \in Nat /\ Len(settings) \in Nat
      /\ turn \in 1..Len(settings) /\ tries > 0 /\ DOMAIN settings = 1..Len(settings)
  BY <1>1, MountableNumbers
<1>5. phase \in {"up", "down"} /\ last.res # "true" /\ wb \in BOOLEAN
      /\ \A k \in DOMAIN settings : settings[k] \in SettingRec
  BY <1>4 DEF FileInv, GatewayTypes, BindInv
<1>6. s.src \in Sources /\ s.target \in Targets /\ s.ro \in BOOLEAN
  BY <1>1, <1>5, SettingFields
<1>7. Typed(fs) /\ InOrder(fs) /\ fs.deleted = {} /\ \A m \in Names : Undoable(fs, m)
  BY DEF FileInv, BindInv, FsGood
<1>8. r \in BindMountInContainerOut(fs, up, s.src, s.target, s.ro)
  BY <1>2
<1> HIDE DEF up, s
<1>9. CallDone(fs, r.fs, n)
  BY <1>5, <1>6, <1>7, <1>8, CallLemma
<1>10. /\ Typed(r.fs) /\ InOrder(r.fs) /\ r.fs.deleted = fs.deleted /\ Touched(fs, r.fs, n)
       /\ Len(r.fs.mounts) <= Len(fs.mounts) + 1
       /\ \A m \in Names : Undoable(r.fs, m)
  BY <1>9 DEF CallDone
<1>11. BindInv'
  <2>1. Typed(fs)'
    BY <1>2, <1>10 DEF Typed
  <2>2. InOrder(fs)'
    BY <1>2, <1>3, <1>10 DEF InOrder
  <2>3. \A m \in Names : Undoable(fs, m)'
    BY <1>2, <1>10 DEF Undoable, OnHost, HandlersOf
  <2>4. FsGood(fs)'
    BY <1>2, <1>7, <1>10, <2>1, <2>2, <2>3 DEF FsGood
  <2>5. AloneMeansVisible'
    BY <1>3, <1>5 DEF AloneMeansVisible
  <2> QED
    BY <1>3, <1>5, <2>4, <2>5 DEF FileInv, BindInv
<1>12. turn' = (IF r.res = "true" THEN turn + 1 ELSE 0)
  BY <1>2 DEF AfterMount
<1>13. GatewayTypes'
  <2>1. turn' \in 0..(Len(settings') + 1)
    BY <1>3, <1>4, <1>12
  <2> QED
    BY <1>3, <1>4, <1>5, <2>1 DEF FileInv, GatewayTypes
<1>14. Mountable'
  <2> DEFINE a == Len(settings)
             b == turn
             x == Len(fs.mounts)
             z == Len(fs'.mounts)
             y == calls
             p == (tries - 1) * Len(settings)
  <2>1. x \in Nat /\ y \in Nat /\ a \in Nat /\ b \in 1..a
    BY <1>4
  <2>2. p \in Nat /\ tries * Len(settings) = p + a
    <3>1. tries - 1 \in Nat
      BY <1>4
    <3> QED
      BY <1>4, <3>1
  <2>3. x <= y + p + (b - 1)
    BY <1>4 DEF FileInv, Mountable
  <2>4. z \in Nat /\ z <= x + 1
    BY <1>2, <1>10, TypedLemma
  <2>5. CASE r.res = "true"
    <3>1. turn' = b + 1 /\ turn' # 0
      BY <1>12, <2>1, <2>5
    <3>2. Mountable' <=> z <= y + p + ((b + 1) - 1)
      BY <1>3, <3>1 DEF Mountable
    <3> HIDE DEF a, b, x, y, z, p
    <3>3. z <= y + p + ((b + 1) - 1)
      BY <2>1, <2>2, <2>3, <2>4
    <3> QED
      BY <3>2, <3>3
  <2>6. CASE r.res # "true"
    <3>1. turn' = 0
      BY <1>12, <2>6
    <3>2. Mountable' <=> z <= y + (p + a)
      BY <1>3, <2>2, <3>1 DEF Mountable
    <3> HIDE DEF a, b, x, y, z, p
    <3>3. z <= y + (p + a)
      BY <2>1, <2>2, <2>3, <2>4
    <3> QED
      BY <3>2, <3>3
  <2> QED
    BY <2>5, <2>6
<1>15. Progress'
  <2>1. ASSUME turn' # 0, phase = "up", NEW k \in DOMAIN settings, AloneOnPath(k)'
        PROVE  IF k < turn' THEN Visible(r.fs, settings[k])
               ELSE OnHost(r.fs, settings[k].target.name) = {}
    <3> DEFINE v == r.fs
    <3>1. r.res = "true" /\ turn' = turn + 1
      BY <1>12, <2>1
    <3>2. AloneOnPath(k)
      BY <1>3, <2>1 DEF AloneOnPath
    <3>3. IF k < turn THEN Visible(fs, settings[k]) ELSE OnHost(fs, settings[k].target.name) = {}
      <4>1. phase = "up" /\ turn # 0
        BY <1>4, <2>1
      <4> QED
        BY <3>2, <4>1 DEF FileInv, Progress
    <3>4. k # turn => settings[k].target.name # n
      BY <1>1, <3>2 DEF AloneOnPath, s
    <3>5. k \in 1..Len(settings)
      BY <1>4
    <3>6. settings[k].src \in Sources /\ settings[k].target \in Targets /\ settings[k].ro \in BOOLEAN
      BY <1>5, SettingFields
    <3>7. CASE k < turn
      <4>1. k # turn /\ k < turn'
        BY <1>4, <3>1, <3>5, <3>7
      <4> DEFINE x == settings[k]
      <4>2. Visible(fs, x) /\ x.target \in Targets /\ x.target.name # n
        BY <3>3, <3>4, <3>6, <3>7, <4>1
      <4> HIDE DEF x, v, n
      <4>3. CallDone(fs, v, n)
        BY <1>9 DEF v
      <4>4. Visible(v, x)
        BY <1>7, <4>2, <4>3, VisibleStays
      <4> QED
        BY <4>1, <4>4 DEF x, v
    <3>8. CASE k = turn
      <4>1. k < turn'
        BY <1>4, <3>1, <3>8
      <4>2. OnHost(fs, s.target.name) = {}
        BY <1>4, <3>3, <3>8 DEF s
      <4>3. Shown(fs, v, s.src, s.target) /\ (s.ro => v.mounts[Len(fs.mounts) + 1].ro)
        BY <1>5, <1>6, <1>7, <1>8, <3>1, <4>2, CallShows
      <4> HIDE DEF v
      <4>4. Visible(v, s)
        BY <1>7, <4>3, ShownIsVisible
      <4> QED
        BY <3>8, <4>1, <4>4 DEF s, v
    <3>9. CASE k > turn
      <4>1. k # turn /\ ~(k < turn')
        BY <1>4, <3>1, <3>5, <3>9
      <4> DEFINE m == settings[k].target.name
      <4>2. m # n /\ OnHost(fs, m) = {}
        BY <1>4, <3>3, <3>4, <3>5, <3>9, <4>1
      <4> HIDE DEF m, n, v
      <4>3. OnHost(v, m) = OnHost(fs, m)
        BY <1>7, <1>10, <4>2, OthersOnHost DEF v
      <4> QED
        BY <4>1, <4>2, <4>3 DEF m, v
    <3> QED
      BY <1>4, <3>5, <3>7, <3>8, <3>9
  <2> QED
    BY <1>2, <1>3, <2>1 DEF Progress, Visible, Inside, OnHost
<1>16. Distinct' /\ MostPermissive'
  BY <1>3 DEF FileInv, Distinct, MostPermissive
<1> QED
  BY <1>11, <1>13, <1>14, <1>15, <1>16 DEF FileInv

\* The end of an activation.
LEMMA EndsStep ==
    ASSUME FileInv, ActivateEnds
    PROVE  FileInv'
<1>1. /\ turn > Len(settings) /\ turn' = 0 /\ fileState' = "activated" /\ last' = NoCall
      /\ UNCHANGED <<phase, wb, fs, calls, settings, asked, tries>>
  BY DEF ActivateEnds
<1>2. last'.res # "true"
  BY <1>1 DEF NoCall
<1>3. BindInv'
  BY <1>1, <1>2, BindStutter DEF FileInv
<1>4. GatewayTypes'
  <2>1. turn' \in 0..(Len(settings') + 1)
    BY <1>1, MountableNumbers
  <2> QED
    BY <1>1, <2>1 DEF FileInv, GatewayTypes
<1>5. Mountable'
  <2>1. /\ Len(settings) \in Nat /\ tries \in Nat /\ tries > 0 /\ calls \in Nat
        /\ turn = Len(settings) + 1 /\ turn # 0 /\ Len(fs.mounts) \in Nat
    BY <1>1, MountableNumbers
  <2> DEFINE p == (tries - 1) * Len(settings)
  <2>2. p \in Nat /\ tries * Len(settings) = p + Len(settings)
    <3>1. tries - 1 \in Nat
      BY <2>1
    <3> QED
      BY <2>1, <3>1
  <2>3. Len(fs.mounts) <= calls + p + (turn - 1)
    BY <2>1 DEF FileInv, Mountable
  <2> HIDE DEF p
  <2>4. Len(fs.mounts) <= calls + tries * Len(settings)
    BY <2>1, <2>2, <2>3
  <2> QED
    BY <1>1, <2>4 DEF Mountable
<1>6. Progress' /\ Distinct' /\ MostPermissive'
  BY <1>1 DEF FileInv, Progress, Distinct, MostPermissive
<1> QED
  BY <1>3, <1>4, <1>5, <1>6 DEF FileInv

\* The container between the steps of the gateway.
LEMMA ElsewhereStep ==
    ASSUME FileInv, Elsewhere \/ InitDiesMeanwhile
    PROVE  FileInv'
<1>1. UNCHANGED fileGatewayVars /\ BindInv
  BY DEF Elsewhere, InitDiesMeanwhile, FileInv
<1>2. UNCHANGED <<settings, asked, fileState, tries, turn>>
  BY <1>1 DEF fileGatewayVars
<1>3. Distinct' /\ MostPermissive'
  BY <1>2 DEF FileInv, Distinct, MostPermissive
<1>4. /\ Len(fs.mounts) \in Nat /\ calls \in Nat /\ tries \in Nat /\ Len(settings) \in Nat
      /\ turn \in Nat /\ (turn # 0 => tries > 0)
  BY MountableNumbers
<1>5. CASE Elsewhere
  <2>1. turn = 0 /\ turn' = 0 /\ BindNext
    BY <1>2, <1>5 DEF Elsewhere
  <2>2. GatewayTypes' /\ Progress'
    BY <1>2, <2>1 DEF FileInv, GatewayTypes, Progress
  <2>3. tries * Len(settings) \in Nat /\ Len(fs.mounts) <= calls + tries * Len(settings)
    BY <1>4, <2>1 DEF FileInv, Mountable
  <2>4. ASSUME NEW src \in Sources, NEW t \in Targets, NEW ro \in BOOLEAN,
               BindMountInContainer(src, t, ro)
        PROVE  BindInv' /\ Mountable'
    <3>1. BindInv' /\ Len(fs'.mounts) <= Len(fs.mounts) + 1
      BY <1>1, <2>4, BindMountStep
    <3>2. calls' = calls + 1
      BY <2>4 DEF BindMountInContainer
    <3>3. Len(fs'.mounts) \in Nat
      <4> DEFINE v == fs'
      <4>1. Typed(v)
        BY <3>1 DEF BindInv, FsGood, Typed
      <4> HIDE DEF v
      <4>2. Len(v.mounts) \in Nat
        BY <4>1, TypedLemma
      <4> QED
        BY <4>2 DEF v
    <3>4. Len(fs'.mounts) <= calls' + tries * Len(settings)
      BY <1>4, <2>3, <3>1, <3>2, <3>3
    <3> QED
      BY <1>2, <2>1, <3>1, <3>4 DEF Mountable
  <2>5. CASE SetEnvironmentVariable \/ InitDies \/ Destroy \/ Undo \/ UndoEnds
    <3>1. BindInv' /\ Len(fs'.mounts) = Len(fs.mounts)
      BY <1>1, <2>5, BindOtherSteps
    <3>2. calls' = calls
      BY <2>5 DEF SetEnvironmentVariable, InitDies, Destroy, Undo, UndoEnds
    <3>3. Mountable'
      BY <1>2, <2>1, <2>3, <3>1, <3>2 DEF Mountable
    <3> QED
      BY <1>3, <2>2, <3>1, <3>2, <3>3 DEF FileInv
  <2>6. CASE Gone
    <3>1. UNCHANGED <<phase, wb, fs, calls, last>>
      BY <2>6 DEF Gone, bindVars
    <3>2. BindInv'
      BY <1>1, <3>1, BindStutter
    <3>3. Mountable'
      BY <1>2, <2>1, <2>3, <3>1, <3>2 DEF Mountable
    <3> QED
      BY <1>3, <2>2, <3>1, <3>2, <3>3 DEF FileInv
  <2> QED
    BY <1>3, <2>1, <2>2, <2>4, <2>5, <2>6 DEF FileInv, BindNext
<1>6. CASE InitDiesMeanwhile
  <2>1. InitDies /\ phase' = "down" /\ last' = NoCall /\ calls' = calls
    BY <1>6 DEF InitDiesMeanwhile, InitDies
  <2>2. BindInv' /\ Len(fs'.mounts) = Len(fs.mounts)
    BY <1>1, <2>1, BindOtherSteps
  <2>3. GatewayTypes'
    BY <1>2, <2>1 DEF FileInv, GatewayTypes, NoCall
  <2>4. Progress'
    BY <2>1 DEF Progress
  <2>5. Mountable'
    BY <1>2, <2>1, <2>2 DEF FileInv, Mountable
  <2> QED
    BY <1>3, <2>2, <2>3, <2>4, <2>5 DEF FileInv
<1> QED
  BY <1>5, <1>6

\* The steps of another part leave the mounts and the gateway.
LEMMA FileStutter ==
    ASSUME FileInv, UNCHANGED mountVars
    PROVE  FileInv'
<1>1. UNCHANGED <<phase, wb, fs, calls, last, settings, asked, fileState, tries, turn>>
  BY DEF mountVars, bindVars, fileGatewayVars
<1>2. BindInv'
  BY <1>1, BindStutter DEF FileInv
<1>3. GatewayTypes' /\ Distinct' /\ MostPermissive'
  BY <1>1 DEF FileInv, GatewayTypes, Distinct, MostPermissive
<1>4. Mountable'
  BY <1>1 DEF FileInv, Mountable
<1>5. Progress'
  BY <1>1 DEF FileInv, Progress, AloneOnPath, Visible, Inside, OnHost
<1> QED
  BY <1>2, <1>3, <1>4, <1>5 DEF FileInv

\* The inductive invariant.
LEMMA FileInvariance == FilesSpec => []FileInv
<1>1. FilesInit => FileInv
  BY FileInitInv DEF FilesInit
<1>2. FileInv /\ [FilesNext]_filesVars => FileInv'
  <2> SUFFICES ASSUME FileInv, [FilesNext]_filesVars PROVE FileInv'
    OBVIOUS
  <2>1. CASE FileGatewayNext
    <3>1. ASSUME NEW s \in SettingRec, NEW cut \in BOOLEAN, ReadConfigElement(s, cut)
          PROVE  FileInv'
      BY <3>1, ReadStep
    <3>2. CASE ReadBadElement
      BY <3>2, FileStutter DEF ReadBadElement, mountVars
    <3> QED
      BY <2>1, <3>1, <3>2, ActivateStep, SettingStep, EndsStep, ElsewhereStep DEF FileGatewayNext
  <2>2. CASE UNCHANGED mountVars
    BY <2>2, FileStutter
  <2> QED
    BY <2>1, <2>2 DEF FilesNext, filesVars
<1> QED
  BY <1>1, <1>2, PTL DEF FilesSpec

\* Neither a failed bindMountInContainer nor the destructors delete what the host has at a
\* mounted path: whatever the names, the sources and the order of calls, nothing is mounted
\* on a directory that is deleted recursively.
THEOREM HostDataIsKept == FilesSpec => []NoHostDataDeleted
<1>1. FileInv => NoHostDataDeleted
  BY DEF FileInv, BindInv, FsGood, NoHostDataDeleted
<1> QED
  BY <1>1, FileInvariance, PTL

\* Each mount on the host has its handler and is gone in the end, one alone on its path is
\* visible and takes nothing away, settings are as permissive as their elements, and with
\* the write buffer a mounted directory is written to in its upper directory only.
THEOREM BindMountsAreSound == FilesSpec => []MountsAreSound
<1>1. FileInv => MountsAreSound
  <2> SUFFICES ASSUME FileInv PROVE MountsAreSound
    OBVIOUS
  <2>1. /\ FsGood(fs) /\ (phase = "gone" => Cleared(fs)) /\ AloneMeansVisible /\ MostPermissive
    BY DEF FileInv, BindInv
  <2>2. MountsAreUndone
    BY <2>1 DEF FsGood, Undoable, HandlersOf, MountsAreUndone
  <2>3. NothingIsLeft
    BY <2>1 DEF Cleared, NothingIsLeft
  <2>4. WritesAreBuffered
    <3> SUFFICES ASSUME wb, NEW t \in Targets, Inside(fs, t) # {},
                        fs.mounts[Max(Inside(fs, t))].src \in DirSources
                 PROVE  fs.mounts[Max(Inside(fs, t))].buffered
      BY DEF WritesAreBuffered
    <3>1. Max(Inside(fs, t)) \in DOMAIN fs.mounts
      BY <2>1, InsideTop DEF FsGood
    <3> QED
      BY <2>1, <3>1 DEF FsGood, InOrder
  <2>5. BuffersLast
    BY <2>1 DEF FsGood, InOrder, BuffersLast
  <2> QED
    BY <2>1, <2>2, <2>3, <2>4, <2>5 DEF MountsAreSound
<1> QED
  BY <1>1, FileInvariance, PTL

\* An activation that answers true makes each setting that is alone on its path visible as
\* it was asked for, on the first try or later.
THEOREM ActivationShowsSettings == FilesSpec => ActiveIsVisible
<1>1. FileInv /\ [FilesNext]_filesVars =>
        (fileState = "configured" /\ fileState' = "activated" /\ phase = "up" =>
           \A k \in DOMAIN settings : AloneOnPath(k) => Visible(fs', settings[k]))
  <2> SUFFICES ASSUME FileInv, [FilesNext]_filesVars, fileState = "configured", fileState' = "activated",
                      phase = "up", NEW k \in DOMAIN settings, AloneOnPath(k)
               PROVE  Visible(fs', settings[k])
    OBVIOUS
  <2>1. FileGatewayNext
    BY DEF FilesNext, filesVars, mountVars, fileGatewayVars
  <2>2. ActivateEnds
    BY <2>1 DEF FileGatewayNext, ReadConfigElement, ReadBadElement, ActivateGateway,
                ActivateSetting, Elsewhere, InitDiesMeanwhile, fileGatewayVars
  <2>3. turn > Len(settings) /\ fs' = fs
    BY <2>2 DEF ActivateEnds
  <2>4. turn # 0 /\ k < turn
    BY <2>3, MountableNumbers
  <2>5. Visible(fs, settings[k])
    BY <2>4 DEF FileInv, Progress
  <2> QED
    BY <2>3, <2>5
<1>2. FileInv /\ [FilesNext]_filesVars =>
        [fileState = "configured" /\ fileState' = "activated" /\ phase = "up" =>
           \A k \in DOMAIN settings : AloneOnPath(k) => Visible(fs', settings[k])]_<<bindVars, fileGatewayVars>>
  BY <1>1
<1> QED
  BY <1>2, FileInvariance, PTL DEF FilesSpec, ActiveIsVisible

\* The mounts, the settings, the directories and the write buffer are what their
\* declarations say, no container path has two settings, and there are no more mounts than
\* calls and activated settings.
THEOREM FilesTypeCorrect == FilesSpec => []FilesTypeOK
<1>1. FileInv => BindTypeOK
  <2> SUFFICES ASSUME FileInv PROVE BindTypeOK
    OBVIOUS
  <2>1. Typed(fs) /\ fs \in FsRec /\ phase \in {"up", "down", "undo", "gone"} /\ wb \in BOOLEAN
        /\ calls \in 0..MaxCalls
    BY DEF FileInv, BindInv, FsGood, Typed
  <2> QED
    BY <2>1 DEF Typed, FsRec, BindTypeOK
<1>2. FileInv => FileGatewayTypeOK
  <2> SUFFICES ASSUME FileInv PROVE FileGatewayTypeOK
    OBVIOUS
  <2>1. /\ Len(fs.mounts) \in Nat /\ calls \in Nat /\ tries \in Nat /\ Len(settings) \in Nat
        /\ turn \in Nat /\ turn <= Len(settings) + 1 /\ (turn # 0 => tries > 0)
    BY MountableNumbers
  <2>2. Len(fs.mounts) <= calls + tries * Len(settings)
    <3>1. CASE turn = 0
      BY <3>1 DEF FileInv, Mountable
    <3>2. CASE turn # 0
      <4> DEFINE p == (tries - 1) * Len(settings)
      <4>1. p \in Nat /\ tries * Len(settings) = p + Len(settings)
        <5>1. tries - 1 \in Nat
          BY <2>1, <3>2
        <5> QED
          BY <2>1, <5>1
      <4>2. Len(fs.mounts) <= calls + p + (turn - 1)
        BY <3>2 DEF FileInv, Mountable
      <4> HIDE DEF p
      <4> QED
        BY <2>1, <4>1, <4>2
    <3> QED
      BY <3>1, <3>2
  <2> QED
    BY <2>2 DEF FileInv, GatewayTypes, Distinct, FileGatewayTypeOK
<1>3. DirInv => CreateDirTypeOK
  BY DEF DirInv
<1>4. SyncInv => SyncTypeOK
  BY DEF SyncInv
<1>5. FileInv /\ DirInv /\ SyncInv => FilesTypeOK
  BY <1>1, <1>2, <1>3, <1>4 DEF FilesTypeOK
<1> QED
  BY <1>5, FileInvariance, DirInvariance, SyncInvariance, PTL
=============================================================================
