\* Targets with the last component "env" in several places, and others; a gateway with up
\* to two settings and two activations, and one other call, three steps of these at most.
CONSTANTS
    Names       = {"a", "env"}
    Dirs        = {"x"}
    DirSources  = {"d1"}
    FileSources = {"f1"}
    MaxCalls    = 1
    MaxWork     = 3
    MaxElements = 2
    MaxTries    = 2
    Components  = {"a"}
    Depth       = 3
    Creators    = {"c1", "c2"}
    Files       = {"f", "g"}
    Contents    = {"v", "w"}
    MaxChanges  = 4

SPECIFICATION FilesSpec

INVARIANTS
    FilesTypeOK
    NoHostDataDeleted
    
    DirectoriesAreRestored
    BufferIsMerged

 
