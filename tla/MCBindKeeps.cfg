SPECIFICATION BindSpec
CONSTANTS
    Names = {"a", "env"}
    Dirs = {"x"}
    DirSources = {"d1"}
    FileSources = {"f1"}
    MaxCalls = 3
INVARIANTS
    FailedCallKeepsMounts
