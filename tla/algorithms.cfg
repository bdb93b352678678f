SPECIFICATION Spec
CONSTANTS
    Beats <- mcBeats
    Keys = {"a", "b"}
    DedupWindow = 1
    RateLimit = 0
    PnpmLines <- mcPnpm
    JsonTokens <- mcJson
    ConfigLines <- mcConfig
    LogLines <- mcLog
    MaxLength <- mcMaxLength
    Places <- mcPlaces
    Declarations <- mcDeclarations
    RootFolders <- mcRootFolders
    Skipped = {"s"}
    Rank <- mcRank
    MaxWorkspaceManifests = 3
INVARIANTS
    KeptAreSurvivors
    NewestOfEachRun
    LockfileAsNested
    WorkspacesAsDeclared
    RemoteOfConfig
    CountsAddUp
CHECK_DEADLOCK FALSE
