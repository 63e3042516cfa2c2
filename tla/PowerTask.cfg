CONSTANTS
    Callers = {c1}
    Version = version
    Timer = timer
    Depth = 2
    MaxUpgrades = 1
SPECIFICATION FairSpec
INVARIANT StackAlive
INVARIANT HeapAccounted
INVARIANT StopIsFinal
PROPERTY NobodyBlocks
PROPERTY VersionLearned
