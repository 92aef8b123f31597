SPECIFICATION Spec
CHECK_DEADLOCK FALSE
CONSTANTS
    Parts = {"set", "dir", "stack", "side", "prefetch", "layout", "network", "access"}
    Assoc = 4
    RripMax = 3
    MaxUpgrading = 4
    DirCores = {c1, c2}
    DirLines = {"a", "b", "c"}
    DirWays = 2
    MaxHwSharers = 1
    EntryTypes = {"full_map", "limited_no_broadcast", "limitless"}
    BitsetSize = 64
    StackLines = {"a", "b", "c"}
    StackModes <- Hierarchies
    PrefetchMax = 1
    PrefetchLists <- Prefetches
    SideLines = {"a", "b", "c"}
    SideWays = 2
    AtdCores = {"p", "q"}
    PfAddresses = {0, 1}
    GhbSize = 3
    TableSize = 2
    PfWidth = 2
    PfDepth = 2
    PfFlows = 2
    PfCount = 2
    PfPage = 2
    MaxWraps = 6
    Layouts <- Machines
    LayoutBlocks <- Blocks
    HomeBlocks = 1
    NetModels <- NetworkModels
    NetReceivers = {0}
    LineSize = 4
    PageLines = 2
    AccAddresses = {0, 3, 9, 18}
    AccSizes = {0, 1, 3, 6}
    Wrap = 16
    TlbWays = 2
    StlbWays = 1
    MaxInfos = 2
    HpiCores = {h1, h2}
    HpiCounts = {1, 3}
    HpiCore = 2
    HpiGlobal = 3
    MaxCount = 6
INVARIANT ReplacementCorrect
INVARIANT EntriesCorrect
INVARIANT StackCorrect
INVARIANT MemorySideCorrect
INVARIANT HistoryCorrect
INVARIANT LayoutCorrect
INVARIANT NetworkCorrect
INVARIANT AccessCorrect
