SPECIFICATION Spec
CHECK_DEADLOCK FALSE
CONSTANTS
    Parts = {"queue", "interval", "uops", "contention", "branch", "iocoom", "modes", "sift", "manager", "recorder", "config", "spin", "routines", "stats"}
    PqModels = {"oneipc", "magic"}
    PqFronts = {"pin", "trace"}
    PqBlocks <- CodeBlocks
    BlockQueueSize = 6
    InfoQueueSize = 6
    Latencies = {1, 4}
    Cutoff = 3
    WakeTimes = {3}
    MaxBlocks = 3
    MaxDynamic = 1
    MaxIdle = 2
    Ops <- Uops
    Registers = {"r", "s"}
    WindowSize = 3
    DispatchWidth = 2
    LongLatency = 4
    BranchPenalty = 2
    FixedBase = 4
    Outstanding = 2
    MaxOps = 7
    MaxKinds = 2
    UopLines = {"a", "b"}
    MaxLoads = 3
    MaxStores = 2
    DynCosts = {0, 1, 5}
    LongCutoff = 3
    MaxUopInsns = 2
    QueueKinds = {"history", "basic", "contention", "mg1", "dram"}
    Arrivals = {0, 1, 2, 3, 6, 8}
    LateArrivals = {0, 1, 11, 12, 13}
    Services = {2}
    MinService = 2
    MaxList = 2
    Window = 1
    Word = 128
    MaxRequests = 5
    BpBranches = {1, 2}
    BpWays = 2
    Runs = {1, 3}
    HistoryLength = 1
    MaxChanges = 1
    MaxBranches = 16
    IoInsns <- InOrder
    IoRegisters = {"r"}
    LoadUnits = 2
    StoreEntries = 2
    MaxIoInsns = 4
    SmCores = {1, 2}
    SmConfigs <- SimulatorModes
    Quantum = 1
    SyncEvery = 2
    Detailed = 2
    FastForward = 1
    FfSync = 1
    Warmup = 1
    Cpis = {1, 2}
    MaxTurns = 1
    MaxSmTime = 8
    MaxEvents = 2
    Code <- Program
    CodePage = 4
    VaPage = 8
    BufferSize = 2
    FifoSize = 2
    MaxIns = 3
    MaxQuestions = 1
    MaxAccesses = 2
    TmApps = {"A", "B"}
    MaxThreads = 3
    Patience = 1
    RecThreads = {0, 1, 2}
    RecConfigs <- RecorderOptions
    RecApps = {"p", "q"}
    AppFifos = 2
    MaxSent = 2
    CfFiles <- ConfigFiles
    CfDefault = "base"
    CfArgs <- ConfigArgs
    CfLower <- LowerCase
    CfPaths <- ConfigPaths
    CfIndices = {0, 1}
    MaxCfArgs = 3
    SpLoops = {1, 2, 3}
    SpRegisters = {"r", "s"}
    SpValues = {0, 1}
    SDTMaxSize = 2
    MaxSpIns = 6
    RtThreads = {0, 1}
    Routines = {0, 1}
    MaxRtDepth = 3
    RtSizes <- TracerSizes
    TsThreads = {"a", "b"}
    TsCores = {0, 1}
    MaxTsIns = 2
    MaxTsMoves = 3
INVARIANT QueueCorrect
INVARIANT IntervalCorrect
INVARIANT UopsCorrect
INVARIANT ContentionCorrect
INVARIANT PredictorCorrect
INVARIANT IocoomCorrect
INVARIANT ModesCorrect
INVARIANT ConfigCorrect
INVARIANT TracesCorrect
INVARIANT MeasurementsCorrect
