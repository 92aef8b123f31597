CONSTANTS
    Cores <- MCCores
    Threads <- MCThreads
    Quantum = 1
    Interleaving = 1
    MaxTime = 3
    MaxSleep = 1
    MaxCalls = 1
    FollowAborts = FALSE
SPECIFICATION Spec
INVARIANTS PlacementCorrect AssertionsHold WakeUpsArrive
CHECK_DEADLOCK FALSE
