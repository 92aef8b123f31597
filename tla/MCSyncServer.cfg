SPECIFICATION FairSpec
CONSTANTS
    Threads = {t1, t2, t3}
    Mutexes = {m1, m2}
    Conds = {c1}
    Barriers = {b1}
    MaxRounds = 2
    NoOwner = NoOwner
INVARIANTS SyncCorrect NobodyForgotten
PROPERTY QueuedGetMutex
