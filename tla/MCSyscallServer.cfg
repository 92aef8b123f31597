SPECIFICATION FairSpec
CONSTANTS
    Threads = {t1, t2}
    Uaddrs = {u1, u2}
    Timeouts = {1}
    NrWakes = {0, 1}
    WakeOps <- GlibcWakeOp
    TimeStart = 0
    TimeMod = 8
INVARIANTS WaitersCorrect NoLostWakeup
PROPERTY TimedWaitsReturn
