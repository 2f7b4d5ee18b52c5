SPECIFICATION Spec
CONSTANTS
    Calls = {c1, c2}
    Durations = {1, 2}
    TicksPerSecond = 2
    MaxTime = 5
    MaxCleanups = 1
    MaxFailures = 1
INVARIANTS ResumeFindsTime EndsWithinLongest
PROPERTIES CleanupSparesOthers ExpiredTimerGoes SerialKeepsPromise SerialOnlyExpiredExpire
