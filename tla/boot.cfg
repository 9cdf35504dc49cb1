CONSTANTS
    CPU_COUNT = 3
    PRIMARY = 1
    MAX_CPU_NUM = 8
    MaxTimers = 2
    MaxTime = 1
    ALIGN = 4
    DTB_LIMIT = 48
    Configs <- MCConfigs
    Hosts <- MCHosts
SPECIFICATION Spec
INVARIANTS NoEarlyUse TimersExact GuestHardware BootImagesWhole
PROPERTIES BootCompletes DueTimersFire
CHECK_DEADLOCK FALSE
