SPECIFICATION FairSpec
CONSTANTS
    TicksPerSecond = 2
    GPIO_DEBOUNCE_TIME_MAX = 2
    GPIO_REBOOT_TIME = 2
    GPIO_RESET_TIME = 4
    AgeMax = 5
INVARIANTS
    TypeOK
    ResetMeansLongPress
    EachSecondOnce
PROPERTIES
    HeldButtonResets
