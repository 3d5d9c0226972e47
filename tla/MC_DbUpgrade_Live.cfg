SPECIFICATION FairSpec
CONSTANTS
    MaxHeight <- MCMaxHeight
    MaxHalts <- MCMaxHalts
CHECK_DEADLOCK FALSE
PROPERTY
    StartupTerminates
