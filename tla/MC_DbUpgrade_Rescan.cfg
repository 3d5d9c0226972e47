SPECIFICATION Spec
CONSTANTS
    MaxHeight <- MCMaxHeight
    MaxHalts <- MCMaxHalts
CHECK_DEADLOCK FALSE
INVARIANT
    UpgradeRunsOnce
