CONSTANTS
    TxSet <- SomeTxSets
    Upgrade <- SomeUpgrades
    MaxSteps = 2
    Desired <- Wanted
    UpgradeTimes = {1, 3}
    MAX_TIME_SLIP_SECONDS = 1
    MaxTime = 4
    MaxLedger = 3
    MaxAccepted = 2
SPECIFICATION ValuesSpec
INVARIANT ExtractsValidValues
\* Bounds are reached.
CHECK_DEADLOCK FALSE
