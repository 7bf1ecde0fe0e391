CONSTANTS
    Iids <- ThreeIids
    Machines <- LocalFinishedLater
    ManualChoices <- NeverManual
    SystemNetwork = "unset"
    Upstart = FALSE
    MayFail = TRUE
    MayLosePower = FALSE
    NoneListed = TRUE
    NoneIid = "iid-datasource-none"
    Directory = Directory
    None = None
SPECIFICATION Spec
INVARIANTS RightInstance FinishedIsOfThisBoot
PROPERTIES ConsumedAtMostOnce
CONSTRAINT TwoInstances
