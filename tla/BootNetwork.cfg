CONSTANTS
    Iids <- ThreeIids
    Machines <- LocalAndNetwork
    ManualChoices <- NeverManual
    SystemNetwork = "unset"
    Upstart = TRUE
    MayFail = TRUE
    MayLosePower = FALSE
    NoneListed = TRUE
    NoneIid = "iid-datasource-none"
    Directory = Directory
    None = None
SPECIFICATION Spec
INVARIANTS NetworkIsOfThisMachine NewOnlyOnce ModulesSeeCloudConfig
CONSTRAINT TwoInstances
