CONSTANTS
    Iids <- FourIids
    Machines <- AndForgotten
    ManualChoices <- MaybeManual
    SystemNetwork = "given"
    Upstart = TRUE
    MayFail = FALSE
    MayLosePower = FALSE
    NoneListed = TRUE
    NoneIid = "iid-datasource-none"
    Directory = Directory
    None = None
SPECIFICATION Spec
INVARIANTS KeptInstance
