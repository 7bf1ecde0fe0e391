CONSTANTS
    Procs = {p1}
    Jobs <- AllJobs
    Instances = {i1}
    Dashed = {"config_disk_setup"}
    ClearOnFail = {}
    Concurrent = FALSE
    NoInstance = NoInstance
    Once = Once
    Stages <- ThreeStages
    Listed <- Lists
    Singles <- OneSingle
    JobOf <- SemNames
    ModuleFreq <- ModuleFreqs
    Known <- KnownNames
    Verified <- VerifiedNames
    Overridden = {}
    Migrator = "migrator"
    Power = "power-state-change"
SPECIFICATION SectionsSpec
INVARIANTS AccountsAreTrue PowerChangeOnce
PROPERTIES AtMostOncePerKey
