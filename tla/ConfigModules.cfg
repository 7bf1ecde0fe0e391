CONSTANTS
    None = None
    Words <- MCWords
    Tables <- MCTables
    Filesystems <- MCFilesystems
    Disks <- MCDisks
    FreshDisks <- MCFreshDisks
    Machines <- MCMachines
    NoMachine = NoMachine
    MaxRoom = 3
    Unset = Unset
    Spelled <- MCSpelled
    Images <- MCImages
    Configs <- MCConfigs
    Facts <- MCFacts
    MaxRuns = 3
SPECIFICATION ModulesSpec
INVARIANTS FreshIsPrepared RootFillsDisk TakesEffect AgainIsTheSame
PROPERTIES FilesKept
