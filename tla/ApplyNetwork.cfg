CONSTANTS
    n1 = n1
    n2 = n2
    n3 = n3
    eth0 = eth0
    eth1 = eth1
    eth2 = eth2
    Nics <- MCNics
    Names <- MCNames
    Mac <- MCMac
    Driver <- MCDriver
    NoDriver = "none"
    Configs <- MCConfigs
    MaxTmp = 6
    Networks <- MCNetworks
    Descriptions <- MCDescriptions
    BeforeDot <- MCBeforeDot
SPECIFICATION ApplySpec
SYMMETRY NameSymmetry
INVARIANTS SilentIsDone AnyOrderReadsTheSame 
