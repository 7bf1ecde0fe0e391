CONSTANTS
    Urls <- MCUrls
    MaxWaits <- MCMaxWaits
    Timeout = 3
    Readies = {0, 2, 6}
    Slownesses = {0, 2, 5}
    Tries = 2
    Crawlers = {"Ec2", "AliYun", "OpenStack", "ConfigDrive", "CloudStack", "MAAS", "Scaleway", "GCE", "Bigstep", "SmartOS", "DigitalOcean"}
    Retries = 3
    MaxFaults = 3
    Tree <- MCTree
    Offers <- MCOffers
    Environments <- MCEnvironments
    Attempts = 2
    Naps = 2
    Boots = 2
SPECIFICATION ServicesSpec
INVARIANTS NothingStays WaitIsFair NeverInPart FewFaultsCostNothing AzureIsServed
PROPERTIES Terminates
