CONSTANTS
    Instances = {"i1", "i2"}
    Configs <- AllConfigs
    Served <- ServedConfigs
    Worlds <- AllWorlds
    System <- SystemConfig
    Checks = {TRUE, FALSE}
    ShortOf <- Short
    Dotted = {"web.example", "db.example"}
    CloudName <- CloudNames
    UserNames = {"mine"}
    NoName = NoName
    Real <- RealDevices
    NoDevice = NoDevice
    Null = Null
    UserLines <- ImageLines
    Users = {"ubuntu", "joe"}
    KeyTypes = {"rsa", "ed25519"}
    AuthKeys = {"k1", "k2", "k3"}
    CloudKeys <- KeysOfCloud
    Image = "image"
    MaxFailures = 1
    PerInstance = {"mounts", "set_hostname", "users-groups", "ssh", "set-passwords"}
    Kills = TRUE
SPECIFICATION Spec
INVARIANTS OnceIsKept UserDecides FstabSettles HostKeysOfInstance RootStaysRestricted
PROPERTIES UserNameKept
CHECK_DEADLOCK FALSE
