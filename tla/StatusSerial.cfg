CONSTANTS
    Procs = {p1}
    MaxBoots = 2
    Reruns <- Accepted
    Failing <- Modes
    Serial = TRUE
    MayKill = TRUE
    None = None
SPECIFICATION Spec
INVARIANTS RunningIsVisible SerialRuns ResultIsOfThisBoot
PROPERTIES ResultExact
