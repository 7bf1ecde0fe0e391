CONSTANTS
    Clouds <- AllClouds
    Leftovers <- AllLeftovers
    Lists <- AllLists
    Policies <- AllPolicies
    MaxBoots = 2
SPECIFICATION Spec
INVARIANTS OwnSourceIsFound NarrowedAlike
CHECK_DEADLOCK FALSE
