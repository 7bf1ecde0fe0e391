CONSTANTS
    Custom <- AllCode
    CloudDir <- InCloudDir
    Data <- Streams3
    Excluded <- NoJsonp
    MaxParts = 3
    MaxBoots = 2
    None = None
SPECIFICATION Spec
INVARIANTS CallsInOrder CloudConfigExact
CHECK_DEADLOCK FALSE
