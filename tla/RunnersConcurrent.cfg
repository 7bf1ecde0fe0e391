CONSTANTS
    Procs = {p1, p2}
    Jobs = {consume_data, config_x}
    Instances = {i1}
    Dashed = {config_x}
    ClearOnFail = {}
    Concurrent = TRUE
    NoInstance = NoInstance
    Once = Once
SPECIFICATION Spec
INVARIANTS OnceUnlessRaced StartedLeavesFile
