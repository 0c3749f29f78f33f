SPECIFICATION Spec
CONSTANTS
    MaxTask = 3
    NumTerminals = 3
    MaxDepth = 3
    Status = {0, 15}
    Inputs = {}
PROPERTY ReportsOwnChild
CHECK_DEADLOCK FALSE
