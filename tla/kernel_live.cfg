SPECIFICATION FairSpec
CONSTANTS
    MaxTask = 3
    NumTerminals = 3
    MaxDepth = 2
    Status = {0}
    Inputs = {"ctrl_c", "exception"}
PROPERTIES EveryTerminalRuns CtrlCTakesEffect
CONSTRAINT NoRace
CHECK_DEADLOCK FALSE
