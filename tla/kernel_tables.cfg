SPECIFICATION Spec
CONSTANTS
    MaxTask = 3
    NumTerminals = 3
    MaxDepth = 3
    Status = {0}
    Inputs = {"ctrl_c", "exception", "set_handler"}
INVARIANTS TypeOK TablesAgree TerminalIdOfOthers Isolation LostOnlyByRace Resumable ParentBelow
PROPERTY ImplementsStacks
CONSTRAINT RaceOrInput
CHECK_DEADLOCK FALSE
