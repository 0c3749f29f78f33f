SPECIFICATION Spec
CONSTANTS
    Terminal = {t0, t1}
    First = t0
    Rows = 3
    Cols = 2
    Texts <- MCTexts
    Prompt <- MCPrompt
    Note <- MCNote
    Refusal <- MCRefusal
    Events = {"enter", "backspace", "ctrl_l", "read", "refuse"}
    MaxOps = 6
INVARIANTS CursorInside
PROPERTY ImplementsConsoles
CONSTRAINT OnPage
CHECK_DEADLOCK FALSE
