SPECIFICATION Spec
CONSTANTS
    Char <- MCChar
    NUL = "NUL"
    NL = "NL"
    SP = " "
    F_TYPE_OFFSET = 3
    ARG_MAX = 5
    KEY_ARR_SIZE = 7
    BUFSIZE = 3
    FOUR_BYTES = 4
    Dentry <- MCDentry
    Image <- MCImage
    NumInodes = 9
    Program <- MCProgram
    TextInode <- MCTextInode
    Texts <- MCTexts
    Typed <- MCTyped
    Answers <- MCAnswers
    Exit <- MCExit
    Count <- MCCount
    Status = {0, 3, 15}
    Garbage = {"NUL", "NL"}
INVARIANT GrepFindsLines
PROPERTIES RunsWhatWasTyped ArgumentIsRest OutputIsRight
CHECK_DEADLOCK FALSE

