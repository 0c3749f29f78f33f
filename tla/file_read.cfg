SPECIFICATION FairSpec
CONSTANTS
    BlockSize = 2
    NumInodes = 3
    NumBlocks = 5
    PerInode = 4
    Byte <- MCByte
    Behind <- MCBehind
    Images <- MCImages
    Lengths = {0, 1, 2, 3, 5, 9}
    Word = 16
    MaxReads = 3
INVARIANTS SequentialReads
PROPERTIES ShortOnlyAtEnd ReadTerminates
