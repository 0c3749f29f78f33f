SPECIFICATION SoundFairSpec
CONSTANTS
    Proc = {p1, p2}
    File = {0, 1, 2, 3, 4, 5, 6, 7, 8, 9, 10, 11, 12}
    Sound = {1, 2, 3, 4, 5, 6, 7, 8, 11}
    Size <- MCSize
    Refused = {12}
    Broken <- MCBroken
    Magic = 1
    BLOCK_SIZE = 2
    NoFile = 0
    Word = 16
    MaxPlays = 3
CONSTRAINT NoRace
PROPERTIES PlaysInOrder FillsBehind StopsAtEnd MusicEnds
CHECK_DEADLOCK FALSE
