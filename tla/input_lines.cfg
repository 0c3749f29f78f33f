SPECIFICATION FairSpec
CONSTANTS
    Terminal = {t0, t1}
    First = t0
    Size = 3
    NBytes = {1, 4}
    MaxKeys = 4
    MaxErase = 2
    NUL = NUL
INVARIANTS BuffersHoldLines OneReader
PROPERTIES ReadsOwnLine EnterWakesReader
CONSTRAINT NoRace
CHECK_DEADLOCK FALSE
