SPECIFICATION RtcFairSpec
CONSTANTS
    N = 2
    Base = 4
    Freqs = {0, 1, 4, 6}
PROPERTIES OneTickPerRead ReadsKeepRate ReadWakes
CHECK_DEADLOCK FALSE
