SPECIFICATION TestSpec
CONSTANTS
    Proc = {p1, p2}
    Tester = p1
    MaxFd = 4
    NumDentries = 2
    Types = {"rtc", "dir", "other"}
    None = None
INVARIANTS StandardFiles TestsPass
PROPERTY ListsAlone
VIEW WithoutResult
