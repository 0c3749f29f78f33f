SPECIFICATION FairSpec
CONSTANTS
    Terminal = {0, 1}
    Typing <- MCTyping
    Letter = {"c", "l"}
    Sign = {"9"}
    MaxNest = 2
INVARIANTS InServiceRuns HandlersReady 
PROPERTIES TypedAsMeant EveryRequestTaken
CHECK_DEADLOCK FALSE
