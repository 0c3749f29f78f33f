SPECIFICATION VideoFairSpec
CONSTANT N = 3
INVARIANTS OwnDrawings
PROPERTY ComesRight
