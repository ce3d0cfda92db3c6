CONSTANTS
    f1 = f1
    f2 = f2
    Item <- MC_Item
    RootKinds = {"abs"}
    MaxRuns = 3
SYMMETRY MC_Symmetry
SPECIFICATION Spec
INVARIANTS NoLibFileLost
PROPERTIES RemovesOnlyCopied
CHECK_DEADLOCK FALSE
