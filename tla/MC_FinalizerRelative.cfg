CONSTANTS
    f1 = f1
    f2 = f2
    Item <- MC_Item
    RootKinds = {"rel"}
    MaxRuns = 3
SYMMETRY MC_Symmetry
SPECIFICATION Spec
INVARIANTS LibLinksToUsrLib
CHECK_DEADLOCK FALSE
