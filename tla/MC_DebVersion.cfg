CONSTANTS
    Alphabet <- MC_Alphabet
    MaxLen = 3
SPECIFICATION Spec
INVARIANTS TotalPreorder
CHECK_DEADLOCK FALSE
