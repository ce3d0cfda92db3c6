CONSTANTS
    Alphabet <- MC_Alphabet
    MaxLen = 2
SPECIFICATION Spec
INVARIANTS CompareMatchesSpec
CHECK_DEADLOCK FALSE
