CONSTANTS
    a = a
    b = b
    v = v
    s1 = s1
    NoVersion = NoVersion
    NoRec = NoRec
    Name <- MC_Name
    Alias <- MC_Alias
    Spelling <- MC_Spelling
    MaxRank = 2
    NIdx = 2
    MaxRecs = 2
SPECIFICATION Spec
INVARIANTS AliasesFromKept
CHECK_DEADLOCK FALSE
