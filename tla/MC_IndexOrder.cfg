CONSTANTS
    a = a
    v = v
    s1 = s1
    s2 = s2
    NoVersion = NoVersion
    NoRec = NoRec
    Name <- MC_Name
    Alias <- MC_Alias
    Spelling <- MC_Spelling
    MaxRank = 2
    MaxRecs = 2
SPECIFICATION Spec
INVARIANTS WinnerOrderInsensitive
