SPECIFICATION Spec
CONSTANTS
    Absent = Absent
    Keys = {k1, k2}
    Vals = {v1, v2}
    Entries = 1
    Banks = 3
    BankRecs = 2
    MaxGen = 4
SYMMETRY Symmetry
INVARIANTS TypeOK RecoverySafe NeverReprogrammed ReplayFits
PROPERTY ImplementsDurableMap
