SPECIFICATION Spec
CONSTANTS
    Media = {"flash", "byte"}
    adr = adr
    app = app
    Tables = {adr, app}
    LinkTables = {adr}
    Size <- Sizes
    SectionId <- SectionIds
    Codes = {"basic", "resetLinks", "factory"}
    Values = {0, 1}
    BankRecs = 4
    Gens = 4
    DirtyRanges = 1
    MaxOps = 2
    MaxFaults = 1
    MaxCuts = 1
INVARIANTS WriteThrough AnsweredFromOldAddress
PROPERTIES NothingLeavesEarly BootRestores Progress
CHECK_DEADLOCK FALSE
