SPECIFICATION FairInputsSpec
CONSTANTS
    Contents = {c1, c2}
    Abis = {i1, i2}
    Targets = {t1, t2}
    Attempts = 4
    Breakable <- MCBreakable
    Stubborn = FALSE
    None = None
    Corrupt = Corrupt
    Torn = Torn
INVARIANTS
    InputsTypeOK
    SourceIsPinned
    ToolchainIsWhole
    ObjectsAreCurrent
PROPERTIES
    InputsEnd
