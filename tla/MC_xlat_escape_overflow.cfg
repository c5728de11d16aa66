CONSTANTS
    m1 = m1
    m2 = m2
    Dict <- MC_Dict
    Vps <- MC_Vps
    Magic <- MC_Magic
    PctVps <- MC_PctVps
    PctStr <- MC_PctStr
    ZPairs <- MC_ZPairs
    RequestName <- MC_RequestName
    ControlName <- MC_ControlName
    RegexName <- MC_RegexName
    DebugName <- MC_DebugName
    RegexMatch <- MC_RegexMatch
    NoRegex = NoRegex
    ModNames <- MC_ModNames
    Funcs = {m1, m2}
    ModOut <- MC_ModOut
    Formats <- MC_Formats
    OutLens = {2, 3, 4, 5}
    Ample = 40
    Exempt = {"escape", "star", "length", "percent"}
SPECIFICATION Spec
INVARIANT NulInBounds
