SPECIFICATION Spec
CONSTANTS
    ByteBits = 2
    Globals <- MCGlobals
    VarType <- MCVarType
    Functions <- MCFunctions
    Source <- MCSource
    Codes <- MCCodes
    Targets <- MCTargets
    ArgWords <- MCArgWords
    InputValues = {0, 1, 2}
    HighBits <- MCHighBits
    MaxInputs = 4
    Junk = 77
INVARIANTS
    MatchesSource
    EvalBalanced
    FlowIsKept
PROPERTY
    Halts
