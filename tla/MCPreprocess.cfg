CONSTANTS
    EvalCondition <- eval_preproc_expr
    TrueInC <- CCondition
    Sources <- MCSources
    FileAt <- MCFileAt
    Main <- MCMain
    Here <- MCHere
    IncludeDirs <- MCIncludeDirs
    HostDirs <- MCHostDirs
    Predefined <- MCPredefined
    MaxDepth = 5
    StepCap = 60
    MaxLines = 4
SPECIFICATION Spec
INVARIANTS ActiveIsLive IncludedOnce MacrosAsInC
PROPERTY Termination
