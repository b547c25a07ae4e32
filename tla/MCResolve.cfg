CONSTANTS
    f = f
    g = g
    Names = {f, g}
    NInputs = 2
    NArch = 2
    Offsets = {1, 2}
    Images <- MCImages
    None = None
    Bad = Bad
SPECIFICATION Spec
INVARIANTS
    BindingRule
    NoDoubleInclusion
    EveryPassCloses
    DemandMet
PROPERTIES
    Termination
    ClosureSpec
