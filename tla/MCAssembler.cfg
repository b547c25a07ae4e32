SPECIFICATION Spec
CONSTANTS
    Texts <- MCTexts
    Clipped <- MCClipped
    StringRoom = 8
INVARIANTS
    TextDecodes
    JumpsLand
    RelocsName
    
    ObjectWellFormed
    LineRows
