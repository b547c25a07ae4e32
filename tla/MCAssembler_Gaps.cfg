SPECIFICATION Spec
CONSTANTS
    Texts <- GapTexts
    Clipped <- MCClipped
    StringRoom = 8
INVARIANT
    EveryLineEncoded
