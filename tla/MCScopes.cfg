CONSTANTS
    Names = {"x"}
    Units <- MCUnits
SPECIFICATION Spec
INVARIANT UsesAgree
INVARIANT LayoutAgrees
