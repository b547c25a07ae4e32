SPECIFICATION Spec
CONSTANTS
    Signatures <- MCSignatures
INVARIANTS
    ArgumentsArrive
    VarargsArrive
    ResultArrives
