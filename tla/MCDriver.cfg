CONSTANTS
    Programs <- MCPrograms
    Program <- MCProgram
    Builds <- MCBuilds
    MaxFunctions = 3
    MaxFailures = 1
    MaxFaults = 2
    Commands <- MCCommands
SPECIFICATION Spec
INVARIANTS
    InProgramOrder
    NothingLeftBehind
    SuccessIsComplete
PROPERTIES
    CommandsFindInputs
    Exits
