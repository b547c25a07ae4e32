CONSTANTS
    Programs <- MCContended
    Builds <- MCHosted
    MaxFunctions = 3
    MaxFailures = 0
SPECIFICATION EmitSpec
INVARIANT LabelsLand
