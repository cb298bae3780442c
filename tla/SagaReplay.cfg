SPECIFICATION Spec
CONSTANTS
    d1 = d1
    Drivers = {d1}
    N = 2
    Compensable <- AllSteps
    NoLetter = NoLetter
    MaxCrashes = 2
    MaxReplays = 1
INVARIANTS
    CompletedMeansAll
